----------------------------- MODULE FileStore -----------------------------
(***************************************************************************)
(* What the tool promises of the files in an image, whatever blocks hold   *)
(* them.  A command works on one path; it changes no file but the one it   *)
(* adds, and when it reports success that file holds the bytes of its      *)
(* source.  A command that fails may leave the file it was adding in any   *)
(* state.  Directories are only ever made, and only on the way to the path *)
(* of the command.                                                         *)
(***************************************************************************)
EXTENDS Naturals, Sequences

CONSTANTS Paths,     \* the paths of the files that are looked at
          Goals,     \* the contents that commands set out to store
          Absent,    \* the content of a path without a file
          NoJob

VARIABLES files,     \* the content of the file at each path
          dirs,      \* the paths of directories
          job        \* the command: [kind, path, goal, status]

vars == <<files, dirs, job>>

Prefixes(p) == {SubSeq(p, 1, n) : n \in 1 .. Len(p)}
NoFiles     == [p \in Paths |-> Absent]

Init == files = NoFiles /\ dirs = {} /\ job = NoJob

Reset == /\ job = NoJob
         /\ files' = NoFiles /\ dirs' = {}
         /\ UNCHANGED job

(* A command starts, or is refused at once.                                *)
Begin ==
  /\ job = NoJob
  /\ \E kind \in {"add", "mkdir"}, p \in Paths, g \in Goals,
        s \in {"running", "failed"} :
       job' = [kind |-> kind, path |-> p, goal |-> g, status |-> s]
  /\ UNCHANGED <<files, dirs>>

OnlyItsPathChanges ==
  /\ DOMAIN files' = Paths
  /\ \A p \in Paths :
       files'[p] # files[p] => job.kind = "add" /\ p = job.path
  /\ dirs \subseteq dirs' /\ dirs' \ dirs \subseteq Prefixes(job.path)

Running == job # NoJob /\ job.status = "running"
Becomes(s) == job' = [job EXCEPT !.status = s]

Work == Running /\ OnlyItsPathChanges /\ UNCHANGED job
Fail == Running /\ OnlyItsPathChanges /\ Becomes("failed")

Succeed ==
  /\ Running /\ OnlyItsPathChanges /\ Becomes("ok")
  /\ job.kind = "add" => /\ files'[job.path] = job.goal
                         /\ Prefixes(job.path) \ {job.path} \subseteq dirs'

End == /\ job # NoJob /\ ~Running
       /\ job' = NoJob
       /\ UNCHANGED <<files, dirs>>

Next == Reset \/ Begin \/ Work \/ Fail \/ Succeed \/ End
Spec == Init /\ [][Next]_vars
=============================================================================
