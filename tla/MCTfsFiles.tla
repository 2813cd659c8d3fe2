----------------------------- MODULE MCTfsFiles ----------------------------
(* Small images for the file-level properties.                             *)
EXTENDS TfsFiles
LOCAL INSTANCE TLC

CONSTANTS x, y, z, u, none, small, big, host

MCNames       == {x, y, z, u}
MCSources     == {small, big}
MCSourceBytes == small :> 1 @@ big :> 4

(* What the memory behind the cleared entries holds; where the tool may be *)
(* killed, its links do not lead to the root.                              *)
MCHeap   == [type: {"EMPTY", "JUNK"}, next: {FirstData}]
KillHeap == [type: {"EMPTY", "JUNK"}, next: {FirstData + 1}]
ZeroHeap == {EmptyPtr}

Cmd(op, path, src) == [op |-> op, path |-> path, src |-> src]

(* No name is used at two depths, so that a part that is missing is not    *)
(* found in the directory above it.                                        *)
LayeredRequests ==
  {Cmd(op, << >>, small) : op \in {"genfs", "ls"}}
    \union {Cmd("ls", <<y>>, small), Cmd("mkdir", <<y>>, small)}
    \union {Cmd(op, p, small) : op \in {"add", "export"}, p \in {<<x>>, <<y, z>>}}
    \union {Cmd("add", p, big) : p \in {<<x>>, <<y, z>>}}

(* The commands that write, with one file at the root and one below it.    *)
KillRequests ==
  {Cmd("genfs", << >>, small), Cmd("mkdir", <<y>>, small), Cmd("add", <<x>>, big)}
    \union {Cmd("add", p, small) : p \in {<<x>>, <<y, u>>}}

(* The name x stands for an entry of the root and for one of /y.           *)
CrossedRequests ==
  {Cmd("genfs", << >>, small)}
    \union {Cmd(op, p, small) : op \in {"mkdir", "add"}, p \in {<<x>>, <<y, x>>}}

(* Directories one and two levels down, and a third entry of the root,     *)
(* which has two entries in a block.                                       *)
StaleRequests ==
  {Cmd("genfs", << >>, small), Cmd("mkfs", << >>, small), Cmd("add", <<u>>, small)}
    \union {Cmd("mkdir", p, small) : p \in {<<y>>, <<x>>, <<y, x>>, <<y, z>>, <<y, x, u>>}}
=============================================================================
