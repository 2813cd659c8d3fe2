------------------------------ MODULE Machine -------------------------------
(***************************************************************************)
(* Loader and kernel one after the other on the same keyboard controller:  *)
(* what the loader leaves in its buffers is what the kernel's modules      *)
(* find.  The kernel waits for interrupt 1 to be its own; until then       *)
(* nothing of it runs.                                                     *)
(***************************************************************************)
EXTENDS A20, Ps2

mvars == <<vars, avars>>

MachineInit == TimerInit /\ KbcInit /\ Ps2Init /\ A20Init

Loading ==
  /\ apc # "kernel" /\ ~ctl.reset
  /\ A20Step \/ ((Hardware \/ User) /\ UNCHANGED avars)
  /\ UNCHANGED <<tvars, pvars>>
Resetting == Restart /\ UNCHANGED <<tvars, pvars>>
Running == apc = "kernel" /\ ~ctl.reset /\ Ps2Next /\ UNCHANGED avars

MachineNext == Loading \/ Resetting \/ Running
MachineSpec == MachineInit /\ [][MachineNext]_mvars

(* The processor executes and takes interrupts, the timer ticks, and the   *)
(* controller works.  A halted delay looks at the counter again after      *)
(* every interrupt, so that it sees a value on which it ends.              *)
InKernel(A) == apc = "kernel" /\ ~ctl.reset /\ A /\ UNCHANGED avars
FairMachineSpec ==
  /\ MachineSpec
  /\ WF_mvars(InKernel(Main)) /\ SF_mvars(InKernel(Wait))
  /\ WF_mvars(InKernel(Interrupt1)) /\ WF_mvars(InKernel(TickInterrupt))
  /\ WF_mvars(InKernel(Devices))

(* Whatever state the loader leaves the controller in, the initialisation  *)
(* of the modules ends (timer.c:41-48, and the loops of bus_ps2.c and      *)
(* keyboard_ps2.c).                                                        *)
SetupEnds == apc = "kernel" ~> Idle
=============================================================================
