---------------------------- MODULE MachineInv -----------------------------
(***************************************************************************)
(* The inductive invariant of Machine: what is known of the controller at  *)
(* each step of the loader's keyboard method and of the bus's program.     *)
(***************************************************************************)
EXTENDS Machine

A20Labels == {"first", "support", "int15", "port92", "test", "busy", "go", "end",
              "loading", "panic", "kernel"}
InMethod  == apc \in {"test", "busy", "go"}

(* The keyboard method still has a part of its program to do.              *)
OutsLeft ==
  {<<"ad", "d0", "in", "d1", "out", "ae">>, <<"d0", "in", "d1", "out", "ae">>,
   <<"in", "d1", "out", "ae">>, <<"d1", "out", "ae">>, <<"out", "ae">>, <<"ae">>}
A20Sound ==
  /\ apc \in A20Labels /\ port \in OutBytes
  /\ InMethod => outs \in OutsLeft
  /\ apc \in {"loading", "kernel"} => ctl.a20

(* A byte that resets the machine, or the reset, is there only in the      *)
(* keyboard method; the command at its end is written over the byte.       *)
ResetSound == ctl.reset \/ ibf.byte = "reset" => InMethod

(* Bytes are announced from now on, and passed on as the keyboard sends    *)
(* them.                                                                   *)
Ready     == isr1 /\ ctl.int1 /\ ~ctl.translate
Announced == obf.full => irq1

(* s begins with BusProgram from its k-th instruction on, and has nothing  *)
(* of it after that.                                                       *)
NoBus(s) == \A i \in 1 .. Len(s) : s[i].op # "initialized"
BusFrom(k, s) ==
  /\ Len(s) >= 12 - k
  /\ \A i \in 1 .. 12 - k : s[i] = BusProgram[i + k - 1]
  /\ \A i \in 13 - k .. Len(s) : s[i].op # "initialized"
AtBus(k) == BusFrom(k, todo) \/ (At("in60") /\ BusFrom(k, Tail(todo)))

(* What the program of the bus has reached before its k-th instruction:    *)
(* from the third on command 0x60 is under way, from the fourth on the     *)
(* configuration, and from the fifth on it has been accepted.  A byte that *)
(* was there before there was a handler is gone when the loop of the sixth *)
(* has found the output buffer empty.                                      *)
Reached(k) ==
  /\ k >= 2 => isr1
  /\ k = 3 => \/ ibf = [port |-> CommandPort, byte |-> "60"]
              \/ ibf = NoWrite /\ ctl.expects = "config"
  /\ k = 4 => \/ ibf = [port |-> DataPort, byte |-> "03"] /\ ctl.expects = "config"
              \/ Ready
  /\ k >= 5 => Ready
  /\ k >= 7 => Announced
BusSound ==
  \/ NoBus(todo) /\ (initialized => Ready /\ Announced)
  \/ ~initialized /\ \E k \in 1 .. 11 : AtBus(k) /\ Reached(k)
KernelWaits == apc # "kernel" => ~isr1 /\ ~initialized

BusInv == Ps2TypeOK /\ A20Sound /\ ResetSound /\ BusSound /\ KernelWaits

(* No interrupt is requested without a byte.                               *)
RequestSound == irq1 => obf.full

(* s ends with SetupProgram from its k-th instruction on; in front of that *)
(* is only what a delay and a read consist of.                             *)
WaitOps == {"read", "clear", "delay", "wait"}
SetupFrom(k, s) ==
  LET before == Len(s) - (17 - k) IN
    /\ before >= 0 /\ \A i \in 1 .. before : s[i].op \in WaitOps
    /\ \A i \in 1 .. 17 - k : s[before + i] = SetupProgram[k - 1 + i]

(* Before set_device the program is that of the bus and set_device.        *)
BusOps == {"isr_set", "cmd", "data", "drain", "in60", "initialized", "set_device"}
DeviceLast(s) ==
  \A i \in 1 .. Len(s) : s[i].op \in BusOps /\ (s[i].op = "set_device" => i = Len(s))

(* What the setup of the keyboard has reached before its k-th instruction: *)
(* the commands up to there have been accepted, but for the last one.      *)
Sent(b) == ibf = [port |-> DataPort, byte |-> b]
Connected == ctl.expects = "none" /\ ctl.port1
SetupReached(k) ==
  /\ k = 3 => ibf = [port |-> CommandPort, byte |-> "ae"] \/ (ibf = NoWrite /\ Connected)
  /\ k >= 4 => Connected
  /\ k \in 4 .. 7 => Sent("00") \/ ibf = NoWrite
  /\ k = 8 => Sent("f0") \/ (ibf = NoWrite /\ kbd.argument)
  /\ k \in {9, 10} => \/ Sent("01") /\ kbd.argument
                      \/ ibf = NoWrite /\ kbd.set = 1 /\ ~kbd.argument
  /\ k >= 11 => kbd.set = 1 /\ ~kbd.argument /\ (Sent("f4") \/ ibf = NoWrite)
  /\ k >= 16 => ~lock
  /\ k < 17 => ignore
  /\ k = 17 => ~ignore /\ todo = << >>
SetupSound ==
  \/ ~device0 /\ ignore /\ DeviceLast(todo)
  \/ device0 /\ ~initialized /\ ignore /\ todo = << >>
  \/ device0 /\ initialized /\ \E k \in 1 .. 17 : SetupFrom(k, todo) /\ SetupReached(k)

(* The loader sends the keyboard nothing that it takes for a command.      *)
LoaderBytes == apc # "kernel" => ibf.byte \notin {"f0", "f4"}

(* Shift is off until the driver listens.  With no shift key held, the     *)
(* last code that is under way is that of a release, and if none is, shift *)
(* is off: unless codes of another set were given or codes dropped.        *)
IsCode(b) == b.kind \in {"key", "raw"}
NoCode(s) == \A i \in 1 .. Len(s) : ~IsCode(s[i])
LastUp(s) == \A i \in 1 .. Len(s) :
               IsCode(s[i]) /\ (\A j \in i + 1 .. Len(s) : ~IsCode(s[j])) => s[i].up
Released  == kbd.held = {} /\ kbd.on = {} /\ "raw" \notin given /\ ~dropped
ShiftSound ==
  /\ ~Listening => ~shift
  /\ Released => LastUp(Queue) /\ (NoCode(Queue) => ~shift)

MInv == /\ BusInv /\ RequestSound /\ SetupSound /\ kbd.scanning
        /\ LoaderBytes /\ ShiftSound
=============================================================================
