-------------------------------- MODULE Kbc ---------------------------------
(***************************************************************************)
(* The keyboard controller (8042) behind ports 0x60 and 0x64 and the       *)
(* keyboard on its first port, as far as boot/src/a20.asm and the PS/2     *)
(* modules of the kernel use them.  This is hardware, not code of the      *)
(* repository.                                                             *)
(***************************************************************************)
EXTENDS Naturals, Sequences

CONSTANTS
  Shifts,                \* the shift keys of the keyboard
  FakeShift,             \* the one whose codes a fake shift has (0x2a, 0xaa)
  Extended,              \* keys whose codes begin with 0xe0: arrows, Print Screen
  Starts,                \* bound: the keys that may be down when the machine starts
  MaxKeys                \* bound: key events

ASSUME KbcAssumption ==
  /\ MaxKeys \in Nat /\ FakeShift \in Shifts
  /\ Starts \subseteq [held: SUBSET Shifts, on: SUBSET Extended, off: SUBSET Extended]

VARIABLES
  ibf,                   \* the input buffer: port and byte written, or none
  obf,                   \* the output buffer: status bit and byte
  irq1,                  \* interrupt 1 is requested
  ctl,                   \* the controller
  kbd                    \* the keyboard

kvars == <<ibf, obf, irq1, ctl, kbd>>

CommandPort == 100     \* 0x64
DataPort    == 96      \* 0x60
NoWrite == [port |-> 0, byte |-> "none"]

(* A byte that can be read: a code of scan code set 1, a code of another   *)
(* set that nobody has translated, or an answer to a command.              *)
KeyCode(kind, key, up) == [kind |-> kind, key |-> key, up |-> up]
Answer     == [kind |-> "answer", key |-> "none", up |-> FALSE]
PortAnswer == [Answer EXCEPT !.kind = "port"]     \* the output port (0xd0)
KeyBytes == {KeyCode(k, key, up) : k \in {"key", "raw"}, key \in Shifts, up \in BOOLEAN}
OutBytes == KeyBytes \union {Answer, PortAnswer}

(* What the BIOS leaves behind, with the codes of keys that are down taken *)
(* already.                                                                *)
KbcInit ==
  /\ ibf = NoWrite /\ obf = [full |-> FALSE, byte |-> Answer] /\ irq1 = FALSE
  /\ ctl \in [expects: {"none"}, int1: BOOLEAN, port1: {TRUE}, translate: {TRUE},
              a20: BOOLEAN, reset: {FALSE}]
  /\ \E down \in Starts :
       kbd = [wire |-> << >>, argument |-> FALSE, set |-> 2, scanning |-> TRUE,
              held |-> down.held, on |-> down.on, off |-> down.off, typed |-> 0]

-----------------------------------------------------------------------------
(* What a program does with the ports.                                     *)

InputFull    == ibf # NoWrite
Write(port, b) == ibf' = [port |-> port, byte |-> b]
(* Reading port 0x60 empties the output buffer; its byte stays in place.   *)
ReadPort60   == obf' = [obf EXCEPT !.full = FALSE] /\ irq1' = FALSE

-----------------------------------------------------------------------------
(* What the controller and the keyboard do.                                *)

Put(b) == obf' = [full |-> TRUE, byte |-> b] /\ irq1' = (irq1 \/ ctl.int1)

(* A command to the controller.                                            *)
AcceptCommand ==
  /\ ibf.port = CommandPort /\ ibf' = NoWrite
  /\ ctl' = [ctl EXCEPT
       !.expects = IF ibf.byte = "60" THEN "config"
                   ELSE IF ibf.byte = "d1" THEN "outport" ELSE "none",
       !.port1   = ibf.byte = "ae" \/ (@ /\ ibf.byte # "ad")]
  /\ IF ibf.byte \in {"20", "d0"}
       THEN ~obf.full /\ Put(IF ibf.byte = "20" THEN Answer ELSE PortAnswer)
       ELSE UNCHANGED <<obf, irq1>>
  /\ UNCHANGED kbd

(* A byte that the controller is waiting for.  Interrupt 1 is triggered by *)
(* an edge: the configuration requests it for a byte that is there only if *)
(* it was off, and for none that the processor has been told of before.    *)
AcceptConfig ==
  /\ ibf.port = DataPort /\ ctl.expects = "config" /\ ibf' = NoWrite
  /\ ctl' = [ctl EXCEPT !.expects = "none", !.int1 = TRUE, !.translate = FALSE]
  /\ irq1' = (irq1 \/ (obf.full /\ ~ctl.int1))
  /\ UNCHANGED <<obf, kbd>>

AcceptOutPort ==
  /\ ibf.port = DataPort /\ ctl.expects = "outport" /\ ibf' = NoWrite
  /\ ctl' = [ctl EXCEPT !.expects = "none", !.a20 = TRUE, !.reset = ibf.byte = "reset"]
  /\ UNCHANGED <<obf, irq1, kbd>>

(* A byte for the keyboard, which answers it.  A keyboard may drop the     *)
(* codes it still has to send when it is given a command it knows.         *)
AcceptKeyboard ==
  /\ ibf.port = DataPort /\ ctl.expects = "none" /\ ibf' = NoWrite
  /\ \E sends \in {kbd.wire, << >>} :
       /\ sends = kbd.wire \/ ibf.byte \in {"f0", "f4"}
       /\ kbd' = [kbd EXCEPT
            !.wire     = Append(sends, Answer),
            !.argument = ibf.byte = "f0",
            !.set      = IF kbd.argument /\ ibf.byte = "01" THEN 1 ELSE @,
            !.scanning = @ \/ ibf.byte = "f4"]
  /\ UNCHANGED <<obf, irq1, ctl>>

(* The keyboard sends a byte; the controller may translate it.             *)
Received(b) == IF b.kind = "raw" /\ ctl.translate THEN [b EXCEPT !.kind = "key"] ELSE b
Deliver ==
  /\ ctl.port1 /\ ~obf.full /\ kbd.wire # << >>
  /\ Put(Received(Head(kbd.wire)))
  /\ kbd' = [kbd EXCEPT !.wire = Tail(@)]
  /\ UNCHANGED <<ibf, ctl>>

(* A user presses or releases a shift key.                                 *)
ShiftCode(key, up) == KeyCode(IF kbd.set = 1 THEN "key" ELSE "raw", key, up)
MayType == kbd.typed < MaxKeys /\ kbd.scanning
TypeKey(key) ==
  /\ MayType
  /\ kbd' = [kbd EXCEPT
       !.typed = @ + 1,
       !.held  = IF key \in @ THEN @ \ {key} ELSE @ \union {key},
       !.wire  = Append(@, ShiftCode(key, key \in kbd.held))]
  /\ UNCHANGED <<ibf, obf, irq1, ctl>>

(* Or an extended key that comes with fake shifts (0xe0 0x2a, 0xe0 0xaa):  *)
(* with no shift key held (Num Lock, Print Screen) it sends the code of a  *)
(* shift key's press before its own, and that of the release after it; to  *)
(* undo a shift key that is held, the release first, and the press after   *)
(* it if a shift key is held then.  The prefix and the key's own codes     *)
(* change nothing in the driver and are left out, as those of all other    *)
(* keys are.                                                               *)
PressExtended(key) ==
  /\ MayType /\ key \notin kbd.on \union kbd.off
  /\ \/ /\ kbd.held = {}
        /\ kbd' = [kbd EXCEPT !.typed = @ + 1, !.on = @ \union {key},
                              !.wire = Append(@, ShiftCode(FakeShift, FALSE))]
     \/ \E fake \in kbd.held :
          kbd' = [kbd EXCEPT !.typed = @ + 1, !.off = @ \union {key},
                             !.wire = Append(@, ShiftCode(fake, TRUE))]
  /\ UNCHANGED <<ibf, obf, irq1, ctl>>
ReleaseExtended(key) ==
  /\ MayType
  /\ \/ /\ key \in kbd.on
        /\ kbd' = [kbd EXCEPT !.typed = @ + 1, !.on = @ \ {key},
                              !.wire = Append(@, ShiftCode(FakeShift, TRUE))]
     \/ /\ key \in kbd.off
        /\ \E fake \in kbd.held :
             kbd' = [kbd EXCEPT !.typed = @ + 1, !.off = @ \ {key},
                                !.wire = Append(@, ShiftCode(fake, FALSE))]
     \/ /\ key \in kbd.off /\ kbd.held = {}
        /\ kbd' = [kbd EXCEPT !.typed = @ + 1, !.off = @ \ {key}]
  /\ UNCHANGED <<ibf, obf, irq1, ctl>>

Hardware == AcceptCommand \/ AcceptConfig \/ AcceptOutPort \/ AcceptKeyboard \/ Deliver
User     == \/ \E key \in Shifts : TypeKey(key)
            \/ \E key \in Extended : PressExtended(key) \/ ReleaseExtended(key)

-----------------------------------------------------------------------------
PortBytes  == {"none", "20", "60", "a7", "a8", "ad", "ae", "d0", "d1",
               "00", "01", "03", "f0", "f4", "on", "reset"}
InBuffer   == [port: {0, CommandPort, DataPort}, byte: PortBytes]
OutBuffer  == [full: BOOLEAN, byte: OutBytes]
Controller == [expects: {"none", "config", "outport"}, int1: BOOLEAN, port1: BOOLEAN,
               translate: BOOLEAN, a20: BOOLEAN, reset: BOOLEAN]
Keyboard   == [wire: Seq(OutBytes), argument: BOOLEAN, set: {1, 2}, scanning: BOOLEAN,
               held: SUBSET Shifts, on: SUBSET Extended, off: SUBSET Extended,
               typed: Nat]

(* The buffers, the controller and the keyboard hold what they can hold.   *)
KbcTypeOK ==
  /\ ibf \in InBuffer /\ obf \in OutBuffer /\ irq1 \in BOOLEAN
  /\ ctl \in Controller /\ kbd \in Keyboard
=============================================================================
