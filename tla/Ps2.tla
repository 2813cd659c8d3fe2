-------------------------------- MODULE Ps2 ---------------------------------
(***************************************************************************)
(* The kernel from the moment it switches interrupts on (kernel.c): the    *)
(* modules bus_ps2 and keyboard_ps2, which the main program initialises,   *)
(* and the two interrupt handlers that run between any two of its steps.   *)
(*                                                                         *)
(* What the main program has still to do is a sequence of instructions,    *)
(* todo.  A loop puts its body in front of itself; a call puts the         *)
(* instructions of what is called in front of the rest.                    *)
(***************************************************************************)
EXTENDS Timer, Kbc

CONSTANTS
  ModuleSets,            \* the sets of modules the kernel may be built with
  ReadTries              \* timeout_counter in bus_ps2_read_main_u8 (100)

ASSUME Ps2Assumption ==
  /\ ModuleSets \subseteq SUBSET {"bus_ps2", "keyboard_ps2"}
  /\ ReadTries \in Nat

VARIABLES
  todo,                  \* the rest of the main program
  isr1,                  \* isr_set has set a handler for interrupt 1
  received,              \* _received_main
  initialized,           \* _initialized
  device0,               \* _bus_ps2_devices[0] is keyboard_ps2's
  lock,                  \* _lock
  ignore, shift,         \* _ignore, _shift
  given,                 \* the kinds of bytes that _action took for scan codes
  dropped                \* the keyboard has dropped a code (history)

bus      == <<isr1, received, initialized, device0, lock>>
keyboard == <<ignore, shift>>
history  == <<given, dropped>>
pvars    == <<todo, bus, keyboard, history>>
vars     == <<tvars, kvars, pvars>>

I(op, arg, n) == [op |-> op, arg |-> arg, n |-> n]
Do(op)  == I(op, "none", 0)
Cmd(c)  == I("cmd", c, 0)
Data(b) == I("data", b, 0)
ReadMain == I("read", "none", ReadTries)

(* The two modules and _setup with _set_leds.                              *)
BusProgram ==
  <<Do("isr_set"), Cmd("60"), Data("03"), Cmd("ad"), Cmd("a7"), Do("drain"),
    Cmd("ae"), Cmd("a8"), Cmd("20"), Do("drain"), Do("initialized")>>
(* Mutant: scan codes are listened to before the keyboard is set up.       *)
SetupListensFirst ==
  <<Do("lock"), Cmd("ae"), Data("00"), Do("release"), Do("listen"),
    Do("lock"), Do("empty"), Data("f0"), Data("01"), Do("empty"), Data("f4"),
    Do("delay"), ReadMain, Do("delay"), Do("empty10"), Do("release")>>
SetupProgram ==
  <<Do("lock"), Cmd("ae"), Data("00"), Do("release"),
    Do("lock"), Do("empty"), Data("f0"), Data("01"), Do("empty"), Data("f4"),
    Do("delay"), ReadMain, Do("delay"), Do("empty10"), Do("release"), Do("listen")>>
Modules(built) ==
  (IF "bus_ps2" \in built THEN BusProgram ELSE << >>)
    \o (IF "keyboard_ps2" \in built THEN <<Do("set_device")>> ELSE << >>)

(* handler_init has cleared the table of handlers.                         *)
Ps2Init ==
  /\ todo \in {Modules(built) : built \in ModuleSets}
  /\ isr1 = FALSE /\ received = FALSE /\ initialized = FALSE /\ device0 = FALSE
  /\ lock = FALSE /\ ignore = TRUE /\ shift = FALSE
  /\ given = {} /\ dropped = FALSE

-----------------------------------------------------------------------------
(* The main program.                                                       *)

At(op) == todo # << >> /\ Head(todo).op = op
Then(instructions) == todo' = instructions \o Tail(todo)
Done == Then(<< >>)
Again(body) == todo' = body \o todo

IsrSet ==
  /\ At("isr_set") /\ isr1' = TRUE /\ Done
  /\ UNCHANGED <<tvars, kvars, received, initialized, device0, lock, keyboard, history>>

(* bus_ps2_write_cmd and bus_ps2_write_data_u8: only the controller        *)
(* empties the input buffer, so the wait and the write are one step.       *)
(* Mutant: the write does not wait.                                        *)
WriteAtOnce ==
  /\ At("cmd") \/ At("data")
  /\ Write(IF At("cmd") THEN CommandPort ELSE DataPort, Head(todo).arg)
  /\ Done
  /\ UNCHANGED <<tvars, obf, irq1, ctl, kbd, bus, keyboard, history>>
WriteByte ==
  /\ At("cmd") \/ At("data")
  /\ ~InputFull
  /\ Write(IF At("cmd") THEN CommandPort ELSE DataPort, Head(todo).arg)
  /\ Done
  /\ UNCHANGED <<tvars, obf, irq1, ctl, kbd, bus, keyboard, history>>

(* The loops that read port 0x60 until the status says it is empty; an     *)
(* interrupt may come between the status and the byte.                     *)
(* Mutant: nothing is read.                                                *)
DrainSkipped ==
  /\ At("drain") /\ Done
  /\ UNCHANGED <<tvars, kvars, bus, keyboard, history>>
Drain ==
  /\ At("drain")
  /\ IF obf.full THEN Again(<<Do("in60")>>) ELSE Done
  /\ UNCHANGED <<tvars, kvars, bus, keyboard, history>>
In60 ==
  /\ At("in60") /\ ReadPort60 /\ Done
  /\ UNCHANGED <<tvars, ibf, ctl, kbd, bus, keyboard, history>>

SetInitialized ==
  /\ At("initialized") /\ initialized' = TRUE /\ Done
  /\ UNCHANGED <<tvars, kvars, isr1, received, device0, lock, keyboard, history>>

(* bus_ps2_set_device, with interrupts off around the assignments.         *)
SetDevice ==
  /\ At("set_device") /\ device0' = TRUE
  /\ Then(IF initialized THEN SetupProgram ELSE << >>)
  /\ UNCHANGED <<tvars, kvars, isr1, received, initialized, lock, keyboard, history>>

Lock ==
  /\ At("lock") /\ ~lock /\ lock' = TRUE /\ Done
  /\ UNCHANGED <<tvars, kvars, isr1, received, initialized, device0, keyboard, history>>
(* Mutant: the lock is kept.                                               *)
KeepLock ==
  /\ At("release") /\ Done
  /\ UNCHANGED <<tvars, kvars, bus, keyboard, history>>
Release ==
  /\ At("release") /\ lock' = FALSE /\ Done
  /\ UNCHANGED <<tvars, kvars, isr1, received, initialized, device0, keyboard, history>>

(* bus_ps2_read_main_u8 polls with a delay between two looks, then clears  *)
(* the flag; _setup makes no use of the value.                             *)
Poll ==
  /\ At("read")
  /\ LET n == Head(todo).n IN
       Then(IF n > 0 /\ ~received THEN <<Do("delay"), I("read", "none", n - 1)>>
                                  ELSE <<Do("clear")>>)
  /\ UNCHANGED <<tvars, kvars, bus, keyboard, history>>
Clear ==
  /\ At("clear") /\ received' = FALSE /\ Done
  /\ UNCHANGED <<tvars, kvars, isr1, initialized, device0, lock, keyboard, history>>

(* The loops of _setup that read while there is something to read.         *)
Empty ==
  /\ At("empty") \/ At("empty10")
  /\ IF received THEN Again(IF At("empty") THEN <<ReadMain>> ELSE <<ReadMain, Do("delay")>>)
                 ELSE Done
  /\ UNCHANGED <<tvars, kvars, bus, keyboard, history>>

(* timer_delay_ticks(1): ticks may come between the two looks.             *)
Delay ==
  /\ At("delay") /\ DelayStart /\ Then(<<Do("wait")>>)
  /\ UNCHANGED <<kvars, bus, keyboard, history>>
Wait ==
  /\ At("wait") /\ DelayEnd(1) /\ Done
  /\ UNCHANGED <<kvars, bus, keyboard, history>>

Listen ==
  /\ At("listen") /\ ignore' = FALSE /\ Done
  /\ UNCHANGED <<tvars, kvars, bus, shift, history>>

Main == IsrSet \/ WriteByte \/ Drain \/ In60 \/ SetInitialized \/ SetDevice
          \/ Lock \/ Release \/ Poll \/ Clear \/ Empty \/ Delay \/ Wait \/ Listen

-----------------------------------------------------------------------------
(* The interrupts.                                                         *)

TickInterrupt == TickHandler /\ UNCHANGED <<kvars, pvars>>

(* _action: what a byte that is taken for a scan code does to _shift.  The *)
(* branches for 0xe0 and 0xe1 do nothing, so that the byte after one is    *)
(* handled by itself, and a fake shift as a shift key.  A code of another  *)
(* set may be that of a shift key's press in set 1, and no answer is the   *)
(* code of a shift key.                                                    *)
(* Mutant: a release counts as a press.                                    *)
ShiftAfterAnyCode(b, s) ==
  IF b.kind = "key" THEN {TRUE} ELSE IF b.kind = "raw" THEN {s, TRUE} ELSE {s}
ShiftAfter(b, s) ==
  IF b.kind = "key" THEN {~b.up} ELSE IF b.kind = "raw" THEN {s, TRUE} ELSE {s}

Listening == device0 /\ initialized /\ ~ignore

(* _idt_handler and _action_dev_main.  Without a handler the byte stays in *)
(* the output buffer.                                                      *)
Interrupt1 ==
  /\ irq1
  /\ IF isr1
       THEN /\ ReadPort60
            /\ IF Listening
                 THEN /\ shift' \in ShiftAfter(obf.byte, shift)
                      /\ given' = given \union {obf.byte.kind}
                      /\ received' = FALSE
                 ELSE received' = TRUE /\ UNCHANGED <<shift, given>>
       ELSE irq1' = FALSE /\ UNCHANGED <<obf, received, shift, given>>
  /\ UNCHANGED <<tvars, ibf, ctl, kbd, todo, isr1, initialized, device0, lock,
                 ignore, dropped>>

-----------------------------------------------------------------------------
(* A keyboard that drops codes when it is given a command.                 *)
DropsCodes == AcceptKeyboard /\ kbd.wire # << >> /\ kbd'.wire = <<Answer>>
Devices ==
  /\ Hardware
  /\ dropped' = (dropped \/ DropsCodes)
  /\ UNCHANGED <<tvars, todo, bus, keyboard, given>>
Typing == User /\ UNCHANGED <<tvars, pvars>>

Kernel == Main \/ TickInterrupt \/ Interrupt1
Ps2Next == Kernel \/ Devices \/ Typing

-----------------------------------------------------------------------------
(* Properties.                                                             *)

Idle == todo = << >>         \* the halt loop of kernel_init
Operations == {"isr_set", "cmd", "data", "drain", "in60", "initialized",
               "set_device", "lock", "release", "read", "clear", "empty",
               "empty10", "delay", "wait", "listen"}
Arguments   == {"none", "60", "03", "ad", "a7", "ae", "a8", "20", "00", "f0", "01", "f4"}
Instruction == [op: Operations, arg: Arguments, n: Nat]

(* Every variable of the kernel and of the hardware has its type; no tick  *)
(* counts beyond the counter's width.                                      *)
Ps2TypeOK ==
  /\ KbcTypeOK
  /\ {ticks, start} \subseteq 0 .. TickValues - 1
  /\ todo \in Seq(Instruction)
  /\ {isr1, received, initialized, device0, lock, ignore, shift, dropped} \subseteq BOOLEAN
  /\ given \subseteq {"key", "raw", "answer", "port"}

(* Once the bus is initialised, a byte in the output buffer has always     *)
(* requested its interrupt: none stays there and blocks the keyboard       *)
(* (bus_ps2.c:42-62, where bytes came in before there was a handler).      *)
ByteIsAnnounced == initialized /\ obf.full => irq1

(* When both modules are initialised and the last byte is taken, the       *)
(* keyboard sends codes of set 1 and the controller passes them on         *)
(* (bus_ps2.c:46-62, keyboard_ps2.c:88-109).                               *)
KeyboardConfigured ==
  Idle /\ initialized /\ device0 /\ ~InputFull =>
    /\ kbd.set = 1 /\ kbd.scanning /\ ~kbd.argument
    /\ ctl.port1 /\ ctl.int1 /\ ~ctl.translate /\ ctl.expects = "none"
    /\ Listening /\ ~lock

Queue == (IF obf.full THEN <<obf.byte>> ELSE << >>) \o kbd.wire

(* Shift does not stick: when no shift key is held, nor an extended key    *)
(* that has sent a fake shift, and no byte is under way, _shift is off,    *)
(* unless the handler took something else than a key's code for one or the *)
(* keyboard dropped a code (keyboard_ps2.c:34-57).                         *)
ShiftNeverSticks ==
  Queue = << >> /\ kbd.held = {} /\ kbd.on = {} /\ "raw" \notin given /\ ~dropped
    => ~shift

(* The driver implements KeyStore: it is open when it listens and the      *)
(* last command of the setup has been accepted.                            *)
Keys == INSTANCE KeyStore WITH
  Codes  <- {KeyCode("key", key, up) : key \in Shifts, up \in BOOLEAN},
  Effect <- ShiftAfter,
  queue  <- Queue,
  open   <- Listening /\ ~InputFull
ImplementsKeyStore == Keys!Spec

(* What the handler takes for a scan code is never an answer to a command: *)
(* the setup empties the buffer before it listens (keyboard_ps2.c:94-108). *)
AnswersAreNotKeys == "answer" \notin given
=============================================================================
