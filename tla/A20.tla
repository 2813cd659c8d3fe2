-------------------------------- MODULE A20 ---------------------------------
(***************************************************************************)
(* How stage 2 switches the address line A20 on, boot/src/a20.asm: through *)
(* the BIOS, through port 0x92 or through the keyboard controller, whose   *)
(* status bits it waits for with interrupts off.                           *)
(***************************************************************************)
EXTENDS Kbc

VARIABLES
  apc,             \* where stage 2 is; "kernel" when the kernel has been entered
  outs,            \* the rest of the keyboard method
  port             \* bx: the byte taken for the value of the output port

avars == <<apc, outs, port>>

KeyboardMethod == <<"ad", "d0", "in", "d1", "out", "ae">>

A20Init == apc = "first" /\ outs = << >> /\ port = Answer

GoTo(label) == apc' = label /\ UNCHANGED <<outs, port>>
TryKeyboard == apc' = "test" /\ outs' = KeyboardMethod /\ UNCHANGED port
LineMayComeOn(on) == ctl' = [ctl EXCEPT !.a20 = @ \/ on]

First ==
  /\ apc = "first" /\ GoTo(IF ctl.a20 THEN "end" ELSE "support")
  /\ UNCHANGED kvars

(* int 0x15 with 0x2403: support for neither method is read as support for *)
(* the keyboard controller, and for it alone as support for port 0x92.     *)
Support ==
  /\ apc = "support" /\ (TryKeyboard \/ GoTo("port92") \/ GoTo("int15"))
  /\ UNCHANGED kvars

Int15 ==
  /\ apc = "int15"
  /\ \E on \in BOOLEAN :
       LineMayComeOn(on) /\ GoTo(IF on THEN "end" ELSE "port92")
  /\ UNCHANGED <<ibf, obf, irq1, kbd>>

(* If the port says that the line is on already, nothing more is tried.    *)
Port92 ==
  /\ apc = "port92"
  /\ \/ UNCHANGED ctl /\ GoTo("end")
     \/ \E on \in BOOLEAN :
          LineMayComeOn(on) /\ IF on THEN GoTo("end") ELSE TryKeyboard
  /\ UNCHANGED <<ibf, obf, irq1, kbd>>

(* .wait_bit_2 looks at the input buffer once; if it is full, it goes on   *)
(* to .wait_bit_1, which waits until the output buffer is empty.           *)
TestInput ==
  /\ apc = "test"
  /\ GoTo(IF InputFull \/ Head(outs) = "in" THEN "busy" ELSE "go")
  /\ UNCHANGED kvars
WaitOutput ==
  /\ apc = "busy" /\ ~obf.full /\ GoTo("go")
  /\ UNCHANGED kvars

(* Mutant: the method ends without its last command.                       *)
NextOutEarly == /\ outs' = Tail(outs)
                /\ apc' = IF Len(outs) <= 2 THEN "end" ELSE "test"
NextOut == /\ outs' = Tail(outs)
           /\ apc' = IF Len(outs) = 1 THEN "end" ELSE "test"

(* Bit 0 of the output port is the processor's reset line: it is kept as   *)
(* it was read, which is as it is only if the answer to 0xd0 was read.     *)
PortValues == IF port = PortAnswer THEN {"on"} ELSE {"on", "reset"}
In ==
  /\ apc = "go" /\ Head(outs) = "in"
  /\ port' = obf.byte /\ ReadPort60 /\ NextOut
  /\ UNCHANGED <<ibf, ctl, kbd>>
Out ==
  /\ apc = "go" /\ Head(outs) # "in"
  /\ IF Head(outs) = "out" THEN \E b \in PortValues : Write(DataPort, b)
                           ELSE Write(CommandPort, Head(outs))
  /\ NextOut
  /\ UNCHANGED <<obf, irq1, ctl, kbd, port>>

(* Mutant: the line is not tested at the end.                              *)
EndUntested == apc = "end" /\ GoTo("loading") /\ UNCHANGED kvars
End ==
  /\ apc = "end" /\ GoTo(IF ctl.a20 THEN "loading" ELSE "panic")
  /\ UNCHANGED kvars

(* The rest of stage 2, with the BIOS's handler of interrupt 1.  The first *)
(* thing that the kernel does to the interrupt controllers, with           *)
(* interrupts off, is to initialise them, which drops a request that no    *)
(* handler has taken (isr_init).                                           *)
EnterKernel ==
  /\ apc = "loading" /\ GoTo("kernel")
  /\ irq1' = FALSE /\ UNCHANGED <<ibf, obf, ctl, kbd>>
BiosInterrupt1 ==
  /\ apc \in {"first", "support", "int15", "port92", "loading"} /\ irq1
  /\ ReadPort60
  /\ UNCHANGED <<ibf, ctl, kbd, avars>>

(* The reset line has been pulled: the machine starts again.               *)
Restart ==
  /\ ctl.reset
  /\ apc' = "first" /\ outs' = << >> /\ port' = Answer
  /\ ibf' = NoWrite /\ obf' = [full |-> FALSE, byte |-> Answer] /\ irq1' = FALSE
  /\ ctl' = [ctl EXCEPT !.reset = FALSE, !.expects = "none", !.port1 = TRUE, !.a20 = FALSE]
  /\ kbd' = [kbd EXCEPT !.wire = << >>]

A20Step == First \/ Support \/ Int15 \/ Port92 \/ TestInput \/ WaitOutput \/ In
             \/ Out \/ End \/ EnterKernel \/ BiosInterrupt1

-----------------------------------------------------------------------------
(* The kernel is entered with the line on, and no byte that the keyboard   *)
(* method has left in the controller switches it off or resets the machine *)
(* from then on (stage2.asm:37-44).                                        *)
LineStaysOn == apc \in {"loading", "kernel"} => ctl.a20 /\ ~ctl.reset
=============================================================================
