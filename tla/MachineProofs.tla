--------------------------- MODULE MachineProofs ----------------------------
(***************************************************************************)
(* Proof that BusInv is an invariant of MachineSpec, for any number of keys *)
(* and key events and any set of modules, and of what follows from it; then *)
(* that MInv is: what the setup of the keyboard has reached, and what the  *)
(* codes under way say of shift; and that the driver implements KeyStore.  *)
(***************************************************************************)
EXTENDS MachineInv, SequenceTheorems, TLAPS

USE KbcAssumption, TimerAssumption, Ps2Assumption DEF CommandPort, DataPort

-----------------------------------------------------------------------------
(* The instructions of a program.                                          *)

LEMMA InstructionTypes ==
  /\ \A op \in Operations : Do(op) \in Instruction
  /\ \A c \in Arguments : Cmd(c) \in Instruction /\ Data(c) \in Instruction
  /\ \A n \in Nat : I("read", "none", n) \in Instruction
  /\ ReadMain \in Instruction
BY DEF Do, Cmd, Data, I, ReadMain, Instruction, Operations, Arguments

LEMMA ProgramTypes ==
  /\ BusProgram \in Seq(Instruction) /\ Len(BusProgram) = 11
  /\ SetupProgram \in Seq(Instruction) /\ NoBus(SetupProgram)
<1>1. BusProgram \in Seq(Instruction) /\ Len(BusProgram) = 11
  BY InstructionTypes DEF BusProgram, Operations, Arguments
<1>2. SetupProgram \in Seq(Instruction)
  BY InstructionTypes DEF SetupProgram, Operations, Arguments
<1>3. NoBus(SetupProgram)
  BY DEF SetupProgram, NoBus, Do, Cmd, Data, I, ReadMain
<1> QED BY <1>1, <1>2, <1>3

LEMMA Tails ==
  ASSUME NEW S, NEW s \in Seq(S), s # << >>
  PROVE  /\ Tail(s) \in Seq(S) /\ Len(Tail(s)) = Len(s) - 1 /\ Len(s) \in Nat \ {0}
         /\ Head(s) = s[1] /\ Head(s) \in S
         /\ \A i \in 1 .. Len(s) - 1 : Tail(s)[i] = s[i + 1]
BY HeadTailProperties

LEMMA Concatenations ==
  ASSUME NEW S, NEW s \in Seq(S), NEW t \in Seq(S)
  PROVE  /\ s \o t \in Seq(S) /\ Len(s \o t) = Len(s) + Len(t)
         /\ Len(s) \in Nat /\ Len(t) \in Nat
         /\ \A i \in 1 .. Len(s) : (s \o t)[i] = s[i]
         /\ \A i \in Len(s) + 1 .. Len(s) + Len(t) : (s \o t)[i] = t[i - Len(s)]
BY ConcatProperties

LEMMA DoneIsTail ==
  ASSUME todo \in Seq(Instruction), todo # << >>, Done
  PROVE  todo' = Tail(todo)
<1>1. Tail(todo) \in Seq(Instruction)
  BY Tails
<1> QED BY <1>1, ConcatProperties DEF Done, Then

LEMMA Pushed ==
  ASSUME NEW S, NEW s \in Seq(S), NEW x \in S
  PROVE  <<x>> \o s # << >> /\ Head(<<x>> \o s) = x /\ Tail(<<x>> \o s) = s
<1>1. <<x>> \in Seq(S) /\ Len(<<x>>) = 1 /\ <<x>>[1] = x
  OBVIOUS
<1> DEFINE t == <<x>> \o s
<1>2. /\ t \in Seq(S) /\ Len(t) = 1 + Len(s) /\ Len(s) \in Nat /\ t[1] = x
      /\ \A i \in 2 .. 1 + Len(s) : t[i] = s[i - 1]
  BY <1>1, Concatenations
<1>3. t # << >> /\ Head(t) = x
  BY <1>2, HeadTailProperties
<1>4. /\ Tail(t) \in Seq(S) /\ Len(Tail(t)) = Len(s)
      /\ \A i \in 1 .. Len(s) : Tail(t)[i] = t[i + 1]
  BY <1>2, <1>3, Tails
<1>5. \A i \in 1 .. Len(s) : Tail(t)[i] = s[i]
  BY <1>2, <1>4
<1>6. Tail(t) = s
  BY <1>4, <1>5, SeqEqual
<1> QED BY <1>3, <1>6

LEMMA NoBusParts ==
  /\ \A s \in Seq(Instruction) : s # << >> /\ NoBus(s) => NoBus(Tail(s))
  /\ \A s, t \in Seq(Instruction) : NoBus(s) /\ NoBus(t) => NoBus(s \o t)
<1>1. ASSUME NEW s \in Seq(Instruction), s # << >>, NoBus(s) PROVE NoBus(Tail(s))
  <2>1. /\ Len(Tail(s)) = Len(s) - 1 /\ Len(s) \in Nat
        /\ \A i \in 1 .. Len(s) - 1 : Tail(s)[i] = s[i + 1]
    BY <1>1, Tails
  <2> QED BY <1>1, <2>1 DEF NoBus
<1>2. ASSUME NEW s \in Seq(Instruction), NEW t \in Seq(Instruction), NoBus(s), NoBus(t)
      PROVE  NoBus(s \o t)
  <2>1. /\ Len(s \o t) = Len(s) + Len(t) /\ Len(s) \in Nat /\ Len(t) \in Nat
        /\ \A i \in 1 .. Len(s) : (s \o t)[i] = s[i]
        /\ \A i \in Len(s) + 1 .. Len(s) + Len(t) : (s \o t)[i] = t[i - Len(s)]
    BY Concatenations
  <2>2. ASSUME NEW i \in 1 .. Len(s \o t) PROVE (s \o t)[i].op # "initialized"
    <3>1. CASE i \in 1 .. Len(s)
      BY <1>2, <2>1, <3>1 DEF NoBus
    <3>2. CASE i \in Len(s) + 1 .. Len(s) + Len(t)
      <4>1. i - Len(s) \in 1 .. Len(t)
        BY <2>1, <3>2
      <4> QED BY <1>2, <2>1, <3>2, <4>1 DEF NoBus
    <3> QED BY <2>1, <3>1, <3>2
  <2> QED BY <2>2 DEF NoBus
<1> QED BY <1>1, <1>2

-----------------------------------------------------------------------------
(* The types of the hardware.                                              *)

LEMMA ByteTypes ==
  /\ Answer \in OutBytes /\ PortAnswer \in OutBytes
  /\ \A b \in OutBytes : Received(b) \in OutBytes
  /\ \A key \in Shifts, k \in {"key", "raw"}, up \in BOOLEAN : KeyCode(k, key, up) \in OutBytes
<1>1. Answer \in OutBytes /\ PortAnswer \in OutBytes
  BY DEF OutBytes
<1>2. \A key \in Shifts, k \in {"key", "raw"}, up \in BOOLEAN : KeyCode(k, key, up) \in OutBytes
  BY DEF OutBytes, KeyBytes
<1>3. ASSUME NEW b \in OutBytes PROVE Received(b) \in OutBytes
  <2>1. CASE b.kind = "raw" /\ ctl.translate
    <3>1. b \in KeyBytes
      BY <2>1 DEF OutBytes, Answer, PortAnswer
    <3>2. PICK k \in {"key", "raw"}, key \in Shifts, up \in BOOLEAN : b = KeyCode(k, key, up)
      BY <3>1 DEF KeyBytes
    <3>3. [b EXCEPT !.kind = "key"] = KeyCode("key", key, up)
      BY <3>2 DEF KeyCode
    <3> QED BY <1>2, <2>1, <3>3 DEF Received
  <2> QED BY <2>1 DEF Received
<1> QED BY <1>1, <1>2, <1>3

LEMMA WireTypes ==
  ASSUME KbcTypeOK
  PROVE  /\ kbd.wire \in Seq(OutBytes)
         /\ kbd.wire # << >> => Head(kbd.wire) \in OutBytes /\ Tail(kbd.wire) \in Seq(OutBytes)
         /\ \A b \in OutBytes : Append(kbd.wire, b) \in Seq(OutBytes)
         /\ \A b \in OutBytes : Append(<< >>, b) \in Seq(OutBytes)
<1>1. kbd.wire \in Seq(OutBytes)
  BY DEF KbcTypeOK, Keyboard
<1>2. kbd.wire # << >> => Head(kbd.wire) \in OutBytes /\ Tail(kbd.wire) \in Seq(OutBytes)
  BY <1>1, Tails
<1> QED BY <1>1, <1>2, AppendProperties

LEMMA PutTypes ==
  ASSUME KbcTypeOK, NEW b \in OutBytes, Put(b)
  PROVE  obf' \in OutBuffer /\ irq1' \in BOOLEAN
BY DEF KbcTypeOK, Put, OutBuffer

LEMMA Port60Types ==
  ASSUME KbcTypeOK, ReadPort60
  PROVE  obf' \in OutBuffer /\ irq1' \in BOOLEAN
BY DEF KbcTypeOK, ReadPort60, OutBuffer

LEMMA WriteTypes ==
  /\ NoWrite \in InBuffer
  /\ \A p \in {CommandPort, DataPort}, b \in PortBytes : Write(p, b) => ibf' \in InBuffer
<1>1. NoWrite \in InBuffer
  BY DEF NoWrite, InBuffer, PortBytes
<1>2. ASSUME NEW p \in {CommandPort, DataPort}, NEW b \in PortBytes, Write(p, b)
      PROVE  ibf' \in InBuffer
  BY <1>2 DEF Write, InBuffer
<1> QED BY <1>1, <1>2

LEMMA HardwareTypes ==
  ASSUME KbcTypeOK, Hardware
  PROVE  KbcTypeOK'
<1>1. CASE AcceptCommand
  <2>1. obf' \in OutBuffer /\ irq1' \in BOOLEAN
    <3>1. CASE UNCHANGED <<obf, irq1>>
      BY <3>1 DEF KbcTypeOK
    <3>2. CASE Put(Answer) \/ Put(PortAnswer)
      BY <3>2, PutTypes, ByteTypes
    <3> QED BY <1>1, <3>1, <3>2 DEF AcceptCommand
  <2>2. ctl' \in Controller
    <3> DEFINE on == ibf.byte = "ae" \/ (ctl.port1 /\ ibf.byte # "ad")
               to == IF ibf.byte = "60" THEN "config"
                     ELSE IF ibf.byte = "d1" THEN "outport" ELSE "none"
    <3>1. ctl' = [ctl EXCEPT !.expects = to, !.port1 = on]
      BY <1>1 DEF AcceptCommand
    <3>2. to \in {"none", "config", "outport"} /\ on \in BOOLEAN
      OBVIOUS
    <3> HIDE DEF to, on
    <3> QED BY <3>1, <3>2 DEF KbcTypeOK, Controller
  <2> QED BY <1>1, <2>1, <2>2, WriteTypes DEF AcceptCommand, KbcTypeOK
<1>2. CASE AcceptConfig
  <2>1. ctl' \in Controller
    BY <1>2 DEF AcceptConfig, KbcTypeOK, Controller
  <2> QED BY <1>2, <2>1, WriteTypes DEF AcceptConfig, KbcTypeOK
<1>3. CASE AcceptOutPort
  <2> DEFINE low == ibf.byte = "reset"
  <2>1. ctl' = [ctl EXCEPT !.expects = "none", !.a20 = TRUE, !.reset = low]
    BY <1>3 DEF AcceptOutPort
  <2>2. low \in BOOLEAN
    OBVIOUS
  <2>3. ctl' \in Controller
    <3> HIDE DEF low
    <3> QED BY <2>1, <2>2 DEF KbcTypeOK, Controller
  <2> QED BY <1>3, <2>3, WriteTypes DEF AcceptOutPort, KbcTypeOK
<1>4. CASE AcceptKeyboard
  <2>1. PICK sends \in {kbd.wire, << >>} :
          kbd' = [kbd EXCEPT
            !.wire     = Append(sends, Answer),
            !.argument = ibf.byte = "f0",
            !.set      = IF kbd.argument /\ ibf.byte = "01" THEN 1 ELSE @,
            !.scanning = @ \/ ibf.byte = "f4"]
    BY <1>4 DEF AcceptKeyboard
  <2> DEFINE w == Append(sends, Answer)
             a == ibf.byte = "f0"
             s == IF kbd.argument /\ ibf.byte = "01" THEN 1 ELSE kbd.set
             c == kbd.scanning \/ ibf.byte = "f4"
  <2>2. w \in Seq(OutBytes)
    BY WireTypes, ByteTypes
  <2>3. a \in BOOLEAN /\ c \in BOOLEAN
    OBVIOUS
  <2>4. s \in {1, 2}
    BY DEF KbcTypeOK, Keyboard
  <2>5. kbd' = [kbd EXCEPT !.wire = w, !.argument = a, !.set = s, !.scanning = c]
    BY <2>1
  <2>6. kbd' \in Keyboard
    <3> HIDE DEF w, a, s, c
    <3> QED BY <2>2, <2>3, <2>4, <2>5 DEF KbcTypeOK, Keyboard
  <2> QED BY <1>4, <2>6, WriteTypes DEF AcceptKeyboard, KbcTypeOK
<1>5. CASE Deliver
  <2>1. Received(Head(kbd.wire)) \in OutBytes /\ Tail(kbd.wire) \in Seq(OutBytes)
    BY <1>5, WireTypes, ByteTypes DEF Deliver
  <2>2. obf' \in OutBuffer /\ irq1' \in BOOLEAN
    BY <1>5, <2>1, PutTypes DEF Deliver
  <2>3. kbd' \in Keyboard
    BY <1>5, <2>1 DEF Deliver, KbcTypeOK, Keyboard
  <2> QED BY <1>5, <2>2, <2>3 DEF Deliver, KbcTypeOK
<1> QED BY <1>1, <1>2, <1>3, <1>4, <1>5 DEF Hardware

(* What a user does adds at most the code of a shift key to what the        *)
(* keyboard has to send, and the code of a release if nothing is down then. *)
Nothing == kbd.held = {} /\ kbd.on = {}
NewCode == \E key \in Shifts, up \in BOOLEAN :
             kbd'.wire = Append(kbd.wire, ShiftCode(key, up)) /\ (Nothing' => up)

LEMMA ShiftCodes ==
  ASSUME NEW key \in Shifts, NEW up \in BOOLEAN
  PROVE  ShiftCode(key, up) \in OutBytes
<1> DEFINE k == IF kbd.set = 1 THEN "key" ELSE "raw"
<1>1. k \in {"key", "raw"}
  OBVIOUS
<1>2. KeyCode(k, key, up) \in OutBytes
  <2> HIDE DEF k
  <2> QED BY <1>1, ByteTypes
<1> QED BY <1>2 DEF ShiftCode

LEMMA UserEffects ==
  ASSUME KbcTypeOK, User
  PROVE  /\ UNCHANGED <<ibf, obf, irq1, ctl>> /\ kbd' \in Keyboard
         /\ kbd'.argument = kbd.argument /\ kbd'.set = kbd.set
         /\ kbd'.scanning = kbd.scanning
         /\ (kbd'.wire = kbd.wire /\ (Nothing' => Nothing)) \/ NewCode
<1>0. /\ kbd.typed + 1 \in Nat /\ kbd.wire \in Seq(OutBytes)
      /\ kbd.held \in SUBSET Shifts /\ kbd.on \in SUBSET Extended
      /\ kbd.off \in SUBSET Extended /\ FakeShift \in Shifts
  BY KbcAssumption DEF KbcTypeOK, Keyboard
<1>1. ASSUME NEW key \in Shifts, NEW up \in BOOLEAN
      PROVE  Append(kbd.wire, ShiftCode(key, up)) \in Seq(OutBytes)
  BY <1>0, ShiftCodes
<1>2. UNCHANGED <<ibf, obf, irq1, ctl>>
  BY DEF User, TypeKey, PressExtended, ReleaseExtended
<1>3. ASSUME NEW key \in Shifts, TypeKey(key)
      PROVE  /\ kbd' \in Keyboard
             /\ kbd'.argument = kbd.argument /\ kbd'.set = kbd.set
             /\ kbd'.scanning = kbd.scanning /\ NewCode
  <2> DEFINE up == key \in kbd.held
             w == Append(kbd.wire, ShiftCode(key, up))
             h == IF key \in kbd.held THEN kbd.held \ {key} ELSE kbd.held \union {key}
  <2>1. h \in SUBSET Shifts /\ up \in BOOLEAN /\ (h = {} => up)
    BY <1>0
  <2>2. w \in Seq(OutBytes)
    <3> HIDE DEF up
    <3> QED BY <1>1, <2>1
  <2>3. kbd' = [kbd EXCEPT !.typed = kbd.typed + 1, !.held = h, !.wire = w]
    BY <1>3 DEF TypeKey
  <2>4. w = Append(kbd.wire, ShiftCode(key, up))
    OBVIOUS
  <2> HIDE DEF w, h, up
  <2>5. /\ kbd' \in Keyboard /\ kbd'.wire = w /\ kbd'.held = h
        /\ kbd'.argument = kbd.argument /\ kbd'.set = kbd.set
        /\ kbd'.scanning = kbd.scanning
    BY <1>0, <2>1, <2>2, <2>3 DEF KbcTypeOK, Keyboard
  <2> QED BY <2>1, <2>4, <2>5 DEF NewCode, Nothing
<1>4. ASSUME NEW key \in Extended, PressExtended(key)
      PROVE  /\ kbd' \in Keyboard
             /\ kbd'.argument = kbd.argument /\ kbd'.set = kbd.set
             /\ kbd'.scanning = kbd.scanning /\ NewCode
  <2>1. CASE kbd' = [kbd EXCEPT !.typed = @ + 1, !.on = @ \union {key},
                                !.wire = Append(@, ShiftCode(FakeShift, FALSE))]
    <3> DEFINE w == Append(kbd.wire, ShiftCode(FakeShift, FALSE))
               x == kbd.on \union {key}
    <3>1. kbd' = [kbd EXCEPT !.typed = kbd.typed + 1, !.on = x, !.wire = w]
      BY <2>1
    <3>2. w \in Seq(OutBytes) /\ x \in SUBSET Extended /\ x # {}
      BY <1>0, <1>1
    <3>3. w = Append(kbd.wire, ShiftCode(FakeShift, FALSE))
      OBVIOUS
    <3> HIDE DEF w, x
    <3>4. /\ kbd' \in Keyboard /\ kbd'.wire = w /\ kbd'.on = x
          /\ kbd'.argument = kbd.argument /\ kbd'.set = kbd.set
          /\ kbd'.scanning = kbd.scanning
      BY <1>0, <3>1, <3>2 DEF KbcTypeOK, Keyboard
    <3> QED BY <1>0, <3>2, <3>3, <3>4 DEF NewCode, Nothing
  <2>2. ASSUME NEW fake \in kbd.held,
               kbd' = [kbd EXCEPT !.typed = @ + 1, !.off = @ \union {key},
                                  !.wire = Append(@, ShiftCode(fake, TRUE))]
        PROVE  /\ kbd' \in Keyboard
               /\ kbd'.argument = kbd.argument /\ kbd'.set = kbd.set
               /\ kbd'.scanning = kbd.scanning /\ NewCode
    <3> DEFINE w == Append(kbd.wire, ShiftCode(fake, TRUE))
               y == kbd.off \union {key}
    <3>1. kbd' = [kbd EXCEPT !.typed = kbd.typed + 1, !.off = y, !.wire = w]
      BY <2>2
    <3>2. w \in Seq(OutBytes) /\ y \in SUBSET Extended /\ fake \in Shifts
      BY <1>0, <1>1
    <3>3. w = Append(kbd.wire, ShiftCode(fake, TRUE))
      OBVIOUS
    <3> HIDE DEF w, y
    <3>4. /\ kbd' \in Keyboard /\ kbd'.wire = w
          /\ kbd'.argument = kbd.argument /\ kbd'.set = kbd.set
          /\ kbd'.scanning = kbd.scanning
      BY <1>0, <3>1, <3>2 DEF KbcTypeOK, Keyboard
    <3> QED BY <3>2, <3>3, <3>4 DEF NewCode
  <2> QED BY <1>4, <2>1, <2>2 DEF PressExtended
<1>5. ASSUME NEW key \in Extended, ReleaseExtended(key)
      PROVE  /\ kbd' \in Keyboard
             /\ kbd'.argument = kbd.argument /\ kbd'.set = kbd.set
             /\ kbd'.scanning = kbd.scanning
             /\ (kbd'.wire = kbd.wire /\ (Nothing' => Nothing)) \/ NewCode
  <2>1. CASE kbd' = [kbd EXCEPT !.typed = @ + 1, !.on = @ \ {key},
                                !.wire = Append(@, ShiftCode(FakeShift, TRUE))]
    <3> DEFINE w == Append(kbd.wire, ShiftCode(FakeShift, TRUE))
               x == kbd.on \ {key}
    <3>1. kbd' = [kbd EXCEPT !.typed = kbd.typed + 1, !.on = x, !.wire = w]
      BY <2>1
    <3>2. w \in Seq(OutBytes) /\ x \in SUBSET Extended
      BY <1>0, <1>1
    <3>3. w = Append(kbd.wire, ShiftCode(FakeShift, TRUE))
      OBVIOUS
    <3> HIDE DEF w, x
    <3>4. /\ kbd' \in Keyboard /\ kbd'.wire = w
          /\ kbd'.argument = kbd.argument /\ kbd'.set = kbd.set
          /\ kbd'.scanning = kbd.scanning
      BY <1>0, <3>1, <3>2 DEF KbcTypeOK, Keyboard
    <3> QED BY <1>0, <3>3, <3>4 DEF NewCode
  <2>2. ASSUME NEW fake \in kbd.held,
               kbd' = [kbd EXCEPT !.typed = @ + 1, !.off = @ \ {key},
                                  !.wire = Append(@, ShiftCode(fake, FALSE))]
        PROVE  /\ kbd' \in Keyboard
               /\ kbd'.argument = kbd.argument /\ kbd'.set = kbd.set
               /\ kbd'.scanning = kbd.scanning /\ NewCode
    <3> DEFINE w == Append(kbd.wire, ShiftCode(fake, FALSE))
               y == kbd.off \ {key}
    <3>1. kbd' = [kbd EXCEPT !.typed = kbd.typed + 1, !.off = y, !.wire = w]
      BY <2>2
    <3>2. w \in Seq(OutBytes) /\ y \in SUBSET Extended /\ fake \in Shifts
      BY <1>0, <1>1
    <3>3. w = Append(kbd.wire, ShiftCode(fake, FALSE))
      OBVIOUS
    <3> HIDE DEF w, y
    <3>4. /\ kbd' \in Keyboard /\ kbd'.wire = w /\ kbd'.held = kbd.held
          /\ kbd'.argument = kbd.argument /\ kbd'.set = kbd.set
          /\ kbd'.scanning = kbd.scanning
      BY <1>0, <3>1, <3>2 DEF KbcTypeOK, Keyboard
    <3> QED BY <2>2, <3>2, <3>3, <3>4 DEF NewCode, Nothing
  <2>3. CASE kbd' = [kbd EXCEPT !.typed = @ + 1, !.off = @ \ {key}]
    <3> DEFINE y == kbd.off \ {key}
    <3>1. kbd' = [kbd EXCEPT !.typed = kbd.typed + 1, !.off = y]
      BY <2>3
    <3>2. y \in SUBSET Extended
      BY <1>0
    <3> HIDE DEF y
    <3>3. /\ kbd' \in Keyboard /\ kbd'.wire = kbd.wire
          /\ kbd'.held = kbd.held /\ kbd'.on = kbd.on
          /\ kbd'.argument = kbd.argument /\ kbd'.set = kbd.set
          /\ kbd'.scanning = kbd.scanning
      BY <1>0, <3>1, <3>2 DEF KbcTypeOK, Keyboard
    <3> QED BY <3>3 DEF Nothing
  <2> QED BY <1>5, <2>1, <2>2, <2>3 DEF ReleaseExtended
<1> QED BY <1>2, <1>3, <1>4, <1>5 DEF User

LEMMA UserTypes ==
  ASSUME KbcTypeOK, User
  PROVE  KbcTypeOK'
BY UserEffects DEF KbcTypeOK

-----------------------------------------------------------------------------
(* The loader's part.                                                      *)

(* The controller switches the line off at no step, pulls the reset line   *)
(* only for the byte that says so, and announces what it puts.             *)
LEMMA HardwareEffects ==
  ASSUME KbcTypeOK, Hardware
  PROVE  /\ ctl.a20 => ctl'.a20
         /\ ctl'.reset => ctl.reset \/ ibf.byte = "reset"
         /\ ibf' = ibf \/ ibf' = NoWrite
         /\ ctl.int1 => ctl'.int1
         /\ ~ctl.translate => ~ctl'.translate
         /\ ctl.int1 /\ (obf.full => irq1) => (obf'.full => irq1')
<1> USE DEF KbcTypeOK, Controller
<1>1. CASE AcceptCommand
  BY <1>1 DEF AcceptCommand, Put
<1>2. CASE AcceptConfig
  BY <1>2 DEF AcceptConfig
<1>3. CASE AcceptOutPort
  BY <1>3 DEF AcceptOutPort
<1>4. CASE AcceptKeyboard
  BY <1>4 DEF AcceptKeyboard
<1>5. CASE Deliver
  BY <1>5 DEF Deliver, Put
<1> QED BY <1>1, <1>2, <1>3, <1>4, <1>5 DEF Hardware

LEMMA HardwareSound ==
  ASSUME KbcTypeOK, A20Sound, ResetSound, Hardware \/ User, UNCHANGED avars
  PROVE  KbcTypeOK' /\ A20Sound' /\ ResetSound'
<1>1. CASE Hardware
  <2>1. KbcTypeOK'
    BY <1>1, HardwareTypes
  <2>2. A20Sound'
    BY <1>1, HardwareEffects DEF A20Sound, InMethod, avars
  <2>3. ResetSound'
    BY <1>1, HardwareEffects DEF ResetSound, InMethod, avars, NoWrite
  <2> QED BY <2>1, <2>2, <2>3
<1>2. CASE User
  <2>1. UNCHANGED <<ibf, ctl>>
    BY <1>2, UserEffects
  <2>2. KbcTypeOK'
    BY <1>2, UserTypes
  <2> QED BY <2>1, <2>2 DEF A20Sound, ResetSound, InMethod, avars
<1> QED BY <1>1, <1>2

LEMMA OutsParts ==
  ASSUME NEW s \in OutsLeft
  PROVE  /\ Len(s) = 1 => Head(s) = "ae"
         /\ Len(s) # 1 => Tail(s) \in OutsLeft
         /\ Head(s) \in {"ad", "d0", "in", "d1", "out", "ae"}
<1>1. CASE s = <<"ad", "d0", "in", "d1", "out", "ae">>
  BY <1>1 DEF OutsLeft
<1>2. CASE s = <<"d0", "in", "d1", "out", "ae">>
  BY <1>2 DEF OutsLeft
<1>3. CASE s = <<"in", "d1", "out", "ae">>
  BY <1>3 DEF OutsLeft
<1>4. CASE s = <<"d1", "out", "ae">>
  BY <1>4 DEF OutsLeft
<1>5. CASE s = <<"out", "ae">>
  BY <1>5 DEF OutsLeft
<1>6. CASE s = <<"ae">>
  BY <1>6 DEF OutsLeft
<1> QED BY <1>1, <1>2, <1>3, <1>4, <1>5, <1>6 DEF OutsLeft

LEMMA NextOutSound ==
  ASSUME A20Sound, InMethod, NextOut, port' \in OutBytes,
         Len(outs) # 1 \/ (~ctl'.reset /\ ibf'.byte # "reset"),
         ctl'.reset => ctl.reset
  PROVE  A20Sound' /\ ResetSound'
<1>1. outs \in OutsLeft
  BY DEF A20Sound
<1>2. CASE Len(outs) = 1
  <2>1. apc' = "end"
    BY <1>2 DEF NextOut
  <2> QED BY <1>2, <2>1 DEF A20Sound, ResetSound, InMethod, A20Labels
<1>3. CASE Len(outs) # 1
  <2>1. apc' = "test" /\ outs' \in OutsLeft
    BY <1>1, <1>3, OutsParts DEF NextOut
  <2> QED BY <2>1 DEF A20Sound, ResetSound, InMethod, A20Labels
<1> QED BY <1>2, <1>3

LEMMA GoToSound ==
  ASSUME A20Sound, ResetSound, NEW l \in A20Labels, GoTo(l), UNCHANGED ibf,
         ctl'.reset = ctl.reset, ctl.a20 => ctl'.a20,
         l \in {"test", "busy", "go"} => InMethod,
         l \in {"loading", "kernel"} => ctl.a20,
         l \in {"test", "busy", "go"} \/ ~InMethod
  PROVE  A20Sound' /\ ResetSound'
BY DEF A20Sound, ResetSound, InMethod, GoTo

LEMMA TryKeyboardSound ==
  ASSUME A20Sound, ResetSound, ~InMethod, TryKeyboard
  PROVE  A20Sound' /\ ResetSound'
<1>1. KeyboardMethod \in OutsLeft
  BY DEF KeyboardMethod, OutsLeft
<1> QED BY <1>1 DEF TryKeyboard, A20Sound, ResetSound, InMethod, A20Labels

LEMMA LineOn ==
  ASSUME KbcTypeOK, NEW on \in BOOLEAN, LineMayComeOn(on)
  PROVE  ctl' \in Controller /\ ctl'.reset = ctl.reset /\ (ctl.a20 => ctl'.a20)
<1> DEFINE line == ctl.a20 \/ on
<1>1. ctl' = [ctl EXCEPT !.a20 = line]
  BY DEF LineMayComeOn
<1>2. line \in BOOLEAN /\ (ctl.a20 => line)
  OBVIOUS
<1> HIDE DEF line
<1> QED BY <1>1, <1>2 DEF KbcTypeOK, Controller

LEMMA A20Steps ==
  ASSUME KbcTypeOK, A20Sound, ResetSound, ~ctl.reset, A20Step
  PROVE  KbcTypeOK' /\ A20Sound' /\ ResetSound'
<1> USE DEF A20Labels, InMethod
<1>1. CASE First
  <2>1. KbcTypeOK'
    BY <1>1 DEF First, kvars, KbcTypeOK
  <2>2. UNCHANGED <<ibf, ctl>>
    BY <1>1 DEF First, kvars
  <2>3. PICK l \in {"end", "support"} : GoTo(l) /\ apc = "first"
    BY <1>1 DEF First
  <2> QED BY <2>1, <2>2, <2>3, GoToSound
<1>2. CASE Support
  <2>1. KbcTypeOK'
    BY <1>2 DEF Support, kvars, KbcTypeOK
  <2>2. UNCHANGED <<ibf, ctl>> /\ apc = "support"
    BY <1>2 DEF Support, kvars
  <2>3. CASE TryKeyboard
    BY <2>1, <2>2, <2>3, TryKeyboardSound
  <2>4. CASE GoTo("port92") \/ GoTo("int15")
    BY <2>1, <2>2, <2>4, GoToSound
  <2> QED BY <1>2, <2>3, <2>4 DEF Support
<1>3. CASE Int15
  <2>1. PICK on \in BOOLEAN : LineMayComeOn(on) /\ GoTo(IF on THEN "end" ELSE "port92")
    BY <1>3 DEF Int15
  <2>2. ctl' \in Controller /\ ctl'.reset = ctl.reset /\ (ctl.a20 => ctl'.a20)
    BY <2>1, LineOn
  <2>3. KbcTypeOK' /\ UNCHANGED ibf /\ apc = "int15"
    BY <1>3, <2>2 DEF Int15, KbcTypeOK
  <2>4. PICK l \in {"end", "port92"} : GoTo(l)
    BY <2>1
  <2> QED BY <2>2, <2>3, <2>4, GoToSound
<1>4. CASE Port92
  <2>1. UNCHANGED <<ibf, obf, irq1, kbd>> /\ apc = "port92"
    BY <1>4 DEF Port92
  <2>2. CASE UNCHANGED ctl /\ GoTo("end")
    BY <2>1, <2>2, GoToSound DEF KbcTypeOK
  <2>3. CASE \E on \in BOOLEAN : LineMayComeOn(on) /\ IF on THEN GoTo("end") ELSE TryKeyboard
    <3>1. PICK on \in BOOLEAN : LineMayComeOn(on) /\ IF on THEN GoTo("end") ELSE TryKeyboard
      BY <2>3
    <3>2. ctl' \in Controller /\ ctl'.reset = ctl.reset /\ (ctl.a20 => ctl'.a20)
      BY <3>1, LineOn
    <3>3. KbcTypeOK'
      BY <2>1, <3>2 DEF KbcTypeOK
    <3>4. CASE GoTo("end")
      BY <2>1, <3>2, <3>3, <3>4, GoToSound
    <3>5. CASE TryKeyboard
      BY <2>1, <3>3, <3>5, TryKeyboardSound
    <3> QED BY <3>1, <3>4, <3>5
  <2> QED BY <1>4, <2>2, <2>3 DEF Port92
<1>5. CASE TestInput
  <2>1. KbcTypeOK'
    BY <1>5 DEF TestInput, kvars, KbcTypeOK
  <2>2. UNCHANGED <<ibf, ctl>> /\ apc = "test"
    BY <1>5 DEF TestInput, kvars
  <2>3. PICK l \in {"busy", "go"} : GoTo(l)
    BY <1>5 DEF TestInput
  <2> QED BY <2>1, <2>2, <2>3, GoToSound
<1>6. CASE WaitOutput
  <2>1. KbcTypeOK'
    BY <1>6 DEF WaitOutput, kvars, KbcTypeOK
  <2> QED BY <1>6, <2>1, GoToSound DEF WaitOutput, kvars
<1>7. CASE In
  <2>1. obf.byte \in OutBytes
    BY DEF KbcTypeOK, OutBuffer
  <2>2. KbcTypeOK'
    BY <1>7, Port60Types DEF In, KbcTypeOK
  <2>3. outs \in OutsLeft /\ Len(outs) # 1
    BY <1>7, OutsParts DEF In, A20Sound
  <2> QED BY <1>7, <2>1, <2>2, <2>3, NextOutSound DEF In
<1>8. CASE Out
  <2>1. outs \in OutsLeft /\ apc = "go" /\ Head(outs) # "in"
    BY <1>8 DEF Out, A20Sound
  <2>2. CASE Head(outs) = "out"
    <3>1. PICK b \in {"on", "reset"} : Write(DataPort, b)
      BY <1>8, <2>2 DEF Out, PortValues
    <3>2. KbcTypeOK'
      BY <1>8, <3>1, WriteTypes DEF Out, KbcTypeOK, PortBytes
    <3>3. Len(outs) # 1
      BY <2>1, <2>2, OutsParts
    <3> QED BY <1>8, <2>1, <3>2, <3>3, NextOutSound DEF Out, A20Sound
  <2>3. CASE Head(outs) # "out"
    <3>1. Head(outs) \in {"ad", "d0", "d1", "ae"} /\ Write(CommandPort, Head(outs))
      BY <1>8, <2>1, <2>3, OutsParts DEF Out
    <3>2. KbcTypeOK'
      BY <1>8, <3>1, WriteTypes DEF Out, KbcTypeOK, PortBytes
    <3>3. ibf'.byte # "reset"
      BY <3>1 DEF Write
    <3> QED BY <1>8, <2>1, <3>2, <3>3, NextOutSound DEF Out, A20Sound
  <2> QED BY <2>2, <2>3
<1>9. CASE End
  <2>1. KbcTypeOK'
    BY <1>9 DEF End, kvars, KbcTypeOK
  <2>2. UNCHANGED <<ibf, ctl>> /\ apc = "end"
    BY <1>9 DEF End, kvars
  <2>3. PICK l \in {"loading", "panic"} : GoTo(l) /\ (l = "loading" => ctl.a20)
    BY <1>9 DEF End
  <2> QED BY <2>1, <2>2, <2>3, GoToSound
<1>10. CASE EnterKernel
  <2>1. KbcTypeOK'
    BY <1>10 DEF EnterKernel, kvars, KbcTypeOK
  <2> QED BY <1>10, <2>1, GoToSound DEF EnterKernel, kvars, A20Sound
<1>11. CASE BiosInterrupt1
  <2>1. KbcTypeOK'
    BY <1>11, Port60Types DEF BiosInterrupt1, KbcTypeOK
  <2> QED BY <1>11, <2>1 DEF BiosInterrupt1, A20Sound, ResetSound, avars
<1> QED BY <1>1, <1>2, <1>3, <1>4, <1>5, <1>6, <1>7, <1>8, <1>9, <1>10, <1>11 DEF A20Step

-----------------------------------------------------------------------------
(* The main program of the kernel.                                         *)

(* A step puts a body in front of the program or of what follows its first *)
(* instruction, and no body belongs to the bus.                            *)
Body(b) ==
  /\ b \in Seq(Instruction) /\ NoBus(b)
  /\ todo' = b \o Tail(todo) \/ todo' = b \o todo

LEMMA Bodies ==
  /\ << >> \in Seq(Instruction) /\ NoBus(<< >>)
  /\ \A op \in Operations \ {"initialized"} : <<Do(op)>> \in Seq(Instruction) /\ NoBus(<<Do(op)>>)
  /\ <<ReadMain>> \in Seq(Instruction) /\ NoBus(<<ReadMain>>)
  /\ <<ReadMain, Do("delay")>> \in Seq(Instruction) /\ NoBus(<<ReadMain, Do("delay")>>)
  /\ \A n \in Nat : /\ <<Do("delay"), I("read", "none", n)>> \in Seq(Instruction)
                    /\ NoBus(<<Do("delay"), I("read", "none", n)>>)
<1>1. << >> \in Seq(Instruction) /\ NoBus(<< >>)
  BY DEF NoBus
<1>2. ASSUME NEW op \in Operations \ {"initialized"}
      PROVE  <<Do(op)>> \in Seq(Instruction) /\ NoBus(<<Do(op)>>)
  BY InstructionTypes DEF NoBus, Do, I
<1>3. <<ReadMain>> \in Seq(Instruction) /\ NoBus(<<ReadMain>>)
  BY InstructionTypes DEF NoBus, ReadMain, I
<1>4. Do("delay") \in Instruction
  BY InstructionTypes DEF Operations
<1>5. <<ReadMain, Do("delay")>> \in Seq(Instruction) /\ NoBus(<<ReadMain, Do("delay")>>)
  BY <1>4, InstructionTypes DEF NoBus, ReadMain, I, Do
<1>6. ASSUME NEW n \in Nat
      PROVE  /\ <<Do("delay"), I("read", "none", n)>> \in Seq(Instruction)
             /\ NoBus(<<Do("delay"), I("read", "none", n)>>)
  BY <1>4, InstructionTypes DEF NoBus, I, Do
<1> QED BY <1>1, <1>2, <1>3, <1>5, <1>6

LEMMA MainShape ==
  ASSUME Ps2TypeOK, Main
  PROVE  todo # << >> /\ \E b : Body(b)
<1>1. todo # << >>
  BY DEF Main, At, IsrSet, WriteByte, Drain, In60, SetInitialized, SetDevice, Lock, Release,
         Poll, Clear, Empty, Delay, Wait, Listen
<1>2. CASE Done
  <2>1. Body(<< >>)
    BY <1>2, Bodies DEF Body, Done, Then
  <2> QED BY <1>1, <2>1
<1>3. CASE Drain
  <2>1. <<Do("in60")>> \in Seq(Instruction) /\ NoBus(<<Do("in60")>>)
    BY Bodies DEF Operations
  <2>2. Done \/ Body(<<Do("in60")>>)
    BY <1>3, <2>1 DEF Drain, Again, Body
  <2> QED BY <1>1, <1>2, <2>2
<1>4. CASE SetDevice
  <2>1. Body(SetupProgram) \/ Body(<< >>)
    BY <1>4, ProgramTypes, Bodies DEF SetDevice, Then, Body
  <2> QED BY <1>1, <2>1
<1>5. CASE Poll
  <2> DEFINE n == Head(todo).n
  <2>1. n \in Nat
    <3>1. Head(todo) \in Instruction
      BY <1>1, Tails DEF Ps2TypeOK
    <3> QED BY <3>1 DEF Instruction
  <2>2. CASE n > 0 /\ ~received
    <3>1. n - 1 \in Nat
      BY <2>1, <2>2
    <3>2. Then(<<Do("delay"), I("read", "none", n - 1)>>)
      BY <1>5, <2>2 DEF Poll
    <3>3. Body(<<Do("delay"), I("read", "none", n - 1)>>)
      BY <3>1, <3>2, Bodies DEF Then, Body
    <3> QED BY <1>1, <3>3
  <2>3. CASE ~(n > 0 /\ ~received)
    <3>1. Then(<<Do("clear")>>)
      BY <1>5, <2>3 DEF Poll
    <3>2. <<Do("clear")>> \in Seq(Instruction) /\ NoBus(<<Do("clear")>>)
      BY Bodies DEF Operations
    <3>3. Body(<<Do("clear")>>)
      BY <3>1, <3>2 DEF Then, Body
    <3> QED BY <1>1, <3>3
  <2> QED BY <2>2, <2>3
<1>6. CASE Empty
  <2>1. Done \/ Again(<<ReadMain>>) \/ Again(<<ReadMain, Do("delay")>>)
    BY <1>6 DEF Empty
  <2>2. Done \/ Body(<<ReadMain>>) \/ Body(<<ReadMain, Do("delay")>>)
    BY <2>1, Bodies DEF Again, Body
  <2> QED BY <1>1, <1>2, <2>2
<1>7. CASE Delay
  <2>1. <<Do("wait")>> \in Seq(Instruction) /\ NoBus(<<Do("wait")>>)
    BY Bodies DEF Operations
  <2>2. Body(<<Do("wait")>>)
    BY <1>7, <2>1 DEF Delay, Then, Body
  <2> QED BY <1>1, <2>2
<1>8. CASE ~(Drain \/ SetDevice \/ Poll \/ Empty \/ Delay)
  BY <1>2, <1>8 DEF Main, IsrSet, WriteByte, In60, SetInitialized, Lock, Release, Clear,
                    Wait, Listen
<1> QED BY <1>3, <1>4, <1>5, <1>6, <1>7, <1>8

LEMMA ProgramSound ==
  ASSUME Ps2TypeOK, Main
  PROVE  todo' \in Seq(Instruction) /\ (NoBus(todo) => NoBus(todo'))
<1>1. todo # << >> /\ todo \in Seq(Instruction)
  BY MainShape DEF Ps2TypeOK
<1>2. PICK b : Body(b)
  BY MainShape
<1>3. b \in Seq(Instruction) /\ NoBus(b) /\ Tail(todo) \in Seq(Instruction)
  BY <1>1, <1>2, Tails DEF Body
<1>4. CASE todo' = b \o Tail(todo)
  <2>1. NoBus(todo) => NoBus(Tail(todo))
    BY <1>1, NoBusParts
  <2> QED BY <1>3, <1>4, <2>1, NoBusParts, Concatenations
<1>5. CASE todo' = b \o todo
  BY <1>1, <1>3, <1>5, NoBusParts, Concatenations
<1> QED BY <1>2, <1>4, <1>5 DEF Body

(* What the main program writes does not reset the machine, and what it    *)
(* reads it takes out of the buffer.                                       *)
LEMMA MainWrites ==
  ASSUME Ps2TypeOK, Main
  PROVE  /\ UNCHANGED <<ctl, kbd>>
         /\ ibf' = ibf \/ (ibf' \in InBuffer /\ ibf'.byte # "reset")
         /\ UNCHANGED <<obf, irq1>> \/ ReadPort60
<1>1. CASE WriteByte
  <2>1. todo # << >> /\ Head(todo) \in Instruction
    BY <1>1, Tails DEF WriteByte, At, Ps2TypeOK
  <2>2. Head(todo).arg \in Arguments
    BY <2>1 DEF Instruction
  <2>3. Head(todo).arg \in PortBytes /\ Head(todo).arg # "reset"
    BY <2>2 DEF Arguments, PortBytes
  <2>4. PICK p \in {CommandPort, DataPort} : Write(p, Head(todo).arg)
    BY <1>1 DEF WriteByte
  <2>5. ibf' \in InBuffer /\ ibf'.byte # "reset"
    BY <2>3, <2>4, WriteTypes DEF Write
  <2> QED BY <1>1, <2>5 DEF WriteByte
<1>2. CASE In60
  BY <1>2 DEF In60
<1>3. CASE ~WriteByte /\ ~In60
  BY <1>3 DEF Main, IsrSet, Drain, SetInitialized, SetDevice, Lock, Release,
              Poll, Clear, Empty, Delay, Wait, Listen, kvars
<1> QED BY <1>1, <1>2, <1>3

LEMMA MainTypes ==
  ASSUME Ps2TypeOK, Main
  PROVE  Ps2TypeOK'
<1>1. KbcTypeOK'
  BY MainWrites, Port60Types DEF Ps2TypeOK, KbcTypeOK
<1>2. {ticks, start}' \subseteq 0 .. TickValues - 1
  BY DEF Ps2TypeOK, Main, IsrSet, WriteByte, Drain, In60, SetInitialized, SetDevice, Lock,
         Release, Poll, Clear, Empty, Delay, Wait, Listen, DelayStart, DelayEnd, tvars
<1>3. {isr1, received, initialized, device0, lock, ignore, shift, dropped}' \subseteq BOOLEAN
  BY DEF Ps2TypeOK, Main, IsrSet, WriteByte, Drain, In60, SetInitialized, SetDevice, Lock,
         Release, Poll, Clear, Empty, Delay, Wait, Listen, bus, keyboard, history
<1>4. given' = given
  BY DEF Main, IsrSet, WriteByte, Drain, In60, SetInitialized, SetDevice, Lock,
         Release, Poll, Clear, Empty, Delay, Wait, Listen, history
<1> QED BY <1>1, <1>2, <1>3, <1>4, ProgramSound DEF Ps2TypeOK

LEMMA InterruptTypes ==
  ASSUME Ps2TypeOK, TickInterrupt \/ Interrupt1
  PROVE  Ps2TypeOK'
<1>1. CASE TickInterrupt
  <2>1. ticks' \in 0 .. TickValues - 1 /\ start' = start
    BY <1>1 DEF Ps2TypeOK, TickInterrupt, TickHandler
  <2> QED BY <1>1, <2>1 DEF Ps2TypeOK, KbcTypeOK, TickInterrupt, kvars, pvars, bus, keyboard,
                            history
<1>2. CASE Interrupt1
  <2>1. KbcTypeOK'
    BY <1>2, Port60Types DEF Interrupt1, Ps2TypeOK, KbcTypeOK
  <2>2. obf.byte.kind \in {"key", "raw", "answer", "port"}
    BY DEF Ps2TypeOK, KbcTypeOK, OutBuffer, OutBytes, KeyBytes, KeyCode, Answer, PortAnswer
  <2>3. given' \subseteq {"key", "raw", "answer", "port"}
    BY <1>2, <2>2 DEF Interrupt1, Ps2TypeOK
  <2>4. shift' \in BOOLEAN /\ received' \in BOOLEAN
    BY <1>2 DEF Interrupt1, Ps2TypeOK, ShiftAfter
  <2> QED BY <1>2, <2>1, <2>3, <2>4 DEF Interrupt1, Ps2TypeOK, tvars
<1> QED BY <1>1, <1>2

LEMMA DeviceTypes ==
  ASSUME Ps2TypeOK, Devices \/ Typing
  PROVE  Ps2TypeOK'
<1>1. KbcTypeOK'
  BY HardwareTypes, UserTypes DEF Devices, Typing, Ps2TypeOK
<1>2. dropped' \in BOOLEAN
  BY DEF Devices, Typing, Ps2TypeOK, pvars, history
<1>3. UNCHANGED <<tvars, todo, bus, keyboard, given>>
  BY DEF Devices, Typing, pvars, history
<1> QED BY <1>1, <1>2, <1>3 DEF Ps2TypeOK, tvars, bus, keyboard

-----------------------------------------------------------------------------
(* The program of the bus.                                                 *)

LEMMA BusInstructions ==
  /\ \A k \in 1 .. 11 : BusProgram[k].op \in {"isr_set", "cmd", "data", "drain", "initialized"}
  /\ \A k \in 1 .. 11 : BusProgram[k].op = "isr_set" => k = 1
  /\ \A k \in 1 .. 11 : BusProgram[k].op = "initialized" => k = 11
  /\ \A k \in 1 .. 11 : BusProgram[k].op = "drain" => k = 6 \/ k = 10
  /\ \A k \in 1 .. 11 : BusProgram[k].op \in {"cmd", "data"} => k \in 2 .. 9 /\ k # 6
  /\ BusProgram[2] = Cmd("60") /\ BusProgram[3] = Data("03")
BY DEF BusProgram, Do, Cmd, Data, I

LEMMA BusStep ==
  ASSUME NEW k \in 1 .. 11, NEW s \in Seq(Instruction), BusFrom(k, s)
  PROVE  /\ s # << >> /\ Head(s) = BusProgram[k]
         /\ k < 11 => BusFrom(k + 1, Tail(s))
         /\ k = 11 => NoBus(Tail(s))
<1>1. Len(s) >= 12 - k /\ s # << >>
  BY DEF BusFrom
<1>2. /\ Tail(s) \in Seq(Instruction) /\ Len(Tail(s)) = Len(s) - 1 /\ Len(s) \in Nat
      /\ Head(s) = s[1] /\ \A i \in 1 .. Len(s) - 1 : Tail(s)[i] = s[i + 1]
  BY <1>1, Tails
<1>3. Head(s) = BusProgram[k]
  <2>1. 1 \in 1 .. 12 - k /\ 1 + k - 1 = k
    OBVIOUS
  <2> QED BY <1>2, <2>1 DEF BusFrom
<1>4. ASSUME k < 11 PROVE BusFrom(k + 1, Tail(s))
  <2>1. Len(Tail(s)) >= 12 - (k + 1)
    BY <1>1, <1>2
  <2>2. ASSUME NEW i \in 1 .. 12 - (k + 1)
        PROVE  Tail(s)[i] = BusProgram[i + (k + 1) - 1]
    <3>1. i \in 1 .. Len(s) - 1 /\ i + 1 \in 1 .. 12 - k /\ (i + 1) + k - 1 = i + (k + 1) - 1
      BY <1>1, <1>2
    <3> QED BY <1>2, <3>1 DEF BusFrom
  <2>3. ASSUME NEW i \in 13 - (k + 1) .. Len(Tail(s))
        PROVE  Tail(s)[i].op # "initialized"
    <3>1. i \in 1 .. Len(s) - 1 /\ i + 1 \in 13 - k .. Len(s)
      BY <1>2, <1>4
    <3> QED BY <1>2, <3>1 DEF BusFrom
  <2> QED BY <2>1, <2>2, <2>3 DEF BusFrom
<1>5. ASSUME k = 11 PROVE NoBus(Tail(s))
  <2>1. ASSUME NEW i \in 1 .. Len(Tail(s)) PROVE Tail(s)[i].op # "initialized"
    <3>1. i \in 1 .. Len(s) - 1 /\ i + 1 \in 13 - k .. Len(s)
      BY <1>2, <1>5
    <3> QED BY <1>2, <3>1 DEF BusFrom
  <2> QED BY <2>1 DEF NoBus
<1> QED BY <1>1, <1>3, <1>4, <1>5

(* A step of the main program, an interrupt or the hardware leaves the bus *)
(* ready once it is.                                                       *)
LEMMA ReadyStays ==
  ASSUME Ps2TypeOK, Ready, Main \/ TickInterrupt \/ Interrupt1 \/ Devices \/ Typing
  PROVE  Ready' /\ (Announced => Announced')
<1>1. isr1'
  BY DEF Ready, Main, IsrSet, WriteByte, Drain, In60, SetInitialized, SetDevice, Lock,
         Release, Poll, Clear, Empty, Delay, Wait, Listen, bus, TickInterrupt, Interrupt1,
         Devices, Typing, pvars
<1>2. ctl'.int1 /\ ~ctl'.translate /\ (Announced => Announced')
  <2>1. CASE UNCHANGED ctl /\ (UNCHANGED <<obf, irq1>> \/ ReadPort60)
    BY <2>1 DEF Ready, Announced, ReadPort60, Ps2TypeOK, KbcTypeOK, OutBuffer
  <2>2. CASE Main
    BY <2>1, <2>2, MainWrites
  <2>3. CASE TickInterrupt \/ Interrupt1
    BY <2>1, <2>3 DEF TickInterrupt, Interrupt1, Ready, kvars
  <2>4. CASE Devices
    BY <2>4, HardwareEffects DEF Devices, Ready, Announced, Ps2TypeOK
  <2>5. CASE Typing
    BY <2>1, <2>5, UserEffects DEF Typing, Ps2TypeOK
  <2> QED BY <2>2, <2>3, <2>4, <2>5
<1> QED BY <1>1, <1>2 DEF Ready

(* What becomes of the two bytes that configure the controller.            *)
LEMMA CommandAccepted ==
  ASSUME KbcTypeOK, Hardware,
         \/ ibf = [port |-> CommandPort, byte |-> "60"]
         \/ ibf = NoWrite /\ ctl.expects = "config"
  PROVE  \/ ibf' = [port |-> CommandPort, byte |-> "60"]
         \/ ibf' = NoWrite /\ ctl'.expects = "config"
<1>1. CASE AcceptCommand
  BY <1>1 DEF AcceptCommand, NoWrite, KbcTypeOK, Controller
<1>2. CASE AcceptConfig \/ AcceptOutPort \/ AcceptKeyboard
  BY <1>2 DEF AcceptConfig, AcceptOutPort, AcceptKeyboard, NoWrite
<1>3. CASE Deliver
  BY <1>3 DEF Deliver
<1> QED BY <1>1, <1>2, <1>3 DEF Hardware

LEMMA ConfigAccepted ==
  ASSUME KbcTypeOK, Hardware,
         ibf = [port |-> DataPort, byte |-> "03"] /\ ctl.expects = "config"
  PROVE  \/ ibf' = [port |-> DataPort, byte |-> "03"] /\ ctl'.expects = "config"
         \/ ctl'.int1 /\ ~ctl'.translate
<1>1. CASE AcceptConfig
  BY <1>1 DEF AcceptConfig, KbcTypeOK, Controller
<1>2. CASE AcceptCommand \/ AcceptOutPort \/ AcceptKeyboard
  BY <1>2 DEF AcceptCommand, AcceptOutPort, AcceptKeyboard
<1>3. CASE Deliver
  BY <1>3 DEF Deliver
<1> QED BY <1>1, <1>2, <1>3 DEF Hardware

(* Interrupts, hardware and user leave the program alone and the state     *)
(* that its next instruction relies on.                                    *)
LEMMA OthersSound ==
  ASSUME Ps2TypeOK, BusSound, TickInterrupt \/ Interrupt1 \/ Devices \/ Typing
  PROVE  BusSound'
<1>1. UNCHANGED <<todo, isr1, initialized>>
  BY DEF TickInterrupt, Interrupt1, Devices, Typing, pvars, bus
<1>2. CASE NoBus(todo) /\ (initialized => Ready /\ Announced)
  <2>1. NoBus(todo)' /\ (initialized' => Ready' /\ Announced')
    BY <1>1, <1>2, ReadyStays DEF NoBus
  <2> QED BY <2>1 DEF BusSound
<1>3. ASSUME ~initialized, NEW k \in 1 .. 11, AtBus(k), Reached(k)
      PROVE  BusSound'
  <2>1. AtBus(k)' /\ ~initialized'
    BY <1>1, <1>3 DEF AtBus, BusFrom, At
  <2>2. UNCHANGED <<ibf, ctl>> \/ Hardware
    BY UserEffects DEF TickInterrupt, Interrupt1, Devices, Typing, kvars, Ps2TypeOK
  <2>3. ASSUME k = 3
        PROVE  \/ ibf' = [port |-> CommandPort, byte |-> "60"]
               \/ ibf' = NoWrite /\ ctl'.expects = "config"
    <3>1. CASE UNCHANGED <<ibf, ctl>>
      BY <1>3, <2>3, <3>1 DEF Reached
    <3>2. CASE Hardware
      BY <1>3, <2>3, <3>2, CommandAccepted DEF Reached, Ps2TypeOK
    <3> QED BY <2>2, <3>1, <3>2
  <2>4. ASSUME k = 4
        PROVE  \/ ibf' = [port |-> DataPort, byte |-> "03"] /\ ctl'.expects = "config"
               \/ Ready'
    <3>1. CASE Ready
      BY <3>1, ReadyStays
    <3>2. CASE ~Ready /\ UNCHANGED <<ibf, ctl>>
      BY <1>3, <2>4, <3>2 DEF Reached
    <3>3. CASE ~Ready /\ Hardware
      <4>1. isr1'
        BY <1>1, <1>3, <2>4 DEF Reached
      <4> QED BY <1>3, <2>4, <3>3, <4>1, ConfigAccepted DEF Reached, Ready, Ps2TypeOK
    <3> QED BY <2>2, <3>1, <3>2, <3>3
  <2>5. (k >= 5 => Ready') /\ (k >= 7 => Announced')
    BY <1>3, ReadyStays DEF Reached
  <2>6. k >= 2 => isr1'
    BY <1>1, <1>3 DEF Reached
  <2>7. Reached(k)'
    BY <2>3, <2>4, <2>5, <2>6 DEF Reached
  <2> QED BY <2>1, <2>7 DEF BusSound
<1> QED BY <1>2, <1>3 DEF BusSound

(* A step of the main program moves the program of the bus on by one       *)
(* instruction, or takes one round of a drain.                             *)
LEMMA MainSound ==
  ASSUME Ps2TypeOK, BusSound, Main
  PROVE  BusSound'
<1>1. todo # << >> /\ todo \in Seq(Instruction) /\ Head(todo) = todo[1]
  <2>1. todo # << >> /\ todo \in Seq(Instruction)
    BY MainShape DEF Ps2TypeOK
  <2> QED BY <2>1, Tails
<1>2. ~initialized => ~initialized' \/ SetInitialized
  BY DEF Main, IsrSet, WriteByte, Drain, In60, SetInitialized, SetDevice, Lock, Release,
         Poll, Clear, Empty, Delay, Wait, Listen, bus
<1>3. CASE NoBus(todo) /\ (initialized => Ready /\ Announced)
  <2>1. NoBus(todo')
    BY <1>3, ProgramSound
  <2>2. ~SetInitialized
    <3>1. Len(todo) \in Nat /\ Len(todo) # 0
      BY <1>1, Tails
    <3>2. todo[1].op # "initialized"
      BY <1>3, <3>1 DEF NoBus
    <3> QED BY <1>1, <3>2 DEF SetInitialized, At
  <2>3. initialized' => Ready' /\ Announced'
    BY <1>2, <1>3, <2>2, ReadyStays
  <2> QED BY <2>1, <2>3 DEF BusSound, NoBus
<1>4. ASSUME ~initialized, NEW k \in 1 .. 11, BusFrom(k, todo), Reached(k)
      PROVE  BusSound'
  <2>1. /\ Head(todo) = BusProgram[k]
        /\ k < 11 => BusFrom(k + 1, Tail(todo))
        /\ k = 11 => NoBus(Tail(todo))
    BY <1>1, <1>4, BusStep
  <2>2. k \in {2, 3, 4} \/ k >= 5 \/ k = 1
    OBVIOUS
  <2>3. (k >= 5 => Ready') /\ (k >= 7 => Announced')
    BY <1>4, ReadyStays DEF Reached
  <2>4. ASSUME k < 11, todo' = Tail(todo), ~initialized', Reached(k + 1)'
        PROVE  BusSound'
    <3>1. AtBus(k + 1)'
      BY <2>1, <2>4 DEF AtBus, BusFrom
    <3>2. k + 1 \in 1 .. 11
      BY <2>4
    <3> QED BY <2>4, <3>1, <3>2 DEF BusSound
  <2>5. CASE IsrSet
    <3>1. k = 1
      BY <2>1, <2>5, BusInstructions DEF IsrSet, At
    <3>2. isr1' /\ todo' = Tail(todo) /\ ~initialized'
      BY <1>1, <1>4, <2>5, DoneIsTail DEF IsrSet
    <3> QED BY <2>4, <3>1, <3>2 DEF Reached
  <2>6. CASE WriteByte
    <3>1. k \in 2 .. 9 /\ k # 6
      BY <2>1, <2>6, BusInstructions DEF WriteByte, At
    <3>2. todo' = Tail(todo) /\ ~initialized' /\ UNCHANGED <<isr1, ctl>> /\ ibf = NoWrite
      BY <1>1, <1>4, <2>6, DoneIsTail DEF WriteByte, bus, InputFull
    <3>3. isr1'
      BY <1>4, <3>1, <3>2 DEF Reached
    <3>4. CASE k = 2
      <4>1. ibf' = [port |-> CommandPort, byte |-> "60"]
        BY <2>1, <2>6, <3>4, BusInstructions DEF WriteByte, At, Write, Cmd, I
      <4> QED BY <2>4, <3>2, <3>3, <3>4, <4>1 DEF Reached
    <3>5. CASE k = 3
      <4>1. ibf' = [port |-> DataPort, byte |-> "03"]
        BY <2>1, <2>6, <3>5, BusInstructions DEF WriteByte, At, Write, Data, I
      <4>2. ctl'.expects = "config"
        BY <1>4, <3>2, <3>5 DEF Reached, NoWrite
      <4> QED BY <2>4, <3>2, <3>3, <3>5, <4>1, <4>2 DEF Reached
    <3>6. CASE k >= 4
      <4>1. Ready
        BY <1>4, <3>2, <3>6 DEF Reached, NoWrite
      <4>2. Ready' /\ (k >= 7 => Announced')
        BY <2>3, <4>1, ReadyStays
      <4>3. Reached(k + 1)'
        BY <3>1, <3>3, <3>6, <4>2 DEF Reached
      <4> QED BY <2>4, <3>1, <3>2, <4>3
    <3> QED BY <3>1, <3>4, <3>5, <3>6
  <2>7. CASE Drain
    <3>1. k = 6 \/ k = 10
      BY <2>1, <2>7, BusInstructions DEF Drain, At
    <3>2. ~initialized' /\ isr1' /\ Ready'
      BY <1>4, <2>3, <2>7, <3>1 DEF Drain, bus, Ready
    <3>3. CASE ~obf.full /\ Done
      <4>1. todo' = Tail(todo)
        BY <1>1, <3>3, DoneIsTail
      <4>2. Announced'
        BY <2>7, <3>3 DEF Drain, Announced, kvars
      <4>3. Reached(k + 1)'
        BY <3>1, <3>2, <4>2 DEF Reached
      <4> QED BY <2>4, <3>1, <3>2, <4>1, <4>3
    <3>4. CASE Again(<<Do("in60")>>)
      <4>1. <<Do("in60")>> \in Seq(Instruction)
        BY Bodies DEF Operations
      <4>2. todo' # << >> /\ Head(todo') = Do("in60") /\ Tail(todo') = todo
        BY <1>1, <3>4, <4>1, Pushed DEF Again
      <4>3. AtBus(k)'
        <5>1. BusFrom(k, Tail(todo'))
          BY <1>4, <4>2
        <5>2. todo' # << >> /\ Head(todo').op = "in60"
          BY <4>2 DEF Do, I
        <5> QED BY <5>1, <5>2 DEF AtBus, At
      <4>4. Reached(k)'
        BY <2>3, <3>1, <3>2 DEF Reached
      <4> QED BY <3>2, <4>3, <4>4 DEF BusSound
    <3> QED BY <2>7, <3>3, <3>4 DEF Drain
  <2>8. CASE SetInitialized
    <3>1. k = 11
      BY <2>1, <2>8, BusInstructions DEF SetInitialized, At
    <3>2. todo' = Tail(todo)
      BY <1>1, <2>8, DoneIsTail DEF SetInitialized
    <3>3. NoBus(todo)'
      BY <2>1, <3>1, <3>2 DEF NoBus
    <3> QED BY <2>3, <3>1, <3>3 DEF BusSound
  <2>9. ~(In60 \/ SetDevice \/ Lock \/ Release \/ Poll \/ Clear \/ Empty \/ Delay \/ Wait
            \/ Listen)
    <3>1. Head(todo).op \in {"isr_set", "cmd", "data", "drain", "initialized"}
      BY <2>1, BusInstructions
    <3> QED BY <3>1 DEF At, In60, SetDevice, Lock, Release, Poll, Clear, Empty, Delay, Wait,
                        Listen
  <2> QED BY <2>5, <2>6, <2>7, <2>8, <2>9 DEF Main
<1>5. ASSUME ~initialized, NEW k \in 1 .. 11, At("in60"), BusFrom(k, Tail(todo)), Reached(k)
      PROVE  BusSound'
  <2>1. In60
    BY <1>5 DEF Main, At, IsrSet, WriteByte, Drain, In60, SetInitialized, SetDevice, Lock,
                Release, Poll, Clear, Empty, Delay, Wait, Listen
  <2>2. todo' = Tail(todo) /\ ~initialized' /\ UNCHANGED <<ibf, ctl, isr1>>
    BY <1>1, <1>5, <2>1, DoneIsTail DEF In60, bus
  <2>3. AtBus(k)'
    BY <1>5, <2>2 DEF AtBus, BusFrom
  <2>4. (Ready => Ready') /\ (Ready /\ Announced => Announced')
    BY ReadyStays
  <2>5. Reached(k)'
    BY <1>5, <2>2, <2>4 DEF Reached
  <2> QED BY <2>2, <2>3, <2>5 DEF BusSound
<1> QED BY <1>3, <1>4, <1>5 DEF BusSound, AtBus

-----------------------------------------------------------------------------
(* The invariant.                                                          *)

LEMMA BusInvInit ==
  ASSUME MachineInit
  PROVE  BusInv
<1>1. KbcTypeOK
  <2>1. ibf \in InBuffer
    BY WriteTypes DEF MachineInit, KbcInit
  <2>2. obf \in OutBuffer /\ irq1 \in BOOLEAN
    BY ByteTypes DEF MachineInit, KbcInit, OutBuffer
  <2>3. ctl \in Controller
    BY DEF MachineInit, KbcInit, Controller
  <2>4. kbd \in Keyboard
    BY DEF MachineInit, KbcInit, Keyboard
  <2> QED BY <2>1, <2>2, <2>3, <2>4 DEF KbcTypeOK
<1>2. A20Sound /\ ResetSound
  BY DEF MachineInit, KbcInit, A20Init, A20Sound, ResetSound, InMethod, A20Labels, OutBytes,
         NoWrite
<1>3. ~isr1 /\ ~initialized
  BY DEF MachineInit, Ps2Init
<1>4. PICK built \in ModuleSets : todo = Modules(built)
  BY DEF MachineInit, Ps2Init
<1> DEFINE first == IF "bus_ps2" \in built THEN BusProgram ELSE << >>
           then  == IF "keyboard_ps2" \in built THEN <<Do("set_device")>> ELSE << >>
<1>5. then \in Seq(Instruction) /\ NoBus(then)
  <2>1. /\ <<Do("set_device")>> \in Seq(Instruction) /\ NoBus(<<Do("set_device")>>)
        /\ << >> \in Seq(Instruction) /\ NoBus(<< >>)
    BY Bodies DEF Operations
  <2> QED BY <2>1
<1>6. first \in Seq(Instruction)
  BY ProgramTypes
<1>7. todo = first \o then
  BY <1>4 DEF Modules
<1>8. todo \in Seq(Instruction)
  BY <1>5, <1>6, <1>7, Concatenations
<1>9. BusSound
  <2>1. CASE "bus_ps2" \in built
    <3>1. first = BusProgram /\ Len(first) = 11
      BY <2>1, ProgramTypes
    <3> HIDE DEF first, then
    <3>2. /\ Len(todo) = 11 + Len(then) /\ Len(then) \in Nat
          /\ \A i \in 1 .. 11 : todo[i] = BusProgram[i]
          /\ \A i \in 12 .. 11 + Len(then) : todo[i] = then[i - 11]
      <4>1. /\ Len(first \o then) = Len(first) + Len(then) /\ Len(then) \in Nat
            /\ \A i \in 1 .. Len(first) : (first \o then)[i] = first[i]
            /\ \A i \in Len(first) + 1 .. Len(first) + Len(then) :
                 (first \o then)[i] = then[i - Len(first)]
        BY <1>5, <1>6, Concatenations
      <4> QED BY <1>7, <3>1, <4>1, SMTT(30)
    <3>3. BusFrom(1, todo)
      <4>1. \A i \in 1 .. 12 - 1 : todo[i] = BusProgram[i + 1 - 1]
        BY <3>2
      <4>2. ASSUME NEW i \in 13 - 1 .. Len(todo) PROVE todo[i].op # "initialized"
        <5>1. i \in 12 .. 11 + Len(then) /\ i - 11 \in 1 .. Len(then)
          BY <3>2
        <5> QED BY <1>5, <3>2, <5>1 DEF NoBus
      <4>3. Len(todo) >= 12 - 1
        BY <3>2
      <4> QED BY <4>1, <4>2, <4>3 DEF BusFrom
    <3>4. Reached(1)
      BY DEF Reached
    <3> QED BY <1>3, <3>3, <3>4 DEF BusSound, AtBus
  <2>2. CASE "bus_ps2" \notin built
    <3>1. first = << >>
      BY <2>2
    <3>2. todo = then
      <4> HIDE DEF first, then
      <4> QED BY <1>5, <1>7, <3>1, ConcatEmptySeq
    <3> QED BY <1>3, <1>5, <3>2 DEF BusSound
  <2> QED BY <2>1, <2>2
<1>10. Ps2TypeOK
  <2>1. {ticks, start} \subseteq 0 .. TickValues - 1
    BY DEF MachineInit, TimerInit
  <2>2. given = {}
    BY DEF MachineInit, Ps2Init
  <2>3. {isr1, received, initialized, device0, lock, ignore, shift, dropped} \subseteq BOOLEAN
    BY DEF MachineInit, Ps2Init
  <2> QED BY <1>1, <1>8, <2>1, <2>2, <2>3 DEF Ps2TypeOK
<1> QED BY <1>2, <1>3, <1>9, <1>10 DEF BusInv, KernelWaits

(* Before the kernel is entered, its variables are as they were.           *)
LEMMA KernelUntouched ==
  ASSUME BusInv, apc # "kernel", KbcTypeOK', UNCHANGED <<tvars, pvars>>
  PROVE  Ps2TypeOK' /\ BusSound' /\ KernelWaits'
<1>1. UNCHANGED <<ticks, start, todo, isr1, received, initialized, device0, lock, ignore,
                  shift, given, dropped>>
  BY DEF tvars, pvars, bus, keyboard, history
<1>2. ~isr1 /\ ~initialized
  BY DEF BusInv, KernelWaits
<1>3. Ps2TypeOK'
  BY <1>1 DEF BusInv, Ps2TypeOK
<1>4. BusSound'
  <2>1. CASE NoBus(todo)
    BY <1>1, <1>2, <2>1 DEF BusSound, NoBus
  <2>2. ASSUME NEW k \in 1 .. 11, AtBus(k), Reached(k) PROVE BusSound'
    <3>1. k = 1
      BY <1>2, <2>2 DEF Reached
    <3>2. AtBus(1)'
      BY <1>1, <2>2, <3>1 DEF AtBus, BusFrom, At
    <3>3. Reached(1)'
      BY DEF Reached
    <3> QED BY <1>1, <1>2, <3>2, <3>3 DEF BusSound
  <2> QED BY <2>1, <2>2 DEF BusInv, BusSound
<1> QED BY <1>1, <1>2, <1>3, <1>4 DEF KernelWaits

LEMMA BusInvStep ==
  ASSUME BusInv, [MachineNext]_mvars
  PROVE  BusInv'
<1>1. KbcTypeOK /\ Ps2TypeOK /\ A20Sound /\ ResetSound /\ BusSound
  BY DEF BusInv, Ps2TypeOK
<1>2. CASE Loading
  <2>1. apc # "kernel" /\ ~ctl.reset /\ UNCHANGED <<tvars, pvars>>
    BY <1>2 DEF Loading
  <2>2. KbcTypeOK' /\ A20Sound' /\ ResetSound'
    BY <1>1, <1>2, A20Steps, HardwareSound DEF Loading
  <2>3. Ps2TypeOK' /\ BusSound' /\ KernelWaits'
    BY <2>1, <2>2, KernelUntouched
  <2> QED BY <2>2, <2>3 DEF BusInv
<1>3. CASE Resetting
  <2>1. ctl.reset /\ apc # "kernel" /\ UNCHANGED <<tvars, pvars>>
    BY <1>1, <1>3 DEF Resetting, Restart, ResetSound, InMethod
  <2>2. KbcTypeOK'
    <3>1. ibf' \in InBuffer
      BY <1>3, WriteTypes DEF Resetting, Restart
    <3>2. obf' \in OutBuffer /\ irq1' \in BOOLEAN
      BY <1>3, ByteTypes DEF Resetting, Restart, OutBuffer
    <3>3. ctl' \in Controller
      BY <1>1, <1>3 DEF Resetting, Restart, KbcTypeOK, Controller
    <3>4. kbd' \in Keyboard
      <4>1. kbd' = [kbd EXCEPT !.wire = << >>] /\ kbd \in Keyboard /\ << >> \in Seq(OutBytes)
        BY <1>1, <1>3 DEF Resetting, Restart, KbcTypeOK
      <4> QED BY <4>1 DEF Keyboard
    <3> QED BY <3>1, <3>2, <3>3, <3>4 DEF KbcTypeOK
  <2>3. A20Sound' /\ ResetSound'
    BY <1>1, <1>3 DEF Resetting, Restart, KbcTypeOK, Controller, A20Sound, ResetSound, InMethod,
                      A20Labels, OutBytes, NoWrite
  <2>4. Ps2TypeOK' /\ BusSound' /\ KernelWaits'
    BY <2>1, <2>2, KernelUntouched
  <2> QED BY <2>3, <2>4 DEF BusInv
<1>4. CASE Running
  <2>1. apc = "kernel" /\ ~ctl.reset /\ UNCHANGED avars /\ Ps2Next
    BY <1>4 DEF Running
  <2>2. Ps2TypeOK' /\ BusSound'
    BY <1>1, <2>1, MainTypes, InterruptTypes, DeviceTypes, MainSound, OthersSound
       DEF Ps2Next, Kernel
  <2>3. A20Sound' /\ ResetSound'
    <3>1. CASE Main
      <4>1. UNCHANGED ctl /\ (ibf' = ibf \/ ibf'.byte # "reset")
        BY <1>1, <3>1, MainWrites
      <4> QED BY <1>1, <2>1, <4>1 DEF A20Sound, ResetSound, InMethod, avars
    <3>2. CASE TickInterrupt \/ Interrupt1
      BY <1>1, <2>1, <3>2 DEF TickInterrupt, Interrupt1, kvars, A20Sound, ResetSound, InMethod,
                              avars
    <3>3. CASE Devices \/ Typing
      BY <1>1, <2>1, <3>3, HardwareSound DEF Devices, Typing
    <3> QED BY <2>1, <3>1, <3>2, <3>3 DEF Ps2Next, Kernel
  <2>4. KernelWaits'
    BY <2>1 DEF KernelWaits, avars
  <2> QED BY <2>2, <2>3, <2>4 DEF BusInv
<1>5. CASE UNCHANGED mvars
  <2>1. UNCHANGED <<ticks, start, ibf, obf, irq1, ctl, kbd, todo, isr1, received, initialized,
                    device0, lock, ignore, shift, given, dropped, apc, outs, port>>
    BY <1>5 DEF mvars, vars, avars, tvars, kvars, pvars, bus, keyboard, history
  <2>2. Ps2TypeOK' /\ A20Sound' /\ ResetSound' /\ KernelWaits'
    BY <1>1, <2>1 DEF BusInv, Ps2TypeOK, KbcTypeOK, A20Sound, ResetSound, InMethod, KernelWaits
  <2>3. BusSound'
    <3>1. NoBus(todo)' = NoBus(todo) /\ Ready' = Ready /\ Announced' = Announced
      BY <2>1 DEF NoBus, Ready, Announced
    <3>2. \A k \in 1 .. 11 : AtBus(k)' = AtBus(k)
      BY <2>1 DEF AtBus, BusFrom, At
    <3>3. \A k \in 1 .. 11 : Reached(k)' = Reached(k)
      BY <2>1, <3>1 DEF Reached
    <3> QED BY <1>1, <2>1, <3>1, <3>2, <3>3 DEF BusInv, BusSound
  <2> QED BY <2>2, <2>3 DEF BusInv
<1> QED BY <1>2, <1>3, <1>4, <1>5 DEF MachineNext

(* What is known of the controller and of the programs that use it holds   *)
(* throughout, whatever the loader leaves behind, whatever is typed and    *)
(* whichever modules are built in (a20.asm, bus_ps2.c, keyboard_ps2.c).    *)
THEOREM BusInvariance == MachineSpec => []BusInv
<1>1. MachineInit => BusInv
  BY BusInvInit
<1>2. BusInv /\ [MachineNext]_mvars => BusInv'
  BY BusInvStep
<1> QED BY <1>1, <1>2, PTL DEF MachineSpec

(* Every variable of the kernel and of the controller keeps its type.      *)
THEOREM TypesKept == MachineSpec => []Ps2TypeOK
<1>1. BusInv => Ps2TypeOK
  BY DEF BusInv
<1> QED BY <1>1, BusInvariance, PTL

(* The kernel runs with A20 on, and nothing that the keyboard method has   *)
(* left in the controller resets the machine (stage2.asm:37-44).           *)
THEOREM LineKept == MachineSpec => []LineStaysOn
<1>1. BusInv => LineStaysOn
  BY DEF BusInv, A20Sound, ResetSound, InMethod, LineStaysOn
<1> QED BY <1>1, BusInvariance, PTL

(* Once the bus is initialised, no byte stays unannounced in the output    *)
(* buffer, where it would block the keyboard for ever (bus_ps2.c:42-62).   *)
THEOREM BytesAnnounced == MachineSpec => []ByteIsAnnounced
<1>1. BusInv => ByteIsAnnounced
  BY DEF BusInv, BusSound, Announced, ByteIsAnnounced
<1> QED BY <1>1, BusInvariance, PTL

-----------------------------------------------------------------------------
(* The setup program and its tails.                                        *)

LEMMA SetupInstructions ==
  /\ Len(SetupProgram) = 16
  /\ \A k \in 1 .. 16 :
       LET op == SetupProgram[k].op IN
         /\ op \in {"lock", "cmd", "data", "release", "empty", "empty10", "delay", "read",
                    "listen"}
         /\ op = "lock" => k \in {1, 5}
         /\ op \in {"cmd", "data"} => k \in {2, 3, 7, 8, 10}
         /\ op = "cmd" <=> k = 2
         /\ op = "release" => k \in {4, 15}
         /\ op \in {"empty", "empty10"} => k \in {6, 9, 14}
         /\ op \in {"delay", "read"} => k \in {11, 12, 13}
         /\ op = "listen" => k = 16
  /\ SetupProgram[2].arg = "ae" /\ SetupProgram[3].arg = "00" /\ SetupProgram[7].arg = "f0"
  /\ SetupProgram[8].arg = "01" /\ SetupProgram[10].arg = "f4"
BY DEF SetupProgram, Do, Cmd, Data, ReadMain, I

LEMMA SetupWhole == SetupFrom(1, SetupProgram)
<1> DEFINE before == Len(SetupProgram) - (17 - 1)
<1>1. before = 0
  BY SetupInstructions
<1> HIDE DEF before
<1>2. before >= 0 /\ 1 .. before = {}
  BY <1>1
<1>3. ASSUME NEW i \in 1 .. 17 - 1 PROVE SetupProgram[before + i] = SetupProgram[1 - 1 + i]
  <2>1. before + i = 1 - 1 + i
    BY <1>1
  <2> QED BY <2>1
<1>4. /\ before >= 0 /\ \A i \in 1 .. before : SetupProgram[i].op \in WaitOps
      /\ \A i \in 1 .. 17 - 1 : SetupProgram[before + i] = SetupProgram[1 - 1 + i]
  BY <1>2, <1>3
<1> QED BY <1>4 DEF SetupFrom, before

LEMMA SetupParts ==
  ASSUME NEW k \in 1 .. 17, NEW s \in Seq(Instruction), SetupFrom(k, s)
  PROVE  LET before == Len(s) - (17 - k) IN
           /\ Len(s) \in Nat /\ before >= 0 /\ \A i \in 1 .. before : s[i].op \in WaitOps
           /\ \A i \in 1 .. 17 - k : s[before + i] = SetupProgram[k - 1 + i]
<1>1. Len(s) \in Nat
  BY LenProperties
<1> QED BY <1>1 DEF SetupFrom

LEMMA SetupHead ==
  ASSUME NEW k \in 1 .. 17, NEW s \in Seq(Instruction), SetupFrom(k, s)
  PROVE  /\ Len(s) \in Nat /\ Len(s) >= 17 - k
         /\ Len(s) > 17 - k => s # << >> /\ Head(s).op \in WaitOps /\ SetupFrom(k, Tail(s))
         /\ Len(s) = 17 - k /\ k < 17 =>
              s # << >> /\ Head(s) = SetupProgram[k] /\ SetupFrom(k + 1, Tail(s))
<1> DEFINE before == Len(s) - (17 - k)
<1>1. /\ Len(s) \in Nat /\ before >= 0 /\ \A i \in 1 .. before : s[i].op \in WaitOps
      /\ \A i \in 1 .. 17 - k : s[before + i] = SetupProgram[k - 1 + i]
  BY SetupParts
<1>2. ASSUME s # << >>
      PROVE  /\ Len(Tail(s)) = Len(s) - 1 /\ Head(s) = s[1]
             /\ \A i \in 1 .. Len(s) - 1 : Tail(s)[i] = s[i + 1]
  BY <1>2, Tails
<1>3. ASSUME Len(s) > 17 - k
      PROVE  s # << >> /\ Head(s).op \in WaitOps /\ SetupFrom(k, Tail(s))
  <2>1. s # << >> /\ before >= 1
    BY <1>1, <1>3
  <2>2. Head(s).op \in WaitOps
    BY <1>1, <1>2, <2>1
  <2>3. Len(Tail(s)) - (17 - k) = before - 1 /\ before - 1 >= 0
    BY <1>1, <1>2, <2>1
  <2>4. ASSUME NEW i \in 1 .. before - 1 PROVE Tail(s)[i].op \in WaitOps
    <3>1. i \in 1 .. Len(s) - 1 /\ i + 1 \in 1 .. before
      BY <1>1
    <3> QED BY <1>1, <1>2, <2>1, <3>1
  <2>5. ASSUME NEW i \in 1 .. 17 - k PROVE Tail(s)[before - 1 + i] = SetupProgram[k - 1 + i]
    <3>1. before - 1 + i \in 1 .. Len(s) - 1 /\ (before - 1 + i) + 1 = before + i
      BY <1>1, <2>1
    <3> QED BY <1>1, <1>2, <2>1, <3>1
  <2>6. SetupFrom(k, Tail(s))
    BY <2>3, <2>4, <2>5 DEF SetupFrom
  <2> QED BY <2>1, <2>2, <2>6
<1>4. ASSUME Len(s) = 17 - k, k < 17
      PROVE  s # << >> /\ Head(s) = SetupProgram[k] /\ SetupFrom(k + 1, Tail(s))
  <2>1. s # << >> /\ before = 0
    BY <1>1, <1>4
  <2>2. 1 \in 1 .. 17 - k /\ before + 1 = 1 /\ k - 1 + 1 = k
    BY <1>4, <2>1
  <2>3. Head(s) = SetupProgram[k]
    BY <1>1, <1>2, <2>1, <2>2
  <2>4. Len(Tail(s)) - (17 - (k + 1)) = 0
    BY <1>1, <1>2, <1>4, <2>1
  <2>5. ASSUME NEW i \in 1 .. 17 - (k + 1)
        PROVE  Tail(s)[0 + i] = SetupProgram[(k + 1) - 1 + i]
    <3>1. i \in 1 .. Len(s) - 1 /\ i + 1 \in 1 .. 17 - k /\ before + (i + 1) = i + 1
      BY <1>4, <2>1
    <3>2. k - 1 + (i + 1) = (k + 1) - 1 + i /\ 0 + i = i
      OBVIOUS
    <3>3. Tail(s)[i] = s[i + 1]
      BY <1>2, <2>1, <3>1
    <3>4. s[before + (i + 1)] = SetupProgram[k - 1 + (i + 1)]
      BY <1>1, <3>1
    <3> HIDE DEF before
    <3> QED BY <3>1, <3>2, <3>3, <3>4
  <2>6. SetupFrom(k + 1, Tail(s))
    <3> DEFINE left == Len(Tail(s)) - (17 - (k + 1))
    <3>1. left = 0
      BY <2>4
    <3>2. left >= 0 /\ \A i \in 1 .. left : Tail(s)[i].op \in WaitOps
      BY <3>1
    <3>3. \A i \in 1 .. 17 - (k + 1) : Tail(s)[left + i] = SetupProgram[(k + 1) - 1 + i]
      BY <2>5, <3>1
    <3> QED BY <3>2, <3>3 DEF SetupFrom
  <2> QED BY <2>1, <2>3, <2>6
<1> QED BY <1>1, <1>3, <1>4

LEMMA SetupPush ==
  ASSUME NEW k \in 1 .. 17, NEW s \in Seq(Instruction), SetupFrom(k, s),
         NEW b \in Seq(Instruction), \A i \in 1 .. Len(b) : b[i].op \in WaitOps
  PROVE  SetupFrom(k, b \o s)
<1> DEFINE before == Len(s) - (17 - k)
           t      == b \o s
<1>1. /\ Len(s) \in Nat /\ before >= 0 /\ \A i \in 1 .. before : s[i].op \in WaitOps
      /\ \A i \in 1 .. 17 - k : s[before + i] = SetupProgram[k - 1 + i]
  BY SetupParts
<1>2. /\ Len(t) = Len(b) + Len(s) /\ Len(b) \in Nat
      /\ \A i \in 1 .. Len(b) : t[i] = b[i]
      /\ \A i \in Len(b) + 1 .. Len(b) + Len(s) : t[i] = s[i - Len(b)]
  BY Concatenations
<1>3. Len(t) - (17 - k) = Len(b) + before /\ Len(b) + before >= 0
  BY <1>1, <1>2
<1>4. ASSUME NEW i \in 1 .. Len(b) + before PROVE t[i].op \in WaitOps
  <2>1. CASE i <= Len(b)
    BY <1>2, <2>1
  <2>2. CASE i > Len(b)
    <3>1. i \in Len(b) + 1 .. Len(b) + Len(s) /\ i - Len(b) \in 1 .. before
      BY <1>1, <1>2, <2>2
    <3> QED BY <1>1, <1>2, <3>1
  <2> QED BY <1>2, <2>1, <2>2
<1>5. ASSUME NEW i \in 1 .. 17 - k PROVE t[Len(b) + before + i] = SetupProgram[k - 1 + i]
  <2>1. /\ Len(b) + before + i \in Len(b) + 1 .. Len(b) + Len(s)
        /\ (Len(b) + before + i) - Len(b) = before + i
    BY <1>1, <1>2
  <2> QED BY <1>1, <1>2, <2>1
<1> HIDE DEF t
<1>6. SetupFrom(k, t)
  BY <1>3, <1>4, <1>5 DEF SetupFrom
<1> QED BY <1>6 DEF t

-----------------------------------------------------------------------------
(* The setup moves on.                                                     *)

(* No action of the main program takes back what has been initialised, and *)
(* only three of them change what the setup relies on besides ibf.         *)
LEMMA MainFrame ==
  ASSUME Ps2TypeOK, Main
  PROVE  /\ device0 => device0' /\ (initialized => initialized')
         /\ UNCHANGED device0 \/ SetDevice
         /\ UNCHANGED initialized \/ SetInitialized
         /\ UNCHANGED ignore \/ Listen
         /\ UNCHANGED lock \/ Lock \/ Release
         /\ UNCHANGED ibf \/ WriteByte
BY DEF Ps2TypeOK, Main, IsrSet, WriteByte, Drain, In60, SetInitialized, SetDevice, Lock,
       Release, Poll, Clear, Empty, Delay, Wait, Listen, bus, keyboard, kvars

(* The actions of a delay and of a read put only such instructions in      *)
(* front of what follows.                                                  *)
LEMMA WaitBody ==
  ASSUME Ps2TypeOK, todo # << >>, Poll \/ Clear \/ Delay \/ Wait
  PROVE  \E b \in Seq(Instruction) : /\ \A i \in 1 .. Len(b) : b[i].op \in WaitOps
                                     /\ todo' = b \o Tail(todo)
<1>1. CASE Clear \/ Wait
  <2>1. todo' = << >> \o Tail(todo)
    BY <1>1 DEF Clear, Wait, Done, Then
  <2>2. << >> \in Seq(Instruction) /\ \A i \in 1 .. Len(<< >>) : << >>[i].op \in WaitOps
    BY EmptySeq
  <2> QED BY <2>1, <2>2
<1>2. CASE Delay
  <2> DEFINE b == <<Do("wait")>>
  <2>1. b \in Seq(Instruction) /\ Len(b) = 1 /\ b[1].op = "wait"
    BY Bodies DEF Operations, Do, I
  <2>2. todo' = b \o Tail(todo)
    BY <1>2 DEF Delay, Then
  <2> HIDE DEF b
  <2> QED BY <2>1, <2>2, SMTT(30) DEF WaitOps
<1>3. CASE Poll
  <2> DEFINE n == Head(todo).n
  <2>1. n \in Nat
    <3>1. Head(todo) \in Instruction
      BY Tails DEF Ps2TypeOK
    <3> QED BY <3>1 DEF Instruction
  <2>2. CASE n > 0 /\ ~received
    <3> DEFINE b == <<Do("delay"), I("read", "none", n - 1)>>
    <3>1. n - 1 \in Nat
      BY <2>1, <2>2
    <3>2. b \in Seq(Instruction) /\ Len(b) = 2 /\ b[1].op = "delay" /\ b[2].op = "read"
      BY <3>1, Bodies DEF Do, I
    <3>3. todo' = b \o Tail(todo)
      BY <1>3, <2>2 DEF Poll, Then
    <3>4. ASSUME NEW i \in 1 .. Len(b) PROVE b[i].op \in WaitOps
      <4>1. i = 1 \/ i = 2
        BY <3>2
      <4> QED BY <3>2, <4>1 DEF WaitOps
    <3> HIDE DEF b
    <3> QED BY <3>2, <3>3, <3>4
  <2>3. CASE ~(n > 0 /\ ~received)
    <3> DEFINE b == <<Do("clear")>>
    <3>1. b \in Seq(Instruction) /\ Len(b) = 1 /\ b[1].op = "clear"
      BY Bodies DEF Operations, Do, I
    <3>2. todo' = b \o Tail(todo)
      BY <1>3, <2>3 DEF Poll, Then
    <3> HIDE DEF b
    <3> QED BY <3>1, <3>2, SMTT(30) DEF WaitOps
  <2> QED BY <2>2, <2>3
<1> QED BY <1>1, <1>2, <1>3

LEMMA EmptyBody ==
  ASSUME Ps2TypeOK, Empty
  PROVE  \/ Done
         \/ \E b \in Seq(Instruction) : /\ \A i \in 1 .. Len(b) : b[i].op \in WaitOps
                                        /\ todo' = b \o todo
<1>1. CASE Again(<<ReadMain>>)
  <2> DEFINE b == <<ReadMain>>
  <2>1. b \in Seq(Instruction) /\ Len(b) = 1 /\ b[1].op = "read"
    BY Bodies DEF ReadMain, I
  <2>2. todo' = b \o todo
    BY <1>1 DEF Again
  <2> HIDE DEF b
  <2> QED BY <2>1, <2>2, SMTT(30) DEF WaitOps
<1>2. CASE Again(<<ReadMain, Do("delay")>>)
  <2> DEFINE b == <<ReadMain, Do("delay")>>
  <2>1. b \in Seq(Instruction) /\ Len(b) = 2 /\ b[1].op = "read" /\ b[2].op = "delay"
    BY Bodies DEF ReadMain, Do, I
  <2>2. todo' = b \o todo
    BY <1>2 DEF Again
  <2> HIDE DEF b
  <2> QED BY <2>1, <2>2, SMTT(30) DEF WaitOps
<1> QED BY <1>1, <1>2 DEF Empty

LEMMA SetupMain ==
  ASSUME Ps2TypeOK, Main, device0, initialized,
         NEW k \in 1 .. 17, SetupFrom(k, todo), SetupReached(k)
  PROVE  SetupSound'
<1>1. todo # << >> /\ todo \in Seq(Instruction) /\ Tail(todo) \in Seq(Instruction)
  <2>1. todo # << >> /\ todo \in Seq(Instruction)
    BY MainShape DEF Ps2TypeOK
  <2> QED BY <2>1, Tails
<1>2. k < 17 /\ ignore
  BY <1>1 DEF SetupReached
<1>3. device0' /\ initialized' /\ UNCHANGED <<ctl, kbd>>
  BY MainFrame, MainWrites
<1>4. /\ Len(todo) \in Nat /\ Len(todo) >= 17 - k
      /\ Len(todo) > 17 - k => Head(todo).op \in WaitOps /\ SetupFrom(k, Tail(todo))
      /\ Len(todo) = 17 - k => Head(todo) = SetupProgram[k] /\ SetupFrom(k + 1, Tail(todo))
  BY <1>1, <1>2, SetupHead
<1>5. ASSUME NEW j \in 1 .. 17, SetupFrom(j, todo'), SetupReached(j)'
      PROVE  SetupSound'
  <2>1. SetupFrom(j, todo)'
    BY <1>5 DEF SetupFrom
  <2> QED BY <1>3, <1>5, <2>1 DEF SetupSound
<1>6. CASE Poll \/ Clear \/ Delay \/ Wait
  <2>1. PICK b \in Seq(Instruction) : /\ \A i \in 1 .. Len(b) : b[i].op \in WaitOps
                                      /\ todo' = b \o Tail(todo)
    BY <1>1, <1>6, WaitBody
  <2>2. UNCHANGED <<ibf, lock, ignore>>
    BY <1>6 DEF Poll, Clear, Delay, Wait, bus, keyboard, kvars
  <2>3. CASE Len(todo) > 17 - k
    <3>1. SetupFrom(k, todo')
      BY <1>1, <1>4, <2>1, <2>3, SetupPush
    <3>2. SetupReached(k)'
      BY <1>2, <1>3, <2>2 DEF SetupReached, Connected, Sent
    <3> QED BY <1>5, <3>1, <3>2
  <2>4. CASE Len(todo) = 17 - k
    <3>1. k \in {11, 12, 13}
      <4>1. Head(todo).op \in WaitOps
        <5>1. At("read") \/ At("clear") \/ At("delay") \/ At("wait")
          BY <1>6 DEF Poll, Clear, Delay, Wait
        <5> QED BY <5>1 DEF At, WaitOps
      <4>2. k \in 1 .. 16 /\ SetupProgram[k].op \in WaitOps
        BY <1>2, <1>4, <2>4, <4>1
      <4>3. /\ SetupProgram[k].op \notin {"clear", "wait"}
            /\ SetupProgram[k].op \in {"delay", "read"} => k \in {11, 12, 13}
        BY <4>2, SetupInstructions
      <4> QED BY <4>2, <4>3 DEF WaitOps
    <3>2. SetupFrom(k + 1, todo')
      <4>1. k + 1 \in 1 .. 17 /\ SetupFrom(k + 1, Tail(todo))
        BY <1>4, <2>4, <3>1
      <4> QED BY <1>1, <2>1, <4>1, SetupPush
    <3>3. SetupReached(k + 1)'
      BY <1>2, <1>3, <2>2, <3>1 DEF SetupReached, Connected, Sent
    <3> QED BY <1>5, <3>1, <3>2, <3>3
  <2> QED BY <1>4, <2>3, <2>4
<1>7. CASE ~(Poll \/ Clear \/ Delay \/ Wait)
  <2>1. Len(todo) = 17 - k
    <3>1. Head(todo).op \notin WaitOps
      BY <1>7 DEF Main, IsrSet, WriteByte, Drain, In60, SetInitialized, SetDevice, Lock,
                  Release, Empty, Listen, At, WaitOps
    <3> QED BY <1>4, <3>1
  <2>2. Head(todo) = SetupProgram[k] /\ SetupFrom(k + 1, Tail(todo)) /\ k \in 1 .. 16
    BY <1>2, <1>4, <2>1
  <2>3. ASSUME Done, SetupReached(k + 1)' PROVE SetupSound'
    <3>1. todo' = Tail(todo)
      BY <1>1, <2>3, DoneIsTail
    <3> QED BY <1>5, <2>2, <2>3, <3>1, SMTT(30)
  <2>4. CASE WriteByte
    <3>1. k \in {2, 3, 7, 8, 10} /\ (At("cmd") <=> k = 2)
      BY <2>2, <2>4, SetupInstructions DEF WriteByte, At
    <3>2. Done /\ UNCHANGED <<lock, ignore>> /\ ibf = NoWrite
      BY <2>4 DEF WriteByte, bus, keyboard, InputFull
    <3>3. ibf' = [port |-> IF k = 2 THEN CommandPort ELSE DataPort, byte |-> SetupProgram[k].arg]
      BY <2>2, <2>4, <3>1 DEF WriteByte, Write
    <3>4. ~Sent("00") /\ ~Sent("f0") /\ ~Sent("01") /\ ~Sent("f4")
           /\ ibf # [port |-> CommandPort, byte |-> "ae"]
      BY <3>2 DEF Sent, NoWrite
    <3>5. SetupReached(k + 1)'
      <4>1. CASE k = 2
        BY <1>2, <1>3, <3>2, <3>3, <4>1, SetupInstructions DEF SetupReached
      <4>2. CASE k = 3
        BY <1>2, <1>3, <3>2, <3>3, <3>4, <4>2, SetupInstructions DEF SetupReached, Connected, Sent
      <4>3. CASE k = 7
        BY <1>2, <1>3, <3>2, <3>3, <4>3, SetupInstructions DEF SetupReached, Connected, Sent
      <4>4. CASE k = 8
        BY <1>2, <1>3, <3>2, <3>3, <3>4, <4>4, SetupInstructions DEF SetupReached, Connected, Sent
      <4>5. CASE k = 10
        BY <1>2, <1>3, <3>2, <3>3, <3>4, <4>5, SetupInstructions DEF SetupReached, Connected, Sent
      <4> QED BY <3>1, <4>1, <4>2, <4>3, <4>4, <4>5
    <3> QED BY <2>3, <3>2, <3>5
  <2>5. CASE Lock
    <3>1. k \in {1, 5}
      BY <2>2, <2>5, SetupInstructions DEF Lock, At
    <3>2. Done /\ UNCHANGED <<ibf, ignore>>
      BY <2>5 DEF Lock, kvars, keyboard
    <3>3. SetupReached(k + 1)'
      BY <1>2, <1>3, <3>1, <3>2 DEF SetupReached, Connected, Sent
    <3> QED BY <2>3, <3>2, <3>3
  <2>6. CASE Release
    <3>1. k \in {4, 15}
      BY <2>2, <2>6, SetupInstructions DEF Release, At
    <3>2. Done /\ UNCHANGED <<ibf, ignore>> /\ ~lock'
      BY <2>6 DEF Release, kvars, keyboard
    <3>3. SetupReached(k + 1)'
      BY <1>2, <1>3, <3>1, <3>2 DEF SetupReached, Connected, Sent
    <3> QED BY <2>3, <3>2, <3>3
  <2>7. CASE Empty
    <3>1. k \in {6, 9, 14}
      BY <2>2, <2>7, SetupInstructions DEF Empty, At
    <3>2. UNCHANGED <<ibf, ignore, lock>>
      BY <2>7 DEF Empty, kvars, bus, keyboard
    <3>3. CASE Done
      <4>1. SetupReached(k + 1)'
        BY <1>2, <1>3, <3>1, <3>2 DEF SetupReached, Connected, Sent
      <4> QED BY <2>3, <3>3, <4>1
    <3>4. CASE ~Done
      <4>1. PICK b \in Seq(Instruction) : /\ \A i \in 1 .. Len(b) : b[i].op \in WaitOps
                                          /\ todo' = b \o todo
        BY <2>7, <3>4, EmptyBody
      <4>2. SetupFrom(k, todo')
        BY <1>1, <4>1, SetupPush
      <4>3. SetupReached(k)'
        BY <1>2, <1>3, <3>1, <3>2 DEF SetupReached, Connected, Sent
      <4> QED BY <1>5, <4>2, <4>3
    <3> QED BY <3>3, <3>4
  <2>8. CASE Listen
    <3>1. k = 16
      BY <2>2, <2>8, SetupInstructions DEF Listen, At
    <3>2. Done /\ UNCHANGED <<ibf, lock>> /\ ~ignore'
      BY <2>8 DEF Listen, kvars, bus
    <3>3. todo' = << >>
      <4>1. todo' = Tail(todo) /\ Tail(todo) \in Seq(Instruction) /\ Len(Tail(todo)) = 0
        BY <1>1, <2>1, <3>1, <3>2, DoneIsTail, Tails
      <4> QED BY <4>1, EmptySeq
    <3>4. SetupReached(17)'
      BY <1>3, <3>1, <3>2, <3>3 DEF SetupReached, Connected, Sent
    <3> QED BY <2>3, <3>1, <3>2, <3>4
  <2>9. ~(IsrSet \/ Drain \/ In60 \/ SetInitialized \/ SetDevice)
    BY <2>2, SetupInstructions DEF IsrSet, Drain, In60, SetInitialized, SetDevice, At
  <2> QED BY <1>7, <2>4, <2>5, <2>6, <2>7, <2>8, <2>9 DEF Main
<1> QED BY <1>6, <1>7

(* The controller and the keyboard accept what the setup has written.      *)
LEMMA SetupHardware ==
  ASSUME KbcTypeOK, Hardware, NEW k \in 1 .. 17, SetupReached(k), UNCHANGED <<lock, ignore, todo>>
  PROVE  SetupReached(k)'
<1> USE DEF SetupReached, Sent, Connected
<1>1. CASE AcceptCommand
  <2>1. ibf.port = CommandPort /\ ibf' = NoWrite
    BY <1>1 DEF AcceptCommand
  <2>2. NoWrite.port = 0
    BY DEF NoWrite
  <2>3. ASSUME k >= 4 PROVE FALSE
    <3>1. ibf # NoWrite /\ ~Sent("00") /\ ~Sent("f0") /\ ~Sent("01") /\ ~Sent("f4")
      BY <2>1, <2>2
    <3>2. k \in 4 .. 7 \/ k = 8 \/ k \in {9, 10} \/ k >= 11
      BY <2>3
    <3> HIDE DEF Sent, Connected
    <3> QED BY <3>1, <3>2
  <2>4. ASSUME k = 3 PROVE ctl'.expects = "none" /\ ctl'.port1
    <3>1. ibf.byte = "ae"
      <4>1. ibf # NoWrite
        BY <2>1, <2>2
      <4> QED BY <2>4, <4>1
    <3>2. DOMAIN ctl = {"expects", "int1", "port1", "translate", "a20", "reset"}
      BY DEF KbcTypeOK, Controller
    <3>3. ctl' = [ctl EXCEPT !.expects = "none", !.port1 = TRUE]
      BY <1>1, <3>1 DEF AcceptCommand
    <3> QED BY <3>2, <3>3
  <2>5. ignore' /\ k <= 3
    BY <2>3
  <2>6. CASE k = 3
    BY <2>1, <2>4, <2>5, <2>6
  <2>7. CASE k < 3
    BY <2>5, <2>7
  <2> QED BY <2>5, <2>6, <2>7
<1>2. CASE AcceptConfig \/ AcceptOutPort
  <2>1. ibf.port = DataPort /\ ~Connected
    BY <1>2 DEF AcceptConfig, AcceptOutPort
  <2>2. k < 3
    <3>1. k >= 4 => Connected
      OBVIOUS
    <3>2. k = 3 => ibf.port = CommandPort \/ Connected
      OBVIOUS
    <3> HIDE DEF SetupReached, Connected
    <3> QED BY <2>1, <3>1, <3>2
  <2> QED BY <2>2
<1>3. CASE AcceptKeyboard
  <2>1. ibf.port = DataPort /\ ibf' = NoWrite /\ UNCHANGED ctl
    BY <1>3 DEF AcceptKeyboard
  <2>2. /\ ibf.byte = "f0" => kbd'.argument
        /\ ibf.byte # "f0" => ~kbd'.argument
        /\ ibf.byte = "01" /\ kbd.argument => kbd'.set = 1
        /\ kbd.set = 1 => kbd'.set = 1
    <3>1. PICK sends \in {kbd.wire, << >>} :
            kbd' = [kbd EXCEPT
              !.wire     = Append(sends, Answer),
              !.argument = ibf.byte = "f0",
              !.set      = IF kbd.argument /\ ibf.byte = "01" THEN 1 ELSE @,
              !.scanning = @ \/ ibf.byte = "f4"]
      BY <1>3, ZenonT(60) DEF AcceptKeyboard
    <3>2. /\ kbd'.argument = (ibf.byte = "f0")
          /\ kbd'.set = IF kbd.argument /\ ibf.byte = "01" THEN 1 ELSE kbd.set
      BY <3>1 DEF KbcTypeOK, Keyboard
    <3> QED BY <3>2
  <2>3. k # 3
    BY <2>1 DEF NoWrite
  <2>4. ibf # NoWrite
    BY <2>1 DEF NoWrite
  <2>5. CASE k < 8
    BY <2>1, <2>3, <2>5
  <2>6. CASE k = 8
    BY <2>1, <2>2, <2>4, <2>6
  <2>7. CASE k \in {9, 10}
    BY <2>1, <2>2, <2>4, <2>7
  <2>8. CASE k >= 11
    BY <2>1, <2>2, <2>4, <2>8
  <2> QED BY <2>5, <2>6, <2>7, <2>8
<1>4. CASE Deliver
  <2>1. UNCHANGED <<ibf, ctl>> /\ kbd'.argument = kbd.argument /\ kbd'.set = kbd.set
    BY <1>4 DEF Deliver, KbcTypeOK, Keyboard
  <2> QED BY <2>1
<1> QED BY <1>1, <1>2, <1>3, <1>4 DEF Hardware

LEMMA SetupOthers ==
  ASSUME Ps2TypeOK, SetupSound, TickInterrupt \/ Interrupt1 \/ Devices \/ Typing
  PROVE  SetupSound'
<1>1. UNCHANGED <<todo, device0, initialized, lock, ignore>>
  BY DEF TickInterrupt, Interrupt1, Devices, Typing, pvars, bus, keyboard
<1>2. CASE ~device0 /\ ignore /\ DeviceLast(todo)
  BY <1>1, <1>2 DEF SetupSound, DeviceLast
<1>3. CASE device0 /\ ~initialized /\ ignore /\ todo = << >>
  BY <1>1, <1>3 DEF SetupSound
<1>4. ASSUME device0, initialized, NEW k \in 1 .. 17, SetupFrom(k, todo), SetupReached(k)
      PROVE  SetupSound'
  <2>1. SetupReached(k)'
    <3>1. CASE Devices
      BY <1>1, <1>4, <3>1, SetupHardware DEF Devices, Ps2TypeOK
    <3>2. CASE TickInterrupt \/ Interrupt1 \/ Typing
      <4>1. UNCHANGED <<ibf, ctl>> /\ kbd'.argument = kbd.argument /\ kbd'.set = kbd.set
        <5>1. CASE TickInterrupt \/ Interrupt1
          BY <5>1 DEF TickInterrupt, Interrupt1, kvars
        <5>2. CASE Typing
          BY <5>2, UserEffects DEF Typing, Ps2TypeOK
        <5> QED BY <3>2, <5>1, <5>2
      <4> QED BY <1>1, <1>4, <4>1 DEF SetupReached, Connected, Sent
    <3> QED BY <3>1, <3>2
  <2>2. SetupFrom(k, todo)'
    BY <1>1, <1>4 DEF SetupFrom
  <2> QED BY <1>1, <1>4, <2>1, <2>2 DEF SetupSound
<1> QED BY <1>2, <1>3, <1>4 DEF SetupSound

-----------------------------------------------------------------------------
(* Before the setup, and how it begins.                                    *)

LEMMA DeviceLastParts ==
  ASSUME NEW s \in Seq(Instruction), DeviceLast(s), s # << >>
  PROVE  /\ DeviceLast(Tail(s)) /\ Head(s).op \in BusOps
         /\ Head(s).op = "set_device" => Tail(s) = << >>
         /\ \A x \in Instruction : x.op = "in60" => DeviceLast(<<x>> \o s)
<1>1. /\ Tail(s) \in Seq(Instruction) /\ Len(Tail(s)) = Len(s) - 1 /\ Len(s) \in Nat \ {0}
      /\ Head(s) = s[1] /\ \A i \in 1 .. Len(s) - 1 : Tail(s)[i] = s[i + 1]
  BY Tails
<1>2. DeviceLast(Tail(s))
  <2>1. ASSUME NEW i \in 1 .. Len(Tail(s))
        PROVE  /\ Tail(s)[i].op \in BusOps
               /\ Tail(s)[i].op = "set_device" => i = Len(Tail(s))
    <3>1. i \in 1 .. Len(s) - 1 /\ i + 1 \in 1 .. Len(s)
      BY <1>1
    <3>2. s[i + 1].op \in BusOps /\ (s[i + 1].op = "set_device" => i + 1 = Len(s))
      BY <3>1 DEF DeviceLast
    <3>3. Tail(s)[i] = s[i + 1]
      BY <1>1, <3>1
    <3>4. i + 1 = Len(s) => i = Len(Tail(s))
      <4> DEFINE n == Len(s)
                 m == Len(Tail(s))
      <4>1. m = n - 1 /\ n \in Int /\ i \in Int
        BY <1>1
      <4> HIDE DEF n, m
      <4>2. i + 1 = n => i = m
        BY <4>1
      <4> QED BY <4>2 DEF n, m
    <3> QED BY <3>2, <3>3, <3>4
  <2> QED BY <2>1 DEF DeviceLast
<1>3. 1 \in 1 .. Len(s)
  BY <1>1
<1>4. Head(s).op \in BusOps /\ (Head(s).op = "set_device" => Len(s) = 1)
  BY <1>1, <1>3 DEF DeviceLast
<1>5. ASSUME Len(s) = 1 PROVE Tail(s) = << >>
  <2>1. Len(Tail(s)) = 0
    BY <1>1, <1>5
  <2> QED BY <1>1, <2>1, EmptySeq
<1>6. ASSUME NEW x \in Instruction, x.op = "in60" PROVE DeviceLast(<<x>> \o s)
  <2> DEFINE t == <<x>> \o s
  <2>1. <<x>> \in Seq(Instruction) /\ Len(<<x>>) = 1 /\ <<x>>[1] = x
    OBVIOUS
  <2>2. /\ Len(t) = 1 + Len(s) /\ t[1] = x
        /\ \A i \in 2 .. 1 + Len(s) : t[i] = s[i - 1]
    BY <1>1, <2>1, Concatenations
  <2>3. ASSUME NEW i \in 1 .. Len(t)
        PROVE  t[i].op \in BusOps /\ (t[i].op = "set_device" => i = Len(t))
    <3>1. CASE i = 1
      BY <1>6, <2>2, <3>1 DEF BusOps
    <3>2. CASE i # 1
      <4>1. i \in 2 .. 1 + Len(s) /\ i - 1 \in 1 .. Len(s)
        BY <1>1, <2>2, <3>2
      <4>2. s[i - 1].op \in BusOps /\ (s[i - 1].op = "set_device" => i - 1 = Len(s))
        BY <4>1 DEF DeviceLast
      <4> QED BY <1>1, <2>2, <4>1, <4>2
    <3> QED BY <3>1, <3>2
  <2> HIDE DEF t
  <2>4. DeviceLast(t)
    BY <2>3 DEF DeviceLast
  <2> QED BY <2>4 DEF t
<1> QED BY <1>2, <1>4, <1>5, <1>6

LEMMA SetupBegins ==
  ASSUME Ps2TypeOK, Main, ~device0, ignore, DeviceLast(todo)
  PROVE  SetupSound'
<1>1. todo # << >> /\ todo \in Seq(Instruction)
  BY MainShape DEF Ps2TypeOK
<1>2. /\ DeviceLast(Tail(todo)) /\ Head(todo).op \in BusOps
      /\ Head(todo).op = "set_device" => Tail(todo) = << >>
      /\ \A x \in Instruction : x.op = "in60" => DeviceLast(<<x>> \o todo)
  BY <1>1, DeviceLastParts
<1>3. ~Listen
  BY <1>2 DEF Listen, At, BusOps
<1>4. ignore'
  BY <1>3, MainFrame
<1>5. CASE SetDevice
  <2>1. device0' /\ UNCHANGED <<initialized, lock>> /\ Tail(todo) = << >>
    BY <1>2, <1>5 DEF SetDevice, At
  <2>2. CASE initialized
    <3>1. todo' = SetupProgram
      BY <1>5, <2>1, <2>2, ProgramTypes, ConcatEmptySeq DEF SetDevice, Then
    <3>2. SetupFrom(1, SetupProgram)
      BY SetupWhole
    <3>3. SetupFrom(1, todo)'
      BY <3>1, <3>2
    <3>4. SetupReached(1)'
      BY <1>4 DEF SetupReached
    <3> QED BY <2>1, <2>2, <3>3, <3>4 DEF SetupSound
  <2>3. CASE ~initialized
    <3>1. todo' = << >>
      BY <1>5, <2>1, <2>3, EmptySeq, ConcatEmptySeq DEF SetDevice, Then
    <3> QED BY <1>4, <2>1, <2>3, <3>1 DEF SetupSound
  <2> QED BY <2>2, <2>3
<1>6. CASE ~SetDevice
  <2>1. ~device0'
    BY <1>6, MainFrame
  <2>2. DeviceLast(todo')
    <3>1. CASE Done
      BY <1>1, <1>2, <3>1, DoneIsTail
    <3>2. CASE Again(<<Do("in60")>>)
      <4>1. Do("in60") \in Instruction /\ Do("in60").op = "in60"
        BY InstructionTypes DEF Operations, Do, I
      <4>2. DeviceLast(<<Do("in60")>> \o todo)
        BY <1>2, <4>1
      <4> QED BY <3>2, <4>2 DEF Again
    <3>3. Done \/ Again(<<Do("in60")>>)
      <4>1. ~(Lock \/ Release \/ Poll \/ Clear \/ Empty \/ Delay \/ Wait)
        BY <1>2 DEF Lock, Release, Poll, Clear, Empty, Delay, Wait, At, BusOps
      <4> QED BY <1>3, <1>6, <4>1 DEF Main, IsrSet, WriteByte, Drain, In60, SetInitialized
    <3> QED BY <3>1, <3>2, <3>3
  <2>3. DeviceLast(todo)'
    BY <2>2 DEF DeviceLast
  <2> QED BY <1>4, <2>1, <2>3 DEF SetupSound
<1> QED BY <1>5, <1>6

-----------------------------------------------------------------------------
(* The codes in a queue.                                                   *)

LEMMA CodesTaken ==
  ASSUME NEW s \in Seq(OutBytes), s # << >>, LastUp(s)
  PROVE  /\ LastUp(Tail(s))
         /\ NoCode(s) => NoCode(Tail(s))
         /\ NoCode(Tail(s)) => NoCode(s) \/ (IsCode(Head(s)) /\ Head(s).up)
<1>1. /\ Len(Tail(s)) = Len(s) - 1 /\ Len(s) \in Nat \ {0} /\ Head(s) = s[1]
      /\ \A i \in 1 .. Len(s) - 1 : Tail(s)[i] = s[i + 1]
  BY Tails
<1> DEFINE n == Len(s)
           t == Tail(s)
<1>2. Len(t) = n - 1 /\ n \in Nat /\ n >= 1
  BY <1>1
<1>3. \A i \in 1 .. n - 1 : t[i] = s[i + 1] /\ i + 1 \in 1 .. n
  BY <1>1
<1>4. \A i \in 2 .. n : s[i] = t[i - 1] /\ i - 1 \in 1 .. n - 1
  BY <1>1
<1>5. ASSUME NEW i \in 1 .. n, IsCode(s[i]), \A j \in i + 1 .. n : ~IsCode(s[j]) PROVE s[i].up
  BY <1>5 DEF LastUp
<1> HIDE DEF n, t
<1>6. ASSUME NEW i \in 1 .. n - 1, IsCode(t[i]), \A j \in i + 1 .. n - 1 : ~IsCode(t[j])
      PROVE  t[i].up
  <2>1. i + 1 \in 1 .. n /\ t[i] = s[i + 1]
    BY <1>3
  <2>2. ASSUME NEW j \in (i + 1) + 1 .. n PROVE ~IsCode(s[j])
    <3>1. j \in 2 .. n /\ j - 1 \in i + 1 .. n - 1
      BY <1>2
    <3> QED BY <1>4, <1>6, <3>1
  <2> QED BY <1>5, <1>6, <2>1, <2>2
<1>7. LastUp(t)
  BY <1>2, <1>6 DEF LastUp
<1>8. NoCode(s) => NoCode(t)
  BY <1>2, <1>3 DEF NoCode, n
<1>9. ASSUME NoCode(t) PROVE NoCode(s) \/ (IsCode(s[1]) /\ s[1].up)
  <2>1. \A j \in 2 .. n : ~IsCode(s[j])
    BY <1>2, <1>4, <1>9 DEF NoCode
  <2>2. CASE IsCode(s[1])
    <3>1. 1 \in 1 .. n /\ 1 + 1 = 2
      BY <1>2
    <3> QED BY <1>5, <2>1, <2>2, <3>1
  <2>3. CASE ~IsCode(s[1])
    <3>1. \A j \in 1 .. n : ~IsCode(s[j])
      <4>1. \A j \in 1 .. n : j = 1 \/ j \in 2 .. n
        BY <1>2
      <4> QED BY <2>1, <2>3, <4>1
    <3> QED BY <3>1 DEF NoCode, n
  <2> QED BY <2>2, <2>3
<1> QED BY <1>1, <1>7, <1>8, <1>9 DEF t

(* t has the codes that s has, and maybe a byte more that is none.         *)
LEMMA CodesKept ==
  ASSUME NEW s \in Seq(OutBytes), NEW t \in Seq(OutBytes), LastUp(s),
         NEW d \in {0, 1}, NEW b \in OutBytes, ~IsCode(b), Len(t) \in {Len(s), Len(s) + 1},
         \A i \in 1 .. Len(s) : /\ i + d \in 1 .. Len(t)
                                /\ IsCode(t[i + d]) <=> IsCode(s[i])
                                /\ t[i + d].up = s[i].up,
         \A j \in 1 .. Len(t) : j - d \in 1 .. Len(s) \/ t[j] = b
  PROVE  LastUp(t) /\ (NoCode(t) => NoCode(s))
<1>1. NoCode(t) => NoCode(s)
  BY DEF NoCode
<1>2. Len(s) \in Nat /\ Len(t) \in Nat
  BY LenProperties
<1>3. ASSUME NEW j \in 1 .. Len(t), IsCode(t[j]), \A k \in j + 1 .. Len(t) : ~IsCode(t[k])
      PROVE  t[j].up
  <2> DEFINE i == j - d
  <2>1. i \in 1 .. Len(s)
    BY <1>3, SMTT(30)
  <2>2. i + d = j
    OBVIOUS
  <2>3. IsCode(s[i]) /\ t[j].up = s[i].up
    BY <1>3, <2>1, <2>2
  <2>4. ASSUME NEW k \in i + 1 .. Len(s) PROVE ~IsCode(s[k])
    <3>1. k \in 1 .. Len(s) /\ k + d \in 1 .. Len(t) /\ k + d \in j + 1 .. Len(t)
      <4>1. k \in 1 .. Len(s)
        BY <1>2, <2>1
      <4>2. k + d \in 1 .. Len(t)
        BY <4>1
      <4>3. k + d >= j + 1
        BY <2>1
      <4> QED BY <1>2, <4>1, <4>2, <4>3
    <3> QED BY <1>3, <3>1
  <2> HIDE DEF i
  <2>5. s[i].up
    BY <2>1, <2>3, <2>4 DEF LastUp
  <2> QED BY <2>3, <2>5
<1>4. LastUp(t)
  BY <1>3 DEF LastUp
<1> QED BY <1>1, <1>4

LEMMA CodeAppended ==
  ASSUME NEW s \in Seq(OutBytes), NEW c \in OutBytes, IsCode(c)
  PROVE  ~NoCode(Append(s, c)) /\ (c.up => LastUp(Append(s, c)))
<1> DEFINE t == Append(s, c)
           n == Len(s)
<1>1. n \in Nat /\ Len(t) = n + 1 /\ t[n + 1] = c
  BY AppendProperties, LenProperties
<1> HIDE DEF t, n
<1>2. n + 1 \in 1 .. Len(t)
  BY <1>1
<1>3. ~NoCode(t)
  BY <1>1, <1>2 DEF NoCode
<1>4. ASSUME c.up PROVE LastUp(t)
  <2>1. ASSUME NEW i \in 1 .. Len(t), IsCode(t[i]), \A j \in i + 1 .. Len(t) : ~IsCode(t[j])
        PROVE  t[i].up
    <3>1. CASE i = n + 1
      BY <1>1, <1>4, <3>1
    <3>2. CASE i # n + 1
      <4>1. n + 1 \in i + 1 .. Len(t)
        BY <1>1, <3>2
      <4> QED BY <1>1, <2>1, <4>1
    <3> QED BY <3>1, <3>2
  <2> QED BY <2>1 DEF LastUp
<1> QED BY <1>3, <1>4 DEF t

LEMMA NoCodes == ~IsCode(Answer) /\ ~IsCode(PortAnswer)
BY DEF IsCode, Answer, PortAnswer

LEMMA AnswerPushed ==
  ASSUME NEW s \in Seq(OutBytes), NEW b \in OutBytes, ~IsCode(b), LastUp(s)
  PROVE  LastUp(<<b>> \o s) /\ (NoCode(<<b>> \o s) => NoCode(s))
<1> DEFINE t == <<b>> \o s
<1>1. <<b>> \in Seq(OutBytes) /\ Len(<<b>>) = 1 /\ <<b>>[1] = b
  OBVIOUS
<1>2. /\ t \in Seq(OutBytes) /\ Len(t) = 1 + Len(s) /\ Len(s) \in Nat /\ t[1] = b
      /\ \A i \in 2 .. 1 + Len(s) : t[i] = s[i - 1]
  BY <1>1, Concatenations
<1> HIDE DEF t
<1>3. \A i \in 1 .. Len(s) : i + 1 \in 1 .. Len(t) /\ t[i + 1] = s[i]
  BY <1>2
<1>4. \A j \in 1 .. Len(t) : j - 1 \in 1 .. Len(s) \/ t[j] = b
  BY <1>2
<1>5. LastUp(t) /\ (NoCode(t) => NoCode(s))
  BY <1>2, <1>3, <1>4, CodesKept
<1> QED BY <1>5 DEF t

LEMMA AnswerAppended ==
  ASSUME NEW s \in Seq(OutBytes), NEW b \in OutBytes, ~IsCode(b), LastUp(s)
  PROVE  LastUp(Append(s, b)) /\ (NoCode(Append(s, b)) => NoCode(s))
<1> DEFINE t == Append(s, b)
<1>1. /\ t \in Seq(OutBytes) /\ Len(t) = Len(s) + 1 /\ Len(s) \in Nat
      /\ t[Len(s) + 1] = b /\ \A i \in 1 .. Len(s) : t[i] = s[i]
  BY AppendProperties, LenProperties
<1> HIDE DEF t
<1>2. \A i \in 1 .. Len(s) : i + 0 \in 1 .. Len(t) /\ t[i + 0] = s[i]
  BY <1>1
<1>3. \A j \in 1 .. Len(t) : j - 0 \in 1 .. Len(s) \/ t[j] = b
  BY <1>1
<1>4. LastUp(t) /\ (NoCode(t) => NoCode(s))
  BY <1>1, <1>2, <1>3, CodesKept
<1> QED BY <1>4 DEF t

(* Translation makes a code of a code, and leaves everything else.         *)
LEMMA CodeReceived ==
  ASSUME NEW b \in OutBytes
  PROVE  (IsCode(Received(b)) <=> IsCode(b)) /\ Received(b).up = b.up
<1>1. CASE Received(b) = b
  BY <1>1
<1>2. CASE Received(b) # b
  <2>1. b.kind = "raw" /\ Received(b) = [b EXCEPT !.kind = "key"]
    BY <1>2 DEF Received
  <2>2. b \in KeyBytes
    BY <2>1 DEF OutBytes, Answer, PortAnswer
  <2>3. PICK k \in {"key", "raw"}, key \in Shifts, up \in BOOLEAN : b = KeyCode(k, key, up)
    BY <2>2 DEF KeyBytes
  <2>4. Received(b).kind = "key" /\ Received(b).up = b.up
    BY <2>1, <2>3 DEF KeyCode
  <2> QED BY <2>1, <2>4 DEF IsCode
<1> QED BY <1>1, <1>2

LEMMA HeadReceived ==
  ASSUME NEW s \in Seq(OutBytes), s # << >>, LastUp(s)
  PROVE  LET t == <<Received(Head(s))>> \o Tail(s) IN LastUp(t) /\ (NoCode(t) => NoCode(s))
<1> DEFINE r == Received(Head(s))
           t == <<r>> \o Tail(s)
<1>1. /\ Len(Tail(s)) = Len(s) - 1 /\ Len(s) \in Nat \ {0} /\ Head(s) = s[1]
      /\ Head(s) \in OutBytes /\ Tail(s) \in Seq(OutBytes)
      /\ \A i \in 1 .. Len(s) - 1 : Tail(s)[i] = s[i + 1]
  BY Tails
<1>2. r \in OutBytes
  BY <1>1, ByteTypes
<1>3. (IsCode(r) <=> IsCode(s[1])) /\ r.up = s[1].up
  BY <1>1, CodeReceived
<1>4. <<r>> \in Seq(OutBytes) /\ Len(<<r>>) = 1 /\ <<r>>[1] = r
  BY <1>2
<1> HIDE DEF r
<1>5. /\ t \in Seq(OutBytes) /\ Len(t) = 1 + Len(Tail(s)) /\ t[1] = r
      /\ \A i \in 2 .. 1 + Len(Tail(s)) : t[i] = Tail(s)[i - 1]
  BY <1>1, <1>4, Concatenations
<1> HIDE DEF t
<1>6. Len(t) = Len(s)
  <2> DEFINE n == Len(s)
             m == Len(Tail(s))
  <2>1. m = n - 1 /\ n \in Int /\ Len(t) = 1 + m
    BY <1>1, <1>5
  <2> HIDE DEF n, m
  <2>2. Len(t) = n
    BY <2>1
  <2> QED BY <2>2 DEF n
<1>7. ASSUME NEW i \in 1 .. Len(s)
      PROVE  i + 0 \in 1 .. Len(t) /\ (IsCode(t[i + 0]) <=> IsCode(s[i])) /\ t[i + 0].up = s[i].up
  <2>1. i + 0 = i
    OBVIOUS
  <2>2. CASE i = 1
    BY <1>3, <1>5, <1>6, <2>1, <2>2
  <2>3. CASE i # 1
    <3>1. i \in 2 .. 1 + Len(Tail(s)) /\ i - 1 \in 1 .. Len(s) - 1 /\ (i - 1) + 1 = i
      BY <1>1, <2>3
    <3> QED BY <1>1, <1>5, <1>6, <2>1, <3>1
  <2> QED BY <2>2, <2>3
<1>8. \A j \in 1 .. Len(t) : j - 0 \in 1 .. Len(s) \/ t[j] = Answer
  BY <1>6
<1>9. LastUp(t) /\ (NoCode(t) => NoCode(s))
  BY <1>5, <1>6, <1>7, <1>8, CodesKept, NoCodes, ByteTypes
<1> QED BY <1>9 DEF t, r

-----------------------------------------------------------------------------
(* The queue: what is in the output buffer and what the keyboard has to    *)
(* send.                                                                   *)

LEMMA AppendConcat ==
  ASSUME NEW S, NEW s \in Seq(S), NEW t \in Seq(S), NEW x \in S
  PROVE  s \o Append(t, x) = Append(s \o t, x)
<1>1. Append(t, x) = t \o <<x>> /\ Append(s \o t, x) = (s \o t) \o <<x>>
  BY ConcatProperties, AppendIsConcat
<1>2. <<x>> \in Seq(S)
  OBVIOUS
<1> QED BY <1>1, <1>2, ConcatAssociative

LEMMA ByteTaken ==
  ASSUME KbcTypeOK, obf.full, obf'.full = FALSE, UNCHANGED kbd
  PROVE  Queue # << >> /\ Queue' = Tail(Queue) /\ Head(Queue) = obf.byte
<1>1. kbd.wire \in Seq(OutBytes) /\ obf.byte \in OutBytes
  BY DEF KbcTypeOK, Keyboard, OutBuffer
<1>2. Queue = <<obf.byte>> \o kbd.wire
  BY DEF Queue
<1>3. Queue' = kbd.wire
  <2>1. Queue' = << >> \o kbd.wire
    BY DEF Queue
  <2> QED BY <1>1, <2>1, ConcatEmptySeq
<1> QED BY <1>1, <1>2, <1>3, Pushed

LEMMA KeyTyped ==
  ASSUME KbcTypeOK, NEW key \in Shifts, NEW up \in BOOLEAN, UNCHANGED obf,
         kbd'.wire = Append(kbd.wire, ShiftCode(key, up))
  PROVE  Queue' = Append(Queue, ShiftCode(key, up))
<1> DEFINE c  == ShiftCode(key, up)
           w  == Append(kbd.wire, c)
           o  == IF obf.full THEN <<obf.byte>> ELSE << >>
<1>1. c \in OutBytes
  BY ShiftCodes
<1>2. kbd.wire \in Seq(OutBytes) /\ o \in Seq(OutBytes)
  BY DEF KbcTypeOK, Keyboard, OutBuffer
<1>3. Queue = o \o kbd.wire /\ Queue' = o \o w
  <2> HIDE DEF w
  <2>1. kbd'.wire = w
    BY DEF w
  <2> QED BY <2>1 DEF Queue
<1>4. o \o w = Append(o \o kbd.wire, c)
  <2> HIDE DEF o, c
  <2> QED BY <1>1, <1>2, AppendConcat
<1> QED BY <1>3, <1>4

LEMMA QueueTypes ==
  ASSUME KbcTypeOK
  PROVE  /\ Queue \in Seq(OutBytes) /\ kbd.wire \in Seq(OutBytes)
         /\ obf.full => Queue = <<obf.byte>> \o kbd.wire
         /\ ~obf.full => Queue = kbd.wire
<1>1. kbd.wire \in Seq(OutBytes) /\ obf.byte \in OutBytes
  BY DEF KbcTypeOK, Keyboard, OutBuffer
<1>2. <<obf.byte>> \in Seq(OutBytes)
  BY <1>1
<1>3. CASE obf.full
  <2>1. Queue = <<obf.byte>> \o kbd.wire
    BY <1>3 DEF Queue
  <2> QED BY <1>1, <1>2, <1>3, <2>1, ConcatProperties
<1>4. CASE ~obf.full
  <2>1. Queue = << >> \o kbd.wire
    BY <1>4 DEF Queue
  <2> QED BY <1>1, <1>4, <2>1, ConcatEmptySeq
<1> QED BY <1>3, <1>4

(* What the controller does adds at most an answer to the queue, unless    *)
(* the keyboard drops its codes.                                           *)
LEMMA HardwareQueue ==
  ASSUME KbcTypeOK, Hardware, LastUp(Queue)
  PROVE  \/ LastUp(Queue)' /\ (NoCode(Queue)' => NoCode(Queue))
         \/ DropsCodes /\ ibf.byte \in {"f0", "f4"}
<1>1. KbcTypeOK'
  BY HardwareTypes
<1>2. Queue \in Seq(OutBytes)
  BY QueueTypes
<1>3. ASSUME LastUp(Queue'), NoCode(Queue') => NoCode(Queue)
      PROVE  LastUp(Queue)' /\ (NoCode(Queue)' => NoCode(Queue))
  BY <1>3 DEF LastUp, NoCode
<1>4. CASE UNCHANGED Queue
  BY <1>3, <1>4
<1>5. ASSUME NEW b \in {Answer, PortAnswer}, ~obf.full, Put(b), UNCHANGED kbd
      PROVE  LastUp(Queue') /\ (NoCode(Queue') => NoCode(Queue))
  <2>1. Queue = kbd.wire
    BY <1>5, QueueTypes
  <2>2. obf' = [full |-> TRUE, byte |-> b]
    BY <1>5 DEF Put
  <2>3. Queue' = <<b>> \o kbd.wire
    BY <1>5, <2>2 DEF Queue
  <2>4. b \in OutBytes /\ ~IsCode(b)
    BY <1>5, ByteTypes, NoCodes
  <2> QED BY <1>2, <2>1, <2>3, <2>4, AnswerPushed
<1>6. CASE AcceptCommand
  <2>1. CASE UNCHANGED <<obf, kbd>>
    BY <1>4, <2>1 DEF Queue
  <2>2. CASE ~obf.full /\ (Put(Answer) \/ Put(PortAnswer)) /\ UNCHANGED kbd
    BY <1>3, <1>5, <2>2
  <2> QED BY <1>6, <2>1, <2>2 DEF AcceptCommand
<1>7. CASE AcceptConfig \/ AcceptOutPort
  <2>1. UNCHANGED <<obf, kbd>>
    BY <1>7 DEF AcceptConfig, AcceptOutPort
  <2> QED BY <1>4, <2>1 DEF Queue
<1>8. CASE AcceptKeyboard
  <2>1. PICK sends \in {kbd.wire, << >>} :
          /\ sends = kbd.wire \/ ibf.byte \in {"f0", "f4"}
          /\ kbd' = [kbd EXCEPT
              !.wire     = Append(sends, Answer),
              !.argument = ibf.byte = "f0",
              !.set      = IF kbd.argument /\ ibf.byte = "01" THEN 1 ELSE @,
              !.scanning = @ \/ ibf.byte = "f4"]
    BY <1>8 DEF AcceptKeyboard
  <2> DEFINE w == Append(sends, Answer)
             a == ibf.byte = "f0"
             e == IF kbd.argument /\ ibf.byte = "01" THEN 1 ELSE kbd.set
             c == kbd.scanning \/ ibf.byte = "f4"
  <2>2. kbd'.wire = w
    <3>1. DOMAIN kbd = {"wire", "argument", "set", "scanning", "held",
                  "on", "off", "typed"}
      BY DEF KbcTypeOK, Keyboard
    <3>2. kbd' = [kbd EXCEPT !.wire = w, !.argument = a, !.set = e, !.scanning = c]
      BY <2>1
    <3> HIDE DEF w, a, e, c
    <3> QED BY <3>1, <3>2
  <2>3. UNCHANGED obf
    BY <1>8 DEF AcceptKeyboard
  <2>4. CASE sends = kbd.wire
    <3> DEFINE o == IF obf.full THEN <<obf.byte>> ELSE << >>
    <3>1. o \in Seq(OutBytes) /\ kbd.wire \in Seq(OutBytes)
      BY DEF KbcTypeOK, Keyboard, OutBuffer
    <3>2. Queue = o \o kbd.wire /\ Queue' = o \o Append(kbd.wire, Answer)
      BY <2>2, <2>3, <2>4 DEF Queue
    <3>3. Answer \in OutBytes /\ ~IsCode(Answer)
      BY ByteTypes, NoCodes
    <3> HIDE DEF o
    <3>4. Queue' = Append(Queue, Answer)
      BY <3>1, <3>2, <3>3, AppendConcat, SMTT(30)
    <3>5. LastUp(Queue') /\ (NoCode(Queue') => NoCode(Queue))
      BY <1>2, <3>3, <3>4, AnswerAppended
    <3> QED BY <1>3, <3>5
  <2>5. CASE sends # kbd.wire
    <3>1. sends = << >> /\ kbd.wire # << >> /\ ibf.byte \in {"f0", "f4"}
      BY <2>1, <2>5
    <3>2. kbd'.wire = <<Answer>>
      BY <2>2, <3>1
    <3> QED BY <1>8, <3>1, <3>2 DEF DropsCodes
  <2> QED BY <2>4, <2>5
<1>9. CASE Deliver
  <2>1. kbd.wire # << >> /\ ~obf.full /\ Put(Received(Head(kbd.wire)))
    BY <1>9 DEF Deliver
  <2>2. kbd'.wire = Tail(kbd.wire)
    BY <1>9 DEF Deliver, KbcTypeOK, Keyboard
  <2>3. Queue = kbd.wire
    BY <2>1, QueueTypes
  <2>4. obf' = [full |-> TRUE, byte |-> Received(Head(kbd.wire))]
    BY <2>1 DEF Put
  <2>5. Queue' = <<Received(Head(kbd.wire))>> \o Tail(kbd.wire)
    BY <2>2, <2>4 DEF Queue
  <2>6. LastUp(Queue') /\ (NoCode(Queue') => NoCode(Queue))
    BY <1>2, <2>1, <2>3, <2>5, HeadReceived
  <2> QED BY <1>3, <2>6
<1> QED BY <1>6, <1>7, <1>8, <1>9 DEF Hardware

(* Reading the output buffer takes the queue's head if it is there.        *)
LEMMA Port60Queue ==
  ASSUME KbcTypeOK, ReadPort60, UNCHANGED kbd, LastUp(Queue)
  PROVE  /\ LastUp(Queue)'
         /\ obf.full => (NoCode(Queue)' => NoCode(Queue) \/ (IsCode(obf.byte) /\ obf.byte.up))
<1>1. Queue \in Seq(OutBytes)
  BY QueueTypes
<1>2. obf'.full = FALSE /\ obf'.byte = obf.byte
  BY DEF ReadPort60, KbcTypeOK, OutBuffer
<1>3. CASE obf.full
  <2>1. Queue # << >> /\ Queue' = Tail(Queue) /\ Head(Queue) = obf.byte
    BY <1>2, <1>3, ByteTaken
  <2>2. LastUp(Queue') /\ (NoCode(Queue') => NoCode(Queue) \/ (IsCode(obf.byte) /\ obf.byte.up))
    BY <1>1, <2>1, CodesTaken
  <2> QED BY <2>2 DEF LastUp, NoCode
<1>4. CASE ~obf.full
  <2>1. UNCHANGED Queue
    BY <1>2, <1>4 DEF Queue
  <2> QED BY <1>4, <2>1 DEF LastUp
<1> QED BY <1>3, <1>4

-----------------------------------------------------------------------------
(* The invariant.                                                          *)

LEMMA EndReached ==
  ASSUME Ps2TypeOK, SetupSound, device0, initialized, todo = << >> \/ ~ignore
  PROVE  SetupReached(17) /\ todo = << >>
<1>1. PICK k \in 1 .. 17 : SetupFrom(k, todo) /\ SetupReached(k)
  BY DEF SetupSound
<1>2. k = 17
  <2>1. CASE ~ignore
    BY <1>1, <2>1 DEF SetupReached
  <2>2. CASE todo = << >>
    <3>1. todo \in Seq(Instruction) /\ Len(todo) = 0
      BY <2>2, EmptySeq DEF Ps2TypeOK
    <3>2. Len(todo) >= 17 - k
      BY <1>1, <3>1, SetupHead
    <3> QED BY <3>1, <3>2
  <2> QED BY <2>1, <2>2
<1> QED BY <1>1, <1>2 DEF SetupReached

LEMMA RequestStep ==
  ASSUME Ps2TypeOK, RequestSound, [MachineNext]_mvars
  PROVE  RequestSound'
<1> SUFFICES UNCHANGED <<obf, irq1>> \/ ~irq1' \/ obf'.full
  BY DEF RequestSound
<1>1. CASE UNCHANGED mvars
  BY <1>1 DEF mvars, vars, kvars
<1>2. CASE Resetting
  BY <1>2 DEF Resetting, Restart
<1>3. CASE A20Step
  BY <1>3 DEF A20Step, First, Support, Int15, Port92, TestInput, WaitOutput, In, Out, End,
              EnterKernel, BiosInterrupt1, ReadPort60, kvars
<1>4. CASE Hardware
  <2>1. ASSUME NEW b, Put(b) PROVE obf'.full
    BY <2>1 DEF Put
  <2>2. CASE AcceptConfig
    <3>1. UNCHANGED obf /\ (irq1' => irq1 \/ obf.full)
      BY <2>2 DEF AcceptConfig
    <3> QED BY <3>1 DEF RequestSound
  <2>3. CASE AcceptCommand \/ AcceptOutPort \/ AcceptKeyboard \/ Deliver
    BY <2>1, <2>3 DEF AcceptCommand, AcceptOutPort, AcceptKeyboard, Deliver
  <2> QED BY <1>4, <2>2, <2>3 DEF Hardware
<1>5. CASE User
  BY <1>5, UserEffects DEF Ps2TypeOK
<1>6. CASE Main
  BY <1>6, MainWrites DEF ReadPort60
<1>7. CASE TickInterrupt \/ Interrupt1
  BY <1>7 DEF TickInterrupt, Interrupt1, ReadPort60, kvars
<1> QED BY <1>1, <1>2, <1>3, <1>4, <1>5, <1>6, <1>7
        DEF MachineNext, Loading, Running, Ps2Next, Kernel, Devices, Typing

LEMMA ScanningStep ==
  ASSUME Ps2TypeOK, kbd.scanning, [MachineNext]_mvars
  PROVE  kbd'.scanning
<1>1. DOMAIN kbd = {"wire", "argument", "set", "scanning", "held",
                  "on", "off", "typed"}
  BY DEF Ps2TypeOK, KbcTypeOK, Keyboard
<1>2. CASE UNCHANGED kbd
  BY <1>2
<1>3. CASE Resetting
  BY <1>1, <1>3 DEF Resetting, Restart
<1>4. CASE AcceptKeyboard
  <2>1. PICK sends : kbd' = [kbd EXCEPT
              !.wire     = Append(sends, Answer),
              !.argument = ibf.byte = "f0",
              !.set      = IF kbd.argument /\ ibf.byte = "01" THEN 1 ELSE @,
              !.scanning = @ \/ ibf.byte = "f4"]
    BY <1>4 DEF AcceptKeyboard
  <2>2. kbd'.scanning = (kbd.scanning \/ ibf.byte = "f4")
    BY <1>1, <2>1
  <2> QED BY <2>2
<1>5. CASE Deliver
  BY <1>1, <1>5 DEF Deliver
<1>6. CASE User
  BY <1>6, UserEffects DEF Ps2TypeOK
<1>7. A20Step => UNCHANGED kbd
  BY DEF A20Step, First, Support, Int15, Port92, TestInput, WaitOutput, In, Out, End,
         EnterKernel, BiosInterrupt1, kvars
<1>8. UNCHANGED mvars \/ Main \/ TickInterrupt \/ Interrupt1 => UNCHANGED kbd
  BY MainWrites DEF mvars, vars, kvars, TickInterrupt, Interrupt1
<1>9. AcceptCommand \/ AcceptConfig \/ AcceptOutPort => UNCHANGED kbd
  BY DEF AcceptCommand, AcceptConfig, AcceptOutPort
<1> QED BY <1>2, <1>3, <1>4, <1>5, <1>6, <1>7, <1>8, <1>9
        DEF MachineNext, Loading, Running, Ps2Next, Kernel, Devices, Typing, Hardware

(* What the kernel has not changed while the loader runs.                  *)
LEMMA SetupWaits ==
  ASSUME SetupSound, ~initialized, UNCHANGED pvars
  PROVE  SetupSound'
BY DEF SetupSound, DeviceLast, pvars, bus, keyboard

LEMMA SetupStep ==
  ASSUME BusInv, SetupSound, [MachineNext]_mvars
  PROVE  SetupSound'
<1>1. Ps2TypeOK /\ KernelWaits
  BY DEF BusInv
<1>2. CASE UNCHANGED mvars
  <2>1. UNCHANGED <<todo, device0, initialized, lock, ignore, ibf, ctl, kbd>>
    BY <1>2 DEF mvars, vars, kvars, pvars, bus, keyboard
  <2>2. ASSUME NEW k \in 1 .. 17, SetupFrom(k, todo), SetupReached(k)
        PROVE  SetupFrom(k, todo)' /\ SetupReached(k)'
    BY <2>1, <2>2 DEF SetupFrom, SetupReached, Sent, Connected
  <2>3. DeviceLast(todo) => DeviceLast(todo)'
    BY <2>1 DEF DeviceLast
  <2> QED BY <2>1, <2>2, <2>3 DEF SetupSound
<1>3. CASE Loading \/ Resetting
  <2>1. apc # "kernel"
    <3>1. Resetting => InMethod
      BY DEF Resetting, Restart, BusInv, ResetSound
    <3> QED BY <1>3, <3>1 DEF Loading, InMethod
  <2>2. ~initialized
    BY <1>1, <2>1 DEF KernelWaits
  <2>3. UNCHANGED pvars
    BY <1>3 DEF Loading, Resetting
  <2> QED BY <2>2, <2>3, SetupWaits
<1>4. CASE Running
  <2>1. CASE Main
    <3>1. CASE ~device0 /\ ignore /\ DeviceLast(todo)
      BY <1>1, <2>1, <3>1, SetupBegins
    <3>2. CASE device0 /\ ~initialized /\ ignore /\ todo = << >>
      BY <1>1, <2>1, <3>2, MainShape
    <3>3. ASSUME device0, initialized, NEW k \in 1 .. 17, SetupFrom(k, todo), SetupReached(k)
          PROVE  SetupSound'
      BY <1>1, <2>1, <3>3, SetupMain
    <3> QED BY <3>1, <3>2, <3>3 DEF SetupSound
  <2>2. CASE TickInterrupt \/ Interrupt1 \/ Devices \/ Typing
    BY <1>1, <2>2, SetupOthers
  <2> QED BY <1>4, <2>1, <2>2 DEF Running, Ps2Next, Kernel
<1> QED BY <1>2, <1>3, <1>4 DEF MachineNext

LEMMA LoaderBytesStep ==
  ASSUME KbcTypeOK, A20Sound, LoaderBytes, [MachineNext]_mvars
  PROVE  LoaderBytes'
<1>1. NoWrite.byte \notin {"f0", "f4"}
  BY DEF NoWrite
<1>2. CASE UNCHANGED mvars \/ Running
  BY <1>2 DEF mvars, vars, kvars, avars, Running, LoaderBytes
<1>3. CASE Resetting
  BY <1>1, <1>3 DEF Resetting, Restart, LoaderBytes
<1>4. CASE Loading
  <2>1. apc # "kernel" /\ ibf.byte \notin {"f0", "f4"}
    BY <1>4 DEF Loading, LoaderBytes
  <2>2. CASE Hardware
    BY <1>1, <2>1, <2>2, HardwareEffects DEF LoaderBytes
  <2>3. CASE User
    BY <2>1, <2>3, UserEffects DEF LoaderBytes
  <2>4. CASE Out
    <3>1. outs \in OutsLeft
      BY <2>4 DEF Out, A20Sound, InMethod
    <3>2. Head(outs) \in {"ad", "d0", "in", "d1", "out", "ae"}
      BY <3>1, OutsParts
    <3>3. CASE Head(outs) = "out"
      <4>1. PICK b \in {"on", "reset"} : Write(DataPort, b)
        BY <2>4, <3>3 DEF Out, PortValues
      <4> QED BY <4>1 DEF Write, LoaderBytes
    <3>4. CASE Head(outs) # "out"
      <4>1. Write(CommandPort, Head(outs))
        BY <2>4, <3>4 DEF Out
      <4> QED BY <3>2, <4>1 DEF Write, LoaderBytes
    <3> QED BY <3>3, <3>4
  <2>5. CASE A20Step /\ ~Out
    <3>1. UNCHANGED ibf
      BY <2>5 DEF A20Step, First, Support, Int15, Port92, TestInput, WaitOutput, In, End,
                  EnterKernel, BiosInterrupt1, kvars
    <3> QED BY <2>1, <3>1 DEF LoaderBytes
  <2> QED BY <1>4, <2>2, <2>3, <2>4, <2>5 DEF Loading
<1> QED BY <1>2, <1>3, <1>4 DEF MachineNext

(* Only the user changes what keys are held.                               *)
LEMMA HeldKept ==
  ASSUME KbcTypeOK, Resetting \/ Hardware
  PROVE  kbd'.held = kbd.held /\ kbd'.on = kbd.on
<1>1. DOMAIN kbd = {"wire", "argument", "set", "scanning", "held",
                  "on", "off", "typed"}
  BY DEF KbcTypeOK, Keyboard
<1>2. CASE AcceptKeyboard
  <2>1. PICK sends : kbd' = [kbd EXCEPT
              !.wire     = Append(sends, Answer),
              !.argument = ibf.byte = "f0",
              !.set      = IF kbd.argument /\ ibf.byte = "01" THEN 1 ELSE @,
              !.scanning = @ \/ ibf.byte = "f4"]
    BY <1>2 DEF AcceptKeyboard
  <2> DEFINE w == Append(sends, Answer)
             a == ibf.byte = "f0"
             e == IF kbd.argument /\ ibf.byte = "01" THEN 1 ELSE kbd.set
             c == kbd.scanning \/ ibf.byte = "f4"
  <2>2. kbd' = [kbd EXCEPT !.wire = w, !.argument = a, !.set = e, !.scanning = c]
    BY <2>1
  <2> HIDE DEF w, a, e, c
  <2> QED BY <1>1, <2>2
<1>3. CASE Deliver \/ Resetting
  BY <1>1, <1>3 DEF Deliver, Resetting, Restart
<1>4. CASE AcceptCommand \/ AcceptConfig \/ AcceptOutPort
  BY <1>4 DEF AcceptCommand, AcceptConfig, AcceptOutPort
<1> QED BY <1>2, <1>3, <1>4 DEF Hardware

LEMMA QuietShift ==
  ASSUME ShiftSound, ~shift, UNCHANGED shift, Released' => Released,
         Released /\ LastUp(Queue) => LastUp(Queue)' \/ ~Released'
  PROVE  ShiftSound'
BY DEF ShiftSound

LEMMA TypedShift ==
  ASSUME KbcTypeOK, ShiftSound, User,
         UNCHANGED <<shift, given, dropped, device0, initialized, ignore>>
  PROVE  ShiftSound'
<1>1. ~Listening' => ~shift'
  BY DEF ShiftSound, Listening
<1>2. UNCHANGED obf
  BY UserEffects
<1>3. CASE kbd'.wire = kbd.wire /\ (Nothing' => Nothing)
  <2>1. UNCHANGED Queue
    BY <1>2, <1>3 DEF Queue
  <2>2. Released' => Released
    BY <1>3 DEF Released, Nothing
  <2> QED BY <1>1, <2>1, <2>2 DEF ShiftSound, LastUp, NoCode
<1>4. CASE NewCode
  <2>1. PICK key \in Shifts, up \in BOOLEAN :
          kbd'.wire = Append(kbd.wire, ShiftCode(key, up)) /\ (Nothing' => up)
    BY <1>4 DEF NewCode
  <2> DEFINE c == ShiftCode(key, up)
  <2>2. Queue' = Append(Queue, c)
    BY <1>2, <2>1, KeyTyped
  <2>3. c \in OutBytes /\ IsCode(c) /\ c.up = up
    BY ShiftCodes DEF IsCode, KeyCode, ShiftCode
  <2>4. Queue \in Seq(OutBytes)
    BY QueueTypes
  <2> HIDE DEF c
  <2>5. ~NoCode(Append(Queue, c)) /\ (up => LastUp(Append(Queue, c)))
    BY <2>3, <2>4, CodeAppended
  <2>6. ~NoCode(Queue)' /\ (up => LastUp(Queue)')
    BY <2>2, <2>5 DEF NoCode, LastUp
  <2> QED BY <1>1, <2>1, <2>6 DEF ShiftSound, Released, Nothing
<1> QED BY <1>3, <1>4, UserEffects

LEMMA ShiftStep ==
  ASSUME BusInv, RequestSound, SetupSound, LoaderBytes, ShiftSound, [MachineNext]_mvars
  PROVE  ShiftSound'
<1>1. Ps2TypeOK /\ KbcTypeOK
  BY DEF BusInv, Ps2TypeOK
<1>2. ASSUME apc # "kernel" PROVE ~Listening /\ ~shift
  BY <1>2 DEF BusInv, KernelWaits, Listening, ShiftSound
<1>3. ASSUME Listening PROVE todo = << >>
  BY <1>1, <1>3, EndReached DEF Listening
<1>4. CASE UNCHANGED mvars \/ TickInterrupt
  <2>1. UNCHANGED <<shift, given, dropped, device0, initialized, ignore, kbd, obf>>
    BY <1>4 DEF mvars, vars, kvars, pvars, bus, keyboard, history, TickInterrupt
  <2>2. UNCHANGED Queue
    BY <2>1 DEF Queue
  <2> QED BY <2>1, <2>2 DEF ShiftSound, Listening, Released, LastUp, NoCode
<1>5. CASE Resetting
  <2>1. ~shift /\ UNCHANGED <<shift, given, dropped>>
    <3>1. apc # "kernel"
      BY <1>5 DEF Resetting, Restart, BusInv, ResetSound, InMethod
    <3> QED BY <1>2, <1>5, <3>1 DEF Resetting, pvars, keyboard, history
  <2>2. Queue' = << >> \o << >>
    BY <1>1, <1>5 DEF Resetting, Restart, Queue, KbcTypeOK, Keyboard
  <2>3. << >> \o << >> = << >> /\ Len(<< >>) = 0
    OBVIOUS
  <2>4. LastUp(Queue)'
    BY <2>2, <2>3 DEF LastUp
  <2>5. Released' => Released
    BY <1>1, <1>5, <2>1, HeldKept DEF Released
  <2> QED BY <2>1, <2>4, <2>5, QuietShift
<1>6. ASSUME UNCHANGED kbd, UNCHANGED obf \/ ReadPort60, LastUp(Queue)
      PROVE  LastUp(Queue)'
  <2>1. CASE UNCHANGED obf
    <3>1. UNCHANGED Queue
      BY <1>6, <2>1 DEF Queue
    <3> QED BY <1>6, <3>1 DEF LastUp
  <2>2. CASE ReadPort60
    BY <1>1, <1>6, <2>2, Port60Queue
  <2> QED BY <1>6, <2>1, <2>2
<1>7. CASE Loading
  <2>1. ~shift /\ UNCHANGED <<shift, given, dropped, device0, initialized, ignore>>
    BY <1>2, <1>7 DEF Loading, pvars, bus, keyboard, history
  <2>2. CASE A20Step
    <3>1. UNCHANGED kbd /\ (UNCHANGED obf \/ ReadPort60)
      BY <2>2 DEF A20Step, First, Support, Int15, Port92, TestInput, WaitOutput, In, Out, End,
                  EnterKernel, BiosInterrupt1, kvars
    <3> QED BY <1>6, <2>1, <3>1, QuietShift DEF Released
  <2>3. CASE Hardware
    <3>1. Released' => Released
      BY <1>1, <2>1, <2>3, HeldKept DEF Released
    <3>2. ibf.byte \notin {"f0", "f4"}
      BY <1>7 DEF Loading, LoaderBytes
    <3>3. LastUp(Queue) => LastUp(Queue)'
      BY <1>1, <2>3, <3>2, HardwareQueue
    <3> QED BY <2>1, <3>1, <3>3, QuietShift
  <2>4. CASE User
    BY <1>1, <2>1, <2>4, TypedShift
  <2> QED BY <1>7, <2>2, <2>3, <2>4 DEF Loading
<1>8. CASE Main
  <2>1. ~shift
    BY <1>1, <1>3, <1>8, MainShape DEF ShiftSound
  <2>2. UNCHANGED <<shift, given, dropped>>
    BY <1>8 DEF Main, IsrSet, WriteByte, Drain, In60, SetInitialized, SetDevice, Lock, Release,
                Poll, Clear, Empty, Delay, Wait, Listen, keyboard, history
  <2>3. UNCHANGED kbd /\ (UNCHANGED obf \/ ReadPort60)
    BY <1>1, <1>8, MainWrites
  <2> QED BY <1>6, <2>1, <2>2, <2>3, QuietShift DEF Released
<1>9. CASE Interrupt1
  <2>1. UNCHANGED <<kbd, device0, initialized, ignore, dropped>> /\ given \subseteq given'
    BY <1>9 DEF Interrupt1
  <2>2. Released' => Released
    BY <2>1 DEF Released
  <2>3. CASE ~(isr1 /\ Listening)
    <3>1. UNCHANGED shift /\ (UNCHANGED obf \/ ReadPort60)
      BY <1>9, <2>3 DEF Interrupt1
    <3>2. CASE ~shift
      BY <1>6, <2>1, <2>2, <3>1, <3>2, QuietShift
    <3>3. CASE shift
      <4>1. ~isr1 /\ UNCHANGED obf
        BY <1>9, <2>3, <3>3 DEF Interrupt1, ShiftSound
      <4>2. UNCHANGED Queue
        BY <2>1, <4>1 DEF Queue
      <4> QED BY <2>1, <2>2, <3>1, <4>2 DEF ShiftSound, Listening, LastUp, NoCode
    <3> QED BY <3>2, <3>3
  <2>4. CASE isr1 /\ Listening
    <3>1. /\ ReadPort60 /\ shift' \in ShiftAfter(obf.byte, shift)
          /\ given' = given \union {obf.byte.kind} /\ obf.full
      BY <1>9, <2>4 DEF Interrupt1, RequestSound
    <3>2. Listening'
      BY <2>1, <2>4 DEF Listening
    <3>3. ASSUME Released' PROVE LastUp(Queue)' /\ (NoCode(Queue)' => ~shift')
      <4>1. LastUp(Queue) /\ (NoCode(Queue) => ~shift)
        BY <2>2, <3>3 DEF ShiftSound
      <4>2. /\ LastUp(Queue)'
            /\ NoCode(Queue)' => NoCode(Queue) \/ (IsCode(obf.byte) /\ obf.byte.up)
        BY <1>1, <2>1, <3>1, <4>1, Port60Queue
      <4>3. obf.byte.kind # "raw"
        BY <3>1, <3>3 DEF Released
      <4>4. CASE IsCode(obf.byte) /\ obf.byte.up
        BY <3>1, <4>2, <4>3, <4>4 DEF IsCode, ShiftAfter
      <4>5. CASE NoCode(Queue)
        <5>1. ~IsCode(obf.byte)
          <6>1. Queue # << >> /\ Head(Queue) = obf.byte /\ Queue \in Seq(OutBytes)
            <7>1. obf'.full = FALSE
              BY <1>1, <3>1 DEF ReadPort60, KbcTypeOK, OutBuffer
            <7> QED BY <1>1, <2>1, <3>1, <7>1, ByteTaken, QueueTypes
          <6>2. 1 \in 1 .. Len(Queue) /\ Head(Queue) = Queue[1]
            BY <6>1, Tails
          <6> QED BY <4>5, <6>1, <6>2 DEF NoCode
        <5>2. shift' = shift
          BY <3>1, <5>1 DEF IsCode, ShiftAfter
        <5> QED BY <4>1, <4>2, <4>5, <5>2
      <4> QED BY <4>2, <4>4, <4>5
    <3> QED BY <3>2, <3>3 DEF ShiftSound
  <2> QED BY <2>3, <2>4
<1>10. CASE Devices
  <2>1. Hardware /\ UNCHANGED <<shift, given, device0, initialized, ignore>>
        /\ dropped' = (dropped \/ DropsCodes)
    BY <1>10 DEF Devices, bus, keyboard
  <2>2. ~Listening' => ~shift'
    BY <2>1 DEF ShiftSound, Listening
  <2>3. ASSUME Released' PROVE LastUp(Queue)' /\ (NoCode(Queue)' => ~shift')
    <3>1. Released /\ ~DropsCodes
      BY <1>1, <2>1, <2>3, HeldKept DEF Released
    <3>2. LastUp(Queue) /\ (NoCode(Queue) => ~shift)
      BY <3>1 DEF ShiftSound
    <3>3. LastUp(Queue)' /\ (NoCode(Queue)' => NoCode(Queue))
      BY <1>1, <2>1, <3>1, <3>2, HardwareQueue
    <3> QED BY <2>1, <3>2, <3>3
  <2> QED BY <2>2, <2>3 DEF ShiftSound
<1>11. CASE Typing
  BY <1>1, <1>11, TypedShift DEF Typing, pvars, bus, keyboard, history
<1> QED BY <1>4, <1>5, <1>7, <1>8, <1>9, <1>10, <1>11 DEF MachineNext, Running, Ps2Next, Kernel

LEMMA SetupInit ==
  ASSUME MachineInit
  PROVE  RequestSound /\ SetupSound /\ kbd.scanning /\ LoaderBytes /\ ShiftSound
<1>0. LoaderBytes /\ ShiftSound
  <2>1. LoaderBytes /\ ~shift /\ Queue = << >> \o << >>
    BY DEF MachineInit, KbcInit, Ps2Init, LoaderBytes, NoWrite, Queue
  <2>2. << >> \o << >> = << >> /\ Len(<< >>) = 0
    OBVIOUS
  <2>3. LastUp(Queue)
    BY <2>1, <2>2 DEF LastUp
  <2> QED BY <2>1, <2>3 DEF ShiftSound
<1>1. RequestSound /\ kbd.scanning
  BY DEF MachineInit, KbcInit, RequestSound
<1>2. ~device0 /\ ignore
  BY DEF MachineInit, Ps2Init
<1>3. PICK built \in ModuleSets : todo = Modules(built)
  BY DEF MachineInit, Ps2Init
<1>4. DeviceLast(<< >>) /\ DeviceLast(BusProgram)
  BY DEF DeviceLast, BusProgram, BusOps, Do, Cmd, Data, I
<1>5. DeviceLast(<<Do("set_device")>>)
  BY DEF DeviceLast, BusOps, Do, I
<1>6. DeviceLast(BusProgram \o <<Do("set_device")>>)
  BY DEF DeviceLast, BusProgram, BusOps, Do, Cmd, Data, I
<1>7. BusProgram \o << >> = BusProgram
  BY ProgramTypes, ConcatEmptySeq
<1>8. << >> \o <<Do("set_device")>> = <<Do("set_device")>> /\ << >> \o << >> = << >>
  OBVIOUS
<1>9. DeviceLast(todo)
  BY <1>3, <1>4, <1>5, <1>6, <1>7, <1>8 DEF Modules
<1> QED BY <1>0, <1>1, <1>2, <1>9 DEF SetupSound

(* What the setup of the keyboard has reached is known at every step of    *)
(* it, whatever the loader has left in the controller (keyboard_ps2.c).    *)
THEOREM MachineInvariance == MachineSpec => []MInv
<1> DEFINE Rest == RequestSound /\ SetupSound /\ kbd.scanning /\ LoaderBytes /\ ShiftSound
<1>1. MachineInit => Rest
  BY SetupInit
<1>2. BusInv /\ Rest /\ [MachineNext]_mvars => Rest'
  BY RequestStep, SetupStep, ScanningStep, LoaderBytesStep, ShiftStep DEF BusInv, Ps2TypeOK
<1>3. BusInv /\ Rest <=> MInv
  BY DEF MInv
<1> HIDE DEF Rest
<1> QED BY <1>1, <1>2, <1>3, BusInvariance, PTL DEF MachineSpec

-----------------------------------------------------------------------------
(* What follows from it.                                                   *)

LEMMA InitializedIsReady ==
  ASSUME MInv, initialized
  PROVE  Ready /\ apc = "kernel" /\ ~ctl.reset
BY DEF MInv, BusInv, BusSound, KernelWaits, ResetSound, InMethod

(* When both modules are initialised and the last byte is taken, the       *)
(* keyboard sends codes of set 1 and the controller passes them on         *)
(* (bus_ps2.c:46-62, keyboard_ps2.c:88-109).                               *)
THEOREM ConfiguredKept == MachineSpec => []KeyboardConfigured
<1>1. MInv => KeyboardConfigured
  <2> SUFFICES ASSUME MInv, Idle, initialized, device0, ~InputFull
               PROVE  /\ kbd.set = 1 /\ kbd.scanning /\ ~kbd.argument
                      /\ ctl.port1 /\ ctl.int1 /\ ~ctl.translate /\ ctl.expects = "none"
                      /\ Listening /\ ~lock
    BY DEF KeyboardConfigured
  <2>1. SetupReached(17)
    BY EndReached DEF Idle, MInv, BusInv
  <2>2. Ready
    BY InitializedIsReady
  <2> QED BY <2>1, <2>2 DEF SetupReached, Connected, Ready, Listening, MInv
<1> QED BY <1>1, MachineInvariance, PTL

(* Shift does not stick: with no shift key held, no extended key held that *)
(* has sent a fake shift, and no byte under way, _shift is off, unless the *)
(* handler took something else than a key's code for one or the keyboard   *)
(* dropped a code (keyboard_ps2.c:34-57).                                  *)
THEOREM ShiftReleased == MachineSpec => []ShiftNeverSticks
<1>1. MInv => ShiftNeverSticks
  <2> SUFFICES ASSUME ShiftSound, Queue = << >>, Released PROVE ~shift
    BY DEF ShiftNeverSticks, Released, MInv
  <2>1. NoCode(Queue)
    BY DEF NoCode
  <2> QED BY <2>1 DEF ShiftSound
<1> QED BY <1>1, MachineInvariance, PTL

-----------------------------------------------------------------------------
(* The driver implements KeyStore.                                         *)

Open == Listening /\ ~InputFull

LEMMA OpenState ==
  ASSUME MInv, Open
  PROVE  /\ todo = << >> /\ ibf = NoWrite /\ kbd.set = 1
         /\ isr1 /\ ~ctl.translate /\ apc = "kernel" /\ ~ctl.reset
<1>1. device0 /\ initialized /\ ~ignore /\ ibf = NoWrite
  BY DEF Open, Listening, InputFull
<1>2. SetupReached(17) /\ todo = << >>
  BY <1>1, EndReached DEF MInv, BusInv
<1>3. Ready /\ apc = "kernel" /\ ~ctl.reset
  BY <1>1, InitializedIsReady
<1> QED BY <1>1, <1>2, <1>3 DEF SetupReached, Ready

LEMMA ByteDelivered ==
  ASSUME KbcTypeOK, Deliver, ~ctl.translate
  PROVE  UNCHANGED Queue
<1>1. kbd.wire \in Seq(OutBytes) /\ kbd.wire # << >>
  BY DEF KbcTypeOK, Keyboard, Deliver
<1> DEFINE b == Head(kbd.wire)
<1>2. b \in OutBytes /\ Tail(kbd.wire) \in Seq(OutBytes)
  BY <1>1, Tails
<1>3. Queue = kbd.wire
  <2>1. Queue = << >> \o kbd.wire
    BY DEF Queue, Deliver
  <2> QED BY <1>1, <2>1, ConcatEmptySeq
<1>4. obf' = [full |-> TRUE, byte |-> b]
  BY DEF Deliver, Put, Received
<1>5. kbd'.wire = Tail(kbd.wire)
  BY DEF Deliver, KbcTypeOK, Keyboard
<1>6. Queue' = <<b>> \o Tail(kbd.wire)
  <2> HIDE DEF b
  <2> QED BY <1>4, <1>5 DEF Queue
<1>7. <<b>> \o Tail(kbd.wire) = kbd.wire
  <2>1. <<b>> \in Seq(OutBytes) /\ Len(<<b>>) = 1 /\ <<b>>[1] = b
    BY <1>2
  <2> DEFINE t == <<b>> \o Tail(kbd.wire)
  <2>2. /\ t \in Seq(OutBytes) /\ Len(t) = 1 + Len(Tail(kbd.wire)) /\ t[1] = b
        /\ \A i \in 2 .. Len(t) : t[i] = Tail(kbd.wire)[i - 1]
    BY <1>2, <2>1, Concatenations
  <2>3. /\ Len(Tail(kbd.wire)) = Len(kbd.wire) - 1 /\ Len(kbd.wire) \in Nat \ {0}
        /\ b = kbd.wire[1] /\ \A i \in 1 .. Len(kbd.wire) - 1 : Tail(kbd.wire)[i] = kbd.wire[i + 1]
    BY <1>1, Tails
  <2> HIDE DEF t, b
  <2>4. Len(t) = Len(kbd.wire)
    BY <2>2, <2>3
  <2>5. ASSUME NEW i \in 1 .. Len(t) PROVE t[i] = kbd.wire[i]
    <3>1. CASE i = 1
      BY <2>2, <2>3, <3>1
    <3>2. CASE i # 1
      <4>1. i \in 2 .. Len(t) /\ i - 1 \in 1 .. Len(kbd.wire) - 1 /\ (i - 1) + 1 = i
        BY <2>3, <2>4, <3>2
      <4> QED BY <2>2, <2>3, <4>1
    <3> QED BY <3>1, <3>2
  <2>6. t = kbd.wire
    BY <1>1, <2>2, <2>4, <2>5, SeqEqual
  <2> QED BY <2>6 DEF t
<1> QED BY <1>3, <1>6, <1>7

LEMMA OpenStep ==
  ASSUME MInv, Open, [MachineNext]_mvars
  PROVE  [Keys!Next]_Keys!vars
<1>1. Ps2TypeOK /\ KbcTypeOK /\ RequestSound
  BY DEF MInv, BusInv, Ps2TypeOK
<1>2. /\ todo = << >> /\ ibf = NoWrite /\ kbd.set = 1
      /\ isr1 /\ ~ctl.translate /\ apc = "kernel" /\ ~ctl.reset
  BY OpenState
<1>3. ASSUME UNCHANGED <<Queue, device0, initialized, ignore, ibf, shift>>
      PROVE  UNCHANGED Keys!vars
  BY <1>3 DEF Keys!vars, Listening, InputFull
<1>4. CASE UNCHANGED mvars \/ TickInterrupt
  <2>1. UNCHANGED <<device0, initialized, ignore, ibf, shift, obf, kbd>>
    BY <1>4 DEF mvars, vars, kvars, pvars, bus, keyboard, TickInterrupt
  <2>2. UNCHANGED Queue
    BY <2>1 DEF Queue
  <2> QED BY <1>3, <2>1, <2>2
<1>5. CASE Interrupt1
  <2>1. /\ irq1 /\ ReadPort60 /\ shift' \in ShiftAfter(obf.byte, shift)
        /\ UNCHANGED <<device0, initialized, ignore, ibf, kbd>>
    BY <1>2, <1>5 DEF Interrupt1, Open
  <2>2. obf.full /\ obf'.full = FALSE
    BY <1>1, <2>1 DEF RequestSound, ReadPort60, KbcTypeOK, OutBuffer
  <2>3. Queue # << >> /\ Queue' = Tail(Queue) /\ Head(Queue) = obf.byte
    BY <1>1, <2>1, <2>2, ByteTaken
  <2>4. UNCHANGED (Listening /\ ~InputFull)
    BY <2>1 DEF Listening, InputFull
  <2>5. Keys!Take
    BY <2>1, <2>3, <2>4 DEF Keys!Take, Open
  <2> QED BY <2>5 DEF Keys!Next
<1>6. CASE Devices
  <2>1. ibf.port = 0
    BY <1>2 DEF NoWrite
  <2>2. Deliver
    BY <1>6, <2>1 DEF Devices, Hardware, AcceptCommand, AcceptConfig, AcceptOutPort, AcceptKeyboard
  <2>3. UNCHANGED Queue
    BY <1>1, <1>2, <2>2, ByteDelivered
  <2>4. UNCHANGED <<device0, initialized, ignore, ibf, shift>>
    BY <1>6, <2>2 DEF Devices, Deliver, bus, keyboard
  <2> QED BY <1>3, <2>3, <2>4
<1>7. CASE Typing
  <2>1. UNCHANGED <<device0, initialized, ignore, ibf, obf, shift>>
    BY <1>1, <1>7, UserEffects DEF Typing, pvars, bus, keyboard
  <2>2. UNCHANGED (Listening /\ ~InputFull)
    BY <2>1 DEF Listening, InputFull
  <2>3. CASE kbd'.wire = kbd.wire
    <3>1. UNCHANGED Queue
      BY <2>1, <2>3 DEF Queue
    <3> QED BY <1>3, <2>1, <3>1
  <2>4. CASE NewCode
    <3>1. PICK key \in Shifts, up \in BOOLEAN :
            kbd'.wire = Append(kbd.wire, ShiftCode(key, up))
      BY <2>4 DEF NewCode
    <3>2. Queue' = Append(Queue, ShiftCode(key, up))
      BY <1>1, <2>1, <3>1, KeyTyped
    <3>3. ShiftCode(key, up) = KeyCode("key", key, up)
      BY <1>2 DEF ShiftCode
    <3>4. Keys!Type(KeyCode("key", key, up))
      BY <2>1, <2>2, <3>2, <3>3 DEF Keys!Type, Open
    <3> QED BY <3>4 DEF Keys!Next
  <2> QED BY <1>1, <1>7, <2>3, <2>4, UserEffects DEF Typing
<1>8. ~Main
  BY <1>1, <1>2, MainShape
<1>9. ~Loading /\ ~Resetting
  BY <1>2 DEF Loading, Resetting, Restart
<1> QED BY <1>4, <1>5, <1>6, <1>7, <1>8, <1>9 DEF MachineNext, Running, Ps2Next, Kernel

(* The driver does what KeyStore promises: once it listens and its last    *)
(* command is accepted, every code of a key reaches it once and in order,  *)
(* and shift changes only as they say (bus_ps2.c, keyboard_ps2.c).         *)
THEOREM DriverImplements == MachineSpec => ImplementsKeyStore
<1>1. MachineInit => Keys!Init
  BY DEF MachineInit, Ps2Init, Keys!Init, Listening
<1>2. MInv /\ [MachineNext]_mvars => [Keys!Next]_Keys!vars
  <2> SUFFICES ASSUME MInv, [MachineNext]_mvars PROVE [Keys!Next]_Keys!vars
    OBVIOUS
  <2>1. CASE Open
    BY <2>1, OpenStep
  <2>2. CASE ~Open
    BY <2>2 DEF Open, Keys!Next, Keys!Closed
  <2> QED BY <2>1, <2>2
<1> QED BY <1>1, <1>2, MachineInvariance, PTL DEF MachineSpec, ImplementsKeyStore, Keys!Spec
=============================================================================
