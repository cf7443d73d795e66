---------------------------- MODULE JtagDtmProofs ----------------------------
(***************************************************************************)
(* Lemmas about the TAP controller and the transport module, for every     *)
(* width, code, power-on content and modulus: the transition table, shifts *)
(* as words, and the types each pin write keeps.                           *)
(***************************************************************************)
EXTENDS JtagDtm, SequenceTheorems, TLAPS

States == TapStates \cup {OUT_OF_RANGE}

(***************************************************************************)
(* The transition table.                                                   *)
(***************************************************************************)

\* transition() keeps an unknown value and maps enumerators to enumerators.
LEMMA SuccessorType ==
    ASSUME NEW s \in States, NEW input \in Bit
    PROVE  /\ Successor(s, input) \in States
           /\ Successor(s, input) \in TapStates <=> s \in TapStates
  BY DEF States, TapStates, OUT_OF_RANGE, Successor, OnOne, OnZero, Bit

\* A scan state other than the capture is entered from its own column only.
LEMMA ScanColumns ==
    ASSUME NEW s \in States, NEW input \in Bit,
           Successor(s, input) \in DrScanStates \cup IrScanStates
    PROVE  /\ Successor(s, input) \in DrScanStates \ {"CAPTURE_DR"}
                => s \in DrScanStates \ {"UPDATE_DR"}
           /\ Successor(s, input) \in IrScanStates \ {"CAPTURE_IR"}
                => s \in IrScanStates \ {"UPDATE_IR"}
           /\ Successor(s, input) = "CAPTURE_DR" => s = "SELECT_DR_SCAN"
           /\ Successor(s, input) = "CAPTURE_IR" => s = "SELECT_IR_SCAN"
  BY DEF States, TapStates, OUT_OF_RANGE, DrScanStates, IrScanStates,
         Successor, OnOne, OnZero, Bit

(***************************************************************************)
(* Words and shifts.                                                       *)
(***************************************************************************)

\* A word is a sequence of its width.
LEMMA WordIsSequence ==
    ASSUME NEW n \in Nat, NEW w \in Word(n)
    PROVE  w \in Seq(Bit) /\ Len(w) = n
  BY DEF Word

\* A sequence of a register's width is a word of that register.
LEMMA SequenceIsWord ==
    ASSUME NEW w \in Seq(Bit)
    PROVE  w \in Word(Len(w))
  BY LenProperties DEF Word

\* One shift drops the head, adds a bit and keeps the width.
LEMMA ShiftKeepsWidth ==
    ASSUME NEW n \in Nat \ {0}, NEW w \in Word(n), NEW bit \in Bit
    PROVE  /\ ShiftIn(w, bit) \in Word(n)
           /\ Head(w) \in Bit
  <1>1. w \in Seq(Bit) /\ Len(w) = n /\ w # << >>
    BY WordIsSequence
  <1>2. /\ Tail(w) \in Seq(Bit) /\ Len(Tail(w)) = n - 1
        /\ Head(w) \in Bit
    BY <1>1, HeadTailProperties
  <1>3. ShiftIn(w, bit) \in Seq(Bit) /\ Len(ShiftIn(w, bit)) = n
    BY <1>2, AppendProperties DEF ShiftIn
  <1> QED
    BY <1>2, <1>3, SequenceIsWord

\* Concatenation of bit sequences is associative.
LEMMA BitConcatAssociative ==
    \A x, y, z \in Seq(Bit) : (x \o y) \o z = x \o (y \o z)
  BY ConcatAssociative

\* What came out, followed by the register, is what was captured, followed by
\* what went in.
Conserved(out, w, c, in) == out \o w = c \o in

\* One shift moves the head of the register to the seen bits and the new bit
\* to the sent ones, so the whole is extended by that bit.
LEMMA ShiftConserves ==
    ASSUME NEW out \in Seq(Bit), NEW w \in Seq(Bit), w # << >>,
           NEW c \in Seq(Bit), NEW in \in Seq(Bit), NEW bit \in Bit,
           Conserved(out, w, c, in)
    PROVE  Conserved(Append(out, Head(w)), ShiftIn(w, bit),
                     c, Append(in, bit))
  <1> USE DEF Conserved
  <1>1. Head(w) \in Bit /\ Tail(w) \in Seq(Bit) /\ w = <<Head(w)>> \o Tail(w)
    <2>1. Len(w) \in Nat \ {0} /\ Head(w) = w[1]
      BY EmptySeq
    <2>2. w = SubSeq(w, 1, Len(w)) /\ Tail(w) = SubSeq(w, 2, Len(w))
      BY SubSeqFull, TailIsSubSeq
    <2>3. SubSeq(w, 1, Len(w)) = <<w[1]>> \o SubSeq(w, 1 + 1, Len(w))
      BY <2>1, SubSeqRecursiveFirst
    <2> QED
      BY <2>1, <2>2, <2>3, HeadTailProperties
  <1>2. Append(out, Head(w)) = out \o <<Head(w)>>
    BY <1>1, AppendIsConcat
  <1>3. ShiftIn(w, bit) = Tail(w) \o <<bit>>
    BY <1>1, AppendIsConcat DEF ShiftIn
  <1>4. Append(in, bit) = in \o <<bit>>
    BY AppendIsConcat
  <1>5. <<Head(w)>> \in Seq(Bit) /\ <<bit>> \in Seq(Bit)
    BY <1>1
  <1>6. Append(out, Head(w)) \o ShiftIn(w, bit)
          = ((out \o <<Head(w)>>) \o Tail(w)) \o <<bit>>
    <2>1. out \o <<Head(w)>> \in Seq(Bit)
      BY <1>5, ConcatProperties
    <2>2. (out \o <<Head(w)>>) \o (Tail(w) \o <<bit>>)
            = ((out \o <<Head(w)>>) \o Tail(w)) \o <<bit>>
      BY <1>1, <1>5, <2>1, BitConcatAssociative, Zenon
    <2> QED
      BY <1>2, <1>3, <2>2
  <1>7. (out \o <<Head(w)>>) \o Tail(w) = c \o in
    <2>1. (out \o <<Head(w)>>) \o Tail(w) = out \o (<<Head(w)>> \o Tail(w))
      BY <1>1, <1>5, BitConcatAssociative, ZenonT(40)
    <2> QED
      BY <1>1, <2>1
  <1>8. c \o Append(in, bit) = (c \o in) \o <<bit>>
    BY <1>4, <1>5, ConcatAssociative
  <1> QED
    BY <1>6, <1>7, <1>8

\* Two concatenations of equal length parts are equal only part by part.
LEMMA ConcatSplits ==
    ASSUME NEW a \in Seq(Bit), NEW b \in Seq(Bit),
           NEW c \in Seq(Bit), NEW d \in Seq(Bit),
           Len(a) = Len(c), Len(b) = Len(d), a \o b = c \o d
    PROVE  a = c /\ b = d
  <1>1. \A i \in 1..Len(a) : a[i] = (a \o b)[i] /\ c[i] = (c \o d)[i]
    BY ConcatProperties
  <1>2. \A i \in 1..Len(b) : b[i] = d[i]
    <2> SUFFICES ASSUME NEW i \in 1..Len(b) PROVE b[i] = d[i]
      OBVIOUS
    <2>1. /\ Len(a) \in Nat /\ Len(b) \in Nat
          /\ Len(a) + i \in 1..(Len(a) + Len(b))
          /\ ~ (Len(a) + i <= Len(a)) /\ (Len(a) + i) - Len(a) = i
      BY LenProperties
    <2>2. (a \o b)[Len(a) + i] = b[i]
      BY <2>1, ConcatProperties
    <2>3. (c \o d)[Len(a) + i] = d[i]
      BY <2>1, ConcatProperties
    <2> QED
      BY <2>2, <2>3
  <1> QED
    BY <1>1, <1>2, SeqEqual

(***************************************************************************)
(* The constants and the selected register.                                *)
(***************************************************************************)

\* What the assumption says of every register width and pin write.
LEMMA ConstantTypes ==
    /\ IrLen \in Nat \ {0} /\ ShiftModulus \in Nat \ {0}
    /\ \A r \in DataRegisters : Width[r] \in Nat \ {0}
    /\ IR_IDCODE \in Word(IrLen)
    /\ \A w \in PinWrites : w[1] \in Bit /\ w[2] \in Bit /\ w[3] \in Bit
  BY ConstantsAssumption

\* The selected register is a data register or none.
LEMMA SelectedType == Selected \in DataRegisters \cup {"none"}
  BY DEF Selected, RegisterOf, DataRegisters

\* "ir" and "none" name no data register.
LEMMA NoDataRegister == "ir" \notin DataRegisters /\ "none" \notin DataRegisters
  BY DEF DataRegisters

\* Every register in the scan path is a non-empty sequence of bits.
LEMMA RegisterWords ==
    ASSUME DtmTypeOK
    PROVE  /\ instruction_container_register \in Seq(Bit)
           /\ Len(instruction_container_register) = IrLen
           /\ instruction_shift_register \in Seq(Bit)
           /\ Len(instruction_shift_register) = IrLen
           /\ \A r \in DataRegisters :
                /\ container[r] \in Seq(Bit) /\ Len(container[r]) = Width[r]
                /\ shift[r] \in Seq(Bit) /\ Len(shift[r]) = Width[r]
  BY ConstantTypes, WordIsSequence DEF DtmTypeOK

(***************************************************************************)
(* Every pin write keeps the types.                                        *)
(***************************************************************************)

\* state_entered() keeps every register within its width.
LEMMA EnterPreservesTypes ==
    ASSUME DtmTypeOK, NEW s \in States, state_entered(s),
           tsm_current_state' = s, tck' \in Bit, tms' \in Bit, tdi' \in Bit
    PROVE  DtmTypeOK'
  <1>1. tdo' \in Bit
    BY DEF state_entered, DtmTypeOK
  <1>2. CASE s = "CAPTURE_DR" /\ CaptureDr
    <2>1. CASE Selected = "none"
      BY <1>1, <1>2, <2>1 DEF CaptureDr, DtmTypeOK, States
    <2>2. CASE Selected # "none"
      <3>1. Selected \in DataRegisters /\ 0 \in 0..(ShiftModulus - 1)
        BY <2>2, SelectedType, ConstantTypes
      <3> QED
        BY <1>1, <1>2, <2>2, <3>1 DEF CaptureDr, DtmTypeOK, States
    <2> QED
      BY <2>1, <2>2
  <1>3. CASE s = "UPDATE_DR" /\ UpdateDr
    <2>1. /\ DOMAIN container' = DataRegisters
          /\ \A r \in DataRegisters : container'[r] \in Word(Width[r])
      <3>1. CASE Selected = "id_code"
        <4>1. container' = [container EXCEPT !["id_code"] = shift["id_code"]]
          BY <1>3, <3>1 DEF UpdateDr
        <4> QED
          BY <4>1 DEF DtmTypeOK, DataRegisters
      <3>2. CASE Selected = "dmi"
        <4>1. PICK reply \in DmiReplies(DmiRequest(shift["dmi"],
                                                   container["dmi"])) :
                 container' = [container EXCEPT !["dmi"] = reply]
          BY <1>3, <3>2 DEF UpdateDr
        <4>2. reply \in Word(Width["dmi"])
          BY DEF DmiReplies
        <4> QED
          BY <4>1, <4>2 DEF DtmTypeOK
      <3>3. CASE Selected \notin {"id_code", "dmi"}
        BY <1>3, <3>3 DEF UpdateDr, DtmTypeOK
      <3> QED
        BY <3>1, <3>2, <3>3
    <2> QED
      BY <1>1, <1>3, <2>1 DEF UpdateDr, DtmTypeOK, States
  <1>4. CASE ~ (s \in {"CAPTURE_DR", "UPDATE_DR"})
    BY <1>1, <1>4, ConstantTypes
       DEF state_entered, ResetIr, CaptureIr, UpdateIr, registers, DtmTypeOK,
           States
  <1> QED
    BY <1>2, <1>3, <1>4 DEF state_entered

\* The constructor's values have their types, the uninitialised ones too.
LEMMA DtmInitType ==
    ASSUME DtmInit
    PROVE  DtmTypeOK
  <1> USE DEF DtmInit
  <1>1. \A n \in Nat : Zeros(n) \in Word(n)
    BY DEF Zeros, Word, Bit
  <1>2. tsm_current_state \in States
    BY DEF TapInit, States
  <1>3. tck \in Bit /\ tms \in Bit /\ tdi \in Bit /\ tdo \in Bit
    BY DEF Bit
  <1>4. \A r \in DataRegisters : /\ container[r] \in Word(Width[r])
                                 /\ shift[r] \in Word(Width[r])
    BY <1>1, ConstantsAssumption, ConstantTypes
  <1>5. shift_amount \in 0..(ShiftModulus - 1)
    BY ConstantTypes
  <1> QED
    BY <1>1, <1>2, <1>3, <1>4, <1>5, ConstantTypes DEF DtmTypeOK, States

\* A write with the clock low keeps the types, and changes neither the TAP
\* state nor a container.
LEMMA FallingType ==
    ASSUME DtmTypeOK, NEW ms \in Bit, NEW di \in Bit, set_pins_low(ms, di)
    PROVE  /\ DtmTypeOK'
           /\ UNCHANGED <<tsm_current_state, instruction_container_register,
                          container>>
  <1>1. /\ UNCHANGED <<tsm_current_state, instruction_container_register,
                       container>>
        /\ tck' \in Bit /\ tms' \in Bit /\ tdi' \in Bit
    <2>1. UNCHANGED <<instruction_container_register, container>>
      BY DEF set_pins_low, ShiftDr, ShiftIr, FallingNothing, registers
    <2> QED
      BY <2>1 DEF set_pins_low, Bit
  <1>2. CASE ShiftDr(di)
    <2> DEFINE r == Selected
    <2>1. r \in DataRegisters
      BY <1>2, SelectedType DEF ShiftDr
    <2> HIDE DEF r
    <2>2. /\ shift[r] \in Word(Width[r])
          /\ Width[r] \in Nat \ {0}
          /\ shift_amount \in 0..(ShiftModulus - 1)
          /\ ShiftModulus \in Nat \ {0}
      BY <2>1, ConstantTypes DEF DtmTypeOK
    <2>3. ShiftIn(shift[r], di) \in Word(Width[r]) /\ Head(shift[r]) \in Bit
      BY <2>2, ShiftKeepsWidth
    <2>4. /\ tdo' \in {Head(shift[r]), 0, tdo}
          /\ shift_amount' = Incremented(shift_amount)
          /\ \/ shift' = shift
             \/ shift' = [shift EXCEPT ![r] = ShiftIn(shift[r], di)]
          /\ UNCHANGED instruction_shift_register
      BY <1>2 DEF ShiftDr, r
    <2>5. tdo' \in Bit /\ shift_amount' \in 0..(ShiftModulus - 1)
      BY <2>2, <2>3, <2>4 DEF Incremented, DtmTypeOK, Bit
    <2>6. /\ DOMAIN shift' = DataRegisters
          /\ \A x \in DataRegisters : shift'[x] \in Word(Width[x])
      BY <2>1, <2>3, <2>4 DEF DtmTypeOK
    <2> QED
      BY <1>1, <2>4, <2>5, <2>6 DEF DtmTypeOK
  <1>3. CASE ShiftIr(di)
    <2>1. /\ ShiftIn(instruction_shift_register, di) \in Word(IrLen)
          /\ Head(instruction_shift_register) \in Bit
      BY ConstantTypes, ShiftKeepsWidth DEF DtmTypeOK
    <2> QED
      BY <1>1, <1>3, <2>1 DEF ShiftIr, DtmTypeOK
  <1>4. CASE FallingNothing
    BY <1>1, <1>4 DEF FallingNothing, registers, DtmTypeOK
  <1> QED
    BY <1>1, <1>2, <1>3, <1>4 DEF set_pins_low

\* So does a write with the clock high.
LEMMA RisingType ==
    ASSUME DtmTypeOK, NEW ms \in Bit, NEW di \in Bit, set_pins_high(ms, di)
    PROVE  DtmTypeOK'
  <1>1. /\ Successor(tsm_current_state, ms) \in States
        /\ tck' \in Bit /\ tms' \in Bit /\ tdi' \in Bit
    BY SuccessorType DEF set_pins_high, DtmTypeOK, States, Bit
  <1> QED
    BY <1>1, EnterPreservesTypes DEF set_pins_high, transition

\* And the r command.
LEMMA ResetType ==
    ASSUME DtmTypeOK, reset
    PROVE  DtmTypeOK'
  <1>1. /\ "TEST_LOGIC_RESET" \in States
        /\ tck' \in Bit /\ tms' \in Bit /\ tdi' \in Bit
    BY DEF reset, pins, DtmTypeOK, States, TapStates
  <1> QED
    BY <1>1, EnterPreservesTypes DEF reset, tsm_reset

=============================================================================
