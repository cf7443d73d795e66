-------------------------- MODULE ScanHistoryProofs --------------------------
(***************************************************************************)
(* Proofs about ScanHistory for every width, code, power-on content and    *)
(* modulus: the inductive invariant ScanInvariant and what follows from it.*)
(***************************************************************************)
EXTENDS ScanHistory, JtagDtmProofs

(***************************************************************************)
(* The distance to TEST_LOGIC_RESET.                                       *)
(***************************************************************************)

\* A one brings every state but TEST_LOGIC_RESET at least one step closer.
LEMMA OneIsCloser ==
    ASSUME NEW s \in TapStates
    PROVE  \/ Successor(s, 1) = "TEST_LOGIC_RESET"
           \/ Distance(Successor(s, 1)) + 1 <= Distance(s)
  <1>1. CASE s \in {"TEST_LOGIC_RESET", "SELECT_IR_SCAN"}
    BY <1>1 DEF Successor, OnOne
  <1>2. CASE s = "SELECT_DR_SCAN"
    <2>1. Successor(s, 1) = "SELECT_IR_SCAN"
      BY <1>2 DEF Successor, OnOne
    <2> QED
      BY <1>2, <2>1 DEF Distance
  <1>3. CASE s \in {"RUN_TEST_IDLE", "UPDATE_DR", "UPDATE_IR"}
    <2>1. Successor(s, 1) = "SELECT_DR_SCAN"
      BY <1>3 DEF Successor, OnOne
    <2> QED
      BY <1>3, <2>1 DEF Distance
  <1>4. CASE s \in {"EXIT1_DR", "EXIT2_DR", "EXIT1_IR", "EXIT2_IR"}
    <2>1. Successor(s, 1) \in {"UPDATE_DR", "UPDATE_IR"}
      BY <1>4 DEF Successor, OnOne
    <2> QED
      BY <1>4, <2>1 DEF Distance
  <1>5. CASE s \in {"CAPTURE_DR", "SHIFT_DR", "PAUSE_DR",
                    "CAPTURE_IR", "SHIFT_IR", "PAUSE_IR"}
    <2>1. Successor(s, 1) \in {"EXIT1_DR", "EXIT2_DR",
                              "EXIT1_IR", "EXIT2_IR"}
      BY <1>5 DEF Successor, OnOne
    <2> QED
      BY <1>5, <2>1 DEF Distance
  <1> QED
    BY <1>1, <1>2, <1>3, <1>4, <1>5 DEF TapStates

\* No state is more than five ones from TEST_LOGIC_RESET.
LEMMA DistanceType ==
    ASSUME NEW s
    PROVE  Distance(s) \in 0..5
  BY DEF Distance

(***************************************************************************)
(* The inductive invariant: one lemma per action.                          *)
(***************************************************************************)

\* The constructor's values satisfy the inductive invariant.
LEMMA InitEstablishes == Init => ScanInvariant
  <1> SUFFICES ASSUME Init PROVE ScanInvariant
    OBVIOUS
  <1> USE DEF Init, DtmInit, HistoryInit
  <1>1. DtmTypeOK
    BY DtmInitType
  <1>2. TypeOK
    BY <1>1, EmptySeq DEF TypeOK
  <1>3. OnesApproachReset
    BY DistanceType DEF OnesApproachReset
  <1>4. ScanKeepsItsRegister /\ AmountCountsFalls
    BY NoDataRegister DEF ScanKeepsItsRegister, AmountCountsFalls
  <1>5. ScanConservesBits /\ LengthsAgree
    BY DEF ScanConservesBits, LengthsAgree, InScan
  <1> QED
    BY <1>2, <1>3, <1>4, <1>5 DEF ScanInvariant

\* set_pins() in a shift state: a shifted bit is conserved and shift_amount
\* counts it.
LEMMA FallingInShiftPreserves ==
    ASSUME ScanInvariant, NEW ms \in Bit, NEW di \in Bit,
           FallingInShift(ms, di)
    PROVE  ScanInvariant'
  <1> USE DEF ScanInvariant, TypeOK
  <1>1. /\ UNCHANGED <<tsm_current_state, instruction_container_register,
                       ones, scanned, captured, container>>
        /\ falls' = falls + 1 /\ falls \in Nat
        /\ tck' \in Bit /\ tms' \in Bit /\ tdi' \in Bit
        /\ scanned # "none"
        /\ IF Moves THEN sent' = Append(sent, di) /\ seen' = Append(seen, tdo')
                    ELSE UNCHANGED <<sent, seen>>
    <2>1. UNCHANGED <<instruction_container_register, container>>
      BY DEF FallingInShift, set_pins_low, ShiftDr, ShiftIr, FallingNothing,
             registers
    <2> QED
      BY <2>1 DEF FallingInShift, set_pins_low, RecordShift, Bit
  <1>2. OnesApproachReset' /\ ScanKeepsItsRegister'
    BY <1>1 DEF OnesApproachReset, ScanKeepsItsRegister, Selected, RegisterOf,
                Distance
  <1>3. CASE tsm_current_state = "SHIFT_DR"
    <2>1. scanned \in DataRegisters /\ Selected = scanned /\ scanned # "ir"
      BY <1>1, <1>3, NoDataRegister DEF ScanKeepsItsRegister, IrScanStates
    <2>2. ShiftDr(di)
      BY <1>3, <2>1, NoDataRegister DEF FallingInShift, set_pins_low,
                                        FallingNothing
    <2>3. /\ shift[scanned] \in Word(Width[scanned])
          /\ Width[scanned] \in Nat \ {0}
          /\ shift_amount \in 0..(ShiftModulus - 1)
          /\ ShiftModulus \in Nat \ {0}
      BY <2>1, ConstantTypes DEF DtmTypeOK
    <2>4. /\ ShiftIn(shift[scanned], di) \in Word(Width[scanned])
          /\ Head(shift[scanned]) \in Bit
      BY <2>3, ShiftKeepsWidth
    <2>5. tdo' \in Bit
      BY <2>1, <2>2, <2>4 DEF ShiftDr, DtmTypeOK, Bit
    <2>6. shift_amount' \in 0..(ShiftModulus - 1)
      BY <2>2, <2>3 DEF ShiftDr, Incremented
    <2>7. /\ DOMAIN shift' = DataRegisters
          /\ \A r \in DataRegisters : shift'[r] \in Word(Width[r])
      BY <2>1, <2>2, <2>4 DEF ShiftDr, DtmTypeOK
    <2>8. UNCHANGED instruction_shift_register
      BY <2>2 DEF ShiftDr
    <2>9. DtmTypeOK'
      BY <1>1, <2>5, <2>6, <2>7, <2>8 DEF DtmTypeOK
    <2>10. sent' \in Seq(Bit) /\ seen' \in Seq(Bit)
      <3>1. sent \in Seq(Bit) /\ seen \in Seq(Bit)
        OBVIOUS
      <3>2. Append(sent, di) \in Seq(Bit) /\ Append(seen, tdo') \in Seq(Bit)
        BY <2>5, <3>1, AppendProperties
      <3> QED
        BY <1>1, <3>1, <3>2
    <2>11. TypeOK'
      BY <1>1, <2>9, <2>10
    <2>12. falls + 1 <= ShiftModulus =>
              /\ shift_amount = falls
              /\ shift_amount' = IF falls + 1 = ShiftModulus THEN 0
                                                             ELSE falls + 1
      BY <1>1, <2>1, <2>2, <2>3 DEF AmountCountsFalls, ShiftDr, Incremented
    <2>13. AmountCountsFalls'
      BY <1>1, <2>12 DEF AmountCountsFalls
    <2>14. ASSUME InScan'
           PROVE  /\ seen' \o ShiftRegister' = captured' \o sent'
                  /\ Len(seen') = Len(sent')
                  /\ Len(captured') = Len(ShiftRegister')
      <3>1. falls + 1 <= ShiftModulus /\ InScan
        BY <1>1, <2>1, <2>3, <2>14 DEF InScan, NotWrapped
      <3>2. /\ seen \o shift[scanned] = captured \o sent
            /\ Len(seen) = Len(sent) /\ Len(captured) = Len(shift[scanned])
        BY <2>1, <3>1 DEF ScanConservesBits, LengthsAgree, ShiftRegister
      <3>3. CASE falls = 0
        BY <1>1, <2>1, <2>2, <2>12, <3>1, <3>2, <3>3, SMTT(30)
           DEF ShiftDr, Moves, ShiftRegister
      <3>4. CASE falls >= 1
        <4>1. /\ tdo' = Head(shift[scanned])
              /\ shift'[scanned] = ShiftIn(shift[scanned], di)
          BY <1>1, <2>1, <2>2, <2>12, <3>1, <3>4 DEF ShiftDr, DtmTypeOK
        <4>2. sent' = Append(sent, di) /\ seen' = Append(seen, tdo')
          BY <1>1, <3>4 DEF Moves
        <4>3. /\ shift[scanned] \in Seq(Bit)
              /\ Len(shift[scanned]) = Width[scanned]
              /\ shift[scanned] # << >>
              /\ Len(ShiftIn(shift[scanned], di)) = Width[scanned]
          BY <2>3, <2>4, WordIsSequence
        <4>4. seen' \o shift'[scanned] = captured \o sent'
          <5> HIDE DEF ScanInvariant, TypeOK
          <5>1. captured \in Seq(Bit) /\ sent \in Seq(Bit) /\ seen \in Seq(Bit)
            BY DEF ScanInvariant, TypeOK
          <5>2. Conserved(seen, shift[scanned], captured, sent)
            BY <3>2 DEF Conserved
          <5>3. Conserved(Append(seen, Head(shift[scanned])),
                          ShiftIn(shift[scanned], di),
                          captured, Append(sent, di))
            BY <4>3, <5>1, <5>2, ShiftConserves
          <5> QED
            BY <4>1, <4>2, <5>3 DEF Conserved
        <4>5. Len(seen') = Len(seen) + 1 /\ Len(sent') = Len(sent) + 1
          BY <2>5, <4>2, AppendProperties
        <4> QED
          BY <1>1, <2>1, <3>2, <4>1, <4>3, <4>4, <4>5 DEF ShiftRegister
      <3> QED
        BY <1>1, <3>3, <3>4, SMTT(30)
    <2> QED
      BY <1>2, <2>11, <2>13, <2>14 DEF ScanConservesBits, LengthsAgree
  <1>4. CASE tsm_current_state = "SHIFT_IR"
    <2>1. scanned = "ir"
      BY <1>1, <1>4 DEF ScanKeepsItsRegister, DrScanStates
    <2>2. ShiftIr(di)
      BY <1>4 DEF FallingInShift, set_pins_low, FallingNothing
    <2>3. /\ ShiftIn(instruction_shift_register, di) \in Word(IrLen)
          /\ Head(instruction_shift_register) \in Bit
      BY ConstantTypes, ShiftKeepsWidth DEF DtmTypeOK
    <2>4. /\ tdo' = Head(instruction_shift_register)
          /\ instruction_shift_register'
               = ShiftIn(instruction_shift_register, di)
          /\ UNCHANGED <<shift, shift_amount>>
      BY <2>2 DEF ShiftIr
    <2>5. DtmTypeOK'
      BY <1>1, <2>3, <2>4 DEF DtmTypeOK
    <2>6. sent' = Append(sent, di) /\ seen' = Append(seen, tdo')
      BY <1>1, <2>1 DEF Moves
    <2>7. /\ sent' \in Seq(Bit) /\ Len(sent') = Len(sent) + 1
          /\ seen' \in Seq(Bit) /\ Len(seen') = Len(seen) + 1
      BY <2>3, <2>4, <2>6, AppendProperties
    <2>8. TypeOK'
      BY <1>1, <2>5, <2>7
    <2>9. AmountCountsFalls'
      BY <1>1, <2>1, NoDataRegister DEF AmountCountsFalls
    <2>10. /\ seen \o instruction_shift_register = captured \o sent
           /\ Len(seen) = Len(sent)
           /\ Len(captured) = Len(instruction_shift_register)
      BY <1>1, <2>1 DEF ScanConservesBits, LengthsAgree, ShiftRegister, InScan,
                        NotWrapped
    <2>11. /\ instruction_shift_register \in Seq(Bit)
           /\ Len(instruction_shift_register) = IrLen
           /\ instruction_shift_register # << >>
           /\ Len(instruction_shift_register') = IrLen
      BY <2>3, <2>4, ConstantTypes, WordIsSequence DEF DtmTypeOK
    <2>12. seen' \o instruction_shift_register' = captured \o sent'
      <3> HIDE DEF ScanInvariant, TypeOK
      <3>1. captured \in Seq(Bit) /\ sent \in Seq(Bit) /\ seen \in Seq(Bit)
        BY DEF ScanInvariant, TypeOK
      <3>2. Conserved(seen, instruction_shift_register, captured, sent)
        BY <2>10 DEF Conserved
      <3>3. Conserved(Append(seen, Head(instruction_shift_register)),
                      ShiftIn(instruction_shift_register, di),
                      captured, Append(sent, di))
        BY <2>11, <3>1, <3>2, ShiftConserves
      <3> QED
        BY <2>4, <2>6, <3>3 DEF Conserved
    <2>13. /\ ScanConservesBits' /\ LengthsAgree'
      BY <1>1, <2>1, <2>7, <2>10, <2>11, <2>12
         DEF ScanConservesBits, LengthsAgree, ShiftRegister
    <2> QED
      BY <1>2, <2>8, <2>9, <2>13
  <1> QED
    BY <1>3, <1>4 DEF FallingInShift

\* A falling write that belongs to no captured scan leaves the history alone.
LEMMA FallingElsewherePreserves ==
    ASSUME ScanInvariant, NEW ms \in Bit, NEW di \in Bit,
           FallingElsewhere(ms, di)
    PROVE  ScanInvariant'
  <1> USE DEF ScanInvariant, TypeOK
  <1>1. /\ UNCHANGED <<tsm_current_state, instruction_container_register,
                       container, ones, scanned, captured, falls, sent, seen>>
        /\ tck' \in Bit /\ tms' \in Bit /\ tdi' \in Bit
    <2>1. UNCHANGED <<instruction_container_register, container>>
      BY DEF FallingElsewhere, set_pins_low, ShiftDr, ShiftIr, FallingNothing,
             registers
    <2> QED
      BY <2>1 DEF FallingElsewhere, set_pins_low, history, Bit
  <1>2. OnesApproachReset' /\ ScanKeepsItsRegister'
    BY <1>1 DEF OnesApproachReset, ScanKeepsItsRegister, Selected, RegisterOf,
                Distance
  <1>3. CASE tsm_current_state \notin {"SHIFT_DR", "SHIFT_IR"}
    <2>1. UNCHANGED <<tdo, instruction_shift_register, shift, shift_amount>>
      BY <1>3 DEF FallingElsewhere, set_pins_low, FallingNothing, registers
    <2>2. TypeOK'
      BY <1>1, <2>1 DEF DtmTypeOK
    <2>3. AmountCountsFalls' /\ ScanConservesBits' /\ LengthsAgree'
      BY <1>1, <2>1 DEF AmountCountsFalls, ScanConservesBits, LengthsAgree,
                        InScan, NotWrapped, ShiftRegister
    <2> QED
      BY <1>2, <2>2, <2>3
  <1>4. CASE scanned = "none"
    <2>1. DtmTypeOK'
      <3>1. CASE ShiftDr(di)
        <4>1. Selected \in DataRegisters
          BY <3>1, SelectedType DEF ShiftDr
        <4>2. /\ shift[Selected] \in Word(Width[Selected])
              /\ Width[Selected] \in Nat \ {0}
              /\ shift_amount \in 0..(ShiftModulus - 1)
              /\ ShiftModulus \in Nat \ {0}
          BY <4>1, ConstantTypes DEF DtmTypeOK
        <4>3. /\ ShiftIn(shift[Selected], di) \in Word(Width[Selected])
              /\ Head(shift[Selected]) \in Bit
          BY <4>2, ShiftKeepsWidth
        <4>4. tdo' \in Bit
          BY <3>1, <4>3 DEF ShiftDr, DtmTypeOK, Bit
        <4>5. shift_amount' \in 0..(ShiftModulus - 1)
          BY <3>1, <4>2 DEF ShiftDr, Incremented
        <4>6. /\ DOMAIN shift' = DataRegisters
              /\ \A r \in DataRegisters : shift'[r] \in Word(Width[r])
          BY <3>1, <4>1, <4>3 DEF ShiftDr, DtmTypeOK
        <4>7. UNCHANGED instruction_shift_register
          BY <3>1 DEF ShiftDr
        <4> QED
          BY <1>1, <4>4, <4>5, <4>6, <4>7 DEF DtmTypeOK
      <3>2. CASE ShiftIr(di)
        <4>1. /\ ShiftIn(instruction_shift_register, di) \in Word(IrLen)
              /\ Head(instruction_shift_register) \in Bit
          BY ConstantTypes, ShiftKeepsWidth DEF DtmTypeOK
        <4> QED
          BY <1>1, <3>2, <4>1 DEF ShiftIr, DtmTypeOK
      <3>3. CASE FallingNothing
        BY <1>1, <3>3 DEF FallingNothing, registers, DtmTypeOK
      <3> QED
        BY <3>1, <3>2, <3>3 DEF FallingElsewhere, set_pins_low
    <2>2. TypeOK'
      BY <1>1, <2>1
    <2>3. AmountCountsFalls' /\ ScanConservesBits' /\ LengthsAgree'
      BY <1>1, <1>4, NoDataRegister
         DEF AmountCountsFalls, ScanConservesBits, LengthsAgree, InScan
    <2> QED
      BY <1>2, <2>2, <2>3
  <1> QED
    BY <1>3, <1>4 DEF FallingElsewhere

\* Entering a state starts a scan, continues the one of its column, or ends it.
LEMMA EnterPreservesScan ==
    ASSUME ScanInvariant, NEW s \in States, state_entered(s), RecordState(s),
           tsm_current_state' = s,
           s \in DrScanStates \ {"CAPTURE_DR"}
               => tsm_current_state \in DrScanStates \ {"UPDATE_DR"},
           s \in IrScanStates \ {"CAPTURE_IR"}
               => tsm_current_state \in IrScanStates \ {"UPDATE_IR"},
           s = "CAPTURE_DR" => tsm_current_state = "SELECT_DR_SCAN"
    PROVE  /\ scanned' \in DataRegisters \cup {"ir", "none"}
           /\ captured' \in Seq(Bit) /\ sent' \in Seq(Bit) /\ seen' \in Seq(Bit)
           /\ falls' \in Nat
           /\ ScanKeepsItsRegister' /\ AmountCountsFalls'
           /\ ScanConservesBits' /\ LengthsAgree'
  <1> USE DEF ScanInvariant, TypeOK
  <1>1. CASE s = "CAPTURE_DR" /\ Selected # "none"
    <2>1. /\ scanned' = Selected /\ captured' = container[Selected]
          /\ falls' = 0 /\ sent' = << >> /\ seen' = << >>
      BY <1>1 DEF RecordState, StartScan
    <2>2. CaptureDr
      BY <1>1 DEF state_entered
    <2>3. /\ Selected \in DataRegisters /\ Selected # "ir"
          /\ container[Selected] \in Seq(Bit)
      BY <1>1, SelectedType, NoDataRegister, RegisterWords
    <2>4. /\ shift'[Selected] = container[Selected]
          /\ shift_amount' = 0
          /\ Selected' = Selected
      BY <1>1, <2>2, <2>3 DEF CaptureDr, DtmTypeOK, Selected
    <2>5. ShiftRegister' = container[Selected]
      BY <2>1, <2>3, <2>4 DEF ShiftRegister
    <2>6. ScanKeepsItsRegister' /\ AmountCountsFalls'
      BY <1>1, <2>1, <2>3, <2>4, ConstantTypes
         DEF ScanKeepsItsRegister, AmountCountsFalls, DrScanStates
    <2>7. seen' \o ShiftRegister' = captured' \o sent'
      BY <2>1, <2>3, <2>5, ConcatEmptySeq
    <2>8. ScanConservesBits' /\ LengthsAgree'
      BY <2>1, <2>5, <2>7 DEF ScanConservesBits, LengthsAgree
    <2> QED
      BY <2>1, <2>3, <2>6, <2>8, EmptySeq
  <1>2. CASE s = "CAPTURE_IR"
    <2>1. /\ scanned' = "ir" /\ captured' = instruction_container_register
          /\ falls' = 0 /\ sent' = << >> /\ seen' = << >>
      BY <1>2 DEF RecordState, StartScan
    <2>2. instruction_shift_register' = instruction_container_register
      BY <1>2 DEF state_entered, CaptureIr
    <2>3. ShiftRegister' = instruction_container_register
      BY <2>1, <2>2 DEF ShiftRegister
    <2>4. instruction_container_register \in Seq(Bit)
      BY RegisterWords
    <2>5. ScanKeepsItsRegister' /\ AmountCountsFalls'
      BY <1>2, <2>1, NoDataRegister
         DEF ScanKeepsItsRegister, AmountCountsFalls, IrScanStates
    <2>6. seen' \o ShiftRegister' = captured' \o sent'
      BY <2>1, <2>3, <2>4, ConcatEmptySeq
    <2>7. ScanConservesBits' /\ LengthsAgree'
      BY <2>1, <2>3, <2>6 DEF ScanConservesBits, LengthsAgree
    <2> QED
      BY <2>1, <2>4, <2>5, <2>7, EmptySeq
  <1>3. CASE s = "CAPTURE_DR" /\ Selected = "none"
    <2>1. scanned = "none"
      BY <1>3 DEF ScanKeepsItsRegister, DrScanStates, IrScanStates
    <2>2. UNCHANGED <<scanned, captured, falls, sent, seen>>
      BY <1>3 DEF RecordState, DrScanStates
    <2> QED
      BY <2>1, <2>2, NoDataRegister
         DEF ScanKeepsItsRegister, AmountCountsFalls, ScanConservesBits,
             LengthsAgree, InScan
  <1>4. CASE s \in (DrScanStates \cup IrScanStates)
                     \ {"CAPTURE_DR", "CAPTURE_IR"}
    <2>1. UNCHANGED <<scanned, captured, falls, sent, seen>>
      BY <1>4 DEF RecordState
    <2>2. UNCHANGED <<shift, shift_amount, instruction_shift_register>>
      BY <1>4 DEF state_entered, UpdateDr, UpdateIr, registers, DrScanStates,
                  IrScanStates
    <2>3. s \in DrScanStates => UNCHANGED instruction_container_register
      BY <1>4 DEF state_entered, UpdateDr, registers, DrScanStates
    <2>4. ScanKeepsItsRegister'
      <3>1. CASE s \in DrScanStates
        BY <1>4, <2>1, <2>3, <3>1
           DEF ScanKeepsItsRegister, Selected, DrScanStates, IrScanStates
      <3>2. CASE s \in IrScanStates
        BY <1>4, <2>1, <3>2 DEF ScanKeepsItsRegister, DrScanStates, IrScanStates
      <3> QED
        BY <1>4, <3>1, <3>2
    <2>5. AmountCountsFalls' /\ ScanConservesBits' /\ LengthsAgree'
      BY <2>1, <2>2
         DEF AmountCountsFalls, ScanConservesBits, LengthsAgree, InScan,
             NotWrapped, ShiftRegister
    <2> QED
      BY <2>1, <2>4, <2>5
  <1>5. CASE s \notin DrScanStates \cup IrScanStates
    <2>1. scanned' = "none" /\ captured' = << >> /\ falls' = 0
          /\ sent' = << >> /\ seen' = << >>
      BY <1>5 DEF RecordState, StartScan, DrScanStates, IrScanStates
    <2> QED
      BY <2>1, NoDataRegister, EmptySeq
         DEF ScanKeepsItsRegister, AmountCountsFalls, ScanConservesBits,
             LengthsAgree, InScan
  <1> QED
    BY <1>1, <1>2, <1>3, <1>4, <1>5 DEF DrScanStates, IrScanStates

\* set_pins() with TCK = 1: the transition and state_entered().
LEMMA RisingPreserves ==
    ASSUME ScanInvariant, NEW ms \in Bit, NEW di \in Bit, Rising(ms, di)
    PROVE  ScanInvariant'
  <1> DEFINE s == Successor(tsm_current_state, ms)
  <1>1. /\ tsm_current_state \in States /\ ones \in Nat /\ DtmTypeOK
        /\ tsm_current_state' = s /\ state_entered(s) /\ RecordState(s)
        /\ ones' = IF ms = 1 THEN ones + 1 ELSE 0
        /\ tck' \in Bit /\ tms' \in Bit /\ tdi' \in Bit
    BY DEF ScanInvariant, TypeOK, DtmTypeOK, States, Rising, set_pins_high,
           transition, Bit
  <1>2. s \in States /\ (s \in TapStates <=> tsm_current_state \in TapStates)
    BY <1>1, SuccessorType
  <1>3. /\ s \in DrScanStates \ {"CAPTURE_DR"}
             => tsm_current_state \in DrScanStates \ {"UPDATE_DR"}
        /\ s \in IrScanStates \ {"CAPTURE_IR"}
             => tsm_current_state \in IrScanStates \ {"UPDATE_IR"}
        /\ s = "CAPTURE_DR" => tsm_current_state = "SELECT_DR_SCAN"
    BY <1>1, ScanColumns DEF DrScanStates, IrScanStates
  <1> HIDE DEF s
  <1>4. DtmTypeOK'
    BY <1>1, <1>2, EnterPreservesTypes
  <1>5. /\ scanned' \in DataRegisters \cup {"ir", "none"}
        /\ captured' \in Seq(Bit) /\ sent' \in Seq(Bit) /\ seen' \in Seq(Bit)
        /\ falls' \in Nat
        /\ ScanKeepsItsRegister' /\ AmountCountsFalls'
        /\ ScanConservesBits' /\ LengthsAgree'
    BY <1>1, <1>2, <1>3, EnterPreservesScan
  <1>6. OnesApproachReset'
    <2>1. s = "TEST_LOGIC_RESET" => instruction_container_register' = IR_IDCODE
      BY <1>1 DEF state_entered, ResetIr
    <2>2. s \in TapStates =>
             \/ Distance(s) + ones' <= 5
             \/ s = "TEST_LOGIC_RESET"
      <3>1. CASE ms = 0
        BY <1>1, <3>1, DistanceType
      <3>2. CASE ms = 1
        <4>1. ASSUME tsm_current_state \in TapStates,
                     s # "TEST_LOGIC_RESET"
              PROVE  Distance(s) + (ones + 1) <= 5
          <5>1. Distance(s) + 1 <= Distance(tsm_current_state)
            BY <3>2, <4>1, OneIsCloser DEF s
          <5>2. tsm_current_state # "TEST_LOGIC_RESET"
            BY <3>2, <4>1 DEF s, Successor, OnOne
          <5>3. Distance(tsm_current_state) + ones <= 5
            BY <4>1, <5>2 DEF ScanInvariant, OnesApproachReset
          <5>4. Distance(s) \in 0..5 /\ Distance(tsm_current_state) \in 0..5
            BY DistanceType
          <5> QED
            BY <1>1, <5>1, <5>3, <5>4
        <4> QED
          BY <1>1, <1>2, <3>2, <4>1
      <3> QED
        BY <3>1, <3>2 DEF Bit
    <2> QED
      BY <1>1, <2>1, <2>2 DEF OnesApproachReset, Distance
  <1> QED
    BY <1>1, <1>4, <1>5, <1>6 DEF ScanInvariant, TypeOK

\* The r command: reset() forces TEST_LOGIC_RESET and enters it.
LEMMA ResetPreserves ==
    ASSUME ScanInvariant, Reset
    PROVE  ScanInvariant'
  <1> DEFINE s == "TEST_LOGIC_RESET"
  <1>1. /\ tsm_current_state' = s /\ state_entered(s) /\ RecordState(s)
        /\ UNCHANGED <<ones, tck, tms, tdi>>
        /\ DtmTypeOK /\ ones \in Nat /\ s \in States
    BY DEF Reset, reset, tsm_reset, pins, ScanInvariant, TypeOK, States,
           TapStates
  <1>2. s \notin DrScanStates \cup IrScanStates
    BY DEF DrScanStates, IrScanStates
  <1>3. DtmTypeOK'
    BY <1>1, EnterPreservesTypes DEF DtmTypeOK
  <1>4. /\ scanned' \in DataRegisters \cup {"ir", "none"}
        /\ captured' \in Seq(Bit) /\ sent' \in Seq(Bit) /\ seen' \in Seq(Bit)
        /\ falls' \in Nat
        /\ ScanKeepsItsRegister' /\ AmountCountsFalls'
        /\ ScanConservesBits' /\ LengthsAgree'
    BY <1>1, <1>2, EnterPreservesScan
  <1>5. OnesApproachReset'
    BY <1>1 DEF OnesApproachReset, state_entered, ResetIr
  <1> QED
    BY <1>1, <1>3, <1>4, <1>5 DEF ScanInvariant, TypeOK

\* A step that changes nothing keeps the invariant.
LEMMA StutterPreserves ==
    ASSUME ScanInvariant, UNCHANGED vars
    PROVE  ScanInvariant'
  <1>1. /\ UNCHANGED <<tsm_current_state, tck, tms, tdi, tdo,
                       instruction_container_register,
                       instruction_shift_register, container, shift,
                       shift_amount>>
        /\ UNCHANGED <<ones, scanned, captured, falls, sent, seen>>
    BY DEF vars, dtmVars, pins, registers, history
  <1> QED
    BY <1>1 DEF ScanInvariant, TypeOK, DtmTypeOK, OnesApproachReset, Distance,
                ScanKeepsItsRegister, AmountCountsFalls, ScanConservesBits,
                LengthsAgree, InScan, NotWrapped, ShiftRegister, Selected,
                RegisterOf

\* Every pin write and reset keeps the inductive invariant.
LEMMA NextPreserves == ScanInvariant /\ [Next]_vars => ScanInvariant'
  <1> SUFFICES ASSUME ScanInvariant, [Next]_vars PROVE ScanInvariant'
    OBVIOUS
  <1>1. ASSUME NEW w \in PinWrites, FallingInShift(w[2], w[3])
        PROVE  ScanInvariant'
    BY <1>1, ConstantTypes, FallingInShiftPreserves
  <1>2. ASSUME NEW w \in PinWrites, FallingElsewhere(w[2], w[3])
        PROVE  ScanInvariant'
    BY <1>2, ConstantTypes, FallingElsewherePreserves
  <1>3. ASSUME NEW w \in PinWrites, Rising(w[2], w[3])
        PROVE  ScanInvariant'
    BY <1>3, ConstantTypes, RisingPreserves
  <1> QED
    BY <1>1, <1>2, <1>3, ResetPreserves, StutterPreserves DEF Next

(***************************************************************************)
(* The theorems.                                                           *)
(***************************************************************************)

\* Every reachable state of the transport module and its client satisfies the
\* inductive invariant.
THEOREM InvariantHolds == Spec => []ScanInvariant
  <1>1. Init => ScanInvariant
    BY InitEstablishes
  <1>2. ScanInvariant /\ [Next]_vars => ScanInvariant'
    BY NextPreserves
  <1> QED
    BY <1>1, <1>2, PTL DEF Spec

\* Widths and ranges are kept for every width, code and power-on content.
THEOREM TypeCorrect == Spec => []TypeOK
  <1>1. ScanInvariant => TypeOK
    BY DEF ScanInvariant
  <1> QED
    BY <1>1, InvariantHolds, PTL

\* transition(): five ones lead from every enumerator to TEST_LOGIC_RESET and
\* the IDCODE instruction.
THEOREM FiveOnesResetHolds == Spec => []FiveOnesReset
  <1>1. ScanInvariant => FiveOnesReset
    <2> SUFFICES ASSUME ScanInvariant, ones >= 5,
                        tsm_current_state # OUT_OF_RANGE
                 PROVE  /\ tsm_current_state = "TEST_LOGIC_RESET"
                        /\ instruction_container_register = IR_IDCODE
      BY DEF FiveOnesReset
    <2>1. tsm_current_state \in TapStates /\ ones \in Nat
      BY DEF ScanInvariant, TypeOK, DtmTypeOK
    <2>2. \/ Distance(tsm_current_state) + ones <= 5
          \/ tsm_current_state = "TEST_LOGIC_RESET"
      BY <2>1 DEF ScanInvariant, OnesApproachReset
    <2>3. Distance(tsm_current_state) = 0
            => tsm_current_state = "TEST_LOGIC_RESET"
      BY DEF Distance
    <2>4. tsm_current_state = "TEST_LOGIC_RESET"
      BY <2>1, <2>2, <2>3, DistanceType
    <2> QED
      BY <2>4 DEF ScanInvariant, OnesApproachReset
  <1> QED
    BY <1>1, InvariantHolds, PTL

\* set_pins() and CAPTURE lose, double or reorder no bit of a scan.
THEOREM ScanConservesBitsHolds == Spec => []ScanConservesBits
  <1>1. ScanInvariant => ScanConservesBits
    BY DEF ScanInvariant
  <1> QED
    BY <1>1, InvariantHolds, PTL

\* A scan of the whole register reads the captured word and leaves the sent
\* one, through any pauses.
THEOREM FullScanExchangesHolds == Spec => []FullScanExchanges
  <1>1. ScanInvariant => FullScanExchanges
    <2> SUFFICES ASSUME ScanInvariant, InScan, Len(sent) = Len(captured)
                 PROVE  seen = captured /\ ShiftRegister = sent
      BY DEF FullScanExchanges
    <2>1. /\ seen \o ShiftRegister = captured \o sent
          /\ Len(seen) = Len(sent) /\ Len(captured) = Len(ShiftRegister)
      BY DEF ScanInvariant, ScanConservesBits, LengthsAgree
    <2>2. /\ seen \in Seq(Bit) /\ captured \in Seq(Bit) /\ sent \in Seq(Bit)
          /\ DtmTypeOK /\ scanned \in DataRegisters \cup {"ir"}
      BY DEF ScanInvariant, TypeOK, InScan
    <2>3. ShiftRegister \in Seq(Bit)
      BY <2>2, RegisterWords DEF ShiftRegister
    <2> QED
      BY <2>1, <2>2, <2>3, ConcatSplits, ZenonT(40)
  <1> QED
    BY <1>1, InvariantHolds, PTL

\* The instruction cannot change under a scan: shift and update act on the
\* register that was captured.
THEOREM ScanKeepsItsRegisterHolds == Spec => []ScanKeepsItsRegister
  <1>1. ScanInvariant => ScanKeepsItsRegister
    BY DEF ScanInvariant
  <1> QED
    BY <1>1, InvariantHolds, PTL

\* The containers and the instruction change in rising writes and resets only.
LEMMA ContainersChangeOnEntry ==
    ASSUME [Next]_vars,
           \/ container' # container
           \/ instruction_container_register' # instruction_container_register
    PROVE  \/ \E w \in PinWrites : Rising(w[2], w[3])
           \/ Reset
  BY DEF Next, vars, dtmVars, registers, FallingInShift, FallingElsewhere,
         set_pins_low, ShiftDr, ShiftIr, FallingNothing

\* What reaches a container is the captured register's own scan.
THEOREM UpdateCommitsScanHolds == Spec => UpdateCommitsScan
  <1> DEFINE Commits ==
        \A r \in DataRegisters : container'[r] # container[r] =>
          /\ tsm_current_state' = "UPDATE_DR"
          /\ r # "dtmcs"
          /\ InScan =>
               /\ r = scanned
               /\ r = "id_code" => seen \o container'[r] = captured \o sent
               /\ r = "dmi" =>
                    \E request \in Word(Width["dmi"]) :
                       /\ seen \o request = captured \o sent
                       /\ container'["dmi"] \in
                            DmiReplies(DmiRequest(request, container["dmi"]))
  <1>1. ASSUME ScanInvariant, [Next]_vars PROVE Commits
    <2> SUFFICES ASSUME NEW r \in DataRegisters,
                        container'[r] # container[r]
                 PROVE  /\ tsm_current_state' = "UPDATE_DR"
                        /\ r # "dtmcs"
                        /\ InScan =>
                             /\ r = scanned
                             /\ r = "id_code" =>
                                  seen \o container'[r] = captured \o sent
                             /\ r = "dmi" =>
                                  \E request \in Word(Width["dmi"]) :
                                    /\ seen \o request = captured \o sent
                                    /\ container'["dmi"] \in DmiReplies(
                                         DmiRequest(request, container["dmi"]))
      OBVIOUS
    <2>1. PICK s \in States : state_entered(s) /\ tsm_current_state' = s
                              /\ (s = "UPDATE_DR" =>
                                    tsm_current_state \in DrScanStates)
      <3>1. DtmTypeOK /\ tsm_current_state \in States
        BY <1>1 DEF ScanInvariant, TypeOK, DtmTypeOK, States
      <3>2. CASE Reset
        BY <3>2 DEF Reset, reset, tsm_reset, States, TapStates
      <3>3. ASSUME NEW w \in PinWrites, Rising(w[2], w[3])
            PROVE  \E s \in States : /\ state_entered(s)
                                     /\ tsm_current_state' = s
                                     /\ s = "UPDATE_DR" =>
                                          tsm_current_state \in DrScanStates
        <4>1. /\ Successor(tsm_current_state, w[2]) \in States
              /\ Successor(tsm_current_state, w[2]) = "UPDATE_DR"
                   => tsm_current_state \in DrScanStates
          BY <3>1, SuccessorType, ScanColumns, ConstantTypes DEF DrScanStates
        <4> QED
          BY <3>3, <4>1 DEF Rising, set_pins_high, transition
      <3> QED
        BY <1>1, <3>2, <3>3, ContainersChangeOnEntry
    <2>2. s = "UPDATE_DR" /\ UpdateDr
      BY <2>1 DEF state_entered, ResetIr, CaptureDr, CaptureIr, UpdateIr,
                  registers
    <2>3. r = Selected /\ r \in {"id_code", "dmi"}
      BY <1>1, <2>2 DEF UpdateDr, ScanInvariant, TypeOK, DtmTypeOK
    <2>4. ASSUME InScan
          PROVE  r = scanned /\ seen \o shift[r] = captured \o sent
      <3>1. scanned # "ir" /\ Selected = scanned
        BY <1>1, <2>1, <2>2, <2>4
           DEF ScanInvariant, ScanKeepsItsRegister, InScan, DrScanStates,
               IrScanStates
      <3> QED
        BY <1>1, <2>3, <2>4, <3>1
           DEF ScanInvariant, ScanConservesBits, ShiftRegister
    <2>5. r = "id_code" => container'[r] = shift[r]
      BY <1>1, <2>2, <2>3 DEF UpdateDr, ScanInvariant, TypeOK, DtmTypeOK
    <2>6. r = "dmi" => container'["dmi"] \in
                         DmiReplies(DmiRequest(shift["dmi"], container["dmi"]))
      <3> SUFFICES ASSUME r = "dmi"
                   PROVE  container'["dmi"] \in
                         DmiReplies(DmiRequest(shift["dmi"], container["dmi"]))
        OBVIOUS
      <3>1. PICK reply \in DmiReplies(DmiRequest(shift["dmi"],
                                                 container["dmi"])) :
                 container' = [container EXCEPT !["dmi"] = reply]
        BY <2>2, <2>3 DEF UpdateDr
      <3> QED
        BY <1>1, <3>1 DEF ScanInvariant, TypeOK, DtmTypeOK
    <2>7. shift[r] \in Word(Width[r])
      BY <1>1 DEF ScanInvariant, TypeOK, DtmTypeOK
    <2> QED
      BY <2>1, <2>2, <2>3, <2>4, <2>5, <2>6, <2>7
  <1>2. ScanInvariant /\ [Next]_vars => [Commits]_vars
    BY <1>1
  <1> QED
    BY <1>2, InvariantHolds, PTL DEF Spec, UpdateCommitsScan

\* What reaches the instruction register is a reset or its own scan.
THEOREM InstructionCommitsScanHolds == Spec => InstructionCommitsScan
  <1> DEFINE Commits ==
        instruction_container_register' # instruction_container_register =>
          \/ /\ tsm_current_state' = "TEST_LOGIC_RESET"
             /\ instruction_container_register' = IR_IDCODE
          \/ /\ tsm_current_state' = "UPDATE_IR"
             /\ scanned = "ir" =>
                  seen \o instruction_container_register' = captured \o sent
  <1>1. ASSUME ScanInvariant, [Next]_vars PROVE Commits
    <2> SUFFICES ASSUME instruction_container_register'
                          # instruction_container_register
                 PROVE  Commits
      OBVIOUS
    <2>1. PICK s : state_entered(s) /\ tsm_current_state' = s
      BY <1>1, ContainersChangeOnEntry
         DEF Rising, set_pins_high, transition, Reset, reset, tsm_reset
    <2>2. \/ s = "TEST_LOGIC_RESET" /\ ResetIr
          \/ s = "UPDATE_IR" /\ UpdateIr
      BY <2>1 DEF state_entered, CaptureDr, CaptureIr, UpdateDr, registers
    <2>3. scanned = "ir" =>
            seen \o instruction_shift_register = captured \o sent
      BY <1>1 DEF ScanInvariant, ScanConservesBits, InScan, NotWrapped,
                  ShiftRegister
    <2> QED
      BY <2>1, <2>2, <2>3 DEF ResetIr, UpdateIr
  <1>2. ScanInvariant /\ [Next]_vars => [Commits]_vars
    BY <1>1
  <1> QED
    BY <1>2, InvariantHolds, PTL DEF Spec, InstructionCommitsScan

=============================================================================
