----------------------------- MODULE ScanHistory -----------------------------
(***************************************************************************)
(* The transport module watched from the client's end of the wire.  The    *)
(* history variables record what the client did and saw, and what the      *)
(* register held when it was captured; no action of JtagDtm reads them.    *)
(* The properties say what a scan means to a client whatever path it takes *)
(* through the pause states, and with which reset it is interrupted.       *)
(***************************************************************************)
EXTENDS JtagDtm

VARIABLES
    ones,     \* consecutive rising writes with TMS = 1
    scanned,  \* the register captured by the scan in progress, "ir" or "none"
    captured, \* its contents at the capture
    falls,    \* falling writes in the shift state since the capture
    sent,     \* bits the client shifted in since the capture
    seen      \* values of TDO after those writes

history == <<ones, scanned, captured, falls, sent, seen>>
vars == <<dtmVars, history>>

HistoryInit ==
    /\ ones = 0
    /\ scanned = "none" /\ captured = << >>
    /\ falls = 0 /\ sent = << >> /\ seen = << >>

Init == DtmInit /\ HistoryInit

\* A client knows of one irregularity: the first falling write in SHIFT_DR
\* moves no bit (the skew the comments of set_pins() take from OpenOCD).
Moves == scanned = "ir" \/ falls >= 1

RecordShift(di) ==
    /\ UNCHANGED <<ones, scanned, captured>>
    /\ falls' = falls + 1
    /\ IF Moves
       THEN sent' = Append(sent, di) /\ seen' = Append(seen, tdo')
       ELSE UNCHANGED <<sent, seen>>

StartScan(register, contents) ==
    /\ scanned' = register /\ captured' = contents
    /\ falls' = 0 /\ sent' = << >> /\ seen' = << >>

RecordState(s) ==
    IF s = "CAPTURE_DR" /\ Selected # "none"
    THEN StartScan(Selected, container[Selected])
    ELSE IF s = "CAPTURE_IR"
    THEN StartScan("ir", instruction_container_register)
    ELSE IF s \in DrScanStates \cup IrScanStates
    THEN UNCHANGED <<scanned, captured, falls, sent, seen>>
    ELSE StartScan("none", << >>)

-----------------------------------------------------------------------------
FallingInShift(ms, di) ==
    /\ set_pins_low(ms, di)
    /\ scanned # "none" /\ tsm_current_state \in {"SHIFT_DR", "SHIFT_IR"}
    /\ RecordShift(di)

FallingElsewhere(ms, di) ==
    /\ set_pins_low(ms, di)
    /\ scanned = "none" \/ tsm_current_state \notin {"SHIFT_DR", "SHIFT_IR"}
    /\ UNCHANGED history

Rising(ms, di) ==
    /\ set_pins_high(ms, di)
    /\ ones' = IF ms = 1 THEN ones + 1 ELSE 0
    /\ RecordState(Successor(tsm_current_state, ms))

Reset ==
    /\ reset
    /\ UNCHANGED ones
    /\ RecordState("TEST_LOGIC_RESET")

Next ==
    \/ \E w \in PinWrites : w[1] = 0 /\ FallingInShift(w[2], w[3])
    \/ \E w \in PinWrites : w[1] = 0 /\ FallingElsewhere(w[2], w[3])
    \/ \E w \in PinWrites : w[1] = 1 /\ Rising(w[2], w[3])
    \/ Reset

Spec == Init /\ [][Next]_vars

-----------------------------------------------------------------------------
(***************************************************************************)
(* Properties.                                                             *)
(***************************************************************************)

\* Every member keeps its width and range, whatever the uninitialised members
\* held at power-on.
TypeOK ==
    /\ DtmTypeOK
    /\ ones \in Nat
    /\ scanned \in DataRegisters \cup {"ir", "none"}
    /\ captured \in Seq(Bit) /\ sent \in Seq(Bit) /\ seen \in Seq(Bit)
    /\ falls \in Nat

\* Five rising writes with TMS = 1 bring any state transition() knows to
\* TEST_LOGIC_RESET, with the IDCODE instruction selected, whatever falling
\* writes, pauses and resets came in between.
FiveOnesReset ==
    (ones >= 5 /\ tsm_current_state # OUT_OF_RANGE)
        => /\ tsm_current_state = "TEST_LOGIC_RESET"
           /\ instruction_container_register = IR_IDCODE

\* The register between TDI and TDO during a scan.
ShiftRegister == IF scanned = "ir" THEN instruction_shift_register
                 ELSE shift[scanned]

\* shift_amount has not wrapped around since the capture.
NotWrapped == scanned = "ir" \/ falls <= ShiftModulus

InScan == scanned # "none" /\ NotWrapped

\* No bit of a scan is lost, doubled or reordered, through pauses and re-entry
\* of the shift state: what TDO showed, followed by what the shift register
\* still holds, is the captured word followed by what TDI was driven with.
ScanConservesBits ==
    InScan => seen \o ShiftRegister = captured \o sent

\* A scan of the register's whole length exchanges the two words: the client
\* has read exactly what was captured, and the register holds what it sent.
FullScanExchanges ==
    (InScan /\ Len(sent) = Len(captured))
        => seen = captured /\ ShiftRegister = sent

\* The instruction register cannot change under a data scan, nor a scan
\* outlive its column: in a scan state the captured register is the selected
\* one, so a shift or an update never hits a register that was not captured.
ScanKeepsItsRegister ==
    scanned # "none" =>
        IF scanned = "ir" THEN tsm_current_state \in IrScanStates
        ELSE tsm_current_state \in DrScanStates /\ Selected = scanned

\* A data register's container changes only when UPDATE_DR is entered, only
\* for the register this scan captured, and according to the bits of this
\* scan: id_code takes the shifted word, the debug module receives the shifted
\* request (the previous one again when it is all zeros), dtmcs never changes.
UpdateCommitsScan ==
    [][\A r \in DataRegisters : container'[r] # container[r] =>
        /\ tsm_current_state' = "UPDATE_DR"
        /\ r # "dtmcs"
        /\ InScan =>
             /\ r = scanned
             /\ r = "id_code" => seen \o container'[r] = captured \o sent
             /\ r = "dmi" =>
                  \E request \in Word(Width["dmi"]) :
                     /\ seen \o request = captured \o sent
                     /\ container'["dmi"] \in
                          DmiReplies(DmiRequest(request, container["dmi"]))]_vars

\* The instruction changes only by a reset, to IDCODE, or when UPDATE_IR is
\* entered, to the bits this instruction scan left in the register.
InstructionCommitsScan ==
    [][instruction_container_register' # instruction_container_register =>
        \/ /\ tsm_current_state' = "TEST_LOGIC_RESET"
           /\ instruction_container_register' = IR_IDCODE
        \/ /\ tsm_current_state' = "UPDATE_IR"
           /\ scanned = "ir" =>
                seen \o instruction_container_register' = captured \o sent]_vars

-----------------------------------------------------------------------------
(***************************************************************************)
(* What documents and comments of the repository say and the code does not *)
(* do.                                                                     *)
(***************************************************************************)

\* README: five ones bring an arbitrary state back to Test-Logic-Reset.  The
\* default case of transition() keeps an uninitialised state for ever.
FiveOnesFromAnyState ==
    ones >= 5 => tsm_current_state = "TEST_LOGIC_RESET"

\* README: in Test-Logic-Reset a client immediately finds IDCODE and can shift
\* it out.  UPDATE_DR overwrites the id_code container with what its shift
\* register holds, and no reset restores it.
ResetOffersIdcode ==
    tsm_current_state = "TEST_LOGIC_RESET"
        => container["id_code"] = PowerOn["id_code"]

\* Comments of set_pins(): only the first shift is ignored.  shift_amount is a
\* uint8_t and returns to 0, so every 256th falling write is ignored again.
OnlyFirstShiftIgnored ==
    scanned # "none" => seen \o ShiftRegister = captured \o sent

-----------------------------------------------------------------------------
(***************************************************************************)
(* The inductive invariant behind the theorems of ScanHistoryProofs.       *)
(***************************************************************************)

\* Rising writes with TMS = 1 from a state to TEST_LOGIC_RESET.
Distance(s) ==
    CASE s = "TEST_LOGIC_RESET"                                -> 0
      [] s = "SELECT_IR_SCAN"                                  -> 1
      [] s = "SELECT_DR_SCAN"                                  -> 2
      [] s \in {"RUN_TEST_IDLE", "UPDATE_DR", "UPDATE_IR"}     -> 3
      [] s \in {"EXIT1_DR", "EXIT2_DR", "EXIT1_IR", "EXIT2_IR"} -> 4
      [] OTHER                                                 -> 5

\* Each one brings the controller a step closer, and no step moves it away by
\* more than the ones it spends.
OnesApproachReset ==
    /\ tsm_current_state \in TapStates =>
           \/ Distance(tsm_current_state) + ones <= 5
           \/ tsm_current_state = "TEST_LOGIC_RESET"
    /\ tsm_current_state = "TEST_LOGIC_RESET"
        => instruction_container_register = IR_IDCODE

\* shift_amount counts the falling writes of the scan until it wraps.
AmountCountsFalls ==
    (scanned \in DataRegisters /\ falls <= ShiftModulus)
        => shift_amount = IF falls = ShiftModulus THEN 0 ELSE falls

LengthsAgree ==
    InScan => Len(seen) = Len(sent) /\ Len(captured) = Len(ShiftRegister)

ScanInvariant ==
    /\ TypeOK
    /\ OnesApproachReset
    /\ ScanKeepsItsRegister
    /\ AmountCountsFalls
    /\ ScanConservesBits
    /\ LengthsAgree

=============================================================================
