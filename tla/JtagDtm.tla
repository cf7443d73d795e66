------------------------------- MODULE JtagDtm -------------------------------
(***************************************************************************)
(* The JTAG debug transport module of remote_bitbang_t: the pins, the      *)
(* instruction register and the three data registers, each a container     *)
(* register and a shift register, driven by set_pins() and reset().        *)
(*                                                                         *)
(* A register is the sequence of its bits, least significant bit first: a  *)
(* right shift drops the head and the bit of TDI arrives at the end.  The  *)
(* widths, the instruction codes and the power-on contents are constants.  *)
(* What the debug module does with a DMI request is module DebugModule;    *)
(* here an UPDATE_DR of the dmi register leaves any reply of its shape.    *)
(***************************************************************************)
EXTENDS TapStateMachine, Sequences

CONSTANTS
    IrLen,          \* bits of the instruction register (5)
    Width,          \* bits of each data register (32, 32, 7 + 34)
    DmiAddressBits, \* ABITS_LENGTH (7)
    IR_IDCODE, IR_DTMCS, IR_DMI,  \* instruction codes 0x01, 0x10, 0x11
    PowerOn,        \* contents of the containers after the constructor
    ShiftModulus,   \* shift_amount is a uint8_t (256)
    PinWrites       \* the pin writes of the client, a set of <<tck, tms, tdi>>

DataRegisters == {"id_code", "dtmcs", "dmi"}
Word(n) == [1..n -> Bit]

ASSUME ConstantsAssumption ==
    /\ IrLen \in Nat \ {0}
    /\ Width \in [DataRegisters -> Nat \ {0}]
    /\ DmiAddressBits \in Nat \ {0}
    /\ DmiAddressBits + 2 < Width["dmi"]
    /\ {IR_IDCODE, IR_DTMCS, IR_DMI} \subseteq Word(IrLen)
    /\ IR_IDCODE # IR_DTMCS /\ IR_IDCODE # IR_DMI /\ IR_DTMCS # IR_DMI
    /\ \A r \in DataRegisters : PowerOn[r] \in Word(Width[r])
    /\ ShiftModulus \in Nat \ {0}
    /\ PinWrites \subseteq Bit \X Bit \X Bit

VARIABLES
    tck, tms, tdi, tdo,
    instruction_container_register, instruction_shift_register,
    container, shift,   \* DataRegisters -> bits
    shift_amount

pins == <<tck, tms, tdi>>
registers == <<instruction_container_register, instruction_shift_register,
               container, shift, shift_amount>>
dtmVars == <<tsm_current_state, pins, tdo, registers>>

Zeros(n) == [i \in 1..n |-> 0]

DtmInit ==
    /\ TapInit
    /\ tck = 1 /\ tms = 1 /\ tdi = 1
    /\ tdo \in Bit     \* not initialised by the constructor
    /\ instruction_container_register = IR_IDCODE
    /\ instruction_shift_register = Zeros(IrLen)
    /\ container = [r \in DataRegisters |-> PowerOn[r]]
    /\ shift = [r \in DataRegisters |-> Zeros(Width[r])]
    /\ shift_amount = 0

\* The data register an instruction selects; BYPASS and every other code fall
\* into the default cases and select none.
RegisterOf(ir) == CASE ir = IR_IDCODE -> "id_code"
                    [] ir = IR_DTMCS  -> "dtmcs"
                    [] ir = IR_DMI    -> "dmi"
                    [] OTHER          -> "none"

Selected == RegisterOf(instruction_container_register)

\* A mistake a run must detect: a left shift.
ShiftInLeft(word, bit) == <<bit>> \o SubSeq(word, 1, Len(word) - 1)

\* One right shift with the bit of TDI entering at the most significant end.
ShiftIn(word, bit) == Append(Tail(word), bit)

\* A mistake a run must detect: a counter that never wraps.
IncrementedForEver(n) == n + 1

\* shift_amount++ of a uint8_t.
Incremented(n) == IF n + 1 = ShiftModulus THEN 0 ELSE n + 1

-----------------------------------------------------------------------------
(***************************************************************************)
(* set_pins() with tck = 0: the falling side of the clock.                 *)
(***************************************************************************)

\* A write in SHIFT_DR: the first one after the capture moves no bit, and for
\* the dmi register it drives TDO to 0.
ShiftDr(di) ==
    /\ Selected # "none"
    /\ shift_amount' = Incremented(shift_amount)
    /\ IF shift_amount >= 1
       THEN /\ tdo' = Head(shift[Selected])
            /\ shift' = [shift EXCEPT ![Selected] = ShiftIn(@, di)]
       ELSE /\ tdo' = IF Selected = "dmi" THEN 0 ELSE tdo
            /\ UNCHANGED shift
    /\ UNCHANGED <<instruction_container_register,
                   instruction_shift_register, container>>

ShiftIr(di) ==
    /\ tdo' = Head(instruction_shift_register)
    /\ instruction_shift_register' = ShiftIn(instruction_shift_register, di)
    /\ UNCHANGED <<instruction_container_register, container, shift,
                   shift_amount>>

FallingNothing ==
    /\ tsm_current_state \notin {"SHIFT_DR", "SHIFT_IR"}
       \/ (tsm_current_state = "SHIFT_DR" /\ Selected = "none")
    /\ UNCHANGED <<tdo, registers>>

set_pins_low(ms, di) ==
    /\ tck' = 0 /\ tms' = ms /\ tdi' = di
    /\ UNCHANGED tsm_current_state
    /\ \/ tsm_current_state = "SHIFT_DR" /\ ShiftDr(di)
       \/ tsm_current_state = "SHIFT_IR" /\ ShiftIr(di)
       \/ FallingNothing

-----------------------------------------------------------------------------
(***************************************************************************)
(* state_entered(): what entering a state does to the registers.           *)
(***************************************************************************)

\* Mistakes a run must detect: a capture that keeps shift_amount, and one that
\* captures the status bits 01 of IEEE 1149.1 instead of the instruction.
CaptureDrKeepsAmount ==
    /\ IF Selected = "none"
       THEN UNCHANGED shift
       ELSE shift' = [shift EXCEPT ![Selected] = container[Selected]]
    /\ UNCHANGED <<shift_amount, instruction_container_register,
                   instruction_shift_register, container>>

CaptureIrStatus ==
    /\ instruction_shift_register' = [Zeros(IrLen) EXCEPT ![1] = 1]
    /\ UNCHANGED <<instruction_container_register, container, shift,
                   shift_amount>>

CaptureDr ==
    /\ IF Selected = "none"
       THEN UNCHANGED <<shift, shift_amount>>
       ELSE /\ shift' = [shift EXCEPT ![Selected] = container[Selected]]
            /\ shift_amount' = 0
    /\ UNCHANGED <<instruction_container_register,
                   instruction_shift_register, container>>

CaptureIr ==
    /\ instruction_shift_register' = instruction_container_register
    /\ UNCHANGED <<instruction_container_register, container, shift,
                   shift_amount>>

\* The request an UPDATE_DR hands to the debug module: an all-zero scan
\* leaves the container, which then is the request once more.
DmiRequest(scanned, old) ==
    IF scanned = Zeros(Width["dmi"]) THEN old ELSE scanned

SameAddress(a, b) ==
    \A i \in (Width["dmi"] - DmiAddressBits + 1)..Width["dmi"] : a[i] = b[i]

\* What the debug module leaves in the container: the request, or an answer
\* with the same address and the op bits 00.
DmiReplies(request) ==
    { reply \in Word(Width["dmi"]) :
        \/ reply = request
        \/ reply[1] = 0 /\ reply[2] = 0 /\ SameAddress(reply, request) }

\* A mistake a run must detect: the commented-out write to dtmcs restored.
UpdateDrWritesDtmcs ==
    /\ Selected # "none"
    /\ container' = [container EXCEPT ![Selected] = shift[Selected]]
    /\ UNCHANGED <<instruction_container_register,
                   instruction_shift_register, shift, shift_amount>>

UpdateDr ==
    /\ CASE Selected = "id_code" ->
                container' = [container EXCEPT !["id_code"] = shift["id_code"]]
         [] Selected = "dmi" ->
                \E reply \in DmiReplies(DmiRequest(shift["dmi"],
                                                   container["dmi"])) :
                    container' = [container EXCEPT !["dmi"] = reply]
         [] OTHER -> UNCHANGED container
    /\ UNCHANGED <<instruction_container_register,
                   instruction_shift_register, shift, shift_amount>>

UpdateIr ==
    /\ instruction_container_register' = instruction_shift_register
    /\ UNCHANGED <<instruction_shift_register, container, shift, shift_amount>>

ResetIr ==
    /\ instruction_container_register' = IR_IDCODE
    /\ UNCHANGED <<instruction_shift_register, container, shift, shift_amount>>

state_entered(s) ==
    /\ UNCHANGED tdo
    /\ \/ s = "TEST_LOGIC_RESET" /\ ResetIr
       \/ s = "CAPTURE_DR" /\ CaptureDr
       \/ s = "CAPTURE_IR" /\ CaptureIr
       \/ s = "UPDATE_DR" /\ UpdateDr
       \/ s = "UPDATE_IR" /\ UpdateIr
       \/ /\ s \notin {"TEST_LOGIC_RESET", "CAPTURE_DR", "CAPTURE_IR",
                       "UPDATE_DR", "UPDATE_IR"}
          /\ UNCHANGED registers

-----------------------------------------------------------------------------
\* set_pins() with tck # 0.
set_pins_high(ms, di) ==
    /\ tck' = 1 /\ tms' = ms /\ tdi' = di
    /\ transition(ms)
    /\ state_entered(Successor(tsm_current_state, ms))

\* The 'r' command.
reset ==
    /\ tsm_reset
    /\ state_entered("TEST_LOGIC_RESET")
    /\ UNCHANGED pins

DtmNext ==
    \/ \E w \in PinWrites : w[1] = 0 /\ set_pins_low(w[2], w[3])
    \/ \E w \in PinWrites : w[1] = 1 /\ set_pins_high(w[2], w[3])
    \/ reset

DtmSpec == DtmInit /\ [][DtmNext]_dtmVars

DtmTypeOK ==
    /\ tsm_current_state \in TapStates \cup {OUT_OF_RANGE}
    /\ tck \in Bit /\ tms \in Bit /\ tdi \in Bit /\ tdo \in Bit
    /\ instruction_container_register \in Word(IrLen)
    /\ instruction_shift_register \in Word(IrLen)
    /\ DOMAIN container = DataRegisters /\ DOMAIN shift = DataRegisters
    /\ \A r \in DataRegisters : /\ container[r] \in Word(Width[r])
                                /\ shift[r] \in Word(Width[r])
    /\ shift_amount \in 0..(ShiftModulus - 1)

=============================================================================
