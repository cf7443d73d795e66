------------------------------ MODULE JtagMock ------------------------------
(***************************************************************************)
(* The simulated target as one machine: the TAP controller, the transport  *)
(* module and the debug module behind execute_command().                   *)
(*                                                                         *)
(* The code has one dmi_container_register.  Here container["dmi"] holds   *)
(* its bits, which the scans see, and dmi_container_register its fields,   *)
(* which the debug module sees; Encode and Decode relate them.             *)
(***************************************************************************)
EXTENDS JtagDtm, DebugModule

\* Four bits of a word, from position i on, as a number, and sixteen.
Nibble(word, i) ==
    word[i] + 2 * word[i + 1] + 4 * word[i + 2] + 8 * word[i + 3]
HalfAt(word, i) ==
    Nibble(word, i) + 16 * Nibble(word, i + 4)
        + 256 * Nibble(word, i + 8) + 4096 * Nibble(word, i + 12)

\* get_dmi_op(), get_dmi_data() and get_dmi_address(): two bits, 32 bits, the
\* other seven.
Decode(word) ==
    [ op      |-> word[1] + 2 * word[2],
      data    |-> W(HalfAt(word, 19), HalfAt(word, 3)),
      address |-> Nibble(word, 35)
                    + 16 * (word[39] + 2 * word[40] + 4 * word[41]) ]

\* A mistake a run must detect: the data shifted over the op's second bit.
EncodeShiftedByOne(q) ==
    [ i \in 1..41 |-> CASE i = 1      -> BitOf(q.op, 0)
                        [] i \in 2..17  -> BitOf(q.data.lo, i - 2)
                        [] i \in 18..33 -> BitOf(q.data.hi, i - 18)
                        [] i = 34     -> 0
                        [] OTHER      -> BitOf(q.address, i - 35) ]

\* (address << 34) | (data << 2) | op
Encode(q) ==
    [ i \in 1..41 |-> CASE i <= 2       -> BitOf(q.op, i - 1)
                        [] i \in 3..18  -> BitOf(q.data.lo, i - 3)
                        [] i \in 19..34 -> BitOf(q.data.hi, i - 19)
                        [] OTHER        -> BitOf(q.address, i - 35) ]

Bits(w) == [ i \in 1..32 |-> IF i <= 16 THEN BitOf(w.lo, i - 1)
                                        ELSE BitOf(w.hi, i - 17) ]

\* 0x20000913
id_code == Bits(W(8192, 2323))

\* abits 7, version 1, everything else 0
init_dtmcs == Bits(W(0, 7 * 16 + 1))

\* The sizes, codes and initial contents of the program.
ASSUME ProgramConstants ==
    /\ IrLen = 5 /\ DmiAddressBits = 7 /\ ShiftModulus = 256
    /\ Width = [id_code |-> 32, dtmcs |-> 32, dmi |-> 41]
    /\ IR_IDCODE = <<1, 0, 0, 0, 0>>
    /\ IR_DTMCS = <<0, 0, 0, 0, 1>> /\ IR_DMI = <<1, 0, 0, 0, 1>>
    /\ PowerOn = [id_code |-> id_code, dtmcs |-> init_dtmcs,
                  dmi |-> Encode(init_dmi)]
    /\ PinWrites = Bit \X Bit \X Bit

mockVars == <<dtmVars, dmVars>>

MockInit == DtmInit /\ DmInit

-----------------------------------------------------------------------------
EntersUpdateDmi(ms) ==
    Successor(tsm_current_state, ms) = "UPDATE_DR" /\ Selected = "dmi"

\* A mistake a run must detect: an answer that never reaches the container.
UpdateDmiRegisterUnanswered(ms, di) ==
    /\ tck' = 1 /\ tms' = ms /\ tdi' = di
    /\ transition(ms)
    /\ UpdateDmi(Decode(shift["dmi"]))
    /\ container' = [container EXCEPT
                        !["dmi"] = DmiRequest(shift["dmi"], @)]
    /\ UNCHANGED <<tdo, instruction_container_register,
                   instruction_shift_register, shift, shift_amount>>

\* Entering UPDATE_DR with the dmi instruction: the debug module handles the
\* request at once and its answer is the container the next capture reads.
UpdateDmiRegister(ms, di) ==
    /\ tck' = 1 /\ tms' = ms /\ tdi' = di
    /\ transition(ms)
    /\ UpdateDmi(Decode(shift["dmi"]))
    /\ container' = [container EXCEPT !["dmi"] = Encode(dmi_container_register')]
    /\ UNCHANGED <<tdo, instruction_container_register,
                   instruction_shift_register, shift, shift_amount>>

\* A mistake a run must detect: a repeated clock level taken for no edge, which
\* OpenOCD's two low writes at the start of a data scan depend on.
set_pins_edges(ck, ms, di) ==
    IF ck = tck
    THEN tms' = ms /\ tdi' = di
         /\ UNCHANGED <<tsm_current_state, tck, tdo, registers, dmVars>>
    ELSE \/ ck = 0 /\ set_pins_low(ms, di) /\ UNCHANGED dmVars
         \/ ck = 1 /\ EntersUpdateDmi(ms) /\ UpdateDmiRegister(ms, di)
         \/ /\ ck = 1 /\ ~ EntersUpdateDmi(ms)
            /\ set_pins_high(ms, di) /\ UNCHANGED dmVars

set_pins(ck, ms, di) ==
    \/ ck = 0 /\ set_pins_low(ms, di) /\ UNCHANGED dmVars
    \/ ck = 1 /\ EntersUpdateDmi(ms) /\ UpdateDmiRegister(ms, di)
    \/ /\ ck = 1 /\ ~ EntersUpdateDmi(ms)
       /\ set_pins_high(ms, di) /\ UNCHANGED dmVars

\* The digit that stands for a pin write: tck, tms and tdi are its bits.
Digit(ck, ms, di) ==
    <<"0", "1", "2", "3", "4", "5", "6", "7">>[4 * ck + 2 * ms + di + 1]

Commands == {"0", "1", "2", "3", "4", "5", "6", "7", "r", "R", "B", "b"}

\* execute_command() on the target's side: R only reads tdo, B and b do
\* nothing.
Drive(command) ==
    \/ \E ck, ms, di \in Bit :
         command = Digit(ck, ms, di) /\ set_pins(ck, ms, di)
    \/ command = "r" /\ reset /\ UNCHANGED dmVars
    \/ command \in {"R", "B", "b"} /\ UNCHANGED mockVars

MockNext == \E command \in Commands : Drive(command)

MockSpec == MockInit /\ [][MockNext]_mockVars

\* One register in two guises.
OneContainer == container["dmi"] = Encode(dmi_container_register)

MockTypeOK == DtmTypeOK /\ DmTypeOK /\ OneContainer

\* The debug module answers with the request or with an answer to the same
\* address and op 00: module JtagDtm, whose UPDATE_DR leaves any such word,
\* is a sound abstraction of it.
DmiAnswersHaveShape ==
    [][container'["dmi"] # container["dmi"] =>
         container'["dmi"] \in DmiReplies(DmiRequest(shift["dmi"],
                                                     container["dmi"]))]_mockVars

=============================================================================
