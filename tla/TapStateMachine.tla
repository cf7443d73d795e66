--------------------------- MODULE TapStateMachine ---------------------------
(***************************************************************************)
(* The JTAG TAP controller of tap_state_machine.cpp: sixteen states and a  *)
(* transition on every write that drives TCK high.  The C++ constructor    *)
(* leaves tsm_current_state uninitialised, so at power-on the member holds *)
(* whatever its memory held: one of the sixteen states, or a value outside *)
(* the enumeration, all of which behave alike and are one value here.      *)
(***************************************************************************)
EXTENDS Naturals

Bit == {0, 1}

TapStates ==
    { "TEST_LOGIC_RESET", "RUN_TEST_IDLE",
      "SELECT_DR_SCAN", "CAPTURE_DR", "SHIFT_DR", "EXIT1_DR",
      "PAUSE_DR", "EXIT2_DR", "UPDATE_DR",
      "SELECT_IR_SCAN", "CAPTURE_IR", "SHIFT_IR", "EXIT1_IR",
      "PAUSE_IR", "EXIT2_IR", "UPDATE_IR" }

\* A power-on value of the member that is no enumerator of tsm_state.
OUT_OF_RANGE == "OUT_OF_RANGE"

VARIABLE tsm_current_state

\* The states between a capture and the end of its scan, both included.
DrScanStates == { "CAPTURE_DR", "SHIFT_DR", "EXIT1_DR", "PAUSE_DR",
                  "EXIT2_DR", "UPDATE_DR" }
IrScanStates == { "CAPTURE_IR", "SHIFT_IR", "EXIT1_IR", "PAUSE_IR",
                  "EXIT2_IR", "UPDATE_IR" }

\* The switch of transition() for input = 1; its default keeps the state.
OnOne(s) ==
    CASE s = "TEST_LOGIC_RESET"                        -> "TEST_LOGIC_RESET"
      [] s \in {"RUN_TEST_IDLE", "UPDATE_DR", "UPDATE_IR"} -> "SELECT_DR_SCAN"
      [] s = "SELECT_DR_SCAN"                          -> "SELECT_IR_SCAN"
      [] s = "SELECT_IR_SCAN"                          -> "TEST_LOGIC_RESET"
      [] s \in {"CAPTURE_DR", "SHIFT_DR"}              -> "EXIT1_DR"
      [] s \in {"CAPTURE_IR", "SHIFT_IR"}              -> "EXIT1_IR"
      [] s \in {"EXIT1_DR", "EXIT2_DR"}                -> "UPDATE_DR"
      [] s \in {"EXIT1_IR", "EXIT2_IR"}                -> "UPDATE_IR"
      [] s = "PAUSE_DR"                                -> "EXIT2_DR"
      [] s = "PAUSE_IR"                                -> "EXIT2_IR"
      [] OTHER                                         -> s

\* The same switch for input = 0.
OnZero(s) ==
    CASE s \in {"TEST_LOGIC_RESET", "RUN_TEST_IDLE",
                "UPDATE_DR", "UPDATE_IR"}              -> "RUN_TEST_IDLE"
      [] s = "SELECT_DR_SCAN"                          -> "CAPTURE_DR"
      [] s = "SELECT_IR_SCAN"                          -> "CAPTURE_IR"
      [] s \in {"CAPTURE_DR", "SHIFT_DR", "EXIT2_DR"}  -> "SHIFT_DR"
      [] s \in {"CAPTURE_IR", "SHIFT_IR", "EXIT2_IR"}  -> "SHIFT_IR"
      [] s \in {"EXIT1_DR", "PAUSE_DR"}                -> "PAUSE_DR"
      [] s \in {"EXIT1_IR", "PAUSE_IR"}                -> "PAUSE_IR"
      [] OTHER                                         -> s

\* Mistakes a run must detect: the two exits of EXIT2_DR exchanged, and
\* EXIT2_DR resuming in the other column.
SuccessorExit2Swapped(s, input) ==
    IF s = "EXIT2_DR" THEN (IF input = 1 THEN "SHIFT_DR" ELSE "UPDATE_DR")
    ELSE IF input = 1 THEN OnOne(s) ELSE OnZero(s)
SuccessorExit2Crossed(s, input) ==
    IF s = "EXIT2_DR" /\ input = 0 THEN "SHIFT_IR"
    ELSE IF input = 1 THEN OnOne(s) ELSE OnZero(s)

Successor(s, input) == IF input = 1 THEN OnOne(s) ELSE OnZero(s)

TapInit == tsm_current_state \in TapStates \cup {OUT_OF_RANGE}

\* transition(input, 1): the callback state_entered() runs afterwards, except
\* out of the default case, which returns before it.
transition(input) == tsm_current_state' = Successor(tsm_current_state, input)

tsm_reset == tsm_current_state' = "TEST_LOGIC_RESET"

=============================================================================
