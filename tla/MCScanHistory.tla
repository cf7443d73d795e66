---------------------------- MODULE MCScanHistory ----------------------------
(***************************************************************************)
(* ScanHistory with short registers: two bits of instruction, one of       *)
(* id_code, one of dtmcs and four of dmi (op, one bit of data, one of      *)
(* address), and a shift_amount that wraps at five.                        *)
(***************************************************************************)
EXTENDS ScanHistory

CONSTANTS MaxScans,  \* captures explored in one behaviour
          MaxFalls,  \* falling writes counted in one scan
          MaxOnes    \* bound of the counter of ones

MCWidth == [id_code |-> 1, dtmcs |-> 1, dmi |-> 4]
MCIdcode == <<1, 0>>
MCDtmcs == <<0, 1>>
MCDmi == <<1, 1>>
MCPowerOn == [id_code |-> <<1>>, dtmcs |-> <<1>>, dmi |-> <<0, 0, 1, 1>>]

\* TDI is read by falling writes only, TMS by rising writes only, so the
\* writes that differ in the other pin alone are left out.
MCPinWrites == {<<0, 0, 0>>, <<0, 0, 1>>, <<1, 0, 0>>, <<1, 1, 0>>}

VARIABLE captures

MCInit == Init /\ captures = 0

Captures(s) == s \in {"CAPTURE_DR", "CAPTURE_IR"}

Bounded(Step) ==
    /\ Step
    /\ falls' <= MaxFalls /\ ones' <= MaxOnes
    /\ captures' = captures + (IF Captures(tsm_current_state') /\ tck' = 1
                                  /\ tsm_current_state' # tsm_current_state
                               THEN 1 ELSE 0)
    /\ captures' <= MaxScans

MCNext ==
    \/ \E w \in PinWrites : w[1] = 0 /\ Bounded(FallingInShift(w[2], w[3]))
    \/ \E w \in PinWrites : w[1] = 0 /\ Bounded(FallingElsewhere(w[2], w[3]))
    \/ \E w \in PinWrites : w[1] = 1 /\ Bounded(Rising(w[2], w[3]))
    \/ Bounded(Reset)

MCSpec == MCInit /\ [][MCNext]_<<vars, captures>>

=============================================================================
