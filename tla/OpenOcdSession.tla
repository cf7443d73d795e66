--------------------------- MODULE OpenOcdSession ---------------------------
(***************************************************************************)
(* The target driven by a debugger over the remote_bitbang protocol.  The  *)
(* client is external: its scripts are those of the session recorded in    *)
(* README.md:249, cut into the moves and scans OpenOCD makes of them.  It  *)
(* never looks at the target; it follows the TAP controller in its head,   *)
(* and what it knows of the registers is what R returned.                  *)
(*                                                                         *)
(* The history variable transcript lists the scans that reached an update  *)
(* state.  It is what JtagPort's atomic exchanges are compared with.       *)
(***************************************************************************)
EXTENDS JtagMock

CONSTANTS WideWords  \* words the client sends through id_code and dtmcs

\* The one scan long enough for shift_amount to wrap is the examination of the
\* chain, which sends nothing but ones (README.md:249); of any other word the
\* wrap would lose a bit.
ASSUME WideWordsAssumption ==
    \A word \in WideWords :
        /\ word \in Seq(Bit) /\ Len(word) >= 32
        /\ Len(word) >= ShiftModulus => \A i \in 1..Len(word) : word[i] = 1

VARIABLES
    script,     \* commands the client is sending
    at,         \* where the TAP controller is once they are sent
    planned,    \* the scan they prepare: [to, sent, end], or NoScan
    believed,   \* the register the client has selected, or "unknown"
    scan,       \* the scan whose bits it shifts, or shifted last: [to, sent]
    bits,       \* what R returned in that scan
    transcript  \* the scans that reached an update state, see JtagPort

clientVars == <<script, at, planned, believed, scan, bits>>
vars == <<mockVars, clientVars, transcript>>

NoScan == [to |-> "none", sent |-> << >>, end |-> "none"]

-----------------------------------------------------------------------------
(***************************************************************************)
(* The pieces of a script.                                                 *)
(***************************************************************************)

\* "2 6" or "0 4" for each TMS bit; a move ends with the clock low.
Moves(path) ==
    [k \in 1..(2 * Len(path) + 1) |->
        IF k > 2 * Len(path) THEN Digit(0, path[Len(path)], 0)
        ELSE Digit((k + 1) % 2, path[(k + 1) \div 2], 0)]

\* "1 R 5" or "0 R 4" for each bit, the last one with TMS = 1: "3 R 7".
ShiftBits(word) ==
    [k \in 1..(3 * Len(word)) |->
        LET i == (k + 2) \div 3
            ms == IF i = Len(word) THEN 1 ELSE 0
        IN <<Digit(0, ms, word[i]), "R", Digit(1, ms, word[i])>>[k - 3 * (i - 1)]]

\* TMS on the way from where the controller is to each shift state.
ToShift == [ SHIFT_DR |-> [ TEST_LOGIC_RESET |-> <<1, 1, 1, 0, 1, 0, 0>>,
                            RUN_TEST_IDLE    |-> <<1, 0, 0>>,
                            PAUSE_DR         |-> <<1, 1, 1, 0, 0>> ],
             SHIFT_IR |-> [ TEST_LOGIC_RESET |-> <<1, 1, 0, 1, 1, 0, 0>>,
                            RUN_TEST_IDLE    |-> <<1, 1, 0, 0>>,
                            PAUSE_DR         |-> <<1, 1, 1, 1, 0, 0>> ] ]

\* TMS on the way from the exit of the shift state to where a scan ends.
FromExit == [ RUN_TEST_IDLE |-> <<1, 0>>, PAUSE_DR |-> <<0>> ]

ResetMoves == Moves([i \in 1..7 |-> 1])

\* The bits on the wire of what is sent.
InstructionWord == [ id_code |-> IR_IDCODE, dtmcs |-> IR_DTMCS,
                     dmi |-> IR_DMI, unknown |-> <<1, 1>> ]
Wire(register, sent) ==
    CASE register = "ir"  -> InstructionWord[sent]
      [] register = "dmi" -> Encode(sent)
      [] OTHER            -> sent

-----------------------------------------------------------------------------
(***************************************************************************)
(* The client.  At power-on it knows nothing of the target, so the first   *)
(* thing it sends is r.                                                    *)
(***************************************************************************)

Init ==
    /\ MockInit
    /\ script = <<"B", "b", "r", "b", "B">> \o ResetMoves
    /\ at = "TEST_LOGIC_RESET" /\ planned = NoScan /\ believed = "id_code"
    /\ scan = [to |-> "none", sent |-> << >>] /\ bits = << >>
    /\ transcript = << >>

\* The last scan as an exchange; what an instruction scan reads is of no use
\* to the client.
Exchange ==
    CASE scan.to = "ir"  -> [to |-> "ir", instruction |-> scan.sent]
      [] scan.to = "dmi" -> [to |-> "dmi", request |-> scan.sent,
                             reply |-> Decode(bits)]
      [] OTHER           -> [to |-> scan.to, sent |-> scan.sent, read |-> bits]

RecordUpdate ==
    transcript' =
        IF tsm_current_state' # tsm_current_state
           /\ tsm_current_state' \in {"UPDATE_DR", "UPDATE_IR"}
        THEN Append(transcript, Exchange)
        ELSE transcript

\* One command, and the answer to it when it is R.
Send ==
    /\ script # << >>
    /\ Drive(Head(script))
    /\ script' = Tail(script)
    /\ bits' = IF Head(script) = "R" THEN Append(bits, tdo) ELSE bits
    /\ RecordUpdate
    /\ UNCHANGED <<at, planned, believed, scan>>

Ready == script = << >> /\ planned.to = "none"

\* Start over, with or without r.  A scan left in the pause state is updated
\* on the way of the ones, and lost by r.
Restart(trst) ==
    /\ Ready
    /\ script' = (IF trst THEN <<"r">> ELSE << >>) \o ResetMoves
    /\ at' = "TEST_LOGIC_RESET" /\ believed' = "id_code"
    /\ UNCHANGED <<planned, scan, bits, mockVars, transcript>>

\* Go to a shift state, past the update of a scan left in the pause state.
Approach(shiftState, register, sent, end) ==
    /\ Ready
    /\ script' = Moves(ToShift[shiftState][at])
    /\ at' = shiftState
    /\ planned' = [to |-> register, sent |-> sent, end |-> end]
    /\ UNCHANGED <<scan, bits, mockVars, transcript>>

\* Select a register; the scan of a chain whose length OpenOCD has yet to find
\* out is too short.
Instruct(register) ==
    /\ Approach("SHIFT_IR", "ir", register, "RUN_TEST_IDLE")
    /\ believed' = register

Access(sent, end) ==
    /\ Approach("SHIFT_DR", believed, sent, end)
    /\ UNCHANGED believed

ShiftPlanned ==
    /\ script = << >> /\ planned.to # "none"
    /\ script' = ShiftBits(Wire(planned.to, planned.sent))
                 \o Moves(FromExit[planned.end])
    /\ at' = planned.end /\ planned' = NoScan
    /\ scan' = [to |-> planned.to, sent |-> planned.sent] /\ bits' = << >>
    /\ UNCHANGED <<believed, mockVars, transcript>>

Decide ==
    \/ \E trst \in BOOLEAN : Restart(trst)
    \/ \E register \in DataRegisters \cup {"unknown"} : Instruct(register)
    \/ \E end \in {"RUN_TEST_IDLE", "PAUSE_DR"} :
         \/ believed \in {"id_code", "dtmcs"}
            /\ \E word \in WideWords : Access(word, end)
         \/ believed = "dmi" /\ \E s \in Scans : Access(s, end)

Next == Send \/ ShiftPlanned \/ Decide

Spec == Init /\ [][Next]_vars

-----------------------------------------------------------------------------
(***************************************************************************)
(* Properties.                                                             *)
(***************************************************************************)

TypeOK ==
    /\ MockTypeOK
    /\ planned.to \in DataRegisters \cup {"ir", "none"}
    /\ believed \in DataRegisters \cup {"unknown"}
    /\ bits \in Seq(Bit)

\* The wire, the clock and sixteen TAP states add nothing to and take nothing
\* from what the target promises: every scan that reaches an update state is
\* one atomic exchange of module JtagPort, every other step is invisible to
\* the debugger, and a scan cut off by r never happened.
Port == INSTANCE JtagPort WITH
    selected <- Selected, id <- container["id_code"],
    Idcode <- PowerOn["id_code"], Dtmcs <- PowerOn["dtmcs"]

PortIsImplemented == Port!PortSpec

\* OpenOCD never asks for the state of the TAP controller, so the one in its
\* head must be the target's whenever a script ends, whatever the state at
\* power-on and whichever scans were left in a pause.
ClientKnowsState == script = << >> => tsm_current_state = at

\* A data register written, and read back by any later exchange over the wire,
\* has the written word, in an answer of success, in the exchange that fetches
\* it; restarts, other instructions and other requests may come between, but
\* no second write and no command.
ReadsBackOverTheWire == Port!ReadsBack

DmiExchanges == SelectSeq(transcript, LAMBDA e : e.to = "dmi")

\* Comments of init_dmi(): the op a debugger reads is 0 when the previous
\* operation completed, and 2 means that it failed.  A write of a data
\* register succeeds and leaves its own op, which is 2.
CompletedWriteReadsSuccess ==
    LET dmi == DmiExchanges IN
    \A i \in 1..(Len(dmi) - 1) :
        (\E a \in DataRegister : Writes(dmi[i].request, a))
            => dmi[i + 1].reply.op = 0

=============================================================================
