---------------------------- MODULE MCDebuggerView ---------------------------
(***************************************************************************)
(* DebuggerView with two program counters, two register files and two      *)
(* possible contents of a memory cell.  A session either mixes requests of *)
(* every kind the code tells apart, MaxScans of them, or is a longer block *)
(* read that crosses a segment, of MaxBlockScans requests.                 *)
(***************************************************************************)
EXTENDS DebuggerView

CONSTANTS MaxScans, MaxBlockScans

S(a, h, l, o) == [address |-> a, data |-> W(h, l), op |-> o]

MCDataScans ==
    { S(4, 0, 7, 2), S(5, 16384, 65528, 2), S(7, 16384, 65532, 2),
      S(15, 0, 9, 2), S(4, 0, 0, 1), S(5, 0, 0, 1), S(15, 0, 0, 1) }
MCControlScans ==
    { S(16, 0, 1, 2),           \* activate
      S(16, 16384, 1, 2),       \* resume
      S(16, 16384, 0, 2),       \* resume, dmactive clear
      S(16, 17408 + 3, 65473, 2),   \* resume, hasel, all of hartsel
      S(16, 0, 0, 1), S(17, 0, 0, 1), S(17, 0, 3, 2), S(18, 0, 0, 1),
      S(18, 0, 5, 2), S(22, 0, 0, 1), S(22, 0, 1792, 2) }
MCRegisterScans ==
    { S(23, 34, 4101, 2),       \* read x5, 32 bits
      S(23, 50, 4101, 2),       \* read x5, 64 bits
      S(23, 34, 769, 2),        \* misa
      S(23, 34, 1969, 2),       \* dpc
      S(23, 35, 4101, 2),       \* write x5
      S(23, 34, 768, 2),        \* mstatus, not implemented
      S(23, 256, 0, 2),         \* quick access
      S(23, 34, 769, 1) }       \* read of the command register
MCMemoryScans ==
    { S(23, 552, 0, 2),         \* read 32 bits, postincrement
      S(23, 544, 0, 2),         \* read 32 bits
      S(23, 568, 0, 2),         \* read 64 bits, postincrement
      S(23, 520, 0, 2),         \* read 8 bits, postincrement
      S(23, 553, 0, 2) }        \* write 32 bits, postincrement
MCNops == { ZeroScan, S(64, 0, 1, 1), S(5, 0, 6, 0), S(16, 16384, 1, 3) }

MCMixedScans == MCDataScans \cup MCControlScans \cup MCRegisterScans
                \cup MCMemoryScans \cup MCNops
MCBlockScans ==
    { ZeroScan, S(5, 16384, 65528, 2), S(5, 0, 0, 1), S(4, 0, 0, 1),
      S(4, 0, 7, 2), S(23, 552, 0, 2), S(23, 544, 0, 2),
      S(16, 16384, 1, 2) }
MCScans == MCMixedScans \cup MCBlockScans

MCProgramCounters == {W(16384, 0), W(16384, 4)}
MCRegisterFiles == { [i \in 0..31 |-> W(0, i)], [i \in 0..31 |-> W(0, i + 1)] }
MCMemoryWords == {W(0, 17), W(1, 19)}

\* One segment, with a word in the cell the block reads start from and garbage
\* in the next; the segment after it does not exist.
MCLoadedProgram == [hi \in {16384} |-> [index \in {16382} |-> W(2, 23)]]

VARIABLES block, scans

mcVars == <<block, scans>>
Offered == IF block THEN MCBlockScans ELSE MCMixedScans
Budget == IF block THEN MaxBlockScans ELSE MaxScans

MCInit == Init /\ block \in BOOLEAN /\ scans = 0

\* The debugger has asked all it wanted.
Disconnected == scans = Budget /\ UNCHANGED <<vars, mcVars>>

MCNext ==
    \/ /\ scans < Budget /\ scans' = scans + 1 /\ block' = block
       /\ \E s \in Offered : Shift(s)
    \/ Disconnected

MCSpec == MCInit /\ [][MCNext]_<<vars, mcVars>>

=============================================================================
