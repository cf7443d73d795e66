-------------------------- MODULE MCOpenOcdSession --------------------------
(***************************************************************************)
(* OpenOcdSession with the program's own register sizes and contents.  A   *)
(* client restarts and selects instructions up to MaxMoves times, scans    *)
(* data registers up to MaxScans times and leaves up to MaxPauses of these *)
(* scans in the pause state: MaxJobs of them all, a scan that pauses being *)
(* two.  It examines the chain only as its first job.                      *)
(***************************************************************************)
EXTENDS OpenOcdSession

CONSTANTS MaxMoves, MaxScans, MaxPauses, MaxJobs, ExaminedBits

S(a, h, l, o) == [address |-> a, data |-> W(h, l), op |-> o]

MCWidth == [id_code |-> 32, dtmcs |-> 32, dmi |-> 41]
MCIdcode == <<1, 0, 0, 0, 0>>
MCDtmcs == <<0, 0, 0, 0, 1>>
MCDmi == <<1, 0, 0, 0, 1>>
MCPowerOn == [id_code |-> id_code, dtmcs |-> init_dtmcs,
              dmi |-> Encode(init_dmi)]
MCPinWrites == Bit \X Bit \X Bit

Examination == [i \in 1..ExaminedBits |-> 1]
MCWideWords == {Examination, [i \in 1..32 |-> 0]}

MCScans ==
    { ZeroScan,
      S(4, 40961, 5, 2),      \* write data0
      S(4, 0, 0, 1),          \* read data0
      S(23, 34, 1969, 2) }    \* dpc to data0

MCProgramCounters == {W(16384, 0), W(16384, 4)}
MCRegisterFiles == { [i \in 0..31 |-> W(0, i)] }
MCMemoryWords == {W(0, 17)}
MCLoadedProgram == [hi \in {16384} |-> [index \in {0} |-> W(0, 19)]]

VARIABLES moves, scans, pauses

mcVars == <<moves, scans, pauses>>

MCInit == Init /\ moves = 0 /\ scans = 0 /\ pauses = 0

\* The client may leave it at what it has done.
Disconnected == Ready /\ UNCHANGED <<vars, mcVars>>

IsScan == planned'.to \in DataRegisters

MCNext ==
    \/ (Send \/ ShiftPlanned) /\ UNCHANGED mcVars
    \/ /\ Decide
       /\ scans' = scans + (IF IsScan THEN 1 ELSE 0)
       /\ moves' = moves + (IF IsScan THEN 0 ELSE 1)
       /\ pauses' = pauses + (IF planned'.end = "PAUSE_DR" THEN 1 ELSE 0)
       /\ scans' <= MaxScans /\ moves' <= MaxMoves /\ pauses' <= MaxPauses
       /\ scans' + moves' + pauses' <= MaxJobs
       /\ (planned'.to = "id_code" /\ Len(planned'.sent) = ExaminedBits)
            => moves + scans = 0
    \/ Disconnected

MCSpec == MCInit /\ [][MCNext]_<<vars, mcVars>>

=============================================================================
