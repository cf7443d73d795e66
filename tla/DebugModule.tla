----------------------------- MODULE DebugModule -----------------------------
(***************************************************************************)
(* The debug module of remote_bitbang_t::state_entered(): what entering    *)
(* UPDATE_DR with the dmi instruction does with the request that was       *)
(* scanned in.  Each request is answered within the step that brings it;   *)
(* the answer stays in dmi_container_register until the next scan.         *)
(*                                                                         *)
(* A 32-bit word is a pair of 16-bit halves.  The program keeps the data   *)
(* registers, arg1 and dpc in 64 bits, and only their low 32 are ever      *)
(* read.  Members and locals that are only printed (arg0, arg2,            *)
(* abstractcs_container_register) are left out.                            *)
(***************************************************************************)
EXTENDS Integers, Sequences

HalfSize == 65536
Half == 0..(HalfSize - 1)
Words == [hi : Half, lo : Half]
W(h, l) == [hi |-> h, lo |-> l]

Plus(w, n) ==
    W((w.hi + ((w.lo + n) \div HalfSize)) % HalfSize, (w.lo + n) % HalfSize)

\* A map with one entry more, or another value for an entry it has.
With(f, x, value) == [y \in DOMAIN f \cup {x} |-> IF y = x THEN value ELSE f[y]]

\* Segments of 64 KiB are found by the upper half of an address; a cell is a
\* segment and the index of one of its 32-bit words.
Indices == 0..(HalfSize \div 4 - 1)
Cells == Half \X Indices

\* A map from segments to their words as far as these are known.
IsMemory(m) ==
    \A hi \in DOMAIN m :
        /\ hi \in Half
        /\ \A index \in DOMAIN m[hi] : index \in Indices /\ m[hi][index] \in Words

\* Bit i of one half of a word.
BitOf(half, i) == (half \div 2^i) % 2

CONSTANTS
    Scans,            \* the requests a debugger shifts in: [address, data, op]
    ProgramCounters,  \* values of cpu.pc
    RegisterFiles,    \* values of cpu.reg, functions from 0..31
    LoadedProgram,    \* the segments the loader makes and the words it puts there
    MemoryWords       \* contents of a memory cell nobody initialised

Requests == [address : 0..127, data : Words, op : 0..3]

ASSUME DebuggerAssumption ==
    /\ Scans \subseteq Requests
    /\ ProgramCounters \subseteq Words
    /\ RegisterFiles \subseteq [0..31 -> Words]
    /\ IsMemory(LoadedProgram)
    /\ MemoryWords \subseteq Words

VARIABLES
    dmi_container_register,  \* request or answer: [address, data, op]
    dmcontrol,               \* the members haltreq .. dmactive, all 32 bits
    cmderr,
    abstract_data,           \* data0 .. data11
    arg1,
    dpc,
    pc, reg,                 \* cpu->pc, cpu->reg
    segments                 \* cpu->segments: per segment, its known words

cpu == <<pc, reg, segments>>
dmVars == <<dmi_container_register, dmcontrol, cmderr, abstract_data, arg1,
            dpc, cpu>>

DataRegister == 4..15
DMCONTROL == 16
DMSTATUS == 17
HARTINFO == 18
ABSTRACTCS == 22
COMMAND == 23

\* The all-zero scan, which UPDATE_DR takes for no scan at all.
ZeroScan == [address |-> 0, data |-> W(0, 0), op |-> 0]

\* The container before the first scan: a request of nothing to dmcontrol.
init_dmi == [address |-> DMCONTROL, data |-> W(0, 1), op |-> 0]

DmInit ==
    /\ dmi_container_register = init_dmi
    /\ dmcontrol = W(0, 0)
    /\ cmderr = 0
    /\ abstract_data = [i \in 0..11 |-> W(0, 0)]
    /\ arg1 = W(0, 0)
    /\ dpc = W(16384, 0)
    /\ pc \in ProgramCounters
    /\ reg \in RegisterFiles
    /\ segments = LoadedProgram

\* What UPDATE_DR decodes: the scanned request, or the container's own content
\* once more when the scan was all zeros.
Request(scanned) ==
    IF scanned = ZeroScan THEN dmi_container_register ELSE scanned

Reads(q, a) == q.address = a /\ q.op = 1
Writes(q, a) == q.address = a /\ q.op = 2

\* The container is left as the request, op included.
Leaves(q) == dmi_container_register' = q

\* Mistakes a run must detect: an answer that echoes the data of the request,
\* and one that keeps its op.
AnswersEcho(q, data) ==
    dmi_container_register' = [address |-> q.address, data |-> q.data, op |-> 0]
AnswersWithOp(q, data) ==
    dmi_container_register' = [address |-> q.address, data |-> data,
                               op |-> q.op]

\* The container takes an answer: the address, the data and op 0, success.
Answers(q, data) ==
    dmi_container_register' = [address |-> q.address, data |-> data, op |-> 0]

-----------------------------------------------------------------------------
(***************************************************************************)
(* data0 .. data11                                                         *)
(***************************************************************************)

\* A mistake a run must detect: a register index cut to three bits.
DataReadMasked(q) ==
    /\ q.address \in DataRegister /\ q.op = 1
    /\ Answers(q, abstract_data[(q.address - 4) % 8])
    /\ UNCHANGED <<dmcontrol, cmderr, abstract_data, arg1, dpc, cpu>>

DataRead(q) ==
    /\ q.address \in DataRegister /\ q.op = 1
    /\ Answers(q, abstract_data[q.address - 4])
    /\ UNCHANGED <<dmcontrol, cmderr, abstract_data, arg1, dpc, cpu>>

DataWrite(q) ==
    /\ q.address \in DataRegister /\ q.op = 2
    /\ abstract_data' = [abstract_data EXCEPT ![q.address - 4] = q.data]
    /\ Leaves(q)
    /\ UNCHANGED <<dmcontrol, cmderr, arg1, dpc, cpu>>

-----------------------------------------------------------------------------
(***************************************************************************)
(* dmcontrol                                                               *)
(***************************************************************************)

Resumereq(w) == BitOf(w.hi, 14)
Hasel(w) == BitOf(w.hi, 10)
Dmactive(w) == BitOf(w.lo, 0)

\* hartsello := 0, hartselhi := 0, dmactive := 1.
HartArrayUnsupported(w) ==
    W((w.hi \div 1024) * 1024, (w.lo % 64) + 1 - Dmactive(w))

DmcontrolRead(q) ==
    /\ Reads(q, DMCONTROL)
    /\ Answers(q, dmcontrol)
    /\ UNCHANGED <<dmcontrol, cmderr, abstract_data, arg1, dpc, cpu>>

\* External: one instruction of the simulated CPU.  It may move the program
\* counter and the registers and store to any cell, whose contents are then
\* unknown again; segments stay allocated.
cpu_step ==
    /\ pc' \in ProgramCounters
    /\ reg' \in RegisterFiles
    /\ segments' \in {segments, [hi \in DOMAIN segments |-> << >>]}

\* A mistake a run must detect: dpc taken before the step.
SingleStepEarly(w) ==
    IF Resumereq(w) = 1 THEN cpu_step /\ dpc' = pc ELSE UNCHANGED <<dpc, cpu>>

\* Resuming the hart runs one instruction at once; dpc follows the CPU.
SingleStep(w) ==
    IF Resumereq(w) = 1 THEN cpu_step /\ dpc' = pc' ELSE UNCHANGED <<dpc, cpu>>

DmcontrolWrite(q) ==
    /\ Writes(q, DMCONTROL)
    /\ SingleStep(q.data)
    /\ \/ /\ Hasel(q.data) = 0 /\ Dmactive(q.data) = 1
          /\ dmcontrol' = q.data
          /\ Answers(q, dmcontrol')
       \/ /\ Hasel(q.data) = 1
          /\ dmcontrol' = HartArrayUnsupported(q.data)
          /\ Answers(q, dmcontrol')
       \/ /\ Hasel(q.data) = 0 /\ Dmactive(q.data) = 0
          /\ dmcontrol' = q.data
          /\ Leaves(q)
    /\ UNCHANGED <<cmderr, abstract_data, arg1>>

-----------------------------------------------------------------------------
(***************************************************************************)
(* dmstatus, hartinfo, abstractcs                                          *)
(***************************************************************************)

\* allresumeack, allhalted, authenticated, version 3.
DmstatusWord == W(2, 643)

\* Any op is answered, writes and nops too.
DmstatusAccess(q) ==
    /\ q.address = DMSTATUS
    /\ Answers(q, DmstatusWord)
    /\ UNCHANGED <<dmcontrol, cmderr, abstract_data, arg1, dpc, cpu>>

HartinfoRead(q) ==
    /\ Reads(q, HARTINFO)
    /\ Answers(q, W(0, 0))
    /\ UNCHANGED <<dmcontrol, cmderr, abstract_data, arg1, dpc, cpu>>

\* progbufsize, busy, relaxedpriv and datacount keep their initial 0.
AbstractcsWord == W(0, cmderr * 256)

AbstractcsRead(q) ==
    /\ Reads(q, ABSTRACTCS)
    /\ Answers(q, AbstractcsWord)
    /\ UNCHANGED <<dmcontrol, cmderr, abstract_data, arg1, dpc, cpu>>

-----------------------------------------------------------------------------
(***************************************************************************)
(* command                                                                 *)
(***************************************************************************)

Cmdtype(c) == c.hi \div 256
IsWrite(c) == BitOf(c.hi, 0) = 1
Size(c) == (c.hi \div 16) % 8              \* aarsize, aamsize
Postincrement(c) == BitOf(c.hi, 3) = 1     \* aampostincrement
Regno(c) == c.lo

CSR_MISA == 769
DPC_REGNO == 1969
MisaWord == W(16384, 296)

SetData0(word) == abstract_data' = [abstract_data EXCEPT ![0] = word]

\* Reading the command register itself runs the misa lookup.
CommandRead(q) ==
    /\ Reads(q, COMMAND)
    /\ IF Regno(q.data) = CSR_MISA THEN SetData0(MisaWord)
                                   ELSE UNCHANGED abstract_data
    /\ Leaves(q)
    /\ UNCHANGED <<dmcontrol, cmderr, arg1, dpc, cpu>>

\* The words an access-register command can read; every other number only
\* prints.
ReadableRegisters == (4096..4127) \cup {CSR_MISA, DPC_REGNO}
RegisterValue(regno) == CASE regno \in 4096..4127 -> reg[regno - 4096]
                          [] regno = CSR_MISA     -> MisaWord
                          [] regno = DPC_REGNO    -> dpc

AccessRegister(q) ==
    /\ Writes(q, COMMAND) /\ Cmdtype(q.data) = 0
    /\ cmderr' = IF Size(q.data) \in {3, 4} THEN 2 ELSE 0
    /\ IF ~ IsWrite(q.data) /\ Regno(q.data) \in ReadableRegisters
       THEN SetData0(RegisterValue(Regno(q.data)))
       ELSE UNCHANGED abstract_data
    /\ Leaves(q)
    /\ UNCHANGED <<dmcontrol, arg1, dpc, cpu>>

\* A mistake a run must detect: a byte address used as an index of words.
CellUnscaled(address) == <<address.hi, address.lo>>

\* The cell of the word at an address.
Cell(address) == <<address.hi, address.lo \div 4>>

\* A mistake a run must detect: a segment allocated anew for every read.
SegmentReallocated(hi) == << >>

\* The segment a read finds; one that is not in the map is allocated and left
\* uninitialised, with no word known.
Segment(hi) == IF hi \in DOMAIN segments THEN segments[hi] ELSE << >>

Known(cell) == cell[2] \in DOMAIN Segment(cell[1])
WordAt(cell) == Segment(cell[1])[cell[2]]

\* The words a read of the cell can return, and the segments once it has.
CellWords(cell) == IF Known(cell) THEN {WordAt(cell)} ELSE MemoryWords
SegmentsWith(cell, word) ==
    With(segments, cell[1], With(Segment(cell[1]), cell[2], word))

\* arg1 is loaded for 32 and 64 bits only and keeps its old value otherwise.
Arg1For(c) == CASE Size(c) = 2 -> abstract_data[1]
                [] Size(c) = 3 -> abstract_data[3]
                [] OTHER       -> arg1

\* A mistake a run must detect: 2 << aamsize.
IncrementDoubled(c) == 2 ^ (Size(c) + 1)

\* 2 << (aamsize - 1); the undefined shift for aamsize = 0 adds nothing in
\* the unoptimised x86 build of the Makefile.
Increment(c) == IF Size(c) = 0 THEN 0 ELSE 2 ^ Size(c)

\* data1 is overwritten whatever the postincrement bit says: with the next
\* address when it is set, and with the command word itself when it is not.
NextData1(c) == IF Postincrement(c) THEN Plus(arg1', Increment(c)) ELSE c

AccessMemory(q) ==
    /\ Writes(q, COMMAND) /\ Cmdtype(q.data) = 2
    /\ cmderr' = 0
    /\ arg1' = Arg1For(q.data)
    /\ \/ /\ IsWrite(q.data)     \* stores nothing
          /\ abstract_data' = [abstract_data EXCEPT ![1] = NextData1(q.data)]
          /\ UNCHANGED segments
       \/ /\ ~ IsWrite(q.data)
          /\ \E word \in CellWords(Cell(arg1')) :
               /\ segments' = SegmentsWith(Cell(arg1'), word)
               /\ abstract_data' = [abstract_data EXCEPT
                                      ![0] = word, ![1] = NextData1(q.data)]
    /\ Leaves(q)
    /\ UNCHANGED <<dmcontrol, dpc, pc, reg>>

\* Quick access and unknown command types clear cmderr and do nothing else.
OtherCommand(q) ==
    /\ Writes(q, COMMAND) /\ Cmdtype(q.data) \notin {0, 2}
    /\ cmderr' = 0
    /\ Leaves(q)
    /\ UNCHANGED <<dmcontrol, abstract_data, arg1, dpc, cpu>>

\* Everything else only replaces the container: unknown addresses, the ops 0
\* and 3, writes to hartinfo and abstractcs.
Ignored(q) ==
    /\ q.address # DMSTATUS
    /\ \/ q.op \in {0, 3}
       \/ q.address \notin DataRegister
                           \cup {DMCONTROL, HARTINFO, ABSTRACTCS, COMMAND}
       \/ q.op = 2 /\ q.address \in {HARTINFO, ABSTRACTCS}
    /\ Leaves(q)
    /\ UNCHANGED <<dmcontrol, cmderr, abstract_data, arg1, dpc, cpu>>

-----------------------------------------------------------------------------
\* The debug module's part of state_entered(UPDATE_DR).
Handle(q) ==
    \/ DataRead(q) \/ DataWrite(q)
    \/ DmcontrolRead(q) \/ DmcontrolWrite(q)
    \/ DmstatusAccess(q) \/ HartinfoRead(q) \/ AbstractcsRead(q)
    \/ CommandRead(q) \/ AccessRegister(q) \/ AccessMemory(q)
    \/ OtherCommand(q) \/ Ignored(q)

UpdateDmi(scanned) == Handle(Request(scanned))

DmNext == \E scanned \in Scans : UpdateDmi(scanned)

DmSpec == DmInit /\ [][DmNext]_dmVars

DmTypeOK ==
    /\ dmi_container_register \in Requests
    /\ dmcontrol \in Words
    /\ cmderr \in {0, 2}
    /\ abstract_data \in [0..11 -> Words]
    /\ arg1 \in Words /\ dpc \in Words
    /\ pc \in ProgramCounters /\ reg \in RegisterFiles
    /\ IsMemory(segments)

=============================================================================
