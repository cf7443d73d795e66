---------------------------- MODULE DebuggerView -----------------------------
(***************************************************************************)
(* The debug module watched by the debugger that sends it requests: what   *)
(* it asked for, what it wrote, which words it read from memory, and how   *)
(* far a block read has come.                                              *)
(***************************************************************************)
EXTENDS DebugModule

CONSTANT NoWord

ASSUME NoWordAssumption == NoWord \notin Words

VARIABLES
    scan,      \* what the debugger shifted in last
    request,   \* the request the module made of it
    answered,  \* the container holds the answer to a read or write
    written,   \* per data register, the debugger's value if it must still be
               \* there, else NoWord
    resumes,   \* scans that asked the hart to resume
    steps,     \* instructions the hart ran
    restless,  \* some resume request was one the module leaves unanswered
    seen,      \* per cell, the words that were loaded or read there since the
               \* hart last ran or a command was to store to it
    walk       \* a block read: [base, count] or NoWalk

history == <<scan, request, answered, written, resumes, steps, restless, seen,
             walk>>
vars == <<dmVars, history>>

NoWalk == [base |-> NoWord, count |-> 0]

LoadedCells ==
    UNION { {hi} \X DOMAIN LoadedProgram[hi] : hi \in DOMAIN LoadedProgram }

Init ==
    /\ DmInit
    /\ scan = ZeroScan /\ request = ZeroScan
    /\ answered = FALSE
    /\ written = [i \in 0..11 |-> NoWord]
    /\ resumes = 0 /\ steps = 0 /\ restless = FALSE
    /\ seen = [c \in LoadedCells |-> {LoadedProgram[c[1]][c[2]]}]
    /\ walk = NoWalk

IsMemoryCommand(q) == Writes(q, COMMAND) /\ Cmdtype(q.data) = 2
ReadsMemory(q) == IsMemoryCommand(q) /\ ~ IsWrite(q.data)
StoresMemory(q) == IsMemoryCommand(q) /\ IsWrite(q.data)

\* A 32-bit memory read with postincrement, the command of a block read.
WalksOn(q) == ReadsMemory(q) /\ Size(q.data) = 2 /\ Postincrement(q.data)

Asks(s) == Writes(s, DMCONTROL) /\ Resumereq(s.data) = 1

\* A debugger knows of a command that it may change data0, and one that
\* accesses memory data1 too.
Forget(q) ==
    { i \in {0, 1} : /\ q.address = COMMAND
                     /\ i = 0 \/ Cmdtype(q.data) = 2 }

SeenAt(cell) == IF cell \in DOMAIN seen THEN seen[cell] ELSE {}

\* Whoever stores to a cell, the hart or the debugger, may change its word.
SeenAfter(q) ==
    IF Asks(q) THEN << >>
    ELSE IF StoresMemory(q)
         THEN [c \in DOMAIN seen \ {Cell(arg1')} |-> seen[c]]
    ELSE IF ReadsMemory(q)
         THEN With(seen, Cell(arg1'),
                   SeenAt(Cell(arg1')) \cup {abstract_data'[0]})
    ELSE seen

Record(s) ==
    LET q == Request(s) IN
    /\ scan' = s /\ request' = q
    /\ answered' = IF s = ZeroScan /\ q.op = 0 THEN answered
                   ELSE dmi_container_register'.op = 0 /\ q.op \in {1, 2}
    /\ written' = [i \in 0..11 |->
                     IF q.op = 2 /\ q.address = i + 4 THEN q.data
                     ELSE IF i \in Forget(q) THEN NoWord ELSE written[i]]
    /\ resumes' = IF Asks(s) THEN resumes + 1 ELSE resumes
    /\ steps' = IF Asks(q) THEN steps + 1 ELSE steps
    /\ restless' = (restless \/ (Asks(s) /\ Hasel(s.data) = 0
                                         /\ Dmactive(s.data) = 0))
    /\ seen' = SeenAfter(q)
    /\ walk' =
         IF Writes(q, 5) THEN [base |-> q.data, count |-> 0]
         ELSE IF WalksOn(q) /\ walk.base # NoWord
              THEN [walk EXCEPT !.count = @ + 1]
         ELSE IF q.address = COMMAND \/ Writes(q, 4) \/ Asks(q) THEN NoWalk
         ELSE walk

Shift(s) == UpdateDmi(s) /\ Record(s)

Next == \E s \in Scans : Shift(s)

Spec == Init /\ [][Next]_vars

-----------------------------------------------------------------------------
(***************************************************************************)
(* Properties.                                                             *)
(***************************************************************************)

TypeOK ==
    /\ DmTypeOK
    /\ scan \in Requests /\ request \in Requests
    /\ answered \in BOOLEAN /\ restless \in BOOLEAN
    /\ written \in [0..11 -> Words \cup {NoWord}]
    /\ resumes \in Nat /\ steps \in Nat
    /\ \A c \in DOMAIN seen : c \in Cells /\ seen[c] \subseteq Words
    /\ walk \in [base : Words \cup {NoWord}, count : Nat]

\* The value a debugger may read at an address.
RegisterWord(a) == CASE a \in DataRegister -> abstract_data[a - 4]
                     [] a = DMCONTROL      -> dmcontrol
                     [] a = DMSTATUS       -> DmstatusWord
                     [] a = HARTINFO       -> W(0, 0)
                     [] a = ABSTRACTCS     -> AbstractcsWord

\* An answer stays true for as long as it can be captured: however many nop
\* scans fetch it, it reports success and the register's present value.
RepliesAreCurrent ==
    answered => /\ dmi_container_register.op = 0
                /\ dmi_container_register.data
                     = RegisterWord(dmi_container_register.address)

\* A data register read back gives what the debugger last wrote there, unless
\* a command that may overwrite that register came in between.
ReadReturnsWritten ==
    \A i \in 0..11 :
        (answered /\ dmi_container_register.address = i + 4
                  /\ written[i] # NoWord)
            => dmi_container_register.data = written[i]

\* The hart runs one instruction per resume request, however many nop scans
\* follow it, when every such request left the module active.
StepsAreRequested == ~ restless => steps = resumes

\* Once the hart has stepped, the dpc a debugger reads is where the hart is.
DpcFollowsHart == steps > 0 => dpc = pc

\* A block read walks the memory: after an address written to data1, n
\* postincrement reads leave the n-th word in data0 and the next address in
\* data1, over the end of a 64 KiB segment too.
WalkReadsConsecutively ==
    walk.base # NoWord =>
        /\ abstract_data[1] = Plus(walk.base, 4 * walk.count)
        /\ walk.count > 0 =>
             LET cell == Cell(Plus(walk.base, 4 * (walk.count - 1))) IN
             /\ Known(cell)
             /\ abstract_data[0] = WordAt(cell)

\* All reads of a cell return the same word, the one the loader put there if
\* it did and otherwise whatever the segment was allocated with, until the
\* hart runs or the debugger stores to that cell.  In between other reads may
\* allocate segments.
MemoryReadsAgree ==
    \A c \in DOMAIN seen : \A v, w \in seen[c] : v = w

-----------------------------------------------------------------------------
(***************************************************************************)
(* What comments of the repository say and the code does not do.           *)
(***************************************************************************)

\* init_dmi(): a nop does not send anything.  An all-zero scan executes the
\* request left in the container again: it repeats every unanswered write.
NopExecutesNothing ==
    [][scan' = ZeroScan =>
         UNCHANGED <<dmcontrol, cmderr, abstract_data, arg1, dpc, cpu>>]_vars

\* The command handler: if cmderr is non-zero, writes to this register are
\* ignored.  It clears cmderr and executes the command.
ErrorInhibitsCommands ==
    [][(cmderr # 0 /\ Writes(request', COMMAND))
         => UNCHANGED <<cmderr, abstract_data, segments>>]_vars

\* The command handler: a write command writes the value of the data register
\* to the memory at the address.  It loads the address and stores nothing.
StoresReachMemory ==
    [][(/\ StoresMemory(request') /\ Size(request'.data) = 2
        /\ Known(Cell(arg1))')
         => (WordAt(Cell(arg1)))' = abstract_data[0]]_vars

-----------------------------------------------------------------------------
(***************************************************************************)
(* The inductive invariant behind the theorems of DebuggerViewProofs.      *)
(***************************************************************************)

\* What the debugger may rely on is still in the data registers.
WritesArePresent ==
    \A i \in 0..11 : written[i] # NoWord => abstract_data[i] = written[i]

\* No resume request is left in the container, where a nop scan would run the
\* hart again.
ResumesAreAnswered == ~ restless => ~ Asks(dmi_container_register)

\* A cell that was read keeps the word it gave, whatever is allocated since.
SeenIsPresent ==
    \A c \in DOMAIN seen : Known(c) /\ seen[c] = {WordAt(c)}

DebuggerInvariant ==
    /\ TypeOK
    /\ RepliesAreCurrent
    /\ WritesArePresent
    /\ ResumesAreAnswered
    /\ StepsAreRequested
    /\ DpcFollowsHart
    /\ SeenIsPresent
    /\ WalkReadsConsecutively

=============================================================================
