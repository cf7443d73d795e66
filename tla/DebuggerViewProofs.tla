-------------------------- MODULE DebuggerViewProofs --------------------------
(***************************************************************************)
(* Proofs about DebuggerView for every set of scans, program counters,     *)
(* register files and memory contents: the inductive invariant             *)
(* DebuggerInvariant and what follows from it.                             *)
(***************************************************************************)
EXTENDS DebuggerView, DebugModuleProofs

-----------------------------------------------------------------------------
(***************************************************************************)
(* What a request changes, and what it leaves alone.                       *)
(***************************************************************************)

\* Only a request that asks for it runs the hart: dpc follows it then, and
\* otherwise every known cell keeps its word.
LEMMA HartMoves ==
    ASSUME DmTypeOK, NEW q \in Requests, Handle(q)
    PROVE  /\ Asks(q) => dpc' = pc'
           /\ ~ Asks(q) => /\ dpc' = dpc /\ pc' = pc
                           /\ \A c \in Cells : Known(c) =>
                                  Known(c)' /\ (WordAt(c))' = WordAt(c)
  <1>1. CASE OnlyAnswers(q) \/ DataWrite(q) \/ CommandRead(q)
             \/ OtherCommand(q) \/ AccessRegister(q)
    <2>1. UNCHANGED <<dpc, cpu>>
      BY <1>1, OnlyAnswersContainer
         DEF DataWrite, CommandRead, OtherCommand, AccessRegister
    <2>2. ~ Asks(q)
      BY <1>1 DEF OnlyAnswers, DataRead, DmcontrolRead, DmstatusAccess,
                  HartinfoRead, AbstractcsRead, Ignored, DataWrite,
                  CommandRead, OtherCommand, AccessRegister, Asks, Reads,
                  Writes, DataRegister, DMCONTROL, DMSTATUS, HARTINFO,
                  ABSTRACTCS, COMMAND
    <2> QED
      BY <2>1, <2>2 DEF cpu, Known, WordAt, Segment
  <1>2. CASE DmcontrolWrite(q)
    BY <1>2 DEF DmcontrolWrite, SingleStep, Asks, cpu, Known, WordAt, Segment
  <1>3. CASE AccessMemory(q)
    <2>1. ~ Asks(q) /\ dpc' = dpc /\ pc' = pc
      BY <1>3 DEF AccessMemory, Asks, Writes, DMCONTROL, COMMAND
    <2>2. CASE segments' = segments
      BY <2>1, <2>2 DEF Known, WordAt, Segment
    <2>3. CASE \E word \in Words : /\ word \in CellWords(Cell(arg1'))
                                   /\ segments' = SegmentsWith(Cell(arg1'), word)
      <3>1. PICK cell \in Cells, word \in Words :
                /\ word \in CellWords(cell)
                /\ segments' = SegmentsWith(cell, word)
        BY <1>3, <2>3, AccessMemoryEffect
      <3>2. Known(cell) => word = WordAt(cell)
        BY <3>1 DEF CellWords
      <3>3. /\ Known(cell)' /\ (WordAt(cell))' = word
            /\ \A c \in Cells : (c # cell /\ Known(c))
                   => Known(c)' /\ (WordAt(c))' = WordAt(c)
        BY <3>1, SegmentsWithCells
      <3> QED
        BY <2>1, <3>2, <3>3
    <2> QED
      BY <1>3, <2>2, <2>3, AccessMemoryEffect
  <1> QED
    BY <1>1, <1>2, <1>3 DEF Handle, OnlyAnswers

\* A data register takes what is written to it, and keeps its value unless
\* the request is a command that uses it.
LEMMA DataRegistersChange ==
    ASSUME DmTypeOK, NEW q \in Requests, Handle(q), NEW i \in 0..11
    PROVE  /\ q.op = 2 /\ q.address = i + 4 => abstract_data'[i] = q.data
           /\ \/ q.op = 2 /\ q.address = i + 4
              \/ i \in Forget(q)
              \/ abstract_data'[i] = abstract_data[i]
  <1> USE DEF COMMAND, DMCONTROL, DataRegister
  <1>1. abstract_data \in [0..11 -> Words]
    BY DEF DmTypeOK
  <1>2. CASE OnlyAnswers(q)
    <2>1. abstract_data' = abstract_data
      BY <1>2, OnlyAnswersContainer
    <2>2. ~ (q.op = 2 /\ q.address \in DataRegister)
      BY <1>2 DEF OnlyAnswers, DataRead, DmcontrolRead, DmstatusAccess,
                  HartinfoRead, AbstractcsRead, Ignored, Reads, DMSTATUS,
                  HARTINFO, ABSTRACTCS
    <2> QED
      BY <2>1, <2>2
  <1>3. CASE DataWrite(q)
    <2>1. q.address - 4 \in 0..11 /\ q.op = 2
          /\ abstract_data' = [abstract_data EXCEPT ![q.address - 4] = q.data]
      BY <1>3 DEF DataWrite
    <2>2. (q.address = i + 4) <=> (q.address - 4 = i)
      BY RequestFields
    <2> QED
      BY <1>1, <2>1, <2>2
  <1>4. CASE DmcontrolWrite(q) \/ OtherCommand(q)
    <2>1. abstract_data' = abstract_data /\ q.address # i + 4
      BY <1>4 DEF DmcontrolWrite, OtherCommand, Writes
    <2> QED
      BY <2>1
  <1>5. CASE CommandRead(q) \/ AccessRegister(q)
    <2>1. q.address = COMMAND /\ q.address # i + 4
      BY <1>5 DEF CommandRead, AccessRegister, Reads, Writes
    <2>2. i # 0 => abstract_data'[i] = abstract_data[i]
      BY <1>1, <1>5 DEF CommandRead, AccessRegister, SetData0
    <2> QED
      BY <2>1, <2>2 DEF Forget
  <1>6. CASE AccessMemory(q)
    <2>1. /\ q.address = COMMAND /\ q.address # i + 4
          /\ Cmdtype(q.data) = 2
      BY <1>6 DEF AccessMemory, Writes
    <2>2. i \notin {0, 1} => abstract_data'[i] = abstract_data[i]
      BY <1>1, <1>6, AccessMemoryEffect
    <2> QED
      BY <2>1, <2>2 DEF Forget
  <1> QED
    BY <1>2, <1>3, <1>4, <1>5, <1>6 DEF Handle, OnlyAnswers

\* The answer to a read or a write is the register's value after it.
LEMMA AnswersAreCurrent ==
    ASSUME DmTypeOK, NEW q \in Requests, Handle(q),
           q.op \in {1, 2}, dmi_container_register'.op = 0
    PROVE  (dmi_container_register.data
              = RegisterWord(dmi_container_register.address))'
  <1> USE DEF DataRegister, DMCONTROL, DMSTATUS, HARTINFO, ABSTRACTCS
  <1>1. ~ Leaves(q)
    BY DEF Leaves
  <1>2. CASE OnlyAnswers(q)
    <2>1. UNCHANGED <<dmcontrol, cmderr, abstract_data>>
      BY <1>2, OnlyAnswersContainer
    <2>2. CASE DataRead(q) /\ Answers(q, abstract_data[q.address - 4])
      BY <2>1, <2>2 DEF DataRead, Answers, RegisterWord
    <2>3. CASE DmcontrolRead(q) /\ Answers(q, dmcontrol)
      BY <2>1, <2>3 DEF DmcontrolRead, Reads, Answers, RegisterWord
    <2>4. CASE DmstatusAccess(q) /\ Answers(q, DmstatusWord)
      BY <2>1, <2>4 DEF DmstatusAccess, Answers, RegisterWord
    <2>5. CASE HartinfoRead(q) /\ Answers(q, W(0, 0))
      BY <2>1, <2>5 DEF HartinfoRead, Reads, Answers, RegisterWord
    <2>6. CASE AbstractcsRead(q) /\ Answers(q, AbstractcsWord)
      BY <2>1, <2>6
         DEF AbstractcsRead, Reads, Answers, RegisterWord, AbstractcsWord
    <2> QED
      BY <1>1, <1>2, <2>2, <2>3, <2>4, <2>5, <2>6, OnlyAnswersContainer
  <1>3. CASE DmcontrolWrite(q)
    <2>1. q.address = DMCONTROL /\ Answers(q, dmcontrol')
      BY <1>1, <1>3 DEF DmcontrolWrite, Writes
    <2> QED
      BY <2>1 DEF Answers, RegisterWord
  <1>4. CASE DataWrite(q) \/ CommandRead(q) \/ OtherCommand(q)
             \/ AccessRegister(q) \/ AccessMemory(q)
    BY <1>1, <1>4 DEF DataWrite, CommandRead, OtherCommand, AccessRegister,
                      AccessMemory
  <1> QED
    BY <1>2, <1>3, <1>4 DEF Handle, OnlyAnswers

\* A request of nothing leaves itself in the container, or the value of
\* dmstatus, and changes nothing else.
LEMMA NothingChangesNothing ==
    ASSUME DmTypeOK, NEW q \in Requests, Handle(q), q.op = 0
    PROVE  /\ UNCHANGED <<dmcontrol, cmderr, abstract_data>>
           /\ dmi_container_register'.op = 0
           /\ dmi_container_register'.address = q.address
           /\ dmi_container_register'.data
                = IF q.address = DMSTATUS THEN DmstatusWord ELSE q.data
  <1>1. DmstatusAccess(q) \/ Ignored(q)
    BY DEF Handle, DataRead, DataWrite, DmcontrolRead, DmcontrolWrite,
           HartinfoRead, AbstractcsRead, CommandRead, AccessRegister,
           AccessMemory, OtherCommand, Reads, Writes
  <1> QED
    BY <1>1 DEF DmstatusAccess, Ignored, Answers, Leaves

\* A resume request stays in the container only if the module leaves it
\* unanswered.
LEMMA ResumeStaysUnanswered ==
    ASSUME DmTypeOK, NEW q \in Requests, Handle(q),
           Asks(dmi_container_register')
    PROVE  Asks(q) /\ Hasel(q.data) = 0 /\ Dmactive(q.data) = 0
  <1>1. dmi_container_register'.op = 2
    BY DEF Asks, Writes
  <1>2. ~ \E data : Answers(q, data)
    BY <1>1 DEF Answers
  <1>3. Leaves(q)
    BY <1>2 DEF Handle, DataRead, DataWrite, DmcontrolRead, DmcontrolWrite,
                DmstatusAccess, HartinfoRead, AbstractcsRead, CommandRead,
                AccessRegister, AccessMemory, OtherCommand, Ignored
  <1>4. Asks(q)
    BY <1>3 DEF Leaves
  <1>5. DmcontrolWrite(q)
    BY <1>4 DEF Asks, Handle, DataRead, DataWrite, DmcontrolRead,
                DmstatusAccess, HartinfoRead, AbstractcsRead, CommandRead,
                AccessRegister, AccessMemory, OtherCommand, Ignored, Reads,
                Writes, DataRegister, DMCONTROL, DMSTATUS, HARTINFO,
                ABSTRACTCS, COMMAND
  <1> QED
    BY <1>2, <1>4, <1>5 DEF DmcontrolWrite

\* A read of memory leaves the word of its cell in data0, and the cell is
\* known from then on.
LEMMA MemoryReads ==
    ASSUME DmTypeOK, NEW q \in Requests, Handle(q), ReadsMemory(q),
           NEW cell, cell = Cell(arg1')
    PROVE  /\ AccessMemory(q) /\ cell \in Cells
           /\ Known(cell)' /\ (WordAt(cell))' = abstract_data'[0]
           /\ abstract_data'[1] = NextData1(q.data)
  <1>1. AccessMemory(q)
    BY DEF ReadsMemory, IsMemoryCommand, Handle, DataRead, DataWrite,
           DmcontrolRead, DmcontrolWrite, DmstatusAccess, HartinfoRead,
           AbstractcsRead, CommandRead, AccessRegister, OtherCommand, Ignored,
           Reads, Writes, DataRegister, DMCONTROL, DMSTATUS, HARTINFO,
           ABSTRACTCS, COMMAND
  <1>2. cell \in Cells
    BY <1>1, AccessMemoryEffect
  <1>3. PICK word \in Words :
            /\ segments' = SegmentsWith(cell, word)
            /\ abstract_data' = [abstract_data EXCEPT
                                   ![0] = word, ![1] = NextData1(q.data)]
    BY <1>1, AccessMemoryEffect DEF ReadsMemory
  <1>4. Known(cell)' /\ (WordAt(cell))' = word
    BY <1>2, <1>3, SegmentsWithCells
  <1>5. abstract_data'[0] = word /\ abstract_data'[1] = NextData1(q.data)
    BY <1>3 DEF DmTypeOK
  <1> QED
    BY <1>1, <1>2, <1>4, <1>5

\* A 32-bit read with postincrement reads the cell at data1 and moves data1 on
\* by 4.
LEMMA WalkingReads ==
    ASSUME DmTypeOK, NEW q \in Requests, Handle(q), WalksOn(q),
           NEW cell, cell = Cell(abstract_data[1])
    PROVE  /\ abstract_data'[1] = Plus(abstract_data[1], 4)
           /\ Known(cell)' /\ (WordAt(cell))' = abstract_data'[0]
  <1>1. ReadsMemory(q) /\ Size(q.data) = 2 /\ Postincrement(q.data)
    BY DEF WalksOn
  <1>2. AccessMemory(q)
    BY <1>1, MemoryReads
  <1>3. arg1' = abstract_data[1]
    BY <1>1, <1>2, AccessMemoryEffect DEF Arg1For
  <1>4. cell = Cell(arg1')
    BY <1>3
  <1>5. NextData1(q.data) = Plus(abstract_data[1], 4)
    BY <1>1, <1>3, RequestFields, IncrementType DEF NextData1
  <1> QED
    BY <1>1, <1>4, <1>5, MemoryReads

-----------------------------------------------------------------------------
(***************************************************************************)
(* Every scan keeps the invariant.                                         *)
(***************************************************************************)

\* A scan is a request, and what it is decoded to is handled.
LEMMA ShiftIsHandled ==
    ASSUME DmTypeOK, NEW s \in Scans, Shift(s)
    PROVE  /\ s \in Requests /\ request' \in Requests
           /\ scan' = s /\ request' = Request(s) /\ Handle(request')
  BY RequestType, DebuggerAssumption DEF Shift, UpdateDmi, Record

\* The all-zero scan asks for nothing, so a scan resumes the hart exactly when
\* the request made of it does, once no resume request is left unanswered.
LEMMA AskedByScan ==
    ASSUME NEW s \in Scans, ResumesAreAnswered, ~ restless
    PROVE  Asks(Request(s)) <=> Asks(s)
  <1>1. ~ Asks(ZeroScan)
    BY DEF Asks, Writes, ZeroScan
  <1>2. CASE s = ZeroScan
    BY <1>1, <1>2 DEF ResumesAreAnswered, Request
  <1>3. CASE s # ZeroScan
    BY <1>3 DEF Request
  <1> QED
    BY <1>2, <1>3

\* What the debugger has seen are words of cells.
LEMMA SeenType ==
    ASSUME TypeOK, NEW q \in Requests, Handle(q), seen' = SeenAfter(q)
    PROVE  \A c \in DOMAIN seen' : c \in Cells /\ seen'[c] \subseteq Words
  <1>1. \A c \in DOMAIN seen : c \in Cells /\ seen[c] \subseteq Words
    BY DEF TypeOK
  <1>2. CASE ReadsMemory(q) /\ ~ Asks(q) /\ ~ StoresMemory(q)
    <2>1. PICK cell : cell = Cell(arg1')
      OBVIOUS
    <2>2. cell \in Cells
      BY <1>2, <2>1, MemoryReads DEF TypeOK
    <2>3. abstract_data'[0] \in Words
      BY HandleType DEF TypeOK, DmTypeOK
    <2>4. seen' = With(seen, cell, SeenAt(cell) \cup {abstract_data'[0]})
      BY <1>2, <2>1 DEF SeenAfter
    <2>5. SeenAt(cell) \subseteq Words
      BY <1>1 DEF SeenAt
    <2> QED
      BY <1>1, <2>2, <2>3, <2>4, <2>5 DEF With
  <1>3. CASE StoresMemory(q) /\ ~ Asks(q)
    BY <1>1, <1>3 DEF SeenAfter
  <1>4. CASE Asks(q)
    BY <1>4 DEF SeenAfter
  <1>5. CASE ~ Asks(q) /\ ~ StoresMemory(q) /\ ~ ReadsMemory(q)
    BY <1>1, <1>5 DEF SeenAfter
  <1> QED
    BY <1>2, <1>3, <1>4, <1>5

\* The types.
LEMMA TypeStep ==
    ASSUME TypeOK, NEW s \in Scans, Shift(s)
    PROVE  TypeOK'
  <1>1. /\ s \in Requests /\ request' \in Requests /\ scan' = s
        /\ request' = Request(s) /\ Handle(request')
    BY ShiftIsHandled DEF TypeOK
  <1>2. DmTypeOK'
    BY <1>1, HandleType DEF TypeOK
  <1>3. request'.data \in Words
    BY <1>1, RequestFields
  <1>4. written' \in [0..11 -> Words \cup {NoWord}]
    BY <1>1, <1>3 DEF Shift, Record, TypeOK
  <1>5. resumes' \in Nat /\ steps' \in Nat
    BY DEF Shift, Record, TypeOK
  <1>6. answered' \in BOOLEAN /\ restless' \in BOOLEAN
    <2>1. answered' = answered \/ answered' \in BOOLEAN
      BY Zenon DEF Shift, Record
    <2>2. restless' \in BOOLEAN
      BY Zenon DEF Shift, Record
    <2> QED
      BY <2>1, <2>2, Zenon DEF TypeOK
  <1>7. walk' \in [base : Words \cup {NoWord}, count : Nat]
    BY <1>1, <1>3 DEF Shift, Record, TypeOK, NoWalk
  <1>8. \A c \in DOMAIN seen' : c \in Cells /\ seen'[c] \subseteq Words
    BY <1>1, SeenType DEF Shift, Record, TypeOK
  <1> QED
    BY <1>1, <1>2, <1>4, <1>5, <1>6, <1>7, <1>8 DEF TypeOK

\* An answer stays true: a new one is, and a scan of nothing does not change
\* the register the last one reports.
LEMMA RepliesStep ==
    ASSUME TypeOK, RepliesAreCurrent, NEW s \in Scans, Shift(s)
    PROVE  RepliesAreCurrent'
  <1>1. /\ request' \in Requests /\ request' = Request(s)
        /\ Handle(request') /\ DmTypeOK
    BY ShiftIsHandled DEF TypeOK
  <1>2. SUFFICES ASSUME answered'
                 PROVE  /\ dmi_container_register'.op = 0
                        /\ (dmi_container_register.data
                              = RegisterWord(dmi_container_register.address))'
    BY DEF RepliesAreCurrent
  <1>3. CASE s = ZeroScan /\ request'.op = 0
    <2>1. answered /\ request' = dmi_container_register
      BY <1>1, <1>2, <1>3 DEF Shift, Record, Request
    <2>2. dmi_container_register.data
            = RegisterWord(dmi_container_register.address)
      BY <2>1 DEF RepliesAreCurrent
    <2>3. /\ UNCHANGED <<dmcontrol, cmderr, abstract_data>>
          /\ dmi_container_register'.op = 0
          /\ dmi_container_register'.address = dmi_container_register.address
          /\ dmi_container_register'.data
               = IF dmi_container_register.address = DMSTATUS
                 THEN DmstatusWord ELSE dmi_container_register.data
      BY <1>1, <1>3, <2>1, NothingChangesNothing
    <2>4. CASE dmi_container_register.address = DMSTATUS
      BY <2>3, <2>4 DEF RegisterWord, DataRegister, DMCONTROL, DMSTATUS,
                        HARTINFO, ABSTRACTCS
    <2>5. CASE dmi_container_register.address # DMSTATUS
      BY <2>2, <2>3, <2>5 DEF RegisterWord, AbstractcsWord
    <2> QED
      BY <2>3, <2>4, <2>5
  <1>4. CASE ~ (s = ZeroScan /\ request'.op = 0)
    <2>1. dmi_container_register'.op = 0 /\ request'.op \in {1, 2}
      BY <1>1, <1>2, <1>4 DEF Shift, Record
    <2> QED
      BY <1>1, <2>1, AnswersAreCurrent
  <1> QED
    BY <1>3, <1>4

\* What the debugger wrote is there until a command that may change it.
LEMMA WritesStep ==
    ASSUME TypeOK, WritesArePresent, NEW s \in Scans, Shift(s)
    PROVE  WritesArePresent'
  <1>1. /\ request' \in Requests /\ request' = Request(s)
        /\ Handle(request') /\ DmTypeOK
    BY ShiftIsHandled DEF TypeOK
  <1>2. SUFFICES ASSUME NEW i \in 0..11, written'[i] # NoWord
                 PROVE  abstract_data'[i] = written'[i]
    BY DEF WritesArePresent
  <1>3. written'[i] = IF request'.op = 2 /\ request'.address = i + 4
                      THEN request'.data
                      ELSE IF i \in Forget(request') THEN NoWord
                      ELSE written[i]
    BY <1>1 DEF Shift, Record
  <1>4. /\ request'.op = 2 /\ request'.address = i + 4
             => abstract_data'[i] = request'.data
        /\ \/ request'.op = 2 /\ request'.address = i + 4
           \/ i \in Forget(request')
           \/ abstract_data'[i] = abstract_data[i]
    BY <1>1, DataRegistersChange
  <1>5. written[i] # NoWord => abstract_data[i] = written[i]
    BY DEF WritesArePresent
  <1> QED
    BY <1>2, <1>3, <1>4, <1>5

\* A resume request that the module answers does not stay in the container.
LEMMA ResumesStep ==
    ASSUME TypeOK, ResumesAreAnswered, NEW s \in Scans, Shift(s)
    PROVE  ResumesAreAnswered'
  <1>1. /\ request' \in Requests /\ request' = Request(s)
        /\ Handle(request') /\ DmTypeOK
    BY ShiftIsHandled DEF TypeOK
  <1>2. SUFFICES ASSUME ~ restless', Asks(dmi_container_register')
                 PROVE  FALSE
    BY DEF ResumesAreAnswered
  <1>3. /\ Asks(request') /\ Hasel(request'.data) = 0
        /\ Dmactive(request'.data) = 0
    BY <1>1, <1>2, ResumeStaysUnanswered
  <1>4. /\ ~ restless
        /\ ~ (Asks(s) /\ Hasel(s.data) = 0 /\ Dmactive(s.data) = 0)
    BY <1>2 DEF Shift, Record
  <1>5. Asks(s)
    BY <1>1, <1>3, <1>4, AskedByScan
  <1>6. s = ZeroScan \/ Request(s) = s
    BY DEF Request
  <1>7. ~ Asks(ZeroScan)
    BY DEF Asks, Writes, ZeroScan
  <1> QED
    BY <1>1, <1>3, <1>4, <1>5, <1>6, <1>7

\* So the hart steps when a scan asks for it and never again.
LEMMA StepsStep ==
    ASSUME TypeOK, ResumesAreAnswered, StepsAreRequested,
           NEW s \in Scans, Shift(s)
    PROVE  StepsAreRequested'
  <1>1. SUFFICES ASSUME ~ restless'
                 PROVE  steps' = resumes'
    BY DEF StepsAreRequested
  <1>2. ~ restless
    BY <1>1 DEF Shift, Record
  <1>3. Asks(Request(s)) <=> Asks(s)
    BY <1>2, AskedByScan
  <1>4. steps = resumes
    BY <1>2 DEF StepsAreRequested
  <1>5. /\ resumes' = IF Asks(s) THEN resumes + 1 ELSE resumes
        /\ steps' = IF Asks(Request(s)) THEN steps + 1 ELSE steps
    BY DEF Shift, Record
  <1> QED
    BY <1>3, <1>4, <1>5

\* dpc follows the hart.
LEMMA DpcStep ==
    ASSUME TypeOK, DpcFollowsHart, NEW s \in Scans, Shift(s)
    PROVE  DpcFollowsHart'
  <1>1. /\ request' \in Requests /\ request' = Request(s)
        /\ Handle(request') /\ DmTypeOK
    BY ShiftIsHandled DEF TypeOK
  <1>2. CASE Asks(request')
    BY <1>1, <1>2, HartMoves DEF DpcFollowsHart
  <1>3. CASE ~ Asks(request')
    <2>1. dpc' = dpc /\ pc' = pc
      BY <1>1, <1>3, HartMoves
    <2>2. steps' = steps
      BY <1>1, <1>3 DEF Shift, Record
    <2> QED
      BY <2>1, <2>2 DEF DpcFollowsHart
  <1> QED
    BY <1>2, <1>3

\* What the debugger has seen of a cell is what a read of it would give, and
\* stays so through every request that may not change the cell.
LEMMA SeenStep ==
    ASSUME TypeOK, SeenIsPresent, NEW s \in Scans, Shift(s)
    PROVE  SeenIsPresent'
  <1> DEFINE q == request'
  <1>1. /\ q \in Requests /\ Handle(q) /\ DmTypeOK
        /\ seen' = SeenAfter(q)
    BY ShiftIsHandled DEF TypeOK, Shift, Record
  <1> HIDE DEF q
  <1>2. CASE Asks(q)
    <2>1. DOMAIN seen' = {}
      BY <1>1, <1>2 DEF SeenAfter
    <2> QED
      BY <2>1 DEF SeenIsPresent
  <1>3. CASE ~ Asks(q)
    <2>1. ASSUME NEW c \in DOMAIN seen
          PROVE  /\ Known(c)' /\ (WordAt(c))' = WordAt(c)
                 /\ seen[c] = {WordAt(c)}
      <3>1. c \in Cells /\ Known(c) /\ seen[c] = {WordAt(c)}
        BY DEF TypeOK, SeenIsPresent
      <3> QED
        BY <1>1, <1>3, <3>1, HartMoves
    <2>2. CASE StoresMemory(q)
      <3>1. \A c \in DOMAIN seen' : c \in DOMAIN seen /\ seen'[c] = seen[c]
        BY <1>1, <1>3, <2>2 DEF SeenAfter
      <3> QED
        BY <2>1, <3>1 DEF SeenIsPresent
    <2>3. CASE ~ StoresMemory(q) /\ ReadsMemory(q)
      <3>1. PICK cell : cell = Cell(arg1')
        OBVIOUS
      <3>2. Known(cell)' /\ (WordAt(cell))' = abstract_data'[0]
        BY <1>1, <2>3, <3>1, MemoryReads
      <3>3. seen' = With(seen, cell, SeenAt(cell) \cup {abstract_data'[0]})
        BY <1>1, <1>3, <2>3, <3>1 DEF SeenAfter
      <3>4. SeenAt(cell) \cup {abstract_data'[0]} = {(WordAt(cell))'}
        BY <2>1, <3>2 DEF SeenAt
      <3>5. /\ DOMAIN seen' = DOMAIN seen \cup {cell}
            /\ seen'[cell] = {(WordAt(cell))'}
            /\ \A c \in DOMAIN seen : c # cell => seen'[c] = seen[c]
        BY <3>3, <3>4 DEF With
      <3> QED
        BY <2>1, <3>2, <3>5 DEF SeenIsPresent
    <2>4. CASE ~ StoresMemory(q) /\ ~ ReadsMemory(q)
      <3>1. seen' = seen
        BY <1>1, <1>3, <2>4 DEF SeenAfter
      <3> QED
        BY <2>1, <3>1 DEF SeenIsPresent
    <2> QED
      BY <2>2, <2>3, <2>4
  <1> QED
    BY <1>2, <1>3

\* What a walk relies on, request by request.
LEMMA WalkStep ==
    ASSUME TypeOK, WalkReadsConsecutively, NEW s \in Scans, Shift(s)
    PROVE  WalkReadsConsecutively'
  <1> DEFINE q == request'
  <1>1. /\ q \in Requests /\ q = Request(s) /\ Handle(q) /\ DmTypeOK
    BY ShiftIsHandled DEF TypeOK
  <1>2. walk \in [base : Words \cup {NoWord}, count : Nat]
    BY DEF TypeOK
  <1>3. walk' = IF Writes(q, 5) THEN [base |-> q.data, count |-> 0]
                ELSE IF WalksOn(q) /\ walk.base # NoWord
                     THEN [walk EXCEPT !.count = @ + 1]
                ELSE IF q.address = COMMAND \/ Writes(q, 4) \/ Asks(q)
                     THEN NoWalk
                ELSE walk
    BY <1>1 DEF Shift, Record
  <1> HIDE DEF q
  <1>4. CASE Writes(q, 5)
    <2>1. walk'.base = q.data /\ walk'.count = 0
      BY <1>3, <1>4
    <2>2. abstract_data'[1] = q.data
      BY <1>1, <1>4, DataRegistersChange DEF Writes
    <2>3. Plus(q.data, 4 * 0) = q.data
      BY <1>1, RequestFields, PlusZero
    <2> QED
      BY <2>1, <2>2, <2>3 DEF WalkReadsConsecutively
  <1>5. CASE ~ Writes(q, 5) /\ WalksOn(q) /\ walk.base # NoWord
    <2>1. PICK b \in Words, n \in Nat : b = walk.base /\ n = walk.count
      BY <1>2, <1>5
    <2>2. walk'.base = b /\ walk'.count = n + 1
      BY <1>2, <1>3, <1>5, <2>1
    <2>3. abstract_data[1] = Plus(b, 4 * n)
      BY <1>5, <2>1 DEF WalkReadsConsecutively
    <2>4. PICK cell : cell = Cell(abstract_data[1])
      OBVIOUS
    <2>5. /\ abstract_data'[1] = Plus(abstract_data[1], 4)
          /\ Known(cell)' /\ (WordAt(cell))' = abstract_data'[0]
      BY <1>1, <1>5, <2>4, WalkingReads
    <2>6. /\ 4 * (n + 1) = 4 * n + 4 /\ 4 * n \in Nat
          /\ n + 1 - 1 = n
      OBVIOUS
    <2>7. abstract_data'[1] = Plus(b, 4 * (n + 1))
      BY <2>3, <2>5, <2>6, PlusPlus
    <2>8. cell = Cell(Plus(walk'.base, 4 * (walk'.count - 1)))
      BY <2>2, <2>3, <2>4, <2>6
    <2> QED
      BY <2>2, <2>5, <2>7, <2>8 DEF WalkReadsConsecutively
  <1>6. CASE /\ ~ Writes(q, 5) /\ ~ (WalksOn(q) /\ walk.base # NoWord)
             /\ q.address = COMMAND \/ Writes(q, 4) \/ Asks(q)
    BY <1>3, <1>6 DEF NoWalk, WalkReadsConsecutively
  <1>7. CASE /\ ~ Writes(q, 5) /\ ~ (WalksOn(q) /\ walk.base # NoWord)
             /\ ~ (q.address = COMMAND \/ Writes(q, 4) \/ Asks(q))
    <2>1. walk' = walk
      BY <1>3, <1>7
    <2>2. abstract_data'[0] = abstract_data[0]
          /\ abstract_data'[1] = abstract_data[1]
      <3>1. /\ ~ (q.op = 2 /\ q.address = 0 + 4)
            /\ ~ (q.op = 2 /\ q.address = 1 + 4)
            /\ 0 \notin Forget(q) /\ 1 \notin Forget(q)
        BY <1>7 DEF Writes, Forget
      <3> QED
        BY <1>1, <3>1, DataRegistersChange
    <2>3. CASE walk.base # NoWord /\ walk.count > 0
      <3>1. PICK cell : cell = Cell(Plus(walk.base, 4 * (walk.count - 1)))
        OBVIOUS
      <3>2. Known(cell) /\ abstract_data[0] = WordAt(cell)
        BY <2>3, <3>1 DEF WalkReadsConsecutively
      <3>3. cell \in Cells
        <4>1. walk.base \in Words /\ 4 * (walk.count - 1) \in Nat
          BY <1>2, <2>3
        <4>2. Plus(walk.base, 4 * (walk.count - 1)) \in Words
          BY <4>1, PlusHalves
        <4> QED
          BY <3>1, <4>2, CellType
      <3>4. Known(cell)' /\ (WordAt(cell))' = WordAt(cell)
        BY <1>1, <1>7, <3>2, <3>3, HartMoves
      <3>5. cell = Cell(Plus(walk'.base, 4 * (walk'.count - 1)))
        BY <2>1, <3>1
      <3> QED
        BY <2>1, <2>2, <3>2, <3>4, <3>5 DEF WalkReadsConsecutively
    <2>4. CASE walk.base = NoWord \/ ~ (walk.count > 0)
      BY <2>1, <2>2, <2>4 DEF WalkReadsConsecutively
    <2> QED
      BY <2>3, <2>4
  <1> QED
    BY <1>4, <1>5, <1>6, <1>7

\* Before the first scan the debugger expects of a cell what the loader put
\* there.
LEMMA SeenAtFirst ==
    ASSUME Init
    PROVE  \A c \in DOMAIN seen : /\ c \in Cells /\ Known(c)
                                   /\ seen[c] = {WordAt(c)}
                                   /\ seen[c] \subseteq Words
  <1>1. segments = LoadedProgram /\ IsMemory(segments)
    BY DebuggerAssumption DEF Init, DmInit
  <1>2. SUFFICES ASSUME NEW c \in DOMAIN seen
                 PROVE  /\ c \in Cells /\ Known(c)
                        /\ seen[c] = {WordAt(c)}
                        /\ seen[c] \subseteq Words
    OBVIOUS
  <1>3. /\ c \in LoadedCells
        /\ seen[c] = {segments[c[1]][c[2]]}
    BY <1>1 DEF Init
  <1>4. PICK hi \in DOMAIN segments : c \in {hi} \X DOMAIN segments[hi]
    BY <1>1, <1>3 DEF LoadedCells
  <1>5. /\ c = <<c[1], c[2]>>
        /\ c[1] \in DOMAIN segments /\ c[2] \in DOMAIN segments[c[1]]
    BY <1>4
  <1>6. /\ c[1] \in Half /\ c[2] \in Indices
        /\ segments[c[1]][c[2]] \in Words
    BY <1>1, <1>5 DEF IsMemory
  <1>7. c \in Cells
    BY <1>5, <1>6 DEF Cells
  <1>8. Segment(c[1]) = segments[c[1]]
    BY <1>5 DEF Segment
  <1> QED
    BY <1>3, <1>5, <1>6, <1>7, <1>8 DEF Known, WordAt

\* The state before the first scan satisfies the invariant.
LEMMA InitInvariant == Init => DebuggerInvariant
  <1> SUFFICES ASSUME Init
               PROVE  DebuggerInvariant
    OBVIOUS
  <1>1. DmTypeOK
    BY DmInitType DEF Init
  <1>2. TypeOK
    <2>1. scan \in Requests /\ request \in Requests
      BY ConstantWords DEF Init
    <2>2. answered \in BOOLEAN /\ restless \in BOOLEAN
      BY Zenon DEF Init
    <2>3. /\ written \in [0..11 -> Words \cup {NoWord}]
          /\ resumes \in Nat /\ steps \in Nat
          /\ walk \in [base : Words \cup {NoWord}, count : Nat]
      BY DEF Init, NoWalk
    <2>4. \A c \in DOMAIN seen : c \in Cells /\ seen[c] \subseteq Words
      BY SeenAtFirst
    <2> QED
      BY <1>1, <2>1, <2>2, <2>3, <2>4 DEF TypeOK
  <1>3. /\ RepliesAreCurrent /\ WritesArePresent
        /\ StepsAreRequested /\ DpcFollowsHart /\ WalkReadsConsecutively
    BY DEF Init, RepliesAreCurrent, WritesArePresent, StepsAreRequested,
           DpcFollowsHart, WalkReadsConsecutively, NoWalk
  <1>4. ResumesAreAnswered
    BY DEF Init, DmInit, init_dmi, ResumesAreAnswered, Asks, Writes
  <1>5. SeenIsPresent
    BY SeenAtFirst DEF SeenIsPresent
  <1> QED
    BY <1>2, <1>3, <1>4, <1>5 DEF DebuggerInvariant

\* A step that leaves every variable alone keeps the invariant.
LEMMA StutterInvariant ==
    ASSUME DebuggerInvariant, UNCHANGED vars
    PROVE  DebuggerInvariant'
  BY DEF DebuggerInvariant, vars, dmVars, history, cpu, TypeOK, DmTypeOK,
         RepliesAreCurrent, WritesArePresent, ResumesAreAnswered,
         StepsAreRequested, DpcFollowsHart, WalkReadsConsecutively,
         RegisterWord, AbstractcsWord, SeenIsPresent, Known, WordAt, Segment

-----------------------------------------------------------------------------
(***************************************************************************)
(* The theorems.                                                           *)
(***************************************************************************)

\* The inductive invariant holds in every reachable state.
THEOREM InvariantHolds == Spec => []DebuggerInvariant
  <1>1. Init => DebuggerInvariant
    BY InitInvariant
  <1>2. DebuggerInvariant /\ [Next]_vars => DebuggerInvariant'
    <2> SUFFICES ASSUME DebuggerInvariant, [Next]_vars
                 PROVE  DebuggerInvariant'
      OBVIOUS
    <2>1. CASE Next
      <3>1. PICK s \in Scans : Shift(s)
        BY <2>1 DEF Next
      <3> QED
        BY <3>1, TypeStep, RepliesStep, WritesStep, ResumesStep, StepsStep,
           DpcStep, SeenStep, WalkStep DEF DebuggerInvariant
    <2>2. CASE UNCHANGED vars
      BY <2>2, StutterInvariant
    <2> QED
      BY <2>1, <2>2
  <1> QED
    BY <1>1, <1>2, PTL DEF Spec

\* Every register, and what the debugger knows of it, keeps its type.
THEOREM TypeCorrect == Spec => []TypeOK
  <1>1. DebuggerInvariant => TypeOK
    BY DEF DebuggerInvariant
  <1> QED
    BY <1>1, InvariantHolds, PTL

\* An answer left in the container reports the register's present value.
THEOREM RepliesAreCurrentHolds == Spec => []RepliesAreCurrent
  <1>1. DebuggerInvariant => RepliesAreCurrent
    BY DEF DebuggerInvariant
  <1> QED
    BY <1>1, InvariantHolds, PTL

\* A data register read back gives what was written to it last.
THEOREM ReadReturnsWrittenHolds == Spec => []ReadReturnsWritten
  <1>1. DebuggerInvariant => ReadReturnsWritten
    <2> SUFFICES ASSUME DebuggerInvariant, NEW i \in 0..11, answered,
                        dmi_container_register.address = i + 4,
                        written[i] # NoWord
                 PROVE  dmi_container_register.data = written[i]
      BY DEF ReadReturnsWritten
    <2>1. dmi_container_register.data = RegisterWord(i + 4)
      BY DEF DebuggerInvariant, RepliesAreCurrent
    <2>2. i + 4 \in DataRegister /\ i + 4 - 4 = i
          /\ i + 4 \notin {DMCONTROL, DMSTATUS, HARTINFO, ABSTRACTCS}
      BY DEF DataRegister, DMCONTROL, DMSTATUS, HARTINFO, ABSTRACTCS
    <2>3. RegisterWord(i + 4) = abstract_data[i]
      BY <2>2 DEF RegisterWord
    <2>4. abstract_data[i] = written[i]
      BY DEF DebuggerInvariant, WritesArePresent
    <2> QED
      BY <2>1, <2>3, <2>4
  <1> QED
    BY <1>1, InvariantHolds, PTL

\* The hart runs one instruction per resume request.
THEOREM StepsAreRequestedHolds == Spec => []StepsAreRequested
  <1>1. DebuggerInvariant => StepsAreRequested
    BY DEF DebuggerInvariant
  <1> QED
    BY <1>1, InvariantHolds, PTL

\* dpc is where the hart is once it has stepped.
THEOREM DpcFollowsHartHolds == Spec => []DpcFollowsHart
  <1>1. DebuggerInvariant => DpcFollowsHart
    BY DEF DebuggerInvariant
  <1> QED
    BY <1>1, InvariantHolds, PTL

\* A block read of any length walks the memory word by word.
THEOREM WalkReadsConsecutivelyHolds == Spec => []WalkReadsConsecutively
  <1>1. DebuggerInvariant => WalkReadsConsecutively
    BY DEF DebuggerInvariant
  <1> QED
    BY <1>1, InvariantHolds, PTL

\* All reads of a cell return the same word until the hart runs or the debugger
\* stores to it, whatever segments are allocated in between.
THEOREM MemoryReadsAgreeHolds == Spec => []MemoryReadsAgree
  <1>1. DebuggerInvariant => MemoryReadsAgree
    BY DEF DebuggerInvariant, SeenIsPresent, MemoryReadsAgree
  <1> QED
    BY <1>1, InvariantHolds, PTL

=============================================================================
