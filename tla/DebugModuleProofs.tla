-------------------------- MODULE DebugModuleProofs --------------------------
(***************************************************************************)
(* Lemmas about the debug module for every set of scans, program counters, *)
(* register files and memory contents: words and addresses, and the types  *)
(* and answers of every request.                                           *)
(***************************************************************************)
EXTENDS DebugModule, TLAPS

(***************************************************************************)
(* Words and addresses.  The provers enumerate an interval of literals, so *)
(* arithmetic is done on numbers below 65536 and Half is left closed.      *)
(***************************************************************************)

\* The numbers of 16 bits.
LEMMA HalfBounds ==
    ASSUME NEW h
    PROVE  h \in Half <=> h \in Nat /\ h < 65536
  <1>1. HalfSize \in Nat
    BY DEF HalfSize
  <1>2. h \in Half <=> h \in Nat /\ h < HalfSize
    BY <1>1 DEF Half
  <1> QED
    BY <1>2 DEF HalfSize

\* A word is its two halves.
LEMMA WordHalves ==
    ASSUME NEW w \in Words
    PROVE  /\ w = W(w.hi, w.lo)
           /\ w.hi \in Half /\ w.lo \in Half
           /\ w.hi \in Nat /\ w.hi < 65536
           /\ w.lo \in Nat /\ w.lo < 65536
  <1>1. w = W(w.hi, w.lo) /\ w.hi \in Half /\ w.lo \in Half
    BY DEF Words, W
  <1> QED
    BY <1>1, HalfBounds

\* And two halves are a word.
LEMMA HalvesAreWord ==
    ASSUME NEW h, NEW l, h \in Nat, h < 65536, l \in Nat, l < 65536
    PROVE  W(h, l) \in Words /\ W(h, l).hi = h /\ W(h, l).lo = l
  <1>1. h \in Half /\ l \in Half
    BY HalfBounds
  <1> QED
    BY <1>1 DEF Words, W

\* A remainder is a half, and a half its own remainder.
LEMMA Remainder ==
    ASSUME NEW x \in Nat
    PROVE  /\ x % 65536 \in Nat /\ x % 65536 < 65536
           /\ x \div 65536 \in Nat
           /\ x < 65536 => x % 65536 = x /\ x \div 65536 = 0
  OBVIOUS

\* A carry is taken once, whether two distances are added together or one
\* after the other.
LEMMA CarryOnce ==
    ASSUME NEW x \in Nat, NEW m \in Nat, NEW h \in Nat
    PROVE  /\ (x + m) % 65536 = ((x % 65536) + m) % 65536
           /\ (h + ((x + m) \div 65536)) % 65536
                = (((h + (x \div 65536)) % 65536)
                    + (((x % 65536) + m) \div 65536)) % 65536
  <1>1. (x + m) % 65536 = ((x % 65536) + m) % 65536
    OBVIOUS
  <1>2. (x + m) \div 65536
          = (x \div 65536) + (((x % 65536) + m) \div 65536)
    OBVIOUS
  <1>3. ASSUME NEW a \in Nat, NEW b \in Nat
        PROVE  (h + (a + b)) % 65536 = (((h + a) % 65536) + b) % 65536
    OBVIOUS
  <1>4. /\ x \div 65536 \in Nat
        /\ ((x % 65536) + m) \div 65536 \in Nat
    OBVIOUS
  <1> QED
    BY <1>1, <1>2, <1>3, <1>4

\* What Plus computes.
LEMMA PlusHalves ==
    ASSUME NEW w \in Words, NEW n \in Nat
    PROVE  /\ Plus(w, n) = W((w.hi + ((w.lo + n) \div 65536)) % 65536,
                             (w.lo + n) % 65536)
           /\ Plus(w, n).hi = (w.hi + ((w.lo + n) \div 65536)) % 65536
           /\ Plus(w, n).lo = (w.lo + n) % 65536
           /\ Plus(w, n) \in Words
  <1> DEFINE h == (w.hi + ((w.lo + n) \div 65536)) % 65536
             l == (w.lo + n) % 65536
  <1>1. w.lo + n \in Nat
    BY WordHalves
  <1>2. w.hi + ((w.lo + n) \div 65536) \in Nat
    BY <1>1, WordHalves, Remainder
  <1>3. h \in Nat /\ h < 65536 /\ l \in Nat /\ l < 65536
    BY <1>1, <1>2, Remainder
  <1>4. Plus(w, n) = W(h, l)
    BY DEF Plus, HalfSize
  <1> HIDE DEF h, l
  <1>5. Plus(w, n).hi = h /\ Plus(w, n).lo = l /\ Plus(w, n) \in Words
    BY <1>3, <1>4, HalvesAreWord
  <1> QED
    BY <1>4, <1>5 DEF h, l

\* An advance by nothing stays where it is.
LEMMA PlusZero ==
    ASSUME NEW w \in Words
    PROVE  Plus(w, 0) = w
  <1>1. /\ (w.lo + 0) % 65536 = w.lo
        /\ (w.hi + ((w.lo + 0) \div 65536)) % 65536 = w.hi
    BY WordHalves, Remainder
  <1> QED
    BY <1>1, PlusHalves, WordHalves

\* Two advances are one.
LEMMA PlusPlus ==
    ASSUME NEW w \in Words, NEW n \in Nat, NEW m \in Nat
    PROVE  Plus(Plus(w, n), m) = Plus(w, n + m)
  <1>1. PICK x \in Nat : x = w.lo + n
    BY WordHalves
  <1>2. PICK h \in Nat : h = w.hi
    BY WordHalves
  <1>3. /\ (x + m) % 65536 = ((x % 65536) + m) % 65536
        /\ (h + ((x + m) \div 65536)) % 65536
             = (((h + (x \div 65536)) % 65536)
                 + (((x % 65536) + m) \div 65536)) % 65536
    BY CarryOnce
  <1>4. Plus(w, n + m) = W((h + ((x + m) \div 65536)) % 65536,
                           (x + m) % 65536)
    <2>1. PICK k \in Nat : k = n + m
      OBVIOUS
    <2>2. w.lo + k = x + m
      BY <1>1, <2>1, WordHalves
    <2>3. Plus(w, k) = W((w.hi + ((w.lo + k) \div 65536)) % 65536,
                         (w.lo + k) % 65536)
      BY PlusHalves
    <2>4. Plus(w, k) = W((h + ((x + m) \div 65536)) % 65536, (x + m) % 65536)
      BY <2>2, <2>3, <1>2
    <2> QED
      BY <2>1, <2>4
  <1>5. Plus(Plus(w, n), m)
          = W((Plus(w, n).hi + ((Plus(w, n).lo + m) \div 65536)) % 65536,
              (Plus(w, n).lo + m) % 65536)
    BY PlusHalves
  <1>6. /\ Plus(w, n).hi = (h + (x \div 65536)) % 65536
        /\ Plus(w, n).lo = x % 65536
    BY <1>1, <1>2, PlusHalves
  <1> QED
    BY <1>3, <1>4, <1>5, <1>6

\* The distance to the next address is a number; for 32 bits it is 4.
LEMMA IncrementType ==
    ASSUME NEW c \in Words
    PROVE  /\ Increment(c) \in Nat
           /\ Size(c) = 2 => Increment(c) = 4
  <1>1. PICK k \in 0..7 : Size(c) = k
    <2>1. ASSUME NEW h \in Nat
          PROVE  (h \div 16) % 8 \in 0..7
      OBVIOUS
    <2> QED
      BY <2>1, WordHalves DEF Size
  <1>2. 2 ^ k \in Nat /\ (k = 2 => 2 ^ k = 4)
    <2>1. CASE k = 0 BY <2>1
    <2>2. CASE k = 1 BY <2>2
    <2>3. CASE k = 2 BY <2>3
    <2>4. CASE k = 3 BY <2>4
    <2>5. CASE k = 4 BY <2>5
    <2>6. CASE k = 5 BY <2>6
    <2>7. CASE k = 6 BY <2>7
    <2>8. CASE k = 7 BY <2>8
    <2> QED
      BY <2>1, <2>2, <2>3, <2>4, <2>5, <2>6, <2>7, <2>8
  <1> QED
    BY <1>1, <1>2 DEF Increment

\* A bit of a half is a bit.
LEMMA BitOfType ==
    ASSUME NEW h \in Nat
    PROVE  BitOf(h, 0) \in {0, 1} /\ BitOf(h, 14) \in {0, 1}
  BY DEF BitOf

\* Clearing hartsel and setting dmactive leaves a word.
LEMMA HartArrayUnsupportedType ==
    ASSUME NEW w \in Words
    PROVE  HartArrayUnsupported(w) \in Words
  <1>1. w.hi \in Nat /\ w.hi < 65536 /\ w.lo \in Nat
        /\ Dmactive(w) \in {0, 1}
    BY WordHalves, BitOfType DEF Dmactive
  <1>2. ASSUME NEW h \in Nat, h < 65536
        PROVE  (h \div 1024) * 1024 \in Nat /\ (h \div 1024) * 1024 < 65536
    BY <1>2
  <1>3. ASSUME NEW l \in Nat, NEW b \in {0, 1}
        PROVE  (l % 64) + 1 - b \in Nat /\ (l % 64) + 1 - b < 65536
    OBVIOUS
  <1> QED
    BY <1>1, <1>2, <1>3, HalvesAreWord DEF HartArrayUnsupported

\* Every address has a cell.
LEMMA CellType ==
    ASSUME NEW w \in Words
    PROVE  Cell(w) \in Cells
  <1>1. ASSUME NEW l \in Nat, NEW n \in Nat, l < 4 * n
        PROVE  l \div 4 \in 0..(n - 1)
    BY <1>1
  <1>2. HalfSize \div 4 = 16384
    BY DEF HalfSize
  <1>3. w.lo \div 4 \in 0..(HalfSize \div 4 - 1)
    BY <1>1, <1>2, WordHalves
  <1> QED
    BY <1>3, WordHalves DEF Cell, Cells, Indices

\* What UPDATE_DR decodes is a request.
LEMMA RequestType ==
    ASSUME NEW s \in Scans, DmTypeOK
    PROVE  Request(s) \in Requests
  BY DebuggerAssumption DEF Request, DmTypeOK

-----------------------------------------------------------------------------
(***************************************************************************)
(* Every request keeps the types.                                          *)
(***************************************************************************)

\* What a request consists of.
LEMMA RequestFields ==
    ASSUME NEW q \in Requests
    PROVE  q.address \in Nat /\ q.data \in Words /\ q.op \in {0, 1, 2, 3}
  BY DEF Requests

\* The answer to a request has its address, the data, and reports success.
LEMMA AnswerType ==
    ASSUME NEW q \in Requests, NEW data \in Words, Answers(q, data)
    PROVE  /\ dmi_container_register' \in Requests
           /\ dmi_container_register'.address = q.address
           /\ dmi_container_register'.data = data
           /\ dmi_container_register'.op = 0
  BY DEF Answers, Requests

\* The words the code writes out.
LEMMA ConstantWords ==
    /\ W(0, 0) \in Words /\ W(0, 1) \in Words /\ W(16384, 0) \in Words
    /\ DmstatusWord \in Words /\ MisaWord \in Words
    /\ ZeroScan \in Requests /\ init_dmi \in Requests
  <1>1. /\ W(0, 0) \in Words /\ W(0, 1) \in Words /\ W(16384, 0) \in Words
        /\ W(2, 643) \in Words /\ W(16384, 296) \in Words
    BY HalvesAreWord
  <1> QED
    BY <1>1 DEF DmstatusWord, MisaWord, ZeroScan, init_dmi, Requests,
                DMCONTROL

\* So is abstractcs.
LEMMA AbstractcsType ==
    ASSUME cmderr \in {0, 2}
    PROVE  AbstractcsWord \in Words
  BY HalvesAreWord DEF AbstractcsWord

\* The requests that change nothing but the container.
OnlyAnswers(q) ==
    \/ DataRead(q) \/ DmcontrolRead(q) \/ DmstatusAccess(q) \/ HartinfoRead(q)
    \/ AbstractcsRead(q) \/ Ignored(q)

\* What such a request answers: success and the present value, or nothing.
LEMMA OnlyAnswersContainer ==
    ASSUME DmTypeOK, NEW q \in Requests, OnlyAnswers(q)
    PROVE  /\ UNCHANGED <<dmcontrol, cmderr, abstract_data, arg1, dpc, cpu>>
           /\ \/ Leaves(q) /\ Ignored(q)
              \/ DataRead(q) /\ Answers(q, abstract_data[q.address - 4])
              \/ DmcontrolRead(q) /\ Answers(q, dmcontrol)
              \/ DmstatusAccess(q) /\ Answers(q, DmstatusWord)
              \/ HartinfoRead(q) /\ Answers(q, W(0, 0))
              \/ AbstractcsRead(q) /\ Answers(q, AbstractcsWord)
  BY DEF OnlyAnswers, DataRead, DmcontrolRead, DmstatusAccess, HartinfoRead,
         AbstractcsRead, Ignored

\* A read and an ignored request keep the types.
LEMMA OnlyAnswersType ==
    ASSUME DmTypeOK, NEW q \in Requests, OnlyAnswers(q)
    PROVE  DmTypeOK'
  <1>1. UNCHANGED <<dmcontrol, cmderr, abstract_data, arg1, dpc, cpu>>
    BY OnlyAnswersContainer
  <1>2. dmi_container_register' \in Requests
    <2>1. CASE Leaves(q)
      BY <2>1 DEF Leaves
    <2>2. CASE DataRead(q) /\ Answers(q, abstract_data[q.address - 4])
      <3>1. abstract_data[q.address - 4] \in Words
        BY <2>2 DEF DataRead, DataRegister, DmTypeOK
      <3> QED
        BY <2>2, <3>1, AnswerType
    <2>3. CASE Answers(q, dmcontrol) \/ Answers(q, DmstatusWord)
               \/ Answers(q, W(0, 0)) \/ Answers(q, AbstractcsWord)
      <3>1. dmcontrol \in Words /\ AbstractcsWord \in Words
        BY AbstractcsType DEF DmTypeOK
      <3> QED
        BY <2>3, <3>1, AnswerType, ConstantWords
    <2> QED
      BY <2>1, <2>2, <2>3, OnlyAnswersContainer
  <1> QED
    BY <1>1, <1>2 DEF DmTypeOK, cpu

\* So does a write to a data register.
LEMMA DataWriteType ==
    ASSUME DmTypeOK, NEW q \in Requests, DataWrite(q)
    PROVE  DmTypeOK'
  <1>1. q.data \in Words
    BY RequestFields
  <1>2. abstract_data' \in [0..11 -> Words]
    BY <1>1 DEF DataWrite, DmTypeOK
  <1>3. dmi_container_register' \in Requests
    BY DEF DataWrite, Leaves
  <1> QED
    BY <1>2, <1>3 DEF DataWrite, DmTypeOK, cpu

\* One instruction of the CPU leaves words in the registers and the cells.
LEMMA CpuStepType ==
    ASSUME DmTypeOK, cpu_step
    PROVE  /\ pc' \in ProgramCounters /\ pc' \in Words
           /\ reg' \in RegisterFiles
           /\ IsMemory(segments')
  <1>1. pc' \in ProgramCounters /\ pc' \in Words /\ reg' \in RegisterFiles
    BY DebuggerAssumption DEF cpu_step
  <1>2. CASE segments' = segments
    BY <1>1, <1>2 DEF DmTypeOK
  <1>3. CASE segments' = [hi \in DOMAIN segments |-> << >>]
    <2>1. \A hi \in DOMAIN segments' : hi \in Half /\ DOMAIN segments'[hi] = {}
      BY <1>3 DEF DmTypeOK, IsMemory
    <2> QED
      BY <1>1, <2>1 DEF IsMemory
  <1> QED
    BY <1>2, <1>3 DEF cpu_step

\* So does a write to dmcontrol, whether or not it resumes the hart.
LEMMA DmcontrolWriteType ==
    ASSUME DmTypeOK, NEW q \in Requests, DmcontrolWrite(q)
    PROVE  DmTypeOK'
  <1>1. q.data \in Words /\ HartArrayUnsupported(q.data) \in Words
    BY RequestFields, HartArrayUnsupportedType
  <1>2. dmcontrol' \in Words
    BY <1>1 DEF DmcontrolWrite
  <1>3. dmi_container_register' \in Requests
    BY <1>2, AnswerType DEF DmcontrolWrite, Leaves
  <1>4. /\ pc' \in ProgramCounters /\ reg' \in RegisterFiles /\ dpc' \in Words
        /\ IsMemory(segments')
    <2>1. CASE cpu_step /\ dpc' = pc'
      BY <2>1, CpuStepType
    <2>2. CASE UNCHANGED <<dpc, cpu>>
      BY <2>2 DEF DmTypeOK, cpu
    <2> QED
      BY <2>1, <2>2 DEF DmcontrolWrite, SingleStep
  <1> QED
    BY <1>2, <1>3, <1>4 DEF DmcontrolWrite, DmTypeOK

\* And reading the command register, and a command of no known type.
LEMMA PassiveCommandType ==
    ASSUME DmTypeOK, NEW q \in Requests, CommandRead(q) \/ OtherCommand(q)
    PROVE  DmTypeOK'
  <1>1. abstract_data' \in [0..11 -> Words]
    BY ConstantWords DEF CommandRead, OtherCommand, SetData0, DmTypeOK
  <1>2. dmi_container_register' \in Requests
    BY DEF CommandRead, OtherCommand, Leaves
  <1> QED
    BY <1>1, <1>2 DEF CommandRead, OtherCommand, DmTypeOK, cpu

\* What a register number reads is a word.
LEMMA RegisterValueType ==
    ASSUME DmTypeOK, NEW n \in ReadableRegisters
    PROVE  RegisterValue(n) \in Words
  <1>1. CASE n \in 4096..4127
    <2>1. n - 4096 \in 0..31 /\ reg \in [0..31 -> Words]
      BY <1>1, DebuggerAssumption DEF DmTypeOK
    <2>2. RegisterValue(n) = reg[n - 4096]
      BY <1>1 DEF RegisterValue, CSR_MISA, DPC_REGNO
    <2> QED
      BY <2>1, <2>2
  <1>2. CASE n = CSR_MISA
    BY <1>2, ConstantWords DEF RegisterValue, CSR_MISA, DPC_REGNO
  <1>3. CASE n = DPC_REGNO
    BY <1>3 DEF RegisterValue, CSR_MISA, DPC_REGNO, DmTypeOK
  <1> QED
    BY <1>1, <1>2, <1>3 DEF ReadableRegisters

\* An access to a register keeps the types.
LEMMA AccessRegisterType ==
    ASSUME DmTypeOK, NEW q \in Requests, AccessRegister(q)
    PROVE  DmTypeOK'
  <1>1. abstract_data' \in [0..11 -> Words]
    BY RegisterValueType DEF AccessRegister, SetData0, DmTypeOK
  <1>2. cmderr' \in {0, 2} /\ dmi_container_register' \in Requests
    BY DEF AccessRegister, Leaves
  <1> QED
    BY <1>1, <1>2 DEF AccessRegister, DmTypeOK, cpu

\* A known cell is one of a segment, and holds a word.
LEMMA KnownWords ==
    ASSUME DmTypeOK, NEW cell, Known(cell)
    PROVE  /\ cell[1] \in DOMAIN segments
           /\ cell[2] \in DOMAIN segments[cell[1]]
           /\ WordAt(cell) = segments[cell[1]][cell[2]]
           /\ WordAt(cell) \in Words
  <1>1. DOMAIN << >> = {}
    OBVIOUS
  <1>2. cell[1] \in DOMAIN segments
    BY <1>1 DEF Known, Segment
  <1>3. Segment(cell[1]) = segments[cell[1]]
    BY <1>2 DEF Segment
  <1> QED
    BY <1>2, <1>3 DEF Known, WordAt, DmTypeOK, IsMemory

\* What an access to memory does to data0, data1 and the cell it is about.
LEMMA AccessMemoryEffect ==
    ASSUME DmTypeOK, NEW q \in Requests, AccessMemory(q)
    PROVE  /\ arg1' = Arg1For(q.data) /\ arg1' \in Words
           /\ Cell(arg1') \in Cells
           /\ NextData1(q.data) \in Words
           /\ \/ /\ IsWrite(q.data)
                 /\ abstract_data'
                      = [abstract_data EXCEPT ![1] = NextData1(q.data)]
                 /\ segments' = segments
              \/ /\ ~ IsWrite(q.data)
                 /\ \E word \in Words :
                      /\ word \in CellWords(Cell(arg1'))
                      /\ segments' = SegmentsWith(Cell(arg1'), word)
                      /\ abstract_data'
                           = [abstract_data EXCEPT
                                ![0] = word, ![1] = NextData1(q.data)]
  <1>1. arg1' = Arg1For(q.data)
    BY DEF AccessMemory
  <1>2. arg1' \in Words
    BY <1>1 DEF Arg1For, DmTypeOK
  <1>3. NextData1(q.data) \in Words
    <2>1. q.data \in Words /\ Increment(q.data) \in Nat
      BY RequestFields, IncrementType
    <2>2. Plus(arg1', Increment(q.data)) \in Words
      BY <1>2, <2>1, PlusHalves
    <2> QED
      BY <2>1, <2>2 DEF NextData1
  <1>4. Cell(arg1') \in Cells
    BY <1>2, CellType
  <1>5. CellWords(Cell(arg1')) \subseteq Words
    BY KnownWords, DebuggerAssumption DEF CellWords
  <1> QED
    BY <1>1, <1>2, <1>3, <1>4, <1>5 DEF AccessMemory

\* What the segments hold once a read has found a word in a cell: that word,
\* and what they held before in every other cell.
LEMMA SegmentsWithCells ==
    ASSUME NEW cell \in Cells, NEW word, segments' = SegmentsWith(cell, word)
    PROVE  /\ DOMAIN segments' = DOMAIN segments \cup {cell[1]}
           /\ Known(cell)' /\ (WordAt(cell))' = word
           /\ \A c \in Cells : (c # cell /\ Known(c))
                  => Known(c)' /\ (WordAt(c))' = WordAt(c)
  <1>1. /\ DOMAIN segments' = DOMAIN segments \cup {cell[1]}
        /\ segments'[cell[1]] = With(Segment(cell[1]), cell[2], word)
        /\ \A hi \in DOMAIN segments : hi # cell[1] => segments'[hi] = segments[hi]
    BY DEF SegmentsWith, With
  <1>2. (Segment(cell[1]))' = With(Segment(cell[1]), cell[2], word)
    BY <1>1 DEF Segment
  <1>3. Known(cell)' /\ (WordAt(cell))' = word
    BY <1>2 DEF With, Known, WordAt
  <1>4. ASSUME NEW c \in Cells, c # cell, Known(c)
        PROVE  Known(c)' /\ (WordAt(c))' = WordAt(c)
    <2>1. CASE c[1] = cell[1]
      <3>1. c[2] # cell[2]
        BY <1>4, <2>1 DEF Cells
      <3>2. (Segment(c[1]))' = With(Segment(c[1]), cell[2], word)
        BY <1>2, <2>1
      <3> QED
        BY <1>4, <3>1, <3>2 DEF Known, WordAt, With
    <2>2. CASE c[1] # cell[1]
      <3>1. c[1] \in DOMAIN segments
        BY <1>4 DEF Known, Segment
      <3>2. (Segment(c[1]))' = Segment(c[1])
        BY <1>1, <2>2, <3>1 DEF Segment
      <3> QED
        BY <1>4, <3>2 DEF Known, WordAt
    <2> QED
      BY <2>1, <2>2
  <1> QED
    BY <1>1, <1>3, <1>4

\* They are memory again.
LEMMA SegmentsWithType ==
    ASSUME DmTypeOK, NEW cell \in Cells, NEW word \in Words
    PROVE  IsMemory(SegmentsWith(cell, word))
  <1> DEFINE grown == With(Segment(cell[1]), cell[2], word)
  <1>1. cell[1] \in Half /\ cell[2] \in Indices
    BY DEF Cells
  <1>2. \A index \in DOMAIN grown : index \in Indices /\ grown[index] \in Words
    <2>1. \A index \in DOMAIN Segment(cell[1]) :
             index \in Indices /\ Segment(cell[1])[index] \in Words
      BY DEF Segment, DmTypeOK, IsMemory
    <2> QED
      BY <1>1, <2>1 DEF With
  <1> HIDE DEF grown
  <1>3. /\ DOMAIN With(segments, cell[1], grown) = DOMAIN segments \cup {cell[1]}
        /\ With(segments, cell[1], grown)[cell[1]] = grown
        /\ \A hi \in DOMAIN segments : hi # cell[1]
               => With(segments, cell[1], grown)[hi] = segments[hi]
    BY DEF With
  <1>4. IsMemory(With(segments, cell[1], grown))
    BY <1>1, <1>2, <1>3 DEF IsMemory, DmTypeOK
  <1> QED
    BY <1>4 DEF SegmentsWith, grown

\* An access to memory keeps the types.
LEMMA AccessMemoryType ==
    ASSUME DmTypeOK, NEW q \in Requests, AccessMemory(q)
    PROVE  DmTypeOK'
  <1>1. abstract_data' \in [0..11 -> Words]
    <2>1. abstract_data \in [0..11 -> Words]
      BY DEF DmTypeOK
    <2> QED
      BY <2>1, AccessMemoryEffect
  <1>2. IsMemory(segments')
    BY AccessMemoryEffect, SegmentsWithType DEF DmTypeOK
  <1>3. arg1' \in Words
    BY AccessMemoryEffect
  <1>4. cmderr' \in {0, 2} /\ dmi_container_register' \in Requests
    BY DEF AccessMemory, Leaves
  <1> QED
    BY <1>1, <1>2, <1>3, <1>4 DEF AccessMemory, DmTypeOK

\* Every request keeps the types of the debug module.
LEMMA HandleType ==
    ASSUME DmTypeOK, NEW q \in Requests, Handle(q)
    PROVE  DmTypeOK'
  <1>1. CASE OnlyAnswers(q)
    BY <1>1, OnlyAnswersType
  <1>2. CASE DataWrite(q)
    BY <1>2, DataWriteType
  <1>3. CASE DmcontrolWrite(q)
    BY <1>3, DmcontrolWriteType
  <1>4. CASE CommandRead(q) \/ OtherCommand(q)
    BY <1>4, PassiveCommandType
  <1>5. CASE AccessRegister(q)
    BY <1>5, AccessRegisterType
  <1>6. CASE AccessMemory(q)
    BY <1>6, AccessMemoryType
  <1> QED
    BY <1>1, <1>2, <1>3, <1>4, <1>5, <1>6 DEF Handle, OnlyAnswers

\* The debug module leaves the request, or an answer to the same address that
\* reports success.
LEMMA HandleAnswers ==
    ASSUME NEW q \in Requests, Handle(q)
    PROVE  \/ dmi_container_register' = q
           \/ /\ dmi_container_register'.op = 0
              /\ dmi_container_register'.address = q.address
  BY DEF Handle, DataRead, DataWrite, DmcontrolRead, DmcontrolWrite,
         DmstatusAccess, HartinfoRead, AbstractcsRead, CommandRead,
         AccessRegister, AccessMemory, OtherCommand, Ignored, Leaves, Answers

\* The constructor's values have their types.
LEMMA DmInitType ==
    ASSUME DmInit
    PROVE  DmTypeOK
  <1>1. IsMemory(segments)
    BY DebuggerAssumption DEF DmInit
  <1> QED
    BY <1>1, ConstantWords DEF DmInit, DmTypeOK

\* A step the debug module takes no part in keeps its types.
LEMMA DmTypeKept ==
    ASSUME DmTypeOK, UNCHANGED dmVars
    PROVE  DmTypeOK'
  BY DEF DmTypeOK, dmVars, cpu

=============================================================================
