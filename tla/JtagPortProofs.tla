---------------------------- MODULE JtagPortProofs ----------------------------
(***************************************************************************)
(* Proofs about the port: in whatever order a debugger selects registers,  *)
(* resets the target and scans, a data register reads back what was        *)
(* written.                                                                *)
(***************************************************************************)
EXTENDS JtagPort, DebugModuleProofs, SequenceTheorems

(***************************************************************************)
(* What a request does to a data register.                                 *)
(***************************************************************************)

\* Only a write of the register and a command change it.
LEMMA DataRegisterKept ==
    ASSUME DmTypeOK, NEW q \in Requests, Handle(q), q.address # COMMAND,
           NEW a \in DataRegister
    PROVE  abstract_data'[a - 4]
             = IF Writes(q, a) THEN q.data ELSE abstract_data[a - 4]
  <1>1. CASE DataWrite(q)
    <2>1. /\ q.address \in 4..15 /\ q.op = 2
          /\ abstract_data'
               = [abstract_data EXCEPT ![q.address - 4] = q.data]
      BY <1>1 DEF DataWrite, DataRegister
    <2>2. /\ a \in 4..15 /\ a - 4 \in 0..11
          /\ DOMAIN abstract_data = 0..11
      BY DEF DmTypeOK, DataRegister
    <2> QED
      BY <2>1, <2>2 DEF Writes
  <1>2. CASE ~ DataWrite(q)
    <2>1. UNCHANGED abstract_data
      BY <1>2 DEF Handle, DataRead, DmcontrolRead, DmcontrolWrite,
                  DmstatusAccess, HartinfoRead, AbstractcsRead, CommandRead,
                  AccessRegister, AccessMemory, OtherCommand, Ignored, Reads,
                  Writes
    <2>2. ~ Writes(q, a)
      <3>1. SUFFICES ASSUME q.address = a, q.op = 2
                     PROVE  FALSE
        BY DEF Writes
      <3>2. a \in 4..15
        BY DEF DataRegister
      <3> QED
        BY <1>2, <3>1, <3>2
           DEF Handle, DataRead, DmcontrolRead, DmcontrolWrite,
               DmstatusAccess, HartinfoRead, AbstractcsRead, CommandRead,
               AccessRegister, AccessMemory, OtherCommand, Ignored, Reads,
               Writes, DataRegister, DMCONTROL, DMSTATUS, HARTINFO,
               ABSTRACTCS, COMMAND
    <2> QED
      BY <2>1, <2>2
  <1> QED
    BY <1>1, <1>2

\* A read is answered with the register, a write leaves itself.
LEMMA DataRegisterAnswers ==
    ASSUME NEW q \in Requests, Handle(q), NEW a \in DataRegister
    PROVE  /\ Reads(q, a) => Answers(q, abstract_data[a - 4])
           /\ Writes(q, a) => Leaves(q)
  <1>1. a \in 4..15
    BY DEF DataRegister
  <1> QED
    BY <1>1 DEF Handle, DataRead, DataWrite, DmcontrolRead, DmcontrolWrite,
                DmstatusAccess, HartinfoRead, AbstractcsRead, CommandRead,
                AccessRegister, AccessMemory, OtherCommand, Ignored, Reads,
                Writes, DataRegister, DMCONTROL, DMSTATUS, HARTINFO,
                ABSTRACTCS, COMMAND

(***************************************************************************)
(* The inductive invariant.                                                *)
(***************************************************************************)

\* The transactions i and j write and read data register a, and nothing in
\* between changes it.
WrittenThenRead(i, j, a) ==
    /\ i < j /\ IsTransaction(i) /\ IsTransaction(j)
    /\ Writes(transcript[i].request, a) /\ Reads(transcript[j].request, a)
    /\ ~ Disturbed(i, j, a)

NoneAfter(j) == ~ \E k \in (j + 1)..Len(transcript) : IsTransaction(k)

\* The word an undisturbed write left is in the data register, and the request
\* left in the container, which an all-zero scan would repeat, does not change
\* it.
WrittenIsKept ==
    \A i \in DOMAIN transcript, a \in DataRegister :
        /\ IsTransaction(i) /\ Writes(transcript[i].request, a)
        /\ ~ Disturbed(i, Len(transcript) + 1, a)
        => /\ abstract_data[a - 4] = transcript[i].request.data
           /\ dmi_container_register.address # COMMAND
           /\ Writes(dmi_container_register, a)
                => dmi_container_register.data = transcript[i].request.data

\* Once it has been read, the answer waits in the container.
AnswerWaits ==
    \A i, j \in DOMAIN transcript : \A a \in DataRegister :
        WrittenThenRead(i, j, a) /\ NoneAfter(j)
        => dmi_container_register
             = [address |-> a, data |-> transcript[i].request.data, op |-> 0]

PortInvariant ==
    /\ DmTypeOK
    /\ \E S : transcript \in Seq(S)
    /\ WrittenIsKept /\ AnswerWaits /\ ReadsBack

\* What has been read back of one write.
LEMMA ReadBackOnce ==
    ASSUME PortInvariant, NEW a \in DataRegister,
           NEW i \in DOMAIN transcript, NEW j \in DOMAIN transcript,
           NEW f \in DOMAIN transcript, j < f, IsTransaction(f),
           ~ \E k \in (j + 1)..(f - 1) : IsTransaction(k),
           WrittenThenRead(i, j, a)
    PROVE  transcript[f].reply
             = [address |-> a, data |-> transcript[i].request.data,
                op |-> 0]
  <1>1. ReadsBack
    BY DEF PortInvariant
  <1> QED
    BY <1>1 DEF ReadsBack, WrittenThenRead

\* A transcript one exchange longer.
LEMMA TranscriptGrows ==
    ASSUME NEW exchange, \E S : transcript \in Seq(S), Completes(exchange)
    PROVE  /\ \E S : transcript' \in Seq(S)
           /\ Len(transcript) \in Nat /\ Len(transcript') = Len(transcript) + 1
           /\ DOMAIN transcript = 1..Len(transcript)
           /\ DOMAIN transcript' = 1..(Len(transcript) + 1)
           /\ \A i \in 1..Len(transcript) : transcript'[i] = transcript[i]
           /\ transcript'[Len(transcript) + 1] = exchange
  <1>1. PICK S : transcript \in Seq(S)
    OBVIOUS
  <1>2. transcript \in Seq(S \cup {exchange}) /\ exchange \in S \cup {exchange}
    BY <1>1
  <1>3. transcript' = Append(transcript, exchange)
    BY DEF Completes
  <1>4. transcript' \in Seq(S \cup {exchange})
    BY <1>2, <1>3, AppendProperties
  <1> QED
    BY <1>2, <1>3, <1>4, AppendProperties, LenProperties

\* The transactions in it, and the disturbances among them, are those there
\* were before and the new one.
LEMMA DisturbancesGrow ==
    ASSUME NEW exchange, \E S : transcript \in Seq(S), Completes(exchange),
           NEW n, n = Len(transcript)
    PROVE  /\ \A i \in 1..n : IsTransaction(i)' <=> IsTransaction(i)
           /\ IsTransaction(n + 1)' <=> exchange.to = "dmi"
           /\ \A i, j \in 1..(n + 1), a \in DataRegister :
                Disturbed(i, j, a)' <=> Disturbed(i, j, a)
           /\ \A i \in 1..(n + 1), a \in DataRegister :
                ~ Disturbed(i, n + 2, a)'
                  => /\ ~ Disturbed(i, n + 1, a)
                     /\ (i # n + 1 /\ exchange.to = "dmi")
                          => /\ exchange.request.address # COMMAND
                             /\ ~ Writes(exchange.request, a)
  <1>1. /\ n \in Nat
        /\ DOMAIN transcript = 1..n /\ DOMAIN transcript' = 1..(n + 1)
        /\ \A i \in 1..n : transcript'[i] = transcript[i]
        /\ transcript'[n + 1] = exchange
    BY TranscriptGrows
  <1>2. \A i \in 1..n : IsTransaction(i)' <=> IsTransaction(i)
    BY <1>1 DEF IsTransaction
  <1>3. IsTransaction(n + 1)' <=> exchange.to = "dmi"
    BY <1>1 DEF IsTransaction
  <1>4. ASSUME NEW i \in 1..(n + 1), NEW j \in 1..(n + 1),
               NEW a \in DataRegister
        PROVE  Disturbed(i, j, a)' <=> Disturbed(i, j, a)
    <2>1. \A k \in (i + 1)..(j - 1) : k \in 1..n
      BY <1>1
    <2> QED
      BY <1>1, <1>2, <2>1 DEF Disturbed
  <1>5. ASSUME NEW i \in 1..(n + 1), NEW a \in DataRegister,
               ~ Disturbed(i, n + 2, a)'
        PROVE  /\ ~ Disturbed(i, n + 1, a)
               /\ (i # n + 1 /\ exchange.to = "dmi")
                    => /\ exchange.request.address # COMMAND
                       /\ ~ Writes(exchange.request, a)
    <2>1. \A k \in (i + 1)..(n + 1) :
              ~ (/\ IsTransaction(k)'
                 /\ \/ transcript'[k].request.address = COMMAND
                    \/ Writes(transcript'[k].request, a))
      <3>1. (n + 2) - 1 = n + 1
        BY <1>1
      <3> QED
        BY <1>5, <3>1 DEF Disturbed
    <2>2. \A k \in (i + 1)..((n + 1) - 1) : k \in 1..n /\ k \in (i + 1)..(n + 1)
      BY <1>1
    <2>3. i # n + 1 => n + 1 \in (i + 1)..(n + 1)
      BY <1>1
    <2>4. ~ Disturbed(i, n + 1, a)
      BY <1>1, <1>2, <2>1, <2>2 DEF Disturbed
    <2> QED
      BY <1>1, <1>3, <2>1, <2>3, <2>4
  <1> QED
    BY <1>2, <1>3, <1>4, <1>5

\* An exchange that is no transaction leaves the debug module and the history
\* of its registers as they were.
LEMMA OtherExchangeKeeps ==
    ASSUME PortInvariant, NEW exchange, Completes(exchange),
           exchange.to # "dmi", UNCHANGED dmVars
    PROVE  PortInvariant'
  <1>1. PICK n : n = Len(transcript)
    OBVIOUS
  <1>2. /\ n \in Nat /\ Len(transcript') = n + 1
        /\ DOMAIN transcript = 1..n /\ DOMAIN transcript' = 1..(n + 1)
        /\ \A i \in 1..n : transcript'[i] = transcript[i]
        /\ \E S : transcript' \in Seq(S)
    BY <1>1, TranscriptGrows DEF PortInvariant
  <1>3. /\ \A i \in 1..n : IsTransaction(i)' <=> IsTransaction(i)
        /\ ~ IsTransaction(n + 1)'
        /\ \A i, j \in 1..(n + 1), a \in DataRegister :
              Disturbed(i, j, a)' <=> Disturbed(i, j, a)
        /\ \A i \in 1..(n + 1), a \in DataRegister :
              ~ Disturbed(i, n + 2, a)' => ~ Disturbed(i, n + 1, a)
    BY <1>1, DisturbancesGrow DEF PortInvariant
  <1>4. UNCHANGED <<abstract_data, dmi_container_register>>
    BY DEF dmVars
  <1>5. WrittenIsKept'
    <2> SUFFICES ASSUME NEW i \in 1..(n + 1), NEW a \in DataRegister,
                        IsTransaction(i)',
                        Writes(transcript'[i].request, a),
                        ~ Disturbed(i, n + 2, a)'
                 PROVE  /\ abstract_data[a - 4] = transcript'[i].request.data
                        /\ dmi_container_register.address # COMMAND
                        /\ Writes(dmi_container_register, a)
                             => dmi_container_register.data
                                  = transcript'[i].request.data
      <3>1. (n + 1) + 1 = n + 2
        BY <1>2
      <3> QED
        BY <1>2, <1>4, <3>1 DEF WrittenIsKept, Writes
    <2>1. i \in 1..n
      BY <1>2, <1>3
    <2> QED
      BY <1>1, <1>2, <1>3, <2>1 DEF PortInvariant, WrittenIsKept
  <1>6. AnswerWaits'
    <2> SUFFICES ASSUME NEW i \in 1..(n + 1), NEW j \in 1..(n + 1),
                        NEW a \in DataRegister,
                        WrittenThenRead(i, j, a)', NoneAfter(j)'
                 PROVE  dmi_container_register
                          = [address |-> a,
                             data |-> transcript'[i].request.data, op |-> 0]
      BY <1>2, <1>4 DEF AnswerWaits
    <2>1. i \in 1..n /\ j \in 1..n
      BY <1>2, <1>3 DEF WrittenThenRead
    <2>2. WrittenThenRead(i, j, a)
      BY <1>2, <1>3, <2>1 DEF WrittenThenRead
    <2>3. NoneAfter(j)
      <3>1. \A k \in (j + 1)..n : k \in 1..n /\ k \in (j + 1)..(n + 1)
        BY <1>2, <2>1
      <3> QED
        BY <1>1, <1>2, <1>3, <3>1 DEF NoneAfter
    <2> QED
      BY <1>2, <2>1, <2>2, <2>3 DEF PortInvariant, AnswerWaits
  <1>7. ReadsBack'
    <2> SUFFICES ASSUME NEW i \in DOMAIN transcript',
                        NEW j \in DOMAIN transcript',
                        NEW f \in DOMAIN transcript',
                        (/\ i < j /\ j < f
                         /\ IsTransaction(i) /\ IsTransaction(j)
                         /\ IsTransaction(f)
                         /\ ~ \E k \in (j + 1)..(f - 1) : IsTransaction(k))',
                        NEW a \in DataRegister,
                        (/\ Writes(transcript[i].request, a)
                         /\ Reads(transcript[j].request, a)
                         /\ ~ Disturbed(i, j, a))'
                 PROVE  (transcript[f].reply
                           = [address |-> a,
                              data |-> transcript[i].request.data,
                              op |-> 0])'
      BY Zenon DEF ReadsBack
    <2>1. i \in 1..n /\ j \in 1..n /\ f \in 1..n
      BY <1>2, <1>3
    <2>2. ~ \E k \in (j + 1)..(f - 1) : IsTransaction(k)
      <3>1. \A k \in (j + 1)..(f - 1) : k \in 1..n
        BY <1>2, <2>1
      <3> QED
        BY <1>3, <3>1
    <2>3. /\ IsTransaction(i) /\ IsTransaction(j) /\ IsTransaction(f)
          /\ ~ Disturbed(i, j, a)
      <3>1. i \in 1..(n + 1) /\ j \in 1..(n + 1)
        BY <1>2, <2>1
      <3> QED
        BY <1>3, <2>1, <3>1
    <2>4. WrittenThenRead(i, j, a)
      BY <1>2, <2>1, <2>3 DEF WrittenThenRead
    <2>5. transcript[f].reply
            = [address |-> a, data |-> transcript[i].request.data, op |-> 0]
      BY <1>2, <2>1, <2>2, <2>3, <2>4, ReadBackOnce
    <2> QED
      BY <1>2, <2>1, <2>5
  <1> QED
    BY <1>2, <1>5, <1>6, <1>7, DmTypeKept DEF PortInvariant

\* A transaction hands its request to the debug module and fetches the answer
\* that waits there.
LEMMA TransactKeeps ==
    ASSUME PortInvariant, NEW s \in Scans, UpdateDmi(s),
           Completes([to |-> "dmi", request |-> s,
                      reply |-> dmi_container_register])
    PROVE  PortInvariant'
  <1> DEFINE q == Request(s)
             exchange == [to |-> "dmi", request |-> s,
                          reply |-> dmi_container_register]
  <1>1. PICK n : n = Len(transcript)
    OBVIOUS
  <1>2. /\ exchange.to = "dmi" /\ exchange.request = s
        /\ exchange.reply = dmi_container_register
        /\ Completes(exchange)
    OBVIOUS
  <1>3. /\ q \in Requests /\ Handle(q) /\ s \in Requests
    BY RequestType, DebuggerAssumption DEF PortInvariant, UpdateDmi
  <1>4. q = s \/ (q = dmi_container_register /\ s = ZeroScan)
    BY DEF Request
  <1> HIDE DEF q, exchange
  <1>5. /\ n \in Nat /\ Len(transcript') = n + 1
        /\ DOMAIN transcript = 1..n /\ DOMAIN transcript' = 1..(n + 1)
        /\ \A i \in 1..n : transcript'[i] = transcript[i]
        /\ transcript'[n + 1] = exchange
        /\ \E S : transcript' \in Seq(S)
    BY <1>1, <1>2, TranscriptGrows DEF PortInvariant
  <1>6. /\ \A i \in 1..n : IsTransaction(i)' <=> IsTransaction(i)
        /\ IsTransaction(n + 1)'
        /\ \A i, j \in 1..(n + 1), a \in DataRegister :
              Disturbed(i, j, a)' <=> Disturbed(i, j, a)
        /\ \A i \in 1..(n + 1), a \in DataRegister :
              ~ Disturbed(i, n + 2, a)'
                => /\ ~ Disturbed(i, n + 1, a)
                   /\ i # n + 1 => s.address # COMMAND /\ ~ Writes(s, a)
    BY <1>1, <1>2, DisturbancesGrow DEF PortInvariant
  <1>7. ASSUME NEW a \in DataRegister, s.address = a
        PROVE  q = s /\ s.address # COMMAND
    <2>1. a \in 4..15
      BY DEF DataRegister
    <2> QED
      BY <1>4, <1>7, <2>1 DEF ZeroScan, COMMAND
  <1>8. DmTypeOK'
    BY <1>3, HandleType DEF PortInvariant
  <1>9. WrittenIsKept'
    <2> SUFFICES ASSUME NEW i \in 1..(n + 1), NEW a \in DataRegister,
                        IsTransaction(i)',
                        Writes(transcript'[i].request, a),
                        ~ Disturbed(i, n + 2, a)'
                 PROVE  /\ abstract_data'[a - 4] = transcript'[i].request.data
                        /\ dmi_container_register'.address # COMMAND
                        /\ Writes(dmi_container_register', a)
                             => dmi_container_register'.data
                                  = transcript'[i].request.data
      <3>1. (n + 1) + 1 = n + 2
        BY <1>5
      <3> QED
        BY <1>5, <3>1 DEF WrittenIsKept, Writes
    <2>1. CASE i = n + 1
      <3>1. Writes(s, a) /\ transcript'[i].request = s
        BY <1>2, <1>5, <2>1
      <3>2. q = s /\ s.address # COMMAND /\ Writes(q, a)
        BY <1>7, <3>1 DEF Writes
      <3>3. abstract_data'[a - 4] = s.data
        BY <1>3, <3>2, DataRegisterKept DEF PortInvariant
      <3>4. dmi_container_register' = s
        BY <1>3, <3>2, DataRegisterAnswers DEF Leaves
      <3> QED
        BY <3>1, <3>2, <3>3, <3>4
    <2>2. CASE i # n + 1
      <3>1. i \in 1..n /\ transcript'[i] = transcript[i]
        BY <1>5, <2>2
      <3>2. PICK data : data = transcript[i].request.data
        OBVIOUS
      <3>3. /\ abstract_data[a - 4] = data
            /\ dmi_container_register.address # COMMAND
            /\ Writes(dmi_container_register, a)
                 => dmi_container_register.data = data
            /\ s.address # COMMAND /\ ~ Writes(s, a)
        BY <1>1, <1>5, <1>6, <2>2, <3>1, <3>2
           DEF PortInvariant, WrittenIsKept
      <3>4. /\ q.address # COMMAND
            /\ Writes(q, a) => q.data = data
        BY <1>4, <3>3
      <3>5. abstract_data'[a - 4] = data
        BY <1>3, <3>3, <3>4, DataRegisterKept DEF PortInvariant
      <3>6. /\ dmi_container_register'.address # COMMAND
            /\ Writes(dmi_container_register', a)
                 => dmi_container_register'.data = data
        BY <1>3, <3>4, HandleAnswers DEF Writes
      <3> QED
        BY <3>1, <3>2, <3>5, <3>6
    <2> QED
      BY <2>1, <2>2
  <1>10. AnswerWaits'
    <2> SUFFICES ASSUME NEW i \in 1..(n + 1), NEW j \in 1..(n + 1),
                        NEW a \in DataRegister,
                        WrittenThenRead(i, j, a)', NoneAfter(j)'
                 PROVE  dmi_container_register'
                          = [address |-> a,
                             data |-> transcript'[i].request.data, op |-> 0]
      BY <1>5 DEF AnswerWaits
    <2>1. j = n + 1
      <3>1. j # n + 1 => n + 1 \in (j + 1)..(n + 1)
        BY <1>5
      <3> QED
        BY <1>5, <1>6, <3>1 DEF NoneAfter
    <2>2. i \in 1..n
      BY <1>5, <2>1 DEF WrittenThenRead
    <2>3. /\ IsTransaction(i) /\ Writes(transcript[i].request, a)
          /\ ~ Disturbed(i, n + 1, a) /\ Reads(s, a)
      BY <1>2, <1>5, <1>6, <2>1, <2>2 DEF WrittenThenRead
    <2>4. abstract_data[a - 4] = transcript[i].request.data
      BY <1>1, <1>5, <2>2, <2>3 DEF PortInvariant, WrittenIsKept
    <2>5. Reads(q, a)
      BY <1>7, <2>3 DEF Reads
    <2> QED
      BY <1>3, <1>5, <2>2, <2>4, <2>5, DataRegisterAnswers
         DEF Answers, Reads
  <1>11. ReadsBack'
    <2> SUFFICES ASSUME NEW i \in DOMAIN transcript',
                        NEW j \in DOMAIN transcript',
                        NEW f \in DOMAIN transcript',
                        (/\ i < j /\ j < f
                         /\ IsTransaction(i) /\ IsTransaction(j)
                         /\ IsTransaction(f)
                         /\ ~ \E k \in (j + 1)..(f - 1) : IsTransaction(k))',
                        NEW a \in DataRegister,
                        (/\ Writes(transcript[i].request, a)
                         /\ Reads(transcript[j].request, a)
                         /\ ~ Disturbed(i, j, a))'
                 PROVE  (transcript[f].reply
                           = [address |-> a,
                              data |-> transcript[i].request.data,
                              op |-> 0])'
      BY Zenon DEF ReadsBack
    <2>1. /\ i \in 1..n /\ j \in 1..n /\ f \in 1..(n + 1)
          /\ i \in 1..(n + 1) /\ j \in 1..(n + 1)
      BY <1>5
    <2>2. WrittenThenRead(i, j, a)
      BY <1>5, <1>6, <2>1 DEF WrittenThenRead
    <2>3. ~ \E k \in (j + 1)..(f - 1) : IsTransaction(k)
      <3>1. \A k \in (j + 1)..(f - 1) : k \in 1..n
        BY <1>5, <2>1
      <3> QED
        BY <1>6, <3>1
    <2>4. CASE f \in 1..n
      <3>1. IsTransaction(f)
        BY <1>6, <2>4
      <3> QED
        <4>1. transcript[f].reply
                = [address |-> a, data |-> transcript[i].request.data,
                   op |-> 0]
          BY <1>5, <2>1, <2>2, <2>3, <2>4, <3>1, ReadBackOnce
        <4> QED
          BY <1>5, <2>1, <2>4, <4>1
    <2>5. CASE f = n + 1
      <3>1. NoneAfter(j)
        <4>1. f - 1 = n
          BY <1>5, <2>5
        <4> QED
          BY <1>1, <2>3, <4>1 DEF NoneAfter
      <3>2. dmi_container_register
              = [address |-> a, data |-> transcript[i].request.data,
                 op |-> 0]
        BY <1>5, <2>1, <2>2, <3>1 DEF PortInvariant, AnswerWaits
      <3> QED
        BY <1>2, <1>5, <2>1, <2>5, <3>2
    <2> QED
      BY <1>5, <2>1, <2>4, <2>5
  <1> QED
    BY <1>5, <1>8, <1>9, <1>10, <1>11 DEF PortInvariant

\* Nothing has been scanned at power-on.
LEMMA PortInvariantInit ==
    ASSUME PortInit
    PROVE  PortInvariant
  <1>1. transcript \in Seq({}) /\ DOMAIN transcript = {}
    BY DEF PortInit
  <1> QED
    BY <1>1, DmInitType
       DEF PortInit, PortInvariant, WrittenIsKept, AnswerWaits, ReadsBack

\* A step that completes no exchange and leaves the debug module alone.
LEMMA SilentStepKeeps ==
    ASSUME PortInvariant, UNCHANGED <<dmVars, transcript>>
    PROVE  PortInvariant'
  <1>1. UNCHANGED <<abstract_data, dmi_container_register, transcript>>
    BY DEF dmVars
  <1> QED
    BY <1>1, DmTypeKept
       DEF PortInvariant, WrittenIsKept, AnswerWaits, ReadsBack,
           WrittenThenRead, NoneAfter, IsTransaction, Disturbed

\* Every step of the port keeps it.
LEMMA PortStepKeeps ==
    ASSUME PortInvariant, [PortNext]_portVars
    PROVE  PortInvariant'
  <1>1. ASSUME NEW register, Select(register)
        PROVE  PortInvariant'
    BY <1>1, OtherExchangeKeeps DEF Select
  <1>2. CASE SelectUnknown
    BY <1>2, OtherExchangeKeeps DEF SelectUnknown
  <1>3. CASE Reset
    BY <1>3, SilentStepKeeps DEF Reset
  <1>4. ASSUME NEW sent, ScanIdcode(sent)
        PROVE  PortInvariant'
    BY <1>4, OtherExchangeKeeps DEF ScanIdcode
  <1>5. ASSUME NEW sent, ScanDtmcs(sent)
        PROVE  PortInvariant'
    BY <1>5, OtherExchangeKeeps DEF ScanDtmcs
  <1>6. ASSUME NEW s \in Scans, Transact(s)
        PROVE  PortInvariant'
    BY <1>6, TransactKeeps DEF Transact
  <1>7. CASE UNCHANGED portVars
    BY <1>7, SilentStepKeeps DEF portVars
  <1> QED
    BY <1>1, <1>2, <1>3, <1>4, <1>5, <1>6, <1>7 DEF PortNext

(***************************************************************************)
(* The results.                                                            *)
(***************************************************************************)

\* The inductive invariant holds in every reachable state of the port.
THEOREM PortInvariantHolds == PortSpec => []PortInvariant
  BY PortInvariantInit, PortStepKeeps, PTL DEF PortSpec

\* In whatever order a debugger selects registers, resets the target and
\* scans: a data register it has written and reads by a later transaction,
\* with no second write and no command between, has the written word in the
\* answer of success that the next transaction fetches.
THEOREM ReadsBackHolds == PortSpec => []ReadsBack
  <1>1. PortInvariant => ReadsBack
    BY DEF PortInvariant
  <1> QED
    BY <1>1, PortInvariantHolds, PTL

=============================================================================
