------------------------- MODULE BitbangServerProofs -------------------------
(***************************************************************************)
(* Proofs about BitbangServer for every size of its buffers, window and    *)
(* listen queue: the inductive invariant ServerInvariant, what follows     *)
(* from it, and that the server implements BitbangChannel.                 *)
(***************************************************************************)
EXTENDS BitbangServer, SequenceTheorems, FiniteSetTheorems, TLAPS

(***************************************************************************)
(* Counting the commands in a buffer.                                      *)
(***************************************************************************)

\* A count is of a finite set.
LEMMA AheadFinite ==
    ASSUME NEW buffer, NEW n \in Nat, NEW command
    PROVE  /\ IsFiniteSet({ j \in 1..n : buffer[j] = command })
           /\ Ahead(buffer, n, command) \in Nat
  <1>1. IsFiniteSet(1..n)
    BY FS_Interval
  <1>2. IsFiniteSet({ j \in 1..n : buffer[j] = command })
    BY <1>1, FS_Subset
  <1> QED
    BY <1>2, FS_CardinalityType DEF Ahead

\* Nothing is ahead of the first command.
LEMMA AheadOfFirst ==
    ASSUME NEW buffer, NEW command
    PROVE  Ahead(buffer, 0, command) = 0
  <1>1. { j \in 1..0 : buffer[j] = command } = {}
    OBVIOUS
  <1> QED
    BY <1>1, FS_EmptySet DEF Ahead

\* One command more is counted when it is of the kind.
LEMMA AheadOfNext ==
    ASSUME NEW buffer, NEW n \in Nat, NEW command
    PROVE  Ahead(buffer, n + 1, command)
             = Ahead(buffer, n, command)
               + IF buffer[n + 1] = command THEN 1 ELSE 0
  <1> DEFINE A(m) == { j \in 1..m : buffer[j] = command }
  <1>1. IsFiniteSet(A(n)) /\ Cardinality(A(n)) \in Nat
    BY AheadFinite, ZenonT(40) DEF Ahead
  <1>2. CASE buffer[n + 1] = command
    <2>1. A(n + 1) = A(n) \cup {n + 1} /\ n + 1 \notin A(n)
      BY <1>2
    <2> HIDE DEF A
    <2>2. Cardinality(A(n + 1)) = Cardinality(A(n)) + 1
      BY <1>1, <2>1, FS_AddElement
    <2> QED
      BY <1>2, <2>2 DEF Ahead, A
  <1>3. CASE buffer[n + 1] # command
    <2>1. A(n + 1) = A(n)
      BY <1>3
    <2> QED
      BY <1>1, <1>3, <2>1 DEF Ahead
  <1> QED
    BY <1>2, <1>3

\* No more of a kind are ahead of an earlier command than of a later one.
LEMMA AheadMonotonic ==
    ASSUME NEW buffer, NEW n \in Nat, NEW m \in 0..n, NEW command
    PROVE  Ahead(buffer, m, command) <= Ahead(buffer, n, command)
  <1>1. IsFiniteSet({ j \in 1..n : buffer[j] = command })
    BY AheadFinite
  <1>2. { j \in 1..m : buffer[j] = command }
          \in SUBSET { j \in 1..n : buffer[j] = command }
    OBVIOUS
  <1> QED
    BY <1>1, <1>2, FS_Subset DEF Ahead

\* A command sent behind the others leaves their counts alone.
LEMMA AheadOfAppend ==
    ASSUME NEW buffer \in Seq(Commands), NEW sent \in Commands,
           NEW n \in 0..Len(buffer), NEW command
    PROVE  Ahead(Append(buffer, sent), n, command) = Ahead(buffer, n, command)
  <1>1. \A j \in 1..n : Append(buffer, sent)[j] = buffer[j]
    BY AppendProperties
  <1>2. { j \in 1..n : Append(buffer, sent)[j] = command }
          = { j \in 1..n : buffer[j] = command }
    BY <1>1
  <1> QED
    BY <1>2 DEF Ahead

\* A command taken from the front is counted no more.
LEMMA AheadOfTail ==
    ASSUME NEW buffer \in Seq(Commands), buffer # << >>,
           NEW n \in 0..(Len(buffer) - 1), NEW command
    PROVE  Ahead(buffer, n + 1, command)
             = Ahead(Tail(buffer), n, command)
               + IF Head(buffer) = command THEN 1 ELSE 0
  <1> DEFINE T == { j \in 1..n : Tail(buffer)[j] = command }
             B == { j \in 1..(n + 1) : buffer[j] = command }
             R == B \ {1}
             f == [j \in T |-> j + 1]
  <1>1. /\ \A j \in 1..n : Tail(buffer)[j] = buffer[j + 1]
        /\ Head(buffer) = buffer[1] /\ n \in Nat
    BY HeadTailProperties, LenProperties
  <1>2. IsFiniteSet(T) /\ IsFiniteSet(B) /\ Cardinality(B) \in Nat
    <2>1. IsFiniteSet(T)
      BY <1>1, AheadFinite, ZenonT(40)
    <2>2. n + 1 \in Nat
      BY <1>1
    <2>3. IsFiniteSet(B) /\ Ahead(buffer, n + 1, command) \in Nat
      BY <2>2, AheadFinite
    <2> QED
      BY <2>1, <2>3 DEF Ahead
  <1>3. f \in Bijection(T, R)
    <2>1. f \in [T -> R]
      BY <1>1
    <2>2. \A a, b \in T : f[a] = f[b] => a = b
      OBVIOUS
    <2>3. ASSUME NEW r \in R
          PROVE  \E t \in T : f[t] = r
      <3>1. r - 1 \in 1..n /\ r = (r - 1) + 1 /\ buffer[r] = command
        BY <1>1
      <3>2. Tail(buffer)[r - 1] = buffer[(r - 1) + 1]
        BY <1>1, <3>1
      <3>3. r - 1 \in T
        BY <3>1, <3>2
      <3> QED
        BY <3>1, <3>3
    <2> QED
      BY <2>1, <2>2, <2>3
         DEF Bijection, Injection, Surjection, IsInjective
  <1>4. Cardinality(R) = Cardinality(T)
    <2>1. ExistsBijection(T, R)
      BY <1>3 DEF ExistsBijection
    <2> QED
      BY <1>2, <2>1, FS_Bijection
  <1>5. Cardinality(R) = IF 1 \in B THEN Cardinality(B) - 1 ELSE Cardinality(B)
    BY <1>2, FS_RemoveElement
  <1>6. 1 \in B <=> Head(buffer) = command
    BY <1>1
  <1> HIDE DEF T, B, R, f
  <1>7. Cardinality(B) = Cardinality(T) + IF Head(buffer) = command THEN 1 ELSE 0
    BY <1>2, <1>4, <1>5, <1>6
  <1> QED
    BY <1>7 DEF Ahead, T, B

(***************************************************************************)
(* Replies as a prefix of what was asked.                                  *)
(***************************************************************************)

\* A prefix compared index by index.
LEMMA PrefixByIndex ==
    ASSUME NEW s \in Seq(Nat), NEW t \in Seq(Nat)
    PROVE  IsPrefix(s, t) <=> /\ Len(s) <= Len(t)
                              /\ \A i \in 1..Len(s) : s[i] = t[i]
  <1> SUFFICES ASSUME Len(s) <= Len(t)
               PROVE  SubSeq(s, 1, Len(s)) = SubSeq(t, 1, Len(s))
                        <=> \A i \in 1..Len(s) : s[i] = t[i]
    BY DEF IsPrefix
  <1>1. /\ Len(s) \in Nat /\ Len(t) \in Nat
        /\ \A i \in 1..Len(s) : s[i] \in Nat /\ t[i] \in Nat
    BY LenProperties, ElementOfSeq
  <1>2. /\ SubSeq(s, 1, Len(s)) \in Seq(Nat)
        /\ Len(SubSeq(s, 1, Len(s))) = Len(s)
        /\ \A i \in 1..Len(s) : SubSeq(s, 1, Len(s))[i] = s[i]
    BY <1>1
  <1>3. /\ SubSeq(t, 1, Len(s)) \in Seq(Nat)
        /\ Len(SubSeq(t, 1, Len(s))) = Len(s)
        /\ \A i \in 1..Len(s) : SubSeq(t, 1, Len(s))[i] = t[i]
    BY <1>1
  <1>4. ASSUME \A i \in 1..Len(s) : s[i] = t[i]
        PROVE  SubSeq(s, 1, Len(s)) = SubSeq(t, 1, Len(s))
    BY <1>2, <1>3, <1>4, SeqEqual
  <1>5. ASSUME SubSeq(s, 1, Len(s)) = SubSeq(t, 1, Len(s)),
               NEW i \in 1..Len(s)
        PROVE  s[i] = t[i]
    BY <1>2, <1>3, <1>5
  <1> QED
    BY <1>4, <1>5

\* Replies lost from the end leave a prefix.
LEMMA PrefixShrinks ==
    ASSUME NEW g \in Seq(Nat), NEW r \in Seq(Nat), NEW a \in Seq(Nat),
           IsPrefix(g \o r, a), NEW n \in 0..Len(r)
    PROVE  /\ SubSeq(r, 1, n) \in Seq(Nat)
           /\ Len(SubSeq(r, 1, n)) = n
           /\ IsPrefix(g \o SubSeq(r, 1, n), a)
  <1> DEFINE q == SubSeq(r, 1, n)
  <1>1. /\ q \in Seq(Nat) /\ Len(q) = n
        /\ \A i \in 1..n : q[i] = r[i]
    <2>1. \A i \in 1..n : r[i] \in Nat
      BY ElementOfSeq, LenProperties
    <2> QED
      BY <2>1, LenProperties
  <1> HIDE DEF q
  <1>2. /\ g \o r \in Seq(Nat) /\ Len(g \o r) = Len(g) + Len(r)
        /\ g \o q \in Seq(Nat) /\ Len(g \o q) = Len(g) + n
    BY <1>1, ConcatProperties
  <1>3. /\ Len(g) + Len(r) <= Len(a)
        /\ \A i \in 1..(Len(g) + Len(r)) : (g \o r)[i] = a[i]
    BY <1>2, PrefixByIndex, ZenonT(40)
  <1>4. \A i \in 1..(Len(g) + n) : (g \o q)[i] = (g \o r)[i]
    BY <1>1, LenProperties
  <1>5. IsPrefix(g \o q, a)
    <2>1. /\ Len(g) \in Nat /\ Len(r) \in Nat /\ Len(a) \in Nat
          /\ n \in Nat /\ n <= Len(r)
      BY LenProperties
    <2>2. Len(g \o q) <= Len(a)
      BY <1>2, <1>3, <2>1
    <2>3. ASSUME NEW i \in 1..(Len(g) + n)
          PROVE  (g \o q)[i] = a[i]
      <3>1. i \in 1..(Len(g) + Len(r))
        BY <2>1
      <3>2. (g \o r)[i] = a[i]
        BY <1>3, <3>1
      <3>3. (g \o q)[i] = (g \o r)[i]
        BY <1>4
      <3> QED
        BY <3>2, <3>3
    <2> QED
      BY <1>2, <2>2, <2>3, PrefixByIndex
  <1> QED
    BY <1>1, <1>5 DEF q

\* A reply that is the one due next extends the prefix.
LEMMA PrefixGrows ==
    ASSUME NEW g \in Seq(Nat), NEW r \in Seq(Nat), NEW a \in Seq(Nat),
           NEW x \in Nat, IsPrefix(g \o r, a),
           Len(g) + Len(r) + 1 <= Len(a), a[Len(g) + Len(r) + 1] = x
    PROVE  IsPrefix(g \o Append(r, x), a)
  <1> DEFINE q == Append(r, x)
  <1>1. /\ Len(g) \in Nat /\ Len(r) \in Nat /\ Len(a) \in Nat
        /\ q \in Seq(Nat) /\ Len(q) = Len(r) + 1
        /\ \A i \in 1..Len(r) : q[i] = r[i]
        /\ q[Len(r) + 1] = x
    BY LenProperties, AppendProperties
  <1> HIDE DEF q
  <1>2. /\ g \o r \in Seq(Nat) /\ Len(g \o r) = Len(g) + Len(r)
        /\ g \o q \in Seq(Nat) /\ Len(g \o q) = Len(g) + Len(r) + 1
    <2>1. g \o r \in Seq(Nat) /\ Len(g \o r) = Len(g) + Len(r)
      BY ConcatProperties
    <2>2. g \o q \in Seq(Nat) /\ Len(g \o q) = Len(g) + Len(q)
      <3>1. q \in Seq(Nat)
        BY <1>1
      <3> QED
        BY <3>1, ConcatProperties
    <2> QED
      BY <1>1, <2>1, <2>2
  <1>3. \A i \in 1..(Len(g) + Len(r)) : (g \o r)[i] = a[i]
    BY <1>2, PrefixByIndex, ZenonT(40)
  <1>4. ASSUME NEW i \in 1..(Len(g) + Len(r) + 1)
        PROVE  (g \o q)[i] = a[i]
    <2>1. \A k \in 1..(Len(g) + Len(q)) :
            (g \o q)[k] = IF k <= Len(g) THEN g[k] ELSE q[k - Len(g)]
      BY <1>1, ConcatProperties
    <2>2. (g \o q)[i] = IF i <= Len(g) THEN g[i] ELSE q[i - Len(g)]
      BY <1>1, <2>1
    <2>3. CASE i <= Len(g) + Len(r)
      <3>1. (g \o r)[i] = IF i <= Len(g) THEN g[i] ELSE r[i - Len(g)]
        BY <1>1, <2>3, ConcatProperties
      <3>2. i <= Len(g) \/ q[i - Len(g)] = r[i - Len(g)]
        <4>1. i <= Len(g) \/ i - Len(g) \in 1..Len(r)
          BY <1>1, <2>3
        <4> QED
          BY <1>1, <4>1
      <3>3. (g \o r)[i] = a[i]
        BY <1>1, <1>3, <2>3, SMTT(30)
      <3> QED
        BY <1>1, <2>2, <3>1, <3>2, <3>3
    <2>4. CASE i = Len(g) + Len(r) + 1
      BY <1>1, <2>2, <2>4
    <2> QED
      BY <1>1, <2>3, <2>4, SMTT(30)
  <1> QED
    BY <1>1, <1>2, <1>4, PrefixByIndex DEF q

\* A reply received is taken from the front of those on their way.
LEMMA ReceivedIsNext ==
    ASSUME NEW g \in Seq(Nat), NEW r \in Seq(Nat), r # << >>
    PROVE  /\ Append(g, Head(r)) \in Seq(Nat)
           /\ Len(Append(g, Head(r))) = Len(g) + 1
           /\ Append(g, Head(r)) \o Tail(r) = g \o r
  <1>1. /\ Head(r) \in Nat /\ Tail(r) \in Seq(Nat) /\ Len(r) \in Nat
        /\ Len(Tail(r)) = Len(r) - 1 /\ Head(r) = r[1] /\ Len(g) \in Nat
        /\ \A i \in 1..Len(Tail(r)) : Tail(r)[i] = r[i + 1]
    BY HeadTailProperties, LenProperties
  <1>2. /\ Append(g, Head(r)) \in Seq(Nat)
        /\ Len(Append(g, Head(r))) = Len(g) + 1
        /\ \A i \in 1..Len(g) : Append(g, Head(r))[i] = g[i]
        /\ Append(g, Head(r))[Len(g) + 1] = r[1]
    BY <1>1, AppendProperties
  <1> DEFINE h == Append(g, Head(r))
             t == Tail(r)
  <1>3. h \in Seq(Nat) /\ t \in Seq(Nat)
    BY <1>1, <1>2
  <1>4. /\ h \o t \in Seq(Nat) /\ g \o r \in Seq(Nat)
        /\ Len(h \o t) = Len(g) + Len(r) /\ Len(g \o r) = Len(g) + Len(r)
    BY <1>1, <1>2, <1>3, ConcatProperties
  <1>5. ASSUME NEW i \in 1..(Len(g) + Len(r))
        PROVE  (h \o t)[i] = (g \o r)[i]
    <2>1. /\ Len(h) = Len(g) + 1 /\ Len(t) = Len(r) - 1
          /\ Len(g) \in Nat /\ Len(r) \in Nat /\ i \in Nat
          /\ \A k \in 1..Len(g) : h[k] = g[k]
          /\ h[Len(g) + 1] = r[1]
          /\ \A k \in 1..Len(t) : t[k] = r[k + 1]
      BY <1>1, <1>2
    <2> HIDE DEF h, t
    <2>2. (h \o t)[i] = IF i <= Len(g) + 1 THEN h[i] ELSE t[i - (Len(g) + 1)]
      <3>1. \A k \in 1..(Len(h) + Len(t)) :
              (h \o t)[k] = IF k <= Len(h) THEN h[k] ELSE t[k - Len(h)]
        BY <1>3, ConcatProperties
      <3>2. Len(h) + Len(t) = Len(g) + Len(r)
        BY <2>1
      <3> QED
        BY <2>1, <3>1, <3>2
    <2>3. (g \o r)[i] = IF i <= Len(g) THEN g[i] ELSE r[i - Len(g)]
      BY ConcatProperties
    <2>4. CASE i <= Len(g)
      BY <2>1, <2>2, <2>3, <2>4
    <2>5. CASE i = Len(g) + 1
      BY <2>1, <2>2, <2>3, <2>5
    <2>6. CASE i > Len(g) + 1
      <3>1. /\ i - (Len(g) + 1) \in 1..Len(t)
            /\ (i - (Len(g) + 1)) + 1 = i - Len(g)
        BY <2>1, <2>6
      <3>2. (h \o t)[i] = t[i - (Len(g) + 1)]
        BY <2>1, <2>2, <2>6
      <3>3. (g \o r)[i] = r[i - Len(g)]
        BY <2>1, <2>3, <2>6
      <3>4. t[i - (Len(g) + 1)] = r[(i - (Len(g) + 1)) + 1]
        BY <2>1, <3>1
      <3> QED
        BY <3>1, <3>2, <3>3, <3>4
    <2> QED
      BY <2>1, <2>4, <2>5, <2>6
  <1>6. h \o t = g \o r
    BY <1>4, <1>5, SeqEqual
  <1> QED
    BY <1>2, <1>6

-----------------------------------------------------------------------------
(***************************************************************************)
(* ServerInvariant is inductive: one lemma per action, after those for the *)
(* steps that touch no command and no reply.                               *)
(***************************************************************************)

\* The state Init describes satisfies it.
LEMMA InitInvariant == Init => ServerInvariant
  <1> SUFFICES ASSUME Init PROVE ServerInvariant
    OBVIOUS
  <1> USE DEF Init
  <1>1. TypeOK
    <2>1. /\ wire \in Seq(Commands) /\ replies \in Seq(Nat)
          /\ asked \in Seq(Nat) /\ got \in Seq(Nat) /\ Len(replies) = 0
      BY EmptySeq
    <2>2. quit \in BOOLEAN /\ late \in BOOLEAN
      BY Zenon
    <2>3. /\ client_fd \in {-1, 0, 1} /\ tdo \in Nat /\ pending \in 0..Backlog
          /\ accepted \in Nat /\ driven \in Nat /\ 0 <= ReplyCapacity
      BY BuffersAssumption
    <2> QED
      BY <2>1, <2>2, <2>3 DEF TypeOK, Peers
  <1>2. SessionMatchesServer
    BY DEF SessionMatchesServer
  <1>3. Outstanding <= Window
    BY BuffersAssumption DEF Outstanding
  <1>4. StreamIsAccounted
    BY DEF StreamIsAccounted
  <1>5. RepliesAnswerReads
    BY DEF RepliesAnswerReads, IsPrefix
  <1>6. AbortOnlyWithoutClient
    BY DEF AbortOnlyWithoutClient
  <1> QED
    BY <1>1, <1>2, <1>3, <1>4, <1>5, <1>6 DEF ServerInvariant

\* What the parts about commands and replies need of a step that moves none:
\* with a client that stays it must not enter or leave "write" either.
LEMMA StreamKept ==
    ASSUME ServerInvariant,
           UNCHANGED <<tdo, peer, wire, replies, historyVars>>,
           peer = "open" => (server = "write" <=> server' = "write")
    PROVE  /\ (Outstanding <= Window)'
           /\ StreamIsAccounted'
           /\ RepliesAnswerReads'
  <1> USE DEF ServerInvariant, historyVars
  <1>1. (Outstanding <= Window)'
    BY DEF Outstanding
  <1>2. StreamIsAccounted'
    BY DEF StreamIsAccounted, Answered
  <1>3. RepliesAnswerReads'
    BY DEF RepliesAnswerReads
  <1> QED
    BY <1>1, <1>2, <1>3

\* The steps of main(), tick(), the listen queue and the unsuccessful turns of
\* the loops in accept() and execute_command().
LEMMA LoopStepInvariant ==
    ASSUME ServerInvariant,
           \/ Listen \/ StartFails \/ Exit \/ tick \/ AcceptAgain \/ AcceptFails
           \/ ReadAgain \/ ReadFails \/ Connect \/ UNCHANGED vars
    PROVE  ServerInvariant'
  <1> USE DEF Listen, StartFails, Exit, tick, AcceptAgain, AcceptFails,
              ReadAgain, ReadFails, Connect, vars, serverVars, netVars,
              historyVars, ServerInvariant
  <1>1. /\ UNCHANGED <<tdo, peer, wire, replies, historyVars>>
        /\ server = "write" <=> server' = "write"
    OBVIOUS
  <1>2. TypeOK'
    BY <1>1, BuffersAssumption DEF TypeOK
  <1>3. SessionMatchesServer'
    <2>1. CASE Listen \/ StartFails \/ Exit \/ tick
      BY <1>1, <2>1, SMTT(30) DEF TypeOK, SessionMatchesServer
    <2>2. CASE AcceptAgain \/ AcceptFails \/ ReadAgain \/ ReadFails
      BY <1>1, <2>2, SMTT(30) DEF TypeOK, SessionMatchesServer
    <2>3. CASE Connect \/ UNCHANGED vars
      BY <1>1, <2>3, SMTT(30) DEF TypeOK, SessionMatchesServer
    <2> QED
      BY <2>1, <2>2, <2>3
  <1>4. /\ (Outstanding <= Window)'
        /\ StreamIsAccounted'
        /\ RepliesAnswerReads'
    BY <1>1, StreamKept
  <1>5. AbortOnlyWithoutClient'
    BY <1>1 DEF TypeOK, SessionMatchesServer, AbortOnlyWithoutClient
  <1> QED
    BY <1>2, <1>3, <1>4, <1>5

\* accept() starts the session with everything at zero.
LEMMA AcceptInvariant ==
    ASSUME ServerInvariant, accept
    PROVE  ServerInvariant'
  <1> USE DEF accept, ServerInvariant
  <1>1. /\ wire = << >> /\ replies = << >> /\ got = << >> /\ asked = << >>
        /\ driven = 0 /\ tdo = 0 /\ accepted = 0 /\ ~ quit
    BY DEF SessionMatchesServer
  <1>2. TypeOK'
    BY BuffersAssumption DEF TypeOK, Peers
  <1>3. SessionMatchesServer'
    BY <1>1 DEF SessionMatchesServer
  <1>4. (Outstanding <= Window)'
    BY DEF Outstanding
  <1>5. StreamIsAccounted'
    BY <1>1, AheadOfFirst DEF StreamIsAccounted, Answered
  <1>6. RepliesAnswerReads'
    BY DEF RepliesAnswerReads
  <1>7. AbortOnlyWithoutClient'
    BY DEF AbortOnlyWithoutClient
  <1> QED
    BY <1>2, <1>3, <1>4, <1>5, <1>6, <1>7

\* A quit closes the socket: the session is over, the replies left are a
\* prefix of those there were.
LEMMA QuitInvariant ==
    ASSUME ServerInvariant, execute_command, Head(wire) = "quit"
    PROVE  ServerInvariant'
  <1> USE DEF ServerInvariant, execute_command, Obey, Disconnect, historyVars
  <1>1. /\ server = "read" /\ accepted = 1 /\ peer # "none"
        /\ wire \in Seq(Commands) /\ replies \in Seq(Nat)
        /\ asked \in Seq(Nat) /\ got \in Seq(Nat)
    BY DEF TypeOK, SessionMatchesServer
  <1>2. PICK n \in 0..Len(replies) : replies' = SubSeq(replies, 1, n)
    <2>1. Len(replies) \in 0..Len(replies)
          /\ SubSeq(replies, 1, Len(replies)) = replies
      BY <1>1, LenProperties, SubSeqFull
    <2> QED
      BY <2>1
  <1>3. /\ replies' \in Seq(Nat) /\ Len(replies') = n
        /\ IsPrefix(got \o replies', asked)
    BY <1>1, <1>2, PrefixShrinks DEF RepliesAnswerReads
  <1>4. /\ server' = "tick" /\ quit' = TRUE /\ client_fd' = 0 /\ tdo' = tdo
        /\ peer' \in Peers \ {"open"} /\ wire' = << >>
        /\ accepted' = 1
    BY <1>1 DEF TypeOK, Peers
  <1>5. TypeOK'
    <2>1. wire' \in Seq(Commands) /\ quit' \in BOOLEAN /\ n <= ReplyCapacity
      BY <1>1, <1>4, EmptySeq, BuffersAssumption, LenProperties DEF TypeOK
    <2> QED
      BY <1>3, <1>4, <2>1 DEF TypeOK
  <1>6. SessionMatchesServer'
    BY <1>4 DEF SessionMatchesServer
  <1>7. (Outstanding <= Window)'
    BY DEF Outstanding
  <1>8. StreamIsAccounted'
    BY <1>4 DEF StreamIsAccounted
  <1>9. RepliesAnswerReads'
    BY <1>3 DEF RepliesAnswerReads
  <1>10. AbortOnlyWithoutClient'
    BY <1>4 DEF AbortOnlyWithoutClient
  <1> QED
    BY <1>5, <1>6, <1>7, <1>8, <1>9, <1>10

\* Any other command leaves the buffer for the target, or for "write" when it
\* is an R, and the accounts still balance.
LEMMA CommandInvariant ==
    ASSUME ServerInvariant, execute_command, Head(wire) # "quit"
    PROVE  ServerInvariant'
  <1> USE DEF ServerInvariant, execute_command, Obey, StaysConnected,
              historyVars
  <1> DEFINE c == Head(wire)
             rest == Tail(wire)
             L == Len(rest)
  <1>1. /\ server = "read" /\ client_fd = 1 /\ ~ quit /\ wire \in Seq(Commands)
        /\ tdo \in Nat /\ accepted = 1
        /\ Len(got) \in Nat /\ Len(replies) \in Nat
    BY LenProperties DEF TypeOK, SessionMatchesServer
  <1>2. /\ rest \in Seq(Commands) /\ L \in Nat /\ Len(wire) = L + 1
        /\ c \in Commands /\ c = wire[1]
        /\ \A i \in 1..L : rest[i] = wire[i + 1]
    BY <1>1, HeadTailProperties, LenProperties
  <1>3. /\ wire' = rest
        /\ tdo' = tdo + (IF c = "drive" THEN 1 ELSE 0)
        /\ server' = IF c = "read" THEN "write" ELSE "tick"
        /\ quit' = FALSE
        /\ UNCHANGED <<client_fd, pending, peer, replies, accepted, driven,
                       asked, late, got>>
    <2>1. quit' = FALSE
      BY Zenon
    <2>2. tdo' = tdo + (IF c = "drive" THEN 1 ELSE 0)
      BY <1>1
    <2> QED
      BY <2>1, <2>2
  <1>4. TypeOK'
    <2>1. quit' \in BOOLEAN
      BY <1>3, Zenon
    <2>2. tdo' \in Nat
      BY <1>1, <1>3
    <2> HIDE DEF execute_command, Obey, c, rest
    <2> QED
      BY <1>1, <1>2, <1>3, <2>1, <2>2 DEF TypeOK
  <1>5. SessionMatchesServer'
    BY <1>1, <1>3 DEF SessionMatchesServer
  <1>6. (Outstanding <= Window)'
    BY DEF Outstanding
  <1>7. StreamIsAccounted'
    <2> SUFFICES ASSUME peer = "open"
                 PROVE  StreamIsAccounted'
      BY <1>3 DEF StreamIsAccounted
    <2>1. \A k : \A n \in 0..L : Ahead(wire, n + 1, k)
            = Ahead(rest, n, k) + IF c = k THEN 1 ELSE 0
      BY <1>1, <1>2, AheadOfTail
    <2>2. ASSUME NEW n \in 0..L, NEW k
          PROVE  Ahead(rest, n, k) \in Nat
      <3>1. n \in Nat
        BY <1>2
      <3> QED
        BY <3>1, AheadFinite
    <2>3. Answered' = Answered + (IF c = "read" THEN 1 ELSE 0)
          /\ Answered \in Nat
      BY <1>1, <1>3 DEF Answered
    <2>4. /\ Len(asked) = Answered + Ahead(wire, L + 1, "read")
          /\ driven = tdo + Ahead(wire, L + 1, "drive")
          /\ \A i \in 1..(L + 1) : wire[i] = "read" =>
               asked[Answered + Ahead(wire, i - 1, "read") + 1]
                 = tdo + Ahead(wire, i - 1, "drive")
      BY <1>2 DEF StreamIsAccounted
    <2> HIDE DEF execute_command, Obey, ServerInvariant, c, rest, L
    <2>5. /\ Len(asked) = Answered' + Ahead(rest, L, "read")
          /\ driven = tdo' + Ahead(rest, L, "drive")
      <3>1. L \in 0..L
        BY <1>2
      <3>2. \A k : /\ Ahead(wire, L + 1, k) = Ahead(rest, L, k)
                                              + IF c = k THEN 1 ELSE 0
                   /\ Ahead(rest, L, k) \in Nat
        BY <2>1, <2>2, <3>1
      <3>3. Len(asked) = Answered' + Ahead(rest, L, "read")
        BY <2>3, <2>4, <3>2
      <3>4. driven = tdo' + Ahead(rest, L, "drive")
        BY <1>1, <1>3, <2>4, <3>2
      <3> QED
        BY <3>3, <3>4
    <2>6. c = "read" => asked[Answered'] = tdo'
      <3>1. Ahead(wire, 0, "read") = 0 /\ Ahead(wire, 0, "drive") = 0
        BY AheadOfFirst
      <3>2. 1 \in 1..(L + 1) /\ 1 - 1 = 0
        BY <1>2
      <3>3. c = "read" => asked[Answered + Ahead(wire, 0, "read") + 1]
                             = tdo + Ahead(wire, 0, "drive")
        BY <1>2, <2>4, <3>2
      <3> QED
        BY <1>1, <1>3, <2>3, <3>1, <3>3
    <2>7. ASSUME NEW i \in 1..L, rest[i] = "read"
          PROVE  asked[Answered' + Ahead(rest, i - 1, "read") + 1]
                   = tdo' + Ahead(rest, i - 1, "drive")
      <3>1. /\ i + 1 \in 1..(L + 1) /\ (i + 1) - 1 = i /\ wire[i + 1] = "read"
            /\ i - 1 \in 0..L /\ (i - 1) + 1 = i
        BY <1>2, <2>7
      <3>2. asked[Answered + Ahead(wire, i, "read") + 1]
              = tdo + Ahead(wire, i, "drive")
        BY <2>4, <3>1
      <3>3. \A k : /\ Ahead(wire, i, k) = Ahead(rest, i - 1, k)
                                          + IF c = k THEN 1 ELSE 0
                   /\ Ahead(rest, i - 1, k) \in Nat
        BY <2>1, <2>2, <3>1
      <3>4. Answered + Ahead(wire, i, "read") + 1
              = Answered' + Ahead(rest, i - 1, "read") + 1
        BY <2>3, <3>3
      <3>5. tdo + Ahead(wire, i, "drive") = tdo' + Ahead(rest, i - 1, "drive")
        BY <1>1, <1>3, <3>3
      <3> QED
        BY <3>2, <3>4, <3>5
    <2> QED
      BY <1>3, <2>5, <2>6, <2>7 DEF StreamIsAccounted, L
  <1>8. RepliesAnswerReads'
    BY <1>3 DEF RepliesAnswerReads
  <1>9. AbortOnlyWithoutClient'
    BY <1>3 DEF AbortOnlyWithoutClient
  <1> QED
    BY <1>4, <1>5, <1>6, <1>7, <1>8, <1>9

\* The reply written is the one that is due.
LEMMA WriteReplyInvariant ==
    ASSUME ServerInvariant, WriteReply
    PROVE  ServerInvariant'
  <1> USE DEF ServerInvariant, WriteReply, historyVars
  <1>1. /\ replies \in Seq(Nat) /\ got \in Seq(Nat) /\ asked \in Seq(Nat)
        /\ tdo \in Nat /\ Len(replies) \in Nat /\ Len(got) \in Nat
        /\ Len(asked) \in Nat
    BY LenProperties DEF TypeOK
  <1>2. /\ replies' = Append(replies, tdo) /\ replies' \in Seq(Nat)
        /\ Len(replies') = Len(replies) + 1
        /\ \A i \in 1..Len(replies) : replies'[i] = replies[i]
        /\ replies'[Len(replies) + 1] = tdo
    BY <1>1, AppendProperties
  <1>3. TypeOK'
    BY <1>1, <1>2, BuffersAssumption DEF TypeOK
  <1>4. SessionMatchesServer'
    BY DEF SessionMatchesServer
  <1>5. (Outstanding <= Window)'
    BY DEF Outstanding
  <1>6. Answered' = Answered /\ Answered = Len(got) + Len(replies) + 1
    BY <1>1, <1>2 DEF Answered
  <1>7. StreamIsAccounted'
    BY <1>6 DEF StreamIsAccounted
  <1>8. RepliesAnswerReads'
    <2>1. Answered <= Len(asked) /\ asked[Answered] = tdo
      <3>1. Ahead(wire, Len(wire), "read") \in Nat
        BY AheadFinite, LenProperties DEF TypeOK
      <3> QED
        BY <1>1, <1>6, <3>1 DEF StreamIsAccounted
    <2>2. IsPrefix(got \o Append(replies, tdo), asked)
      BY <1>1, <1>6, <2>1, PrefixGrows DEF RepliesAnswerReads
    <2> QED
      BY <1>2, <2>2 DEF RepliesAnswerReads
  <1>9. AbortOnlyWithoutClient'
    BY DEF AbortOnlyWithoutClient
  <1> QED
    BY <1>3, <1>4, <1>5, <1>7, <1>8, <1>9

\* A reply to a client that ended its stream goes nowhere.
LEMMA WriteToClosedInvariant ==
    ASSUME ServerInvariant, WriteToClosed
    PROVE  ServerInvariant'
  <1> USE DEF ServerInvariant, WriteToClosed, historyVars
  <1>1. TypeOK'
    BY EmptySeq DEF TypeOK, Peers
  <1>2. SessionMatchesServer'
    BY DEF SessionMatchesServer
  <1>3. (Outstanding <= Window)'
    BY DEF Outstanding
  <1>4. StreamIsAccounted'
    BY DEF StreamIsAccounted
  <1>5. RepliesAnswerReads'
    BY DEF RepliesAnswerReads
  <1>6. AbortOnlyWithoutClient'
    BY DEF AbortOnlyWithoutClient
  <1> QED
    BY <1>1, <1>2, <1>3, <1>4, <1>5, <1>6

\* A client that stays has room for the reply: those on their way and the one
\* due are outstanding, and the window allows no more than the buffer holds.
LEMMA WriteFailsWithoutClient ==
    ASSUME ServerInvariant, WriteFails
    PROVE  peer \in {"gone", "reset"}
  <1> USE DEF ServerInvariant, WriteFails
  <1> SUFFICES ASSUME peer = "open", Len(replies) = ReplyCapacity
               PROVE  FALSE
    OBVIOUS
  <1>1. /\ Len(replies) \in Nat /\ Len(got) \in Nat
        /\ Ahead(wire, Len(wire), "read") \in Nat
    BY LenProperties, AheadFinite DEF TypeOK
  <1>2. Len(asked) = Len(got) + Len(replies) + 1
                     + Ahead(wire, Len(wire), "read")
    BY DEF StreamIsAccounted, Answered
  <1> QED
    BY <1>1, <1>2, BuffersAssumption DEF Outstanding

\* The server aborts over a connection that is lost already.
LEMMA WriteFailsInvariant ==
    ASSUME ServerInvariant, WriteFails
    PROVE  ServerInvariant'
  <1>1. peer \in {"gone", "reset"}
    BY WriteFailsWithoutClient
  <1> USE DEF ServerInvariant, WriteFails, netVars, historyVars
  <1>2. TypeOK'
    BY DEF TypeOK
  <1>3. SessionMatchesServer'
    BY DEF SessionMatchesServer
  <1>4. /\ (Outstanding <= Window)'
        /\ StreamIsAccounted'
        /\ RepliesAnswerReads'
    BY <1>1, StreamKept
  <1>5. AbortOnlyWithoutClient'
    BY <1>1 DEF AbortOnlyWithoutClient
  <1> QED
    BY <1>2, <1>3, <1>4, <1>5

\* A command sent joins the accounts: the pin writes sent before an R are what
\* the target has seen by the time the R is executed.
LEMMA SendInvariant ==
    ASSUME ServerInvariant, NEW command \in Commands, Send(command)
    PROVE  ServerInvariant'
  <1> USE DEF ServerInvariant, Send
  <1> DEFINE L == Len(wire)
  <1>1. /\ peer = "open" /\ wire \in Seq(Commands) /\ L \in Nat
        /\ asked \in Seq(Nat) /\ Len(asked) \in Nat /\ driven \in Nat
        /\ replies \in Seq(Nat) /\ got \in Seq(Nat) /\ tdo \in Nat
        /\ Len(got) \in Nat /\ Len(replies) \in Nat
    BY LenProperties DEF TypeOK
  <1>2. /\ wire' \in Seq(Commands) /\ Len(wire') = L + 1
        /\ \A i \in 1..L : wire'[i] = wire[i]
        /\ wire'[L + 1] = command
    BY <1>1, AppendProperties
  <1>3. driven' = driven + IF command = "drive" THEN 1 ELSE 0
    BY <1>1
  <1>4. /\ asked' \in Seq(Nat)
        /\ Len(asked') = Len(asked) + IF command = "read" THEN 1 ELSE 0
        /\ \A k \in 1..Len(asked) : asked'[k] = asked[k]
        /\ command = "read" => asked'[Len(asked) + 1] = driven
    BY <1>1, AppendProperties
  <1>5. UNCHANGED <<server, client_fd, quit, tdo, pending, peer, replies,
                    accepted, got>>
    BY DEF serverVars
  <1>6. TypeOK'
    <2>1. late' \in BOOLEAN
      BY Zenon DEF TypeOK
    <2>2. driven' \in Nat
      BY <1>1, <1>3
    <2> HIDE DEF Send
    <2> QED
      BY <1>2, <1>4, <1>5, <2>1, <2>2 DEF TypeOK
  <1>7. SessionMatchesServer'
    BY <1>1, <1>5 DEF SessionMatchesServer
  <1>8. (Outstanding <= Window)'
    BY <1>1, <1>4, <1>5, BuffersAssumption DEF Outstanding
  <1> HIDE DEF ServerInvariant, Send
  <1>9. Answered' = Answered /\ Answered \in Nat
    BY <1>1, <1>5 DEF Answered
  <1>10. /\ Len(asked) = Answered + Ahead(wire, L, "read")
         /\ driven = tdo + Ahead(wire, L, "drive")
         /\ server = "write" => asked[Answered] = tdo
    BY <1>1 DEF ServerInvariant, StreamIsAccounted
  <1>11. ASSUME NEW n \in 0..L, NEW k
         PROVE  Ahead(wire', n, k) = Ahead(wire, n, k)
                /\ Ahead(wire, n, k) \in Nat
    <2>1. wire' = Append(wire, command) /\ n \in Nat
      BY <1>1 DEF Send
    <2> QED
      BY <1>1, <2>1, AheadOfAppend, AheadFinite
  <1> HIDE DEF L
  <1>12. ASSUME NEW k
         PROVE  Ahead(wire', L + 1, k)
                  = Ahead(wire, L, k) + IF command = k THEN 1 ELSE 0
    <2>1. Ahead(wire', L + 1, k)
            = Ahead(wire', L, k) + IF wire'[L + 1] = k THEN 1 ELSE 0
      BY <1>1, AheadOfNext
    <2> QED
      BY <1>1, <1>2, <1>11, <2>1
  <1>13. StreamIsAccounted'
    <2>1. Ahead(wire, L, "read") \in Nat /\ Ahead(wire, L, "drive") \in Nat
      <3>1. L \in 0..L
        BY <1>1
      <3> QED
        BY <1>11, <3>1
    <2>2. /\ Len(asked') = Answered' + Ahead(wire', L + 1, "read")
          /\ driven' = tdo' + Ahead(wire', L + 1, "drive")
      <3>1. Len(asked') = Answered' + Ahead(wire', L + 1, "read")
        BY <1>1, <1>4, <1>9, <1>10, <1>12, <2>1, SMTT(30)
      <3>2. driven' = tdo' + Ahead(wire', L + 1, "drive")
        BY <1>1, <1>3, <1>5, <1>10, <1>12, <2>1
      <3> QED
        BY <3>1, <3>2
    <2>3. server' = "write" => asked'[Answered'] = tdo'
      <3>1. server = "write" => Answered \in 1..Len(asked)
        BY <1>1, <1>9, <1>10, <2>1, SMTT(30) DEF Answered
      <3> QED
        BY <1>4, <1>5, <1>9, <1>10, <3>1
    <2>4. ASSUME NEW i \in 1..(L + 1), wire'[i] = "read"
          PROVE  asked'[Answered' + Ahead(wire', i - 1, "read") + 1]
                   = tdo' + Ahead(wire', i - 1, "drive")
      <3>1. i - 1 \in 0..L /\ i \in Nat
        BY <1>1
      <3>2. /\ Ahead(wire', i - 1, "read") = Ahead(wire, i - 1, "read")
            /\ Ahead(wire', i - 1, "drive") = Ahead(wire, i - 1, "drive")
            /\ Ahead(wire, i - 1, "read") \in Nat
        BY <1>11, <3>1
      <3> DEFINE k == Answered + Ahead(wire, i - 1, "read") + 1
      <3>3. CASE i \in 1..L
        <4>1. wire[i] = "read"
          BY <1>2, <2>4, <3>3
        <4>2. asked[k] = tdo + Ahead(wire, i - 1, "drive")
          BY <1>1, <3>3, <4>1 DEF ServerInvariant, StreamIsAccounted, L
        <4>3. Ahead(wire, i, "read") = Ahead(wire, i - 1, "read") + 1
          <5>1. Ahead(wire, (i - 1) + 1, "read") = Ahead(wire, i - 1, "read")
                  + IF wire[(i - 1) + 1] = "read" THEN 1 ELSE 0
            BY <3>1, AheadOfNext
          <5>2. (i - 1) + 1 = i
            BY <3>1
          <5> QED
            BY <4>1, <5>1, <5>2
        <4>4. Ahead(wire, i, "read") <= Ahead(wire, L, "read")
          BY <1>1, <3>3, AheadMonotonic
        <4>5. k \in 1..Len(asked)
          <5>1. /\ k = Answered + Ahead(wire, i, "read")
                /\ Ahead(wire, i, "read") \in Nat \ {0}
            BY <1>9, <3>2, <4>3
          <5> HIDE DEF k
          <5> QED
            BY <1>9, <1>10, <2>1, <4>4, <5>1
        <4> QED
          BY <1>4, <1>5, <1>9, <3>2, <4>2, <4>5
      <3>4. CASE i = L + 1
        <4>1. command = "read" /\ i - 1 = L
          BY <1>1, <1>2, <2>4, <3>4
        <4>2. k = Len(asked) + 1
          BY <1>10, <4>1
        <4>3. asked'[k] = tdo + Ahead(wire, L, "drive")
          BY <1>4, <1>10, <4>1, <4>2
        <4> QED
          BY <1>5, <1>9, <3>2, <4>1, <4>3
      <3> QED
        BY <1>1, <3>3, <3>4
    <2> QED
      BY <1>2, <2>2, <2>3, <2>4 DEF StreamIsAccounted, L
  <1>14. RepliesAnswerReads'
    <2>1. got \o replies \in Seq(Nat) /\ Len(got \o replies) \in Nat
      BY <1>1, ConcatProperties, LenProperties
    <2>2. /\ Len(got \o replies) <= Len(asked)
          /\ \A i \in 1..Len(got \o replies) : (got \o replies)[i] = asked[i]
      BY <1>1, <2>1, PrefixByIndex DEF ServerInvariant, RepliesAnswerReads
    <2>3. Len(asked) <= Len(asked')
      BY <1>1, <1>4
    <2>4. /\ Len(got \o replies) <= Len(asked')
          /\ \A i \in 1..Len(got \o replies) : (got \o replies)[i] = asked'[i]
      <3>1. Len(got \o replies) <= Len(asked')
        BY <1>1, <1>4, <2>1, <2>2
      <3>2. ASSUME NEW i \in 1..Len(got \o replies)
            PROVE  (got \o replies)[i] = asked'[i]
        <4>1. i \in 1..Len(asked)
          BY <1>1, <2>1, <2>2
        <4> QED
          BY <1>4, <2>2, <4>1
      <3> QED
        BY <3>1, <3>2
    <2>5. IsPrefix(got \o replies, asked')
      BY <1>4, <2>1, <2>4, PrefixByIndex
    <2> QED
      BY <1>5, <2>5 DEF RepliesAnswerReads
  <1>15. AbortOnlyWithoutClient'
    BY <1>5 DEF ServerInvariant, AbortOnlyWithoutClient
  <1> QED
    BY <1>6, <1>7, <1>8, <1>13, <1>14, <1>15 DEF ServerInvariant

\* A reply received changes hands and nothing else.
LEMMA ReceiveInvariant ==
    ASSUME ServerInvariant, Receive
    PROVE  ServerInvariant'
  <1> USE DEF ServerInvariant, Receive, serverVars
  <1>1. /\ replies \in Seq(Nat) /\ got \in Seq(Nat) /\ replies # << >>
        /\ Len(replies) \in Nat \ {0} /\ Len(got) \in Nat
        /\ Len(asked) \in Nat
    BY EmptySeq, LenProperties DEF TypeOK
  <1>2. /\ replies' \in Seq(Nat) /\ Len(replies') = Len(replies) - 1
        /\ got' \in Seq(Nat) /\ Len(got') = Len(got) + 1
        /\ got' \o replies' = got \o replies
    BY <1>1, HeadTailProperties, ReceivedIsNext
  <1>3. TypeOK'
    BY <1>1, <1>2, BuffersAssumption DEF TypeOK
  <1>4. SessionMatchesServer'
    BY <1>1 DEF SessionMatchesServer
  <1>5. (Outstanding <= Window)'
    BY <1>1, <1>2, BuffersAssumption DEF Outstanding
  <1>6. Answered' = Answered
    BY <1>1, <1>2 DEF Answered
  <1>7. StreamIsAccounted'
    BY <1>6 DEF StreamIsAccounted
  <1>8. RepliesAnswerReads'
    BY <1>2 DEF RepliesAnswerReads
  <1>9. AbortOnlyWithoutClient'
    BY DEF AbortOnlyWithoutClient
  <1> QED
    BY <1>3, <1>4, <1>5, <1>7, <1>8, <1>9

\* A client that leaves is owed nothing.
LEMMA CloseInvariant ==
    ASSUME ServerInvariant, Close
    PROVE  ServerInvariant'
  <1> USE DEF ServerInvariant, Close, serverVars, historyVars
  <1>1. TypeOK'
    BY EmptySeq DEF TypeOK, Peers
  <1>2. SessionMatchesServer'
    BY DEF SessionMatchesServer
  <1>3. (Outstanding <= Window)'
    BY DEF Outstanding
  <1>4. StreamIsAccounted'
    BY DEF StreamIsAccounted
  <1>5. RepliesAnswerReads'
    BY DEF RepliesAnswerReads
  <1>6. AbortOnlyWithoutClient'
    BY DEF AbortOnlyWithoutClient, Stopped
  <1> QED
    BY <1>1, <1>2, <1>3, <1>4, <1>5, <1>6

\* Every step preserves the invariant.
LEMMA StepInvariant ==
    ASSUME ServerInvariant, [Next]_vars
    PROVE  ServerInvariant'
  <1>1. CASE \/ Listen \/ StartFails \/ Exit \/ tick \/ AcceptAgain
             \/ AcceptFails \/ ReadAgain \/ ReadFails \/ Connect
             \/ UNCHANGED vars
    BY <1>1, LoopStepInvariant
  <1>2. CASE accept
    BY <1>2, AcceptInvariant
  <1>3. CASE execute_command
    BY <1>3, QuitInvariant, CommandInvariant
  <1>4. CASE WriteReply
    BY <1>4, WriteReplyInvariant
  <1>5. CASE WriteToClosed
    BY <1>5, WriteToClosedInvariant
  <1>6. CASE WriteFails
    BY <1>6, WriteFailsInvariant
  <1>7. ASSUME NEW command \in Commands, Send(command)
        PROVE  ServerInvariant'
    BY <1>7, SendInvariant
  <1>8. CASE Receive
    BY <1>8, ReceiveInvariant
  <1>9. CASE Close
    BY <1>9, CloseInvariant
  <1> QED
    BY <1>1, <1>2, <1>3, <1>4, <1>5, <1>6, <1>7, <1>8, <1>9
       DEF Next, ServerStep, Ended

-----------------------------------------------------------------------------
(***************************************************************************)
(* The theorems.                                                           *)
(***************************************************************************)

\* ServerInvariant holds in every state of the server and its clients.
THEOREM InvariantHolds == Spec => []ServerInvariant
  <1>1. Init => ServerInvariant
    BY InitInvariant
  <1>2. ServerInvariant /\ [Next]_vars => ServerInvariant'
    BY StepInvariant
  <1> QED
    BY <1>1, <1>2, PTL DEF Spec

\* execute_command() runs only with a client's descriptor, and every variable
\* keeps its type.
THEOREM TypeCorrect == Spec => []TypeOK
  <1>1. ServerInvariant => TypeOK
    BY DEF ServerInvariant
  <1> QED
    BY <1>1, InvariantHolds, PTL

\* Of what a client that stays has sent nothing is lost or counted twice.
THEOREM StreamIsAccountedHolds == Spec => []StreamIsAccounted
  <1>1. ServerInvariant => StreamIsAccounted
    BY DEF ServerInvariant
  <1> QED
    BY <1>1, InvariantHolds, PTL

\* The k-th reply is the TDO the commands before the k-th R produced.
THEOREM RepliesAnswerReadsHolds == Spec => []RepliesAnswerReads
  <1>1. ServerInvariant => RepliesAnswerReads
    BY DEF ServerInvariant
  <1> QED
    BY <1>1, InvariantHolds, PTL

\* The server does not abort on a client that stays within its window.
THEOREM AbortOnlyWithoutClientHolds == Spec => []AbortOnlyWithoutClient
  <1>1. ServerInvariant => AbortOnlyWithoutClient
    BY DEF ServerInvariant
  <1> QED
    BY <1>1, InvariantHolds, PTL

-----------------------------------------------------------------------------
(***************************************************************************)
(* The server implements BitbangChannel: one lemma per step of the channel,*)
(* naming the steps of the server that stand for it.                       *)
(***************************************************************************)

\* What the mapping makes of the session.
session == IF accepted = 0 THEN "waiting"
           ELSE IF peer = "open" THEN "connected" ELSE "over"

\* And of the answers on their way.
answers == IF server = "write" THEN Append(replies, tdo) ELSE replies

\* Loops, connection attempts and the write of a reply that is due are
\* invisible to the client of the channel.
LEMMA InvisibleSteps ==
    ASSUME ServerInvariant,
           \/ Listen \/ StartFails \/ Exit \/ tick \/ AcceptAgain \/ AcceptFails
           \/ ReadAgain \/ ReadFails \/ WriteReply \/ Connect \/ UNCHANGED vars
    PROVE  UNCHANGED Channel!channelVars
  <1> USE DEF Listen, StartFails, Exit, tick, AcceptAgain, AcceptFails,
              ReadAgain, ReadFails, WriteReply, Connect, vars, serverVars,
              netVars, historyVars
  <1>1. UNCHANGED <<session, wire, tdo>>
    BY DEF session
  <1>2. UNCHANGED answers
    BY DEF answers
  <1> QED
    BY <1>1, <1>2 DEF Channel!channelVars, session, answers

\* accept() is the client's entry.
LEMMA AcceptIsJoin ==
    ASSUME ServerInvariant, accept
    PROVE  Channel!Join
  BY DEF ServerInvariant, SessionMatchesServer, accept, Channel!Join

\* execute_command() executes the oldest command, whatever it is.
LEMMA CommandIsExecuted ==
    ASSUME ServerInvariant, execute_command
    PROVE  Channel!Drive \/ Channel!Read \/ Channel!Quit
  <1> USE DEF ServerInvariant, execute_command, Obey, historyVars
  <1>1. /\ server = "read" /\ accepted = 1 /\ wire # << >>
        /\ wire \in Seq(Commands) /\ replies \in Seq(Nat)
        /\ Head(wire) \in Commands /\ UNCHANGED accepted
    BY HeadTailProperties DEF TypeOK, SessionMatchesServer
  <1>2. CASE Head(wire) \in {"drive", "other"}
    BY <1>1, <1>2 DEF StaysConnected, Channel!Drive
  <1>3. CASE Head(wire) = "read"
    BY <1>1, <1>3 DEF StaysConnected, Channel!Read
  <1>4. CASE Head(wire) = "quit"
    <2>1. /\ wire' = << >> /\ peer' # "open" /\ server' = "tick" /\ tdo' = tdo
          /\ replies' \in IF Len(wire) = 1 THEN {replies}
                          ELSE Channel!Prefixes(replies)
      BY <1>4 DEF Disconnect, Channel!Prefixes
    <2> QED
      BY <1>1, <1>4, <2>1 DEF Channel!Quit
  <1> QED
    BY <1>1, <1>2, <1>3, <1>4 DEF Commands

\* A whole sequence is one of its prefixes, and so is what precedes its last
\* element.
LEMMA PrefixesOf ==
    ASSUME NEW s \in Seq(Nat), NEW x \in Nat
    PROVE  /\ s \in Channel!Prefixes(s)
           /\ s \in Channel!Prefixes(Append(s, x))
  <1>1. /\ Len(s) \in 0..Len(s) /\ SubSeq(s, 1, Len(s)) = s
    BY LenProperties, SubSeqFull
  <1>2. /\ Len(s) \in 0..Len(Append(s, x))
        /\ SubSeq(Append(s, x), 1, Len(s)) = s
    <2>1. /\ Append(s, x) \in Seq(Nat) /\ Len(s) \in Nat
          /\ Len(Append(s, x)) = Len(s) + 1
          /\ \A i \in 1..Len(s) : Append(s, x)[i] = s[i] /\ s[i] \in Nat
      BY LenProperties, AppendProperties, ElementOfSeq
    <2>2. /\ SubSeq(Append(s, x), 1, Len(s)) \in Seq(Nat)
          /\ Len(SubSeq(Append(s, x), 1, Len(s))) = Len(s)
          /\ \A i \in 1..Len(s) : SubSeq(Append(s, x), 1, Len(s))[i] = s[i]
      BY <2>1
    <2>3. SubSeq(Append(s, x), 1, Len(s)) = s
      BY <2>2, SeqEqual
    <2> QED
      BY <2>1, <2>3
  <1> QED
    BY <1>1, <1>2 DEF Channel!Prefixes

\* A reply that finds no client is an answer lost after the session.
LEMMA LostReplyIsLose ==
    ASSUME ServerInvariant, WriteToClosed \/ WriteFails
    PROVE  Channel!Lose
  <1> USE DEF ServerInvariant, WriteToClosed, WriteFails, netVars, historyVars
  <1>1. /\ server = "write" /\ server' # "write" /\ accepted = 1
        /\ UNCHANGED <<accepted, tdo, replies>>
        /\ wire' \in {wire, << >>}
        /\ replies \in Seq(Nat) /\ tdo \in Nat
    BY DEF TypeOK, SessionMatchesServer
  <1>2. peer # "open" /\ peer' # "open"
    BY WriteFailsWithoutClient
  <1>3. replies \in Channel!Prefixes(Append(replies, tdo))
    BY <1>1, PrefixesOf
  <1> QED
    BY <1>1, <1>2, <1>3 DEF Channel!Lose

\* What the client sends is submitted.
LEMMA SendIsSubmit ==
    ASSUME ServerInvariant, NEW command \in Commands, Send(command)
    PROVE  Channel!Submit(command)
  BY DEF ServerInvariant, SessionMatchesServer, Send, serverVars,
         Channel!Submit

\* What it receives is delivered, the oldest answer first.
LEMMA ReceiveIsDeliver ==
    ASSUME ServerInvariant, Receive
    PROVE  Channel!Deliver
  <1> USE DEF ServerInvariant, Receive, serverVars
  <1>1. /\ replies \in Seq(Nat) /\ replies # << >> /\ tdo \in Nat
        /\ UNCHANGED <<server, tdo, accepted, peer, wire>>
        /\ replies' = Tail(replies)
    BY DEF TypeOK
  <1>2. /\ Append(replies, tdo) # << >>
        /\ Tail(Append(replies, tdo)) = Append(Tail(replies), tdo)
    BY <1>1, AppendProperties, HeadTailAppend
  <1> QED
    BY <1>1, <1>2 DEF Channel!Deliver

\* A client that goes leaves the session.
LEMMA CloseIsLeave ==
    ASSUME ServerInvariant, Close
    PROVE  Channel!Leave
  BY DEF ServerInvariant, SessionMatchesServer, Close, serverVars,
         historyVars, Channel!Leave

\* The server with its sockets and loops is one ordered channel: every step of
\* it is a step of the channel or invisible to the client.
THEOREM ChannelIsImplementedHolds == Spec => ChannelIsImplemented
  <1>1. Init => Channel!ChannelInit
    BY DEF Init, Channel!ChannelInit
  <1>2. ASSUME ServerInvariant, [Next]_vars
        PROVE  [Channel!ChannelNext]_(Channel!channelVars)
    <2> USE DEF Channel!ChannelNext
    <2>1. CASE \/ Listen \/ StartFails \/ Exit \/ tick \/ AcceptAgain
               \/ AcceptFails \/ ReadAgain \/ ReadFails \/ WriteReply
               \/ Connect \/ UNCHANGED vars
      BY <1>2, <2>1, InvisibleSteps
    <2>2. CASE accept
      BY <1>2, <2>2, AcceptIsJoin
    <2>3. CASE execute_command
      BY <1>2, <2>3, CommandIsExecuted
    <2>4. CASE WriteToClosed \/ WriteFails
      BY <1>2, <2>4, LostReplyIsLose
    <2>5. ASSUME NEW command \in Commands, Send(command)
          PROVE  Channel!ChannelNext
      BY <1>2, <2>5, SendIsSubmit
    <2>6. CASE Receive
      BY <1>2, <2>6, ReceiveIsDeliver
    <2>7. CASE Close
      BY <1>2, <2>7, CloseIsLeave
    <2> QED
      BY <1>2, <2>1, <2>2, <2>3, <2>4, <2>5, <2>6, <2>7
         DEF Next, ServerStep, Ended
  <1> QED
    BY <1>1, <1>2, InvariantHolds, PTL
       DEF Spec, ChannelIsImplemented, Channel!ChannelSpec

=============================================================================
