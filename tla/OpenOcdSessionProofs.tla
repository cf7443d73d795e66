-------------------------- MODULE OpenOcdSessionProofs --------------------------
(***************************************************************************)
(* Proofs about the session: whatever scripts the client sends, the target *)
(* keeps its types and answers in the shape the transport module expects,  *)
(* the TAP controller is where the client thinks it is, and the two        *)
(* together implement the port of module JtagPort, whose promise that a    *)
(* written register is read back therefore holds over the wire.            *)
(***************************************************************************)
EXTENDS OpenOcdSession, JtagMockProofs

(***************************************************************************)
(* What one command does to the TAP controller.                            *)
(***************************************************************************)

\* The state a command leaves: only writes with the clock high and r move it.
After(s, command) ==
    CASE command \in {"4", "5"} -> Successor(s, 0)
      [] command \in {"6", "7"} -> Successor(s, 1)
      [] command = "r"          -> "TEST_LOGIC_RESET"
      [] OTHER                  -> s

\* The digits, written out.
LEMMA Digits ==
    /\ Digit(0, 0, 0) = "0" /\ Digit(0, 0, 1) = "1"
    /\ Digit(0, 1, 0) = "2" /\ Digit(0, 1, 1) = "3"
    /\ Digit(1, 0, 0) = "4" /\ Digit(1, 0, 1) = "5"
    /\ Digit(1, 1, 0) = "6" /\ Digit(1, 1, 1) = "7"
  BY DEF Digit

\* A pin write is a command, and moves the controller with the clock high.
LEMMA DigitAfter ==
    ASSUME NEW ck \in Bit, NEW ms \in Bit, NEW di \in Bit, NEW s
    PROVE  /\ Digit(ck, ms, di) \in Commands
           /\ After(s, Digit(ck, ms, di))
                = IF ck = 1 THEN Successor(s, ms) ELSE s
  BY Digits DEF Bit, Commands, After

\* Every command is one of the protocol's, and moves the controller so.
LEMMA DriveMoves ==
    ASSUME NEW command, Drive(command)
    PROVE  /\ command \in Commands
           /\ tsm_current_state' = After(tsm_current_state, command)
  <1>1. ASSUME NEW ck \in Bit, NEW ms \in Bit, NEW di \in Bit,
               command = Digit(ck, ms, di), set_pins(ck, ms, di)
        PROVE  /\ command \in Commands
               /\ tsm_current_state' = After(tsm_current_state, command)
    <2>1. tsm_current_state' = IF ck = 1 THEN Successor(tsm_current_state, ms)
                                         ELSE tsm_current_state
      BY <1>1 DEF set_pins, set_pins_low, set_pins_high, UpdateDmiRegister,
                  transition
    <2> QED
      BY <1>1, <2>1, DigitAfter
  <1>2. CASE command = "r" /\ reset
    BY <1>2 DEF Commands, After, reset, tsm_reset
  <1>3. CASE command \in {"R", "B", "b"} /\ UNCHANGED mockVars
    BY <1>3 DEF Commands, After, mockVars, dtmVars
  <1> QED
    BY <1>1, <1>2, <1>3 DEF Drive

\* What a pin write with the clock low does, and one with the clock high.
LEMMA PinWriteEffect ==
    ASSUME NEW ck \in Bit, NEW ms \in Bit, NEW di \in Bit,
           Drive(Digit(ck, ms, di))
    PROVE  set_pins(ck, ms, di) /\ Digit(ck, ms, di) \notin {"r", "R", "B", "b"}
  <1>1. /\ ck \in {0, 1} /\ ms \in {0, 1} /\ di \in {0, 1}
    BY DEF Bit
  <1>2. Digit(ck, ms, di) \notin {"r", "R", "B", "b"}
    BY <1>1, Digits
  <1>3. PICK c \in Bit, m \in Bit, d \in Bit :
            Digit(ck, ms, di) = Digit(c, m, d) /\ set_pins(c, m, d)
    BY <1>2 DEF Drive
  <1>4. c \in {0, 1} /\ m \in {0, 1} /\ d \in {0, 1}
    BY DEF Bit
  <1>5. c = ck /\ m = ms /\ d = di
    BY <1>1, <1>3, <1>4, Digits
  <1> QED
    BY <1>2, <1>3, <1>5

\* And what the other commands do.
LEMMA OtherCommandEffect ==
    /\ Drive("r") => reset /\ UNCHANGED dmVars
    /\ \A c \in {"R", "B", "b"} : Drive(c) => UNCHANGED mockVars
  <1>1. \A ck, ms, di \in Bit : Digit(ck, ms, di) \notin {"r", "R", "B", "b"}
    BY Digits DEF Bit
  <1> QED
    BY <1>1 DEF Drive

(***************************************************************************)
(* Where a script leads.                                                   *)
(***************************************************************************)

\* The commands take the controller from one state to another: there is a
\* route, the states in between included.
Leads(commands, from, to) ==
    /\ commands \in Seq(Commands)
    /\ \E route \in [1..(Len(commands) + 1) -> States] :
         /\ route[1] = from /\ route[Len(commands) + 1] = to
         /\ \A i \in 1..Len(commands) :
              route[i + 1] = After(route[i], commands[i])

\* Nothing leads nowhere else.
LEMMA NothingLeads ==
    ASSUME NEW s, NEW t
    PROVE  /\ s \in States => Leads(<< >>, s, s)
           /\ Leads(<< >>, s, t) => s = t
  <1>1. ASSUME s \in States
        PROVE  Leads(<< >>, s, s)
    <2> DEFINE route == [i \in 1..1 |-> s]
    <2>1. route \in [1..1 -> States] /\ route[1] = s
      BY <1>1
    <2>2. << >> \in Seq(Commands) /\ Len(<< >>) = 0
      OBVIOUS
    <2> HIDE DEF route
    <2>3. route \in [1..(Len(<< >>) + 1) -> States]
          /\ route[Len(<< >>) + 1] = s
      BY <2>1, <2>2
    <2>4. \A i \in 1..Len(<< >>) :
              route[i + 1] = After(route[i], << >>[i])
      BY <2>2
    <2> QED
      BY <2>1, <2>2, <2>3, <2>4 DEF Leads
  <1>2. Leads(<< >>, s, t) => s = t
    BY DEF Leads
  <1> QED
    BY <1>1, <1>2

\* After the first command, the others lead to the same state.
LEMMA RestLeads ==
    ASSUME NEW commands, NEW s, NEW t, Leads(commands, s, t),
           commands # << >>
    PROVE  /\ Head(commands) \in Commands
           /\ Leads(Tail(commands), After(s, Head(commands)), t)
  <1> DEFINE n == Len(commands)
             rest == Tail(commands)
  <1>1. commands \in Seq(Commands)
    BY DEF Leads
  <1>2. /\ n \in Nat /\ n >= 1 /\ Head(commands) = commands[1]
        /\ commands[1] \in Commands
        /\ rest \in Seq(Commands) /\ Len(rest) = n - 1
        /\ \A i \in 1..(n - 1) : rest[i] = commands[i + 1]
    BY <1>1, HeadTailProperties, EmptySeq
  <1>3. PICK route \in [1..(n + 1) -> States] :
            /\ route[1] = s /\ route[n + 1] = t
            /\ \A i \in 1..n : route[i + 1] = After(route[i], commands[i])
    BY DEF Leads
  <1> HIDE DEF n, rest
  <1> DEFINE route2 == [i \in 1..n |-> route[i + 1]]
  <1>4. route2 \in [1..(Len(rest) + 1) -> States]
    BY <1>2, <1>3
  <1>5. /\ route2[1] = After(s, Head(commands))
        /\ route2[Len(rest) + 1] = t
    BY <1>2, <1>3
  <1>6. ASSUME NEW i \in 1..Len(rest)
        PROVE  route2[i + 1] = After(route2[i], rest[i])
    <2>1. /\ i \in 1..n /\ i + 1 \in 1..n
          /\ rest[i] = commands[i + 1]
      BY <1>2
    <2> QED
      BY <1>2, <1>3, <2>1
  <1> HIDE DEF route2
  <1>7. Leads(rest, After(s, Head(commands)), t)
    BY <1>2, <1>4, <1>5, <1>6 DEF Leads
  <1> QED
    BY <1>2, <1>7 DEF rest

\* One command leads one step.
LEMMA CommandLeads ==
    ASSUME NEW s \in States, NEW command \in Commands,
           After(s, command) \in States
    PROVE  Leads(<<command>>, s, After(s, command))
  <1> DEFINE route == [i \in 1..2 |-> IF i = 1 THEN s ELSE After(s, command)]
  <1>1. route \in [1..2 -> States]
    OBVIOUS
  <1>2. route[1] = s /\ route[2] = After(s, command)
    OBVIOUS
  <1>3. /\ <<command>> \in Seq(Commands) /\ Len(<<command>>) = 1
        /\ <<command>>[1] = command
    OBVIOUS
  <1> HIDE DEF route
  <1> QED
    BY <1>1, <1>2, <1>3 DEF Leads

\* One script after the other leads where the second one does.
LEMMA ScriptsLead ==
    ASSUME NEW a, NEW b, NEW s, NEW m, NEW t, Leads(a, s, m), Leads(b, m, t)
    PROVE  Leads(a \o b, s, t)
  <1>1. a \in Seq(Commands) /\ b \in Seq(Commands)
    BY DEF Leads
  <1>2. PICK k \in Nat, n \in Nat : k = Len(a) /\ n = Len(b)
    BY <1>1
  <1>3. /\ a \o b \in Seq(Commands) /\ Len(a \o b) = k + n
        /\ \A i \in 1..(k + n) :
              (a \o b)[i] = IF i <= k THEN a[i] ELSE b[i - k]
    BY <1>1, <1>2, ConcatProperties
  <1>4. PICK first \in [1..(k + 1) -> States] :
            /\ first[1] = s /\ first[k + 1] = m
            /\ \A i \in 1..k : first[i + 1] = After(first[i], a[i])
    BY <1>2 DEF Leads
  <1>5. PICK second \in [1..(n + 1) -> States] :
            /\ second[1] = m /\ second[n + 1] = t
            /\ \A i \in 1..n : second[i + 1] = After(second[i], b[i])
    BY <1>2 DEF Leads
  <1> DEFINE route == [i \in 1..(k + n + 1) |->
                          IF i <= k THEN first[i] ELSE second[i - k]]
  <1>6. route \in [1..(k + n + 1) -> States]
    <2>1. ASSUME NEW i \in 1..(k + n + 1)
          PROVE  (IF i <= k THEN first[i] ELSE second[i - k]) \in States
      <3>1. CASE i <= k
        BY <1>4, <3>1
      <3>2. CASE ~ (i <= k)
        <4>1. i - k \in 1..(n + 1)
          BY <3>2
        <4> QED
          BY <1>5, <3>2, <4>1
      <3> QED
        BY <3>1, <3>2
    <2> QED
      BY <2>1
  <1>7. \A i \in 1..(k + n + 1) :
            route[i] = IF i <= k THEN first[i] ELSE second[i - k]
    OBVIOUS
  <1> HIDE DEF route
  <1>8. route[1] = s /\ route[k + n + 1] = t
    BY <1>4, <1>5, <1>7
  <1>9. ASSUME NEW i \in 1..(k + n)
        PROVE  route[i + 1] = After(route[i], (a \o b)[i])
    <2>1. /\ i \in 1..(k + n + 1) /\ i + 1 \in 1..(k + n + 1)
      OBVIOUS
    <2>2. CASE i < k
      BY <1>3, <1>4, <1>7, <2>1, <2>2
    <2>3. CASE i = k
      BY <1>3, <1>4, <1>5, <1>7, <2>1, <2>3
    <2>4. CASE i > k
      <3>1. PICK j \in 1..n : j = i - k /\ j + 1 = (i + 1) - k
        BY <2>4
      <3>2. route[i] = second[j] /\ route[i + 1] = second[j + 1]
            /\ (a \o b)[i] = b[j]
        BY <1>3, <1>7, <2>1, <2>4, <3>1
      <3> QED
        BY <1>5, <3>2
    <2>5. i < k \/ i = k \/ i > k
      OBVIOUS
    <2> QED
      BY <2>2, <2>3, <2>4, <2>5, Zenon
  <1> QED
    BY <1>3, <1>6, <1>8, <1>9 DEF Leads

(***************************************************************************)
(* Where the client's scripts lead.                                        *)
(***************************************************************************)

\* A move spoils no scan: it neither starts in a shift state nor returns to
\* one from the second exit, goes on from a capture to the shift state, and
\* resets the controller only when that is where it leads.
Spares(s, bit, to) ==
    /\ s \notin {"SHIFT_DR", "SHIFT_IR"}
    /\ s \in {"EXIT2_DR", "EXIT2_IR"} => bit = 1
    /\ s \in {"CAPTURE_DR", "CAPTURE_IR"} => bit = 0
    /\ Successor(s, bit) = "TEST_LOGIC_RESET"
         => s = "TEST_LOGIC_RESET" \/ to = "TEST_LOGIC_RESET"

\* A path of TMS bits, and the states the clock's rising edges pass on it.
Follows(route, path, from, to) ==
    /\ path \in Seq(Bit) /\ path # << >>
    /\ route \in [1..(Len(path) + 1) -> States]
    /\ route[1] = from /\ route[Len(path) + 1] = to
    /\ \A i \in 1..Len(path) : /\ route[i + 1] = Successor(route[i], path[i])
                               /\ Spares(route[i], path[i], to)

Walks(path, from, to) == \E route : Follows(route, path, from, to)

\* A move writes each bit of its path with the clock low and then high, and
\* the last one once more with the clock low.
LEMMA MovesCommands ==
    ASSUME NEW path \in Seq(Bit), path # << >>
    PROVE  /\ Moves(path) \in Seq(Commands)
           /\ Len(path) \in Nat \ {0} /\ Len(Moves(path)) = 2 * Len(path) + 1
           /\ \A i \in 1..Len(path) :
                /\ path[i] \in Bit
                /\ Moves(path)[2 * i - 1] = Digit(0, path[i], 0)
                /\ Moves(path)[2 * i] = Digit(1, path[i], 0)
           /\ Moves(path)[2 * Len(path) + 1] = Digit(0, path[Len(path)], 0)
  <1>1. PICK n \in Nat : n = Len(path) /\ n >= 1
    BY EmptySeq
  <1>2. \A j \in 1..n : path[j] \in Bit
    BY <1>1, LenProperties
  <1> DEFINE command(k) == IF k > 2 * Len(path)
                           THEN Digit(0, path[Len(path)], 0)
                           ELSE Digit((k + 1) % 2, path[(k + 1) \div 2], 0)
             commands == Moves(path)
  <1>3. commands = [k \in 1..(2 * n + 1) |-> command(k)]
    BY <1>1 DEF Moves
  <1>4. command(2 * n + 1) = Digit(0, path[n], 0)
    BY <1>1
  <1>5. ASSUME NEW i \in 1..n
        PROVE  /\ command(2 * i - 1) = Digit(0, path[i], 0)
               /\ command(2 * i) = Digit(1, path[i], 0)
    <2>1. /\ ~ (2 * i - 1 > 2 * n) /\ ~ (2 * i > 2 * n)
          /\ ((2 * i - 1) + 1) % 2 = 0 /\ ((2 * i - 1) + 1) \div 2 = i
          /\ (2 * i + 1) % 2 = 1 /\ (2 * i + 1) \div 2 = i
      OBVIOUS
    <2> QED
      BY <1>1, <2>1
  <1> HIDE DEF command, commands
  <1>6. ASSUME NEW k \in 1..(2 * n + 1)
        PROVE  command(k) \in Commands
    <2>1. \/ k = 2 * n + 1
          \/ \E i \in 1..n : k = 2 * i - 1 \/ k = 2 * i
      <3>1. k <= 2 * n => /\ (k + 1) \div 2 \in 1..n
                          /\ \/ k = 2 * ((k + 1) \div 2) - 1
                             \/ k = 2 * ((k + 1) \div 2)
        OBVIOUS
      <3> QED
        BY <3>1
    <2>2. 0 \in Bit /\ 1 \in Bit /\ n \in 1..n
      BY <1>1 DEF Bit
    <2>3. \E ck \in Bit, i \in 1..n : command(k) = Digit(ck, path[i], 0)
      BY <1>4, <1>5, <2>1, <2>2
    <2> QED
      BY <1>2, <2>2, <2>3, DigitAfter
  <1>7. /\ commands \in Seq(Commands) /\ Len(commands) = 2 * n + 1
        /\ \A k \in 1..(2 * n + 1) : commands[k] = command(k)
    <2>1. commands \in [1..(2 * n + 1) -> Commands]
      BY <1>3, <1>6
    <2> QED
      BY <1>3, <2>1
  <1>8. ASSUME NEW i \in 1..n
        PROVE  2 * i - 1 \in 1..(2 * n + 1) /\ 2 * i \in 1..(2 * n + 1)
    OBVIOUS
  <1>9. 2 * n + 1 \in 1..(2 * n + 1)
    OBVIOUS
  <1> QED
    BY <1>1, <1>2, <1>4, <1>5, <1>7, <1>8, <1>9 DEF commands

\* The controller goes the way of the path.
LEMMA MovesLead ==
    ASSUME NEW path, NEW s, NEW t, Walks(path, s, t)
    PROVE  Leads(Moves(path), s, t)
  <1>1. PICK n \in Nat : n = Len(path) /\ n >= 1
    BY EmptySeq DEF Walks, Follows
  <1> DEFINE commands == Moves(path)
  <1>2. /\ commands \in Seq(Commands) /\ Len(commands) = 2 * n + 1
        /\ \A i \in 1..n : /\ path[i] \in Bit
                           /\ commands[2 * i - 1] = Digit(0, path[i], 0)
                           /\ commands[2 * i] = Digit(1, path[i], 0)
        /\ commands[2 * n + 1] = Digit(0, path[n], 0)
    BY <1>1, MovesCommands DEF Walks, Follows
  <1>3. PICK step \in [1..(n + 1) -> States] :
            /\ step[1] = s /\ step[n + 1] = t
            /\ \A j \in 1..n : step[j + 1] = Successor(step[j], path[j])
    BY <1>1 DEF Walks, Follows
  <1> DEFINE route == [k \in 1..(2 * n + 2) |-> step[(k + 1) \div 2]]
  <1> HIDE DEF commands
  <1>4. /\ route \in [1..(2 * n + 2) -> States]
        /\ \A k \in 1..(2 * n + 2) : route[k] = step[(k + 1) \div 2]
    <2>1. ASSUME NEW k \in 1..(2 * n + 2)
          PROVE  (k + 1) \div 2 \in 1..(n + 1)
      OBVIOUS
    <2> QED
      BY <1>3, <2>1
  <1> HIDE DEF route
  <1>5. ASSUME NEW j \in 1..(n + 1)
        PROVE  route[2 * j - 1] = step[j] /\ route[2 * j] = step[j]
    <2>1. /\ 2 * j - 1 \in 1..(2 * n + 2) /\ 2 * j \in 1..(2 * n + 2)
          /\ (2 * j - 1 + 1) \div 2 = j /\ (2 * j + 1) \div 2 = j
      OBVIOUS
    <2> QED
      BY <1>4, <2>1
  <1>6. route[1] = s /\ route[2 * n + 2] = t
    <2>1. 1 \in 1..(n + 1) /\ n + 1 \in 1..(n + 1)
          /\ 2 * 1 - 1 = 1 /\ 2 * (n + 1) = 2 * n + 2
      BY <1>1
    <2> QED
      BY <1>3, <1>5, <2>1
  <1>7. ASSUME NEW k \in 1..(2 * n + 1)
        PROVE  route[k + 1] = After(route[k], commands[k])
    <2>1. ASSUME NEW j \in 1..(n + 1), NEW m \in 1..n, k = 2 * j - 1,
                 commands[k] = Digit(0, path[m], 0)
          PROVE  route[k + 1] = After(route[k], commands[k])
      <3>1. After(route[k], commands[k]) = route[k]
        <4>1. path[m] \in Bit /\ 0 \in Bit
          BY <1>2 DEF Bit
        <4>2. After(route[k], Digit(0, path[m], 0)) = route[k]
          BY <4>1, DigitAfter
        <4> QED
          BY <2>1, <4>2
      <3>2. k + 1 = 2 * j
        BY <2>1
      <3> QED
        BY <1>5, <2>1, <3>1, <3>2
    <2>2. ASSUME NEW j \in 1..n, k = 2 * j
          PROVE  route[k + 1] = After(route[k], commands[k])
      <3>1. After(route[k], commands[k]) = Successor(route[k], path[j])
        BY <1>2, <2>2, DigitAfter DEF Bit
      <3>2. k + 1 = 2 * (j + 1) - 1 /\ j \in 1..(n + 1) /\ j + 1 \in 1..(n + 1)
        BY <2>2
      <3>3. route[k] = step[j] /\ route[k + 1] = step[j + 1]
        BY <1>5, <2>2, <3>2
      <3> QED
        BY <1>3, <3>1, <3>3
    <2>3. CASE k = 2 * n + 1
      <3>1. n + 1 \in 1..(n + 1) /\ n \in 1..n /\ k = 2 * (n + 1) - 1
        BY <1>1, <2>3
      <3> QED
        BY <1>2, <2>1, <2>3, <3>1
    <2>4. ASSUME NEW j \in 1..n, k = 2 * j - 1
          PROVE  route[k + 1] = After(route[k], commands[k])
      <3>1. j \in 1..(n + 1)
        OBVIOUS
      <3> QED
        BY <1>2, <2>1, <2>4, <3>1
    <2>5. k = 2 * n + 1 \/ \E j \in 1..n : k = 2 * j - 1 \/ k = 2 * j
      <3>1. k <= 2 * n => /\ (k + 1) \div 2 \in 1..n
                          /\ \/ k = 2 * ((k + 1) \div 2) - 1
                             \/ k = 2 * ((k + 1) \div 2)
        OBVIOUS
      <3> QED
        BY <3>1
    <2> QED
      BY <2>2, <2>3, <2>4, <2>5
  <1>8. Leads(commands, s, t)
    <2>1. Len(commands) + 1 = 2 * n + 2
      BY <1>2
    <2>2. /\ route \in [1..(Len(commands) + 1) -> States]
          /\ route[1] = s /\ route[Len(commands) + 1] = t
      BY <1>4, <1>6, <2>1
    <2>3. \A k \in 1..Len(commands) :
              route[k + 1] = After(route[k], commands[k])
      BY <1>2, <1>7
    <2> QED
      BY <1>2, <2>2, <2>3, Zenon DEF Leads
  <1> QED
    BY <1>8 DEF commands

\* Each walk of the client's table ends in the shift state.
LEMMA ToShiftWalks ==
    ASSUME NEW s \in {"TEST_LOGIC_RESET", "RUN_TEST_IDLE", "PAUSE_DR"}
    PROVE  /\ Walks(ToShift["SHIFT_DR"][s], s, "SHIFT_DR")
           /\ Walks(ToShift["SHIFT_IR"][s], s, "SHIFT_IR")
  <1>1. Walks(<<1, 1, 1, 0, 1, 0, 0>>, "TEST_LOGIC_RESET", "SHIFT_DR")
    <2>1. Follows(<<"TEST_LOGIC_RESET", "TEST_LOGIC_RESET",
                    "TEST_LOGIC_RESET", "TEST_LOGIC_RESET", "RUN_TEST_IDLE",
                    "SELECT_DR_SCAN", "CAPTURE_DR", "SHIFT_DR">>,
                  <<1, 1, 1, 0, 1, 0, 0>>, "TEST_LOGIC_RESET", "SHIFT_DR")
      BY DEF Follows, Spares, Successor, OnOne, OnZero, Bit, States,
             TapStates
    <2> QED
      BY <2>1, Zenon DEF Walks
  <1>2. Walks(<<1, 0, 0>>, "RUN_TEST_IDLE", "SHIFT_DR")
    <2>1. Follows(<<"RUN_TEST_IDLE", "SELECT_DR_SCAN", "CAPTURE_DR",
                    "SHIFT_DR">>,
                  <<1, 0, 0>>, "RUN_TEST_IDLE", "SHIFT_DR")
      BY DEF Follows, Spares, Successor, OnOne, OnZero, Bit, States,
             TapStates
    <2> QED
      BY <2>1, Zenon DEF Walks
  <1>3. Walks(<<1, 1, 1, 0, 0>>, "PAUSE_DR", "SHIFT_DR")
    <2>1. Follows(<<"PAUSE_DR", "EXIT2_DR", "UPDATE_DR", "SELECT_DR_SCAN",
                    "CAPTURE_DR", "SHIFT_DR">>,
                  <<1, 1, 1, 0, 0>>, "PAUSE_DR", "SHIFT_DR")
      BY DEF Follows, Spares, Successor, OnOne, OnZero, Bit, States,
             TapStates
    <2> QED
      BY <2>1, Zenon DEF Walks
  <1>4. Walks(<<1, 1, 0, 1, 1, 0, 0>>, "TEST_LOGIC_RESET", "SHIFT_IR")
    <2>1. Follows(<<"TEST_LOGIC_RESET", "TEST_LOGIC_RESET",
                    "TEST_LOGIC_RESET", "RUN_TEST_IDLE", "SELECT_DR_SCAN",
                    "SELECT_IR_SCAN", "CAPTURE_IR", "SHIFT_IR">>,
                  <<1, 1, 0, 1, 1, 0, 0>>, "TEST_LOGIC_RESET", "SHIFT_IR")
      BY DEF Follows, Spares, Successor, OnOne, OnZero, Bit, States,
             TapStates
    <2> QED
      BY <2>1, Zenon DEF Walks
  <1>5. Walks(<<1, 1, 0, 0>>, "RUN_TEST_IDLE", "SHIFT_IR")
    <2>1. Follows(<<"RUN_TEST_IDLE", "SELECT_DR_SCAN", "SELECT_IR_SCAN",
                    "CAPTURE_IR", "SHIFT_IR">>,
                  <<1, 1, 0, 0>>, "RUN_TEST_IDLE", "SHIFT_IR")
      BY DEF Follows, Spares, Successor, OnOne, OnZero, Bit, States,
             TapStates
    <2> QED
      BY <2>1, Zenon DEF Walks
  <1>6. Walks(<<1, 1, 1, 1, 0, 0>>, "PAUSE_DR", "SHIFT_IR")
    <2>1. Follows(<<"PAUSE_DR", "EXIT2_DR", "UPDATE_DR", "SELECT_DR_SCAN",
                    "SELECT_IR_SCAN", "CAPTURE_IR", "SHIFT_IR">>,
                  <<1, 1, 1, 1, 0, 0>>, "PAUSE_DR", "SHIFT_IR")
      BY DEF Follows, Spares, Successor, OnOne, OnZero, Bit, States,
             TapStates
    <2> QED
      BY <2>1, Zenon DEF Walks
  <1> QED
    BY <1>1, <1>2, <1>3, <1>4, <1>5, <1>6 DEF ToShift

\* So do the walks from the exit of the shift state: where the scan ends.
LEMMA FromExitWalks ==
    /\ Walks(FromExit["RUN_TEST_IDLE"], "EXIT1_DR", "RUN_TEST_IDLE")
    /\ Walks(FromExit["RUN_TEST_IDLE"], "EXIT1_IR", "RUN_TEST_IDLE")
    /\ Walks(FromExit["PAUSE_DR"], "EXIT1_DR", "PAUSE_DR")
  <1>1. Walks(<<1, 0>>, "EXIT1_DR", "RUN_TEST_IDLE")
    <2>1. Follows(<<"EXIT1_DR", "UPDATE_DR", "RUN_TEST_IDLE">>,
                  <<1, 0>>, "EXIT1_DR", "RUN_TEST_IDLE")
      BY DEF Follows, Spares, Successor, OnOne, OnZero, Bit, States,
             TapStates
    <2> QED
      BY <2>1, Zenon DEF Walks
  <1>2. Walks(<<1, 0>>, "EXIT1_IR", "RUN_TEST_IDLE")
    <2>1. Follows(<<"EXIT1_IR", "UPDATE_IR", "RUN_TEST_IDLE">>,
                  <<1, 0>>, "EXIT1_IR", "RUN_TEST_IDLE")
      BY DEF Follows, Spares, Successor, OnOne, OnZero, Bit, States,
             TapStates
    <2> QED
      BY <2>1, Zenon DEF Walks
  <1>3. Walks(<<0>>, "EXIT1_DR", "PAUSE_DR")
    <2>1. Follows(<<"EXIT1_DR", "PAUSE_DR">>,
                  <<0>>, "EXIT1_DR", "PAUSE_DR")
      BY DEF Follows, Spares, Successor, OnOne, OnZero, Bit, States,
             TapStates
    <2> QED
      BY <2>1, Zenon DEF Walks
  <1> QED
    BY <1>1, <1>2, <1>3 DEF FromExit

\* Seven ones reset the controller.
LEMMA ResetWalks ==
    ASSUME NEW s \in {"TEST_LOGIC_RESET", "RUN_TEST_IDLE", "PAUSE_DR"}
    PROVE  Walks([i \in 1..7 |-> 1], s, "TEST_LOGIC_RESET")
  <1>1. Walks(<<1, 1, 1, 1, 1, 1, 1>>, "TEST_LOGIC_RESET", "TEST_LOGIC_RESET")
    <2>1. Follows(<<"TEST_LOGIC_RESET", "TEST_LOGIC_RESET",
                    "TEST_LOGIC_RESET", "TEST_LOGIC_RESET",
                    "TEST_LOGIC_RESET", "TEST_LOGIC_RESET",
                    "TEST_LOGIC_RESET", "TEST_LOGIC_RESET">>,
                  <<1, 1, 1, 1, 1, 1, 1>>, "TEST_LOGIC_RESET", "TEST_LOGIC_RESET")
      BY DEF Follows, Spares, Successor, OnOne, OnZero, Bit, States,
             TapStates
    <2> QED
      BY <2>1, Zenon DEF Walks
  <1>2. Walks(<<1, 1, 1, 1, 1, 1, 1>>, "RUN_TEST_IDLE", "TEST_LOGIC_RESET")
    <2>1. Follows(<<"RUN_TEST_IDLE", "SELECT_DR_SCAN", "SELECT_IR_SCAN",
                    "TEST_LOGIC_RESET", "TEST_LOGIC_RESET",
                    "TEST_LOGIC_RESET", "TEST_LOGIC_RESET",
                    "TEST_LOGIC_RESET">>,
                  <<1, 1, 1, 1, 1, 1, 1>>, "RUN_TEST_IDLE", "TEST_LOGIC_RESET")
      BY DEF Follows, Spares, Successor, OnOne, OnZero, Bit, States,
             TapStates
    <2> QED
      BY <2>1, Zenon DEF Walks
  <1>3. Walks(<<1, 1, 1, 1, 1, 1, 1>>, "PAUSE_DR", "TEST_LOGIC_RESET")
    <2>1. Follows(<<"PAUSE_DR", "EXIT2_DR", "UPDATE_DR", "SELECT_DR_SCAN",
                    "SELECT_IR_SCAN", "TEST_LOGIC_RESET", "TEST_LOGIC_RESET",
                    "TEST_LOGIC_RESET">>,
                  <<1, 1, 1, 1, 1, 1, 1>>, "PAUSE_DR", "TEST_LOGIC_RESET")
      BY DEF Follows, Spares, Successor, OnOne, OnZero, Bit, States,
             TapStates
    <2> QED
      BY <2>1, Zenon DEF Walks
  <1>4. [i \in 1..7 |-> 1] = <<1, 1, 1, 1, 1, 1, 1>>
    OBVIOUS
  <1> QED
    BY <1>1, <1>2, <1>3, <1>4

\* A scan writes each bit with the clock low, reads one, and writes it with the
\* clock high; TMS is 1 for the last.
LEMMA ShiftBitsCommands ==
    ASSUME NEW w \in Seq(Bit), w # << >>
    PROVE  /\ ShiftBits(w) \in Seq(Commands)
           /\ Len(w) \in Nat \ {0} /\ Len(ShiftBits(w)) = 3 * Len(w)
           /\ \A i \in 1..Len(w) :
                LET ms == IF i = Len(w) THEN 1 ELSE 0 IN
                /\ ShiftBits(w)[3 * i - 2] = Digit(0, ms, w[i])
                /\ ShiftBits(w)[3 * i - 1] = "R"
                /\ ShiftBits(w)[3 * i] = Digit(1, ms, w[i])
  <1>1. PICK n \in Nat : n = Len(w) /\ n >= 1
    BY EmptySeq
  <1>2. \A i \in 1..n : w[i] \in Bit
    BY <1>1, LenProperties
  <1> DEFINE last(i) == IF i = Len(w) THEN 1 ELSE 0
             command(k) ==
                 <<Digit(0, last((k + 2) \div 3), w[(k + 2) \div 3]), "R",
                   Digit(1, last((k + 2) \div 3), w[(k + 2) \div 3])>>
                   [k - 3 * (((k + 2) \div 3) - 1)]
             commands == ShiftBits(w)
  <1>3. commands = [k \in 1..(3 * n) |-> command(k)]
    BY <1>1 DEF ShiftBits
  <1>4. ASSUME NEW i \in 1..n
        PROVE  /\ command(3 * i - 2) = Digit(0, last(i), w[i])
               /\ command(3 * i - 1) = "R"
               /\ command(3 * i) = Digit(1, last(i), w[i])
    <2>1. /\ ((3 * i - 2) + 2) \div 3 = i /\ (3 * i - 2) - 3 * (i - 1) = 1
          /\ ((3 * i - 1) + 2) \div 3 = i /\ (3 * i - 1) - 3 * (i - 1) = 2
          /\ (3 * i + 2) \div 3 = i /\ 3 * i - 3 * (i - 1) = 3
      OBVIOUS
    <2> HIDE DEF last
    <2> QED
      BY <2>1
  <1>5. \A i \in 1..n : last(i) \in Bit
    BY DEF Bit
  <1> HIDE DEF last, command, commands
  <1>6. ASSUME NEW k \in 1..(3 * n)
        PROVE  command(k) \in Commands
    <2>1. PICK i \in 1..n : k = 3 * i - 2 \/ k = 3 * i - 1 \/ k = 3 * i
      <3>1. /\ (k + 2) \div 3 \in 1..n
            /\ \/ k = 3 * ((k + 2) \div 3) - 2
               \/ k = 3 * ((k + 2) \div 3) - 1
               \/ k = 3 * ((k + 2) \div 3)
        OBVIOUS
      <3> QED
        BY <3>1
    <2>2. /\ Digit(0, last(i), w[i]) \in Commands
          /\ Digit(1, last(i), w[i]) \in Commands
          /\ "R" \in Commands
      BY <1>2, <1>5, DigitAfter DEF Bit, Commands
    <2> QED
      BY <1>4, <2>1, <2>2
  <1>7. /\ commands \in Seq(Commands) /\ Len(commands) = 3 * n
        /\ \A k \in 1..(3 * n) : commands[k] = command(k)
    <2>1. commands \in [1..(3 * n) -> Commands]
      BY <1>3, <1>6
    <2> QED
      BY <1>3, <2>1
  <1>8. ASSUME NEW i \in 1..n
        PROVE  /\ 3 * i - 2 \in 1..(3 * n) /\ 3 * i - 1 \in 1..(3 * n)
               /\ 3 * i \in 1..(3 * n)
    OBVIOUS
  <1> QED
    BY <1>1, <1>4, <1>7, <1>8 DEF commands, last

\* A scan keeps the controller in its shift state, R included, and leaves it
\* with the last bit.
LEMMA ShiftBitsLead ==
    ASSUME NEW word \in Seq(Bit), word # << >>, NEW s \in States,
           NEW t \in States, Successor(s, 0) = s, Successor(s, 1) = t
    PROVE  Leads(ShiftBits(word), s, t)
  <1> DEFINE commands == ShiftBits(word)
             last(i) == IF i = Len(word) THEN 1 ELSE 0
  <1>1. PICK n \in Nat : n = Len(word) /\ n >= 1
    BY EmptySeq
  <1>2. /\ commands \in Seq(Commands) /\ Len(commands) = 3 * n
        /\ \A i \in 1..n : /\ commands[3 * i - 2] = Digit(0, last(i), word[i])
                           /\ commands[3 * i - 1] = "R"
                           /\ commands[3 * i] = Digit(1, last(i), word[i])
    BY <1>1, ShiftBitsCommands
  <1>3. \A i \in 1..n : /\ word[i] \in Bit /\ last(i) \in Bit
                        /\ last(i) = IF i = n THEN 1 ELSE 0
    BY <1>1, LenProperties DEF Bit
  <1> DEFINE route == [k \in 1..(3 * n + 1) |-> IF k <= 3 * n THEN s ELSE t]
  <1> HIDE DEF last, commands
  <1>4. 0 \in Bit /\ 1 \in Bit /\ After(s, "R") = s
    BY DEF Bit, After
  <1>5. ASSUME NEW k \in 1..(3 * n)
        PROVE  After(s, commands[k]) = IF k = 3 * n THEN t ELSE s
    <2>1. PICK i \in 1..n : k = 3 * i - 2 \/ k = 3 * i - 1 \/ k = 3 * i
      <3>1. /\ (k + 2) \div 3 \in 1..n
            /\ \/ k = 3 * ((k + 2) \div 3) - 2
               \/ k = 3 * ((k + 2) \div 3) - 1
               \/ k = 3 * ((k + 2) \div 3)
        OBVIOUS
      <3> QED
        BY <3>1
    <2>2. /\ After(s, Digit(0, last(i), word[i])) = s
          /\ After(s, Digit(1, last(i), word[i])) = Successor(s, last(i))
      BY <1>3, <1>4, DigitAfter
    <2>3. CASE k = 3 * i - 2
      <3>1. k # 3 * n
        BY <2>3
      <3> QED
        BY <1>2, <2>2, <2>3, <3>1
    <2>4. CASE k = 3 * i - 1
      <3>1. k # 3 * n
        BY <2>4
      <3> QED
        BY <1>2, <1>4, <2>4, <3>1
    <2>5. CASE k = 3 * i
      <3>1. k = 3 * n <=> i = n
        BY <2>5
      <3>2. Successor(s, last(i)) = IF i = n THEN t ELSE s
        BY <1>3
      <3> QED
        BY <1>2, <2>2, <2>5, <3>1, <3>2
    <2> QED
      BY <2>1, <2>3, <2>4, <2>5
  <1>6. /\ route \in [1..(3 * n + 1) -> States]
        /\ \A k \in 1..(3 * n + 1) : route[k] = IF k <= 3 * n THEN s ELSE t
    OBVIOUS
  <1> HIDE DEF route
  <1>7. route[1] = s /\ route[3 * n + 1] = t
    <2>1. /\ 1 \in 1..(3 * n + 1) /\ 3 * n + 1 \in 1..(3 * n + 1)
          /\ 1 <= 3 * n /\ ~ (3 * n + 1 <= 3 * n)
      BY <1>1
    <2> QED
      BY <1>6, <2>1
  <1>8. ASSUME NEW k \in 1..(3 * n)
        PROVE  route[k + 1] = After(route[k], commands[k])
    <2>1. route[k] = s /\ route[k + 1] = IF k = 3 * n THEN t ELSE s
      <3>1. /\ k \in 1..(3 * n + 1) /\ k + 1 \in 1..(3 * n + 1)
            /\ k <= 3 * n /\ (k + 1 <= 3 * n <=> k # 3 * n)
        OBVIOUS
      <3> QED
        BY <1>6, <3>1
    <2> QED
      BY <1>5, <2>1
  <1>9. Leads(commands, s, t)
    <2>1. /\ route \in [1..(Len(commands) + 1) -> States]
          /\ route[1] = s /\ route[Len(commands) + 1] = t
      BY <1>2, <1>6, <1>7
    <2>2. \A k \in 1..Len(commands) :
              route[k + 1] = After(route[k], commands[k])
      BY <1>2, <1>8
    <2> QED
      BY <1>2, <2>1, <2>2, Zenon DEF Leads
  <1> QED
    BY <1>9 DEF commands

\* A script of r and seven ones resets the controller from wherever a script
\* ends, and the client's first script does so from any power-on value.
LEMMA ResetsLead ==
    ASSUME NEW s \in States
    PROVE  /\ s \in {"TEST_LOGIC_RESET", "RUN_TEST_IDLE", "PAUSE_DR"}
                => /\ Leads(<< >> \o ResetMoves, s, "TEST_LOGIC_RESET")
                   /\ Leads(<<"r">> \o ResetMoves, s, "TEST_LOGIC_RESET")
           /\ Leads(<<"B", "b", "r", "b", "B">> \o ResetMoves, s,
                    "TEST_LOGIC_RESET")
  <1>1. ASSUME NEW u \in {"TEST_LOGIC_RESET", "RUN_TEST_IDLE", "PAUSE_DR"}
        PROVE  Leads(ResetMoves, u, "TEST_LOGIC_RESET")
    BY ResetWalks, MovesLead DEF ResetMoves
  <1>2. Leads(<<"r">>, s, "TEST_LOGIC_RESET")
    <2>1. /\ After(s, "r") = "TEST_LOGIC_RESET" /\ "r" \in Commands
          /\ "TEST_LOGIC_RESET" \in States
      BY DEF After, Commands, States, TapStates
    <2> QED
      BY <2>1, CommandLeads
  <1>3. Leads(<<"B", "b", "r", "b", "B">>, s, "TEST_LOGIC_RESET")
    <2> DEFINE script1 == <<"B", "b", "r", "b", "B">>
               route == <<s, s, s, "TEST_LOGIC_RESET", "TEST_LOGIC_RESET",
                          "TEST_LOGIC_RESET">>
    <2>1. script1 \in Seq(Commands) /\ Len(script1) = 5
      BY DEF Commands
    <2>2. /\ route \in [1..6 -> States]
          /\ route[1] = s /\ route[6] = "TEST_LOGIC_RESET"
      BY DEF States, TapStates
    <2>3. \A i \in 1..5 : route[i + 1] = After(route[i], script1[i])
      BY DEF After
    <2> HIDE DEF route, script1
    <2>4. Leads(script1, s, "TEST_LOGIC_RESET")
      BY <2>1, <2>2, <2>3 DEF Leads
    <2> QED
      BY <2>4 DEF script1
  <1>4. s \in {"TEST_LOGIC_RESET", "RUN_TEST_IDLE", "PAUSE_DR"}
          => Leads(<< >>, s, s)
    BY NothingLeads
  <1> QED
    BY <1>1, <1>2, <1>3, <1>4, ScriptsLead

(***************************************************************************)
(* The inductive invariant.                                                *)
(***************************************************************************)

\* Where a script may end with no scan planned.
Resting == {"TEST_LOGIC_RESET", "RUN_TEST_IDLE", "PAUSE_DR"}

\* A planned scan begins in the shift state of its column, has bits to shift,
\* and ends where its exit has a way to.
PlanFits ==
    \/ planned.to = "none" /\ at \in Resting
    \/ /\ planned.to = "ir" /\ at = "SHIFT_IR"
       /\ planned.end = "RUN_TEST_IDLE"
       /\ Wire("ir", planned.sent) \in Seq(Bit) \ {<< >>}
    \/ /\ planned.to \in DataRegisters /\ at = "SHIFT_DR"
       /\ planned.end \in {"RUN_TEST_IDLE", "PAUSE_DR"}
       /\ Wire(planned.to, planned.sent) \in Seq(Bit) \ {<< >>}

\* Whatever is left of the script leads from where the controller is to where
\* the client expects it.
SessionInvariant ==
    /\ TypeOK
    /\ Leads(script, tsm_current_state, at)
    /\ PlanFits

\* An instruction has bits, and so has whatever the client sends through a
\* data register.
LEMMA WireTypes ==
    /\ \A register \in DataRegisters \cup {"unknown"} :
          Wire("ir", register) \in Seq(Bit) \ {<< >>}
    /\ \A word \in WideWords, register \in {"id_code", "dtmcs"} :
          Wire(register, word) \in Seq(Bit) \ {<< >>}
    /\ \A s \in Scans : Wire("dmi", s) \in Seq(Bit) \ {<< >>}
  <1>1. ASSUME NEW n \in Nat \ {0}, NEW w \in Word(n)
        PROVE  w \in Seq(Bit) \ {<< >>}
    BY WordIsSequence
  <1>2. ASSUME NEW register \in DataRegisters \cup {"unknown"}
        PROVE  Wire("ir", register) \in Seq(Bit) \ {<< >>}
    <2>1. /\ IR_IDCODE \in Word(IrLen) /\ IR_DTMCS \in Word(IrLen)
          /\ IR_DMI \in Word(IrLen) /\ IrLen \in Nat \ {0}
      BY ConstantsAssumption
    <2>2. /\ IR_IDCODE \in Seq(Bit) \ {<< >>}
          /\ IR_DTMCS \in Seq(Bit) \ {<< >>}
          /\ IR_DMI \in Seq(Bit) \ {<< >>}
      BY <1>1, <2>1
    <2>3. <<1, 1>> \in Seq(Bit) \ {<< >>}
      BY DEF Bit
    <2>4. Wire("ir", register) \in {IR_IDCODE, IR_DTMCS, IR_DMI, <<1, 1>>}
      BY DEF Wire, InstructionWord, DataRegisters
    <2> QED
      BY <2>2, <2>3, <2>4
  <1>3. ASSUME NEW word \in WideWords, NEW register \in {"id_code", "dtmcs"}
        PROVE  Wire(register, word) \in Seq(Bit) \ {<< >>}
    <2>1. word \in Seq(Bit) /\ Len(word) >= 32
      BY WideWordsAssumption
    <2>2. word # << >>
      BY <2>1
    <2> QED
      BY <2>1, <2>2 DEF Wire
  <1>4. ASSUME NEW s \in Scans
        PROVE  Wire("dmi", s) \in Seq(Bit) \ {<< >>}
    <2>1. Encode(s) \in Word(41)
      BY DebuggerAssumption, EncodeType
    <2>2. Encode(s) \in Seq(Bit) \ {<< >>}
      BY <1>1, <2>1
    <2> QED
      BY <2>2 DEF Wire
  <1> QED
    BY <1>2, <1>3, <1>4

\* Power-on.
LEMMA SessionInit ==
    ASSUME Init
    PROVE  SessionInvariant
  <1>1. MockTypeOK
    BY MockInitType DEF Init
  <1>2. TypeOK
    <2>1. planned.to = "none" /\ believed \in DataRegisters
      BY DEF Init, NoScan, DataRegisters
    <2>2. bits \in Seq(Bit)
      BY DEF Init
    <2> QED
      BY <1>1, <2>1, <2>2 DEF TypeOK
  <1>3. tsm_current_state \in States
    BY <1>1 DEF MockTypeOK, DtmTypeOK, States
  <1>4. Leads(script, tsm_current_state, at)
    BY <1>3, ResetsLead DEF Init
  <1>5. PlanFits
    BY DEF Init, NoScan, PlanFits, Resting
  <1> QED
    BY <1>2, <1>4, <1>5 DEF SessionInvariant

\* The target obeys one command: the rest of the script leads on from there.
LEMMA SendKeeps ==
    ASSUME SessionInvariant, Send
    PROVE  SessionInvariant'
  <1>1. MockTypeOK'
    BY DriveEffect DEF SessionInvariant, TypeOK, Send
  <1>2. bits' \in Seq(Bit)
    <2>1. bits \in Seq(Bit) /\ tdo \in Bit
      BY DEF SessionInvariant, TypeOK, MockTypeOK, DtmTypeOK
    <2>2. bits' = bits \/ bits' = Append(bits, tdo)
      BY DEF Send
    <2> QED
      BY <2>1, <2>2, AppendProperties
  <1>3. TypeOK'
    BY <1>1, <1>2 DEF SessionInvariant, TypeOK, Send
  <1>4. Leads(script', tsm_current_state', at')
    <2>1. tsm_current_state' = After(tsm_current_state, Head(script))
      BY DriveMoves DEF Send
    <2>2. Leads(Tail(script), After(tsm_current_state, Head(script)), at)
      BY RestLeads DEF SessionInvariant, Send
    <2> QED
      BY <2>1, <2>2 DEF Send
  <1>5. PlanFits'
    BY DEF SessionInvariant, PlanFits, Send
  <1> QED
    BY <1>3, <1>4, <1>5 DEF SessionInvariant

\* What a step of the client leaves of the target.
LEMMA TargetWaits ==
    ASSUME MockTypeOK, UNCHANGED mockVars
    PROVE  MockTypeOK' /\ UNCHANGED tsm_current_state
  BY MockStutters DEF mockVars, dtmVars

\* With its script sent, the client knows where the controller is.
LEMMA SentLeads ==
    ASSUME SessionInvariant, script = << >>
    PROVE  tsm_current_state = at /\ at \in States
  BY NothingLeads DEF SessionInvariant, TypeOK, MockTypeOK, DtmTypeOK, States

\* Starting over.
LEMMA RestartKeeps ==
    ASSUME SessionInvariant, NEW trst \in BOOLEAN, Restart(trst)
    PROVE  SessionInvariant'
  <1>1. script = << >> /\ planned.to = "none" /\ at \in Resting
    BY DEF Restart, Ready, SessionInvariant, PlanFits, DataRegisters
  <1>2. MockTypeOK' /\ UNCHANGED tsm_current_state
    BY TargetWaits DEF SessionInvariant, TypeOK, Restart
  <1>3. TypeOK'
    BY <1>2 DEF SessionInvariant, TypeOK, Restart, DataRegisters
  <1>4. Leads(script', tsm_current_state', at')
    <2>1. tsm_current_state = at /\ at \in States
      BY <1>1, SentLeads
    <2>2. \/ script' = << >> \o ResetMoves
          \/ script' = <<"r">> \o ResetMoves
      BY DEF Restart
    <2>3. at' = "TEST_LOGIC_RESET"
      BY DEF Restart
    <2> QED
      BY <1>1, <1>2, <2>1, <2>2, <2>3, ResetsLead DEF Resting
  <1>5. PlanFits'
    BY <1>1 DEF Restart, PlanFits, Resting
  <1> QED
    BY <1>3, <1>4, <1>5 DEF SessionInvariant

\* Going to a shift state.
LEMMA ApproachKeeps ==
    ASSUME SessionInvariant, NEW shiftState, NEW register, NEW sent, NEW end,
           Approach(shiftState, register, sent, end),
           believed' \in DataRegisters \cup {"unknown"},
           Wire(register, sent) \in Seq(Bit) \ {<< >>},
           \/ /\ shiftState = "SHIFT_IR" /\ register = "ir"
              /\ end = "RUN_TEST_IDLE"
           \/ /\ shiftState = "SHIFT_DR" /\ register \in DataRegisters
              /\ end \in {"RUN_TEST_IDLE", "PAUSE_DR"}
    PROVE  SessionInvariant'
  <1>1. script = << >> /\ planned.to = "none" /\ at \in Resting
    BY DEF Approach, Ready, SessionInvariant, PlanFits, DataRegisters
  <1>2. MockTypeOK' /\ UNCHANGED tsm_current_state
    BY TargetWaits DEF SessionInvariant, TypeOK, Approach
  <1>3. /\ planned'.to = register /\ planned'.sent = sent
        /\ planned'.end = end
    BY DEF Approach
  <1>4. TypeOK'
    BY <1>2, <1>3 DEF SessionInvariant, TypeOK, Approach
  <1>5. Leads(script', tsm_current_state', at')
    <2>1. tsm_current_state = at /\ at \in States
      BY <1>1, SentLeads
    <2>2. Walks(ToShift[shiftState][at], at, shiftState)
      BY <1>1, ToShiftWalks DEF Resting
    <2>3. script' = Moves(ToShift[shiftState][at]) /\ at' = shiftState
      BY DEF Approach
    <2> QED
      BY <1>2, <2>1, <2>2, <2>3, MovesLead
  <1>6. PlanFits'
    <2>1. at' = shiftState
      BY DEF Approach
    <2> QED
      BY <1>3, <2>1 DEF PlanFits
  <1> QED
    BY <1>4, <1>5, <1>6 DEF SessionInvariant

\* Shifting the planned scan.
LEMMA ShiftPlannedKeeps ==
    ASSUME SessionInvariant, ShiftPlanned
    PROVE  SessionInvariant'
  <1> DEFINE word == Wire(planned.to, planned.sent)
  <1>1. /\ script = << >> /\ planned.to # "none"
        /\ script' = ShiftBits(word) \o Moves(FromExit[planned.end])
        /\ at' = planned.end /\ planned' = NoScan /\ bits' = << >>
        /\ UNCHANGED <<believed, mockVars>>
    BY DEF ShiftPlanned
  <1>2. MockTypeOK' /\ UNCHANGED tsm_current_state
    BY <1>1, TargetWaits DEF SessionInvariant, TypeOK
  <1>3. TypeOK'
    <2>1. planned'.to = "none" /\ bits' \in Seq(Bit)
      BY <1>1 DEF NoScan
    <2> QED
      BY <1>1, <1>2, <2>1 DEF SessionInvariant, TypeOK
  <1>4. PICK exit \in States :
            /\ word \in Seq(Bit) /\ word # << >>
            /\ Successor(at, 0) = at /\ Successor(at, 1) = exit
            /\ Walks(FromExit[planned.end], exit, planned.end)
            /\ planned.end \in Resting
    <2>1. CASE planned.to = "ir"
      <3>1. /\ at = "SHIFT_IR" /\ planned.end = "RUN_TEST_IDLE"
            /\ word \in Seq(Bit) /\ word # << >>
        BY <1>1, <2>1 DEF SessionInvariant, PlanFits, DataRegisters
      <3>2. /\ Successor("SHIFT_IR", 0) = "SHIFT_IR"
            /\ Successor("SHIFT_IR", 1) = "EXIT1_IR"
            /\ "EXIT1_IR" \in States
        BY DEF Successor, OnOne, OnZero, States, TapStates
      <3> QED
        BY <3>1, <3>2, FromExitWalks DEF Resting
    <2>2. CASE planned.to # "ir"
      <3>1. /\ at = "SHIFT_DR"
            /\ planned.end \in {"RUN_TEST_IDLE", "PAUSE_DR"}
            /\ word \in Seq(Bit) /\ word # << >>
        BY <1>1, <2>2 DEF SessionInvariant, PlanFits
      <3>2. /\ Successor("SHIFT_DR", 0) = "SHIFT_DR"
            /\ Successor("SHIFT_DR", 1) = "EXIT1_DR"
            /\ "EXIT1_DR" \in States
        BY DEF Successor, OnOne, OnZero, States, TapStates
      <3> QED
        BY <3>1, <3>2, FromExitWalks DEF Resting
    <2> QED
      BY <2>1, <2>2
  <1>5. Leads(script', tsm_current_state', at')
    <2>1. tsm_current_state = at /\ at \in States
      BY <1>1, SentLeads
    <2>2. Leads(ShiftBits(word), at, exit)
      BY <1>4, <2>1, ShiftBitsLead
    <2>3. Leads(Moves(FromExit[planned.end]), exit, planned.end)
      BY <1>4, MovesLead
    <2> QED
      BY <1>1, <1>2, <2>1, <2>2, <2>3, ScriptsLead
  <1>6. PlanFits'
    BY <1>1, <1>4 DEF PlanFits, NoScan
  <1> QED
    BY <1>3, <1>5, <1>6 DEF SessionInvariant

\* Whatever the client decides.
LEMMA DecideKeeps ==
    ASSUME SessionInvariant, Decide
    PROVE  SessionInvariant'
  <1>1. ASSUME NEW trst \in BOOLEAN, Restart(trst)
        PROVE  SessionInvariant'
    BY <1>1, RestartKeeps
  <1>2. ASSUME NEW register \in DataRegisters \cup {"unknown"},
               Instruct(register)
        PROVE  SessionInvariant'
    BY <1>2, WireTypes, ApproachKeeps DEF Instruct
  <1>3. ASSUME NEW end \in {"RUN_TEST_IDLE", "PAUSE_DR"},
               believed \in DataRegisters, NEW sent,
               Wire(believed, sent) \in Seq(Bit) \ {<< >>}, Access(sent, end)
        PROVE  SessionInvariant'
    BY <1>3, ApproachKeeps DEF Access, SessionInvariant, TypeOK
  <1>4. ASSUME NEW end \in {"RUN_TEST_IDLE", "PAUSE_DR"},
               believed \in {"id_code", "dtmcs"}, NEW word \in WideWords,
               Access(word, end)
        PROVE  SessionInvariant'
    BY <1>3, <1>4, WireTypes DEF DataRegisters
  <1>5. ASSUME NEW end \in {"RUN_TEST_IDLE", "PAUSE_DR"}, believed = "dmi",
               NEW s \in Scans, Access(s, end)
        PROVE  SessionInvariant'
    BY <1>3, <1>5, WireTypes DEF DataRegisters
  <1> QED
    BY <1>1, <1>2, <1>4, <1>5 DEF Decide

\* Nothing happening changes nothing.
LEMMA SessionStutters ==
    ASSUME SessionInvariant, UNCHANGED vars
    PROVE  SessionInvariant'
  <1>1. MockTypeOK' /\ UNCHANGED tsm_current_state
    BY TargetWaits DEF SessionInvariant, TypeOK, vars
  <1>2. UNCHANGED <<script, at, planned, believed, bits>>
    BY DEF vars, clientVars
  <1> QED
    BY <1>1, <1>2 DEF SessionInvariant, TypeOK, PlanFits

(***************************************************************************)
(* The results.                                                            *)
(***************************************************************************)

\* The inductive invariant holds in every reachable state.
THEOREM SessionInvariantHolds == Spec => []SessionInvariant
  <1>1. Init => SessionInvariant
    BY SessionInit
  <1>2. SessionInvariant /\ [Next]_vars => SessionInvariant'
    BY SendKeeps, ShiftPlannedKeeps, DecideKeeps, SessionStutters DEF Next
  <1> QED
    BY <1>1, <1>2, PTL DEF Spec

\* Every register of the target, and what the client has read, keeps its type.
THEOREM SessionTypeCorrect == Spec => []TypeOK
  <1>1. SessionInvariant => TypeOK
    BY DEF SessionInvariant
  <1> QED
    BY <1>1, SessionInvariantHolds, PTL

\* Whenever a script ends, the TAP controller is in the state the client
\* believes it in: whatever it held at power-on, whatever the client sent,
\* scans left in the pause state, scans too short or too long for the
\* register, restarts with and without r.
THEOREM ClientKnowsStateHolds == Spec => []ClientKnowsState
  <1>1. SessionInvariant => ClientKnowsState
    BY SentLeads DEF ClientKnowsState
  <1> QED
    BY <1>1, SessionInvariantHolds, PTL

\* The session is a behaviour of the target: the client only sends commands.
THEOREM SessionIsMock == Spec => MockSpec
  <1>1. Init => MockInit
    BY DEF Init
  <1>2. [Next]_vars => [MockNext]_mockVars
    <2>1. ASSUME Send
          PROVE  MockNext
      BY <2>1, DriveMoves DEF Send, MockNext
    <2>2. ASSUME ShiftPlanned \/ Decide
          PROVE  UNCHANGED mockVars
      BY <2>2 DEF ShiftPlanned, Decide, Restart, Instruct, Access, Approach
    <2>3. ASSUME UNCHANGED vars
          PROVE  UNCHANGED mockVars
      BY <2>3 DEF vars
    <2> QED
      BY <2>1, <2>2, <2>3 DEF Next
  <1> QED
    BY <1>1, <1>2, PTL DEF Spec, MockSpec

\* So the dmi container only ever takes the request it was handed or an
\* answer to the same address with op 00.
THEOREM SessionAnswersHaveShape == Spec => DmiAnswersHaveShape
  BY SessionIsMock, MockAnswersHaveShape, PTL

(***************************************************************************)
(* Scripts, command by command.                                            *)
(***************************************************************************)

\* What is left of a sequence after the first j.
Rest(s, j) == SubSeq(s, j + 1, Len(s))

\* The commands that are left begin with the next one.
LEMMA RestStep ==
    ASSUME NEW S, NEW s \in Seq(S), NEW j \in Nat, j < Len(s)
    PROVE  /\ Rest(s, j) \in Seq(S) /\ Rest(s, j) # << >>
           /\ Head(Rest(s, j)) = s[j + 1]
           /\ Tail(Rest(s, j)) = Rest(s, j + 1)
  <1>1. PICK n \in Nat : n = Len(s)
    BY LenProperties
  <1>2. j + 1 \in 1..n /\ n \in (j + 1)..n
    BY <1>1
  <1>3. Rest(s, j) \in Seq(S) /\ Len(Rest(s, j)) = n - j
    <2>1. \A i \in (j + 1)..n : s[i] \in S
      BY <1>1, LenProperties
    <2> QED
      BY <1>1, <1>2, <2>1, SubSeqProperties DEF Rest
  <1>4. Rest(s, j) # << >>
    BY <1>1, <1>3, EmptySeq
  <1> QED
    BY <1>1, <1>2, <1>3, <1>4, HeadTailOfSubSeq DEF Rest

\* All of it is left at first and nothing in the end.
LEMMA RestEnds ==
    ASSUME NEW S, NEW s \in Seq(S)
    PROVE  Rest(s, 0) = s /\ Rest(s, Len(s)) = << >>
  BY SubSeqFull, SubSeqEmpty, LenProperties DEF Rest

\* The first of two scripts is sent first.
LEMMA HeadOfScripts ==
    ASSUME NEW S, NEW a \in Seq(S), NEW b \in Seq(S), a # << >>
    PROVE  /\ a \o b # << >>
           /\ Head(a \o b) = Head(a) /\ Tail(a \o b) = Tail(a) \o b
  <1>1. PICK n \in Nat, m \in Nat : n = Len(a) /\ m = Len(b) /\ n >= 1
    BY EmptySeq, LenProperties
  <1>2. /\ a \o b \in Seq(S) /\ Len(a \o b) = n + m
        /\ \A i \in 1..(n + m) :
              (a \o b)[i] = IF i <= n THEN a[i] ELSE b[i - n]
    BY <1>1, ConcatProperties
  <1>3. a \o b # << >>
    BY <1>1, <1>2, EmptySeq
  <1>4. Head(a \o b) = (a \o b)[1] /\ Head(a) = a[1]
    BY <1>2, <1>3
  <1>5. (a \o b)[1] = a[1]
    BY <1>1, <1>2
  <1>6. /\ Tail(a \o b) \in Seq(S) /\ Len(Tail(a \o b)) = n + m - 1
        /\ \A i \in 1..(n + m - 1) : Tail(a \o b)[i] = (a \o b)[i + 1]
    BY <1>1, <1>2, <1>3, HeadTailProperties
  <1>7. /\ Tail(a) \in Seq(S) /\ Len(Tail(a)) = n - 1
        /\ \A i \in 1..(n - 1) : Tail(a)[i] = a[i + 1]
    BY <1>1, HeadTailProperties
  <1>8. /\ Tail(a) \o b \in Seq(S) /\ Len(Tail(a) \o b) = n + m - 1
        /\ \A i \in 1..(n + m - 1) :
              (Tail(a) \o b)[i] = IF i <= n - 1 THEN Tail(a)[i]
                                  ELSE b[i - (n - 1)]
    BY <1>1, <1>7, ConcatProperties
  <1>9. ASSUME NEW i \in 1..(n + m - 1)
        PROVE  Tail(a \o b)[i] = (Tail(a) \o b)[i]
    <2>1. i + 1 \in 1..(n + m) /\ (i + 1) - n = i - (n - 1)
      OBVIOUS
    <2>2. CASE i <= n - 1
      BY <1>2, <1>6, <1>7, <1>8, <2>1, <2>2
    <2>3. CASE ~ (i <= n - 1)
      BY <1>2, <1>6, <1>8, <2>1, <2>3
    <2> QED
      BY <2>2, <2>3
  <1>10. Tail(a \o b) = Tail(a) \o b
    BY <1>6, <1>8, <1>9, SeqEqual
  <1> QED
    BY <1>3, <1>4, <1>5, <1>10

\* The first i + 1 of a word are the first i and one more.
LEMMA FirstBits ==
    ASSUME NEW w \in Seq(Bit), NEW i \in 1..Len(w)
    PROVE  /\ SubSeq(w, 1, i) = Append(SubSeq(w, 1, i - 1), w[i])
           /\ SubSeq(w, 1, i - 1) \in Seq(Bit)
           /\ Len(SubSeq(w, 1, i - 1)) = i - 1
           /\ w[i] \in Bit
  <1>1. PICK n \in Nat : n = Len(w)
    BY LenProperties
  <1>2. \A k \in 1..n : w[k] \in Bit
    BY <1>1, LenProperties
  <1>3. SubSeq(w, 1, i - 1) \in Seq(Bit) /\ Len(SubSeq(w, 1, i - 1)) = i - 1
    <2>1. \A k \in 1..(i - 1) : w[k] \in Bit
      BY <1>1, <1>2
    <2> QED
      BY <1>1, <2>1, SubSeqProperties
  <1>4. SubSeq(w, 1, i) = SubSeq(w, 1, i - 1) \o <<w[i]>>
    <2>1. 1 \in 1..Len(w) /\ i \in 1..Len(w)
      BY <1>1
    <2> QED
      BY <2>1, SubSeqRecursiveSecond
  <1>5. w[i] \in Bit
    BY <1>1, <1>2
  <1> QED
    BY <1>3, <1>4, <1>5, AppendIsConcat

\* The two parts of a sequence of two parts.
LEMMA SubSeqOfParts ==
    ASSUME NEW a \in Seq(Bit), NEW b \in Seq(Bit), a # << >>, b # << >>
    PROVE  /\ SubSeq(a \o b, 1, Len(a)) = a
           /\ SubSeq(a \o b, Len(a) + 1, Len(a) + Len(b)) = b
  <1>1. PICK n \in Nat, m \in Nat : n = Len(a) /\ m = Len(b) /\ n >= 1 /\ m >= 1
    BY EmptySeq, LenProperties
  <1>2. SubSeq(a \o b, 1, n) = SubSeq(a, 1, n)
    <2>1. 1 \in 1..n /\ n \in 1..n
      BY <1>1
    <2> QED
      BY <1>1, <2>1, SubSeqOfConcat1
  <1>3. SubSeq(a \o b, n + 1, n + m) = SubSeq(b, 1, m)
    <2>1. /\ n + 1 \in (n + 1)..(n + m) /\ n + m \in (n + 1)..(n + m)
          /\ (n + 1) - n = 1 /\ (n + m) - n = m
      BY <1>1
    <2> QED
      BY <1>1, <2>1, SubSeqOfConcat2
  <1> QED
    BY <1>1, <1>2, <1>3, SubSeqFull

(***************************************************************************)
(* What the client knows of the target while it sends a script: the        *)
(* invariant of the refinement.                                            *)
(***************************************************************************)

\* What the client may send to each register.
Sendable(to, sent) ==
    \/ to = "ir" /\ sent \in DataRegisters \cup {"unknown"}
    \/ to \in {"id_code", "dtmcs"} /\ sent \in WideWords
    \/ to = "dmi" /\ sent \in Scans

\* The bits of the scan the client shifts, or shifted last.
ScanWord == Wire(scan.to, scan.sent)

\* A planned scan is one the client may send, to the register it believes in.
PlanKnown ==
    planned.to # "none" =>
        /\ Sendable(planned.to, planned.sent)
        /\ IF planned.to = "ir" THEN planned.sent = believed
                                ELSE planned.to = believed

InstructionLeaving == {"SHIFT_IR", "EXIT1_IR", "PAUSE_IR", "EXIT2_IR"}

\* The register the client believes selected is selected, except on the way of
\* the scan that selects it and on the way of a reset.
Knows ==
    /\ tsm_current_state = "TEST_LOGIC_RESET"
         => instruction_container_register = IR_IDCODE
    /\ at = "TEST_LOGIC_RESET" => believed = "id_code"
    /\ /\ believed \in DataRegisters /\ planned.to # "ir"
       /\ at # "TEST_LOGIC_RESET"
       /\ tsm_current_state \notin InstructionLeaving
       => Selected = believed

\* Nothing writes dtmcs.
Context ==
    container["dtmcs"] = PowerOn["dtmcs"] /\ PlanKnown /\ Knows

\* What the client sends before the seven ones of a reset.
ResetPrefixes == { <<"B", "b", "r", "b", "B">>, <<"b", "r", "b", "B">>,
                   <<"r", "b", "B">>, <<"b", "B">>, <<"B">>, <<"r">> }

Resetting ==
    /\ at = "TEST_LOGIC_RESET"
    /\ \E prefix \in ResetPrefixes :
         /\ script = prefix \o ResetMoves
         /\ prefix \in {<<"b", "B">>, <<"B">>}
              => tsm_current_state = "TEST_LOGIC_RESET"

\* The first n bits of the scan are in and the bits in seen are out.  An
\* instruction register holds them only after a scan of its own length.
Scanned(n, seen) ==
    IF scan.to = "ir"
    THEN Len(ScanWord) = IrLen =>
            \A k \in 1..n :
               instruction_shift_register[IrLen - n + k] = ScanWord[k]
    ELSE /\ Len(seen) = n
         /\ Conserved(seen, shift[scan.to], container[scan.to],
                      SubSeq(ScanWord, 1, n))
         /\ shift_amount = (n + 1) % ShiftModulus
         /\ n > 0 => tdo = seen[n]

\* In the shift state of the scan.
InScan ==
    /\ planned.to = "none" /\ Sendable(scan.to, scan.sent)
    /\ at \in {"RUN_TEST_IDLE", "PAUSE_DR"}
    /\ IF scan.to = "ir"
       THEN /\ tsm_current_state = "SHIFT_IR" /\ scan.sent = believed
            /\ at = "RUN_TEST_IDLE"
       ELSE tsm_current_state = "SHIFT_DR" /\ Selected = scan.to

\* Bit i of the scan is next, or shifted in and its answer on TDO, or read.
Shifting ==
    /\ InScan
    /\ \E i \in 1..Len(ScanWord) :
         \/ /\ script = Rest(ShiftBits(ScanWord), 3 * i - 3)
                          \o Moves(FromExit[at])
            /\ Scanned(i - 1, bits)
         \/ /\ script = Rest(ShiftBits(ScanWord), 3 * i - 2)
                          \o Moves(FromExit[at])
            /\ Scanned(i, Append(bits, tdo))
         \/ /\ script = Rest(ShiftBits(ScanWord), 3 * i - 1)
                          \o Moves(FromExit[at])
            /\ Scanned(i, bits)

\* In state s, the commands are left of a move to state t that spoils no scan,
\* with bit m of its path next, low or high.
OnTheWay(commands, s, t) ==
    \E path, route : \E m \in 1..(Len(path) + 1) :
        /\ Follows(route, path, route[1], t) /\ s = route[m]
        /\ \/ commands = Rest(Moves(path), 2 * m - 2)
           \/ commands = Rest(Moves(path), 2 * m - 1)

Moving == OnTheWay(script, tsm_current_state, at)

\* A scan of a data register that has left the shift state is complete, and so
\* is one of the instruction register, if it was long enough.
DataScanned ==
    /\ scan.to \in DataRegisters /\ Sendable(scan.to, scan.sent)
    /\ Selected = scan.to /\ Len(bits) = Len(ScanWord)
    /\ Conserved(bits, shift[scan.to], container[scan.to], ScanWord)

InstructionScanned ==
    /\ scan.to = "ir" /\ Sendable(scan.to, scan.sent) /\ scan.sent = believed
    /\ scan.sent # "unknown" => instruction_shift_register = ScanWord

\* A captured register waits for the second write with the clock low, which
\* ends the script.
Captured ==
    Selected # "none" =>
        /\ shift[Selected] = container[Selected]
        /\ shift_amount = IF script = << >> THEN 1 ELSE 0

Passing ==
    /\ tsm_current_state \in {"EXIT1_DR", "PAUSE_DR", "EXIT2_DR"}
         => DataScanned
    /\ tsm_current_state \in {"EXIT1_IR", "PAUSE_IR", "EXIT2_IR"}
         => InstructionScanned
    /\ tsm_current_state \in {"CAPTURE_DR", "SHIFT_DR"} => Captured

Underway == Resetting \/ Shifting \/ (Moving /\ Passing)

RefinementInvariant == SessionInvariant /\ Context /\ Underway

(***************************************************************************)
(* What the pins do.                                                       *)
(***************************************************************************)

\* A step that touches no register of the port is none of its steps.
Unseen == UNCHANGED <<dmVars, instruction_container_register, container,
                      transcript>>

LEMMA UnseenIsStutter == Unseen => UNCHANGED Port!portVars
  BY DEF Unseen, dmVars, cpu, Port!portVars, Port!dmVars, Port!cpu, Selected

\* The clock low outside the shift states does nothing.
LEMMA LowElsewhere ==
    ASSUME NEW ms, NEW di, set_pins(0, ms, di),
           tsm_current_state \notin {"SHIFT_DR", "SHIFT_IR"}
    PROVE  UNCHANGED <<tsm_current_state, tdo, instruction_container_register,
                       instruction_shift_register, container, shift,
                       shift_amount, dmVars>>
  BY DEF set_pins, set_pins_low, FallingNothing, registers

\* In SHIFT_IR it shifts the instruction register.
LEMMA LowInShiftIr ==
    ASSUME NEW ms, NEW di, set_pins(0, ms, di),
           tsm_current_state = "SHIFT_IR"
    PROVE  /\ UNCHANGED <<tsm_current_state, instruction_container_register,
                          container, shift, shift_amount, dmVars>>
           /\ tdo' = Head(instruction_shift_register)
           /\ instruction_shift_register'
                = ShiftIn(instruction_shift_register, di)
  BY DEF set_pins, set_pins_low, FallingNothing, ShiftIr

\* In SHIFT_DR the selected register, unless shift_amount is 0.
LEMMA LowInShiftDr ==
    ASSUME NEW ms, NEW di, set_pins(0, ms, di),
           tsm_current_state = "SHIFT_DR"
    PROVE  /\ UNCHANGED <<tsm_current_state, instruction_container_register,
                          container, dmVars>>
           /\ Selected # "none" => ShiftDr(di)
  BY DEF set_pins, set_pins_low, FallingNothing, ShiftDr, registers

\* The clock high moves the controller and enters the next state.
LEMMA HighEnters ==
    ASSUME NEW ms, NEW di, NEW s, set_pins(1, ms, di),
           s = Successor(tsm_current_state, ms)
    PROVE  /\ tsm_current_state' = s
           /\ IF s = "UPDATE_DR" /\ Selected = "dmi"
              THEN UpdateDmiRegister(ms, di)
              ELSE state_entered(s) /\ UNCHANGED dmVars
  BY DEF set_pins, set_pins_high, EntersUpdateDmi, UpdateDmiRegister,
         transition

\* Most states do nothing when entered.
LEMMA HighSilent ==
    ASSUME NEW ms, NEW di, set_pins(1, ms, di),
           Successor(tsm_current_state, ms) \notin
             {"TEST_LOGIC_RESET", "CAPTURE_DR", "CAPTURE_IR", "UPDATE_DR",
              "UPDATE_IR"}
    PROVE  UNCHANGED <<tdo, instruction_container_register,
                       instruction_shift_register, container, shift,
                       shift_amount, dmVars>>
  <1>1. PICK s : s = Successor(tsm_current_state, ms)
    OBVIOUS
  <1>2. state_entered(s) /\ UNCHANGED dmVars
    BY <1>1, HighEnters
  <1> QED
    BY <1>1, <1>2 DEF state_entered, registers

\* What a step of the script leaves the client.
LEMMA SendLeaves ==
    ASSUME Send
    PROVE  /\ Drive(Head(script)) /\ script # << >> /\ script' = Tail(script)
           /\ UNCHANGED <<at, planned, believed, scan>>
           /\ Head(script) # "R" => UNCHANGED bits
           /\ IF /\ tsm_current_state' # tsm_current_state
                 /\ tsm_current_state' \in {"UPDATE_DR", "UPDATE_IR"}
              THEN transcript' = Append(transcript, Exchange)
              ELSE UNCHANGED transcript
  <1>1. /\ Drive(Head(script)) /\ script # << >> /\ script' = Tail(script)
        /\ UNCHANGED <<at, planned, believed, scan>>
    BY DEF Send
  <1>2. Head(script) # "R" => UNCHANGED bits
    BY DEF Send
  <1> QED
    BY <1>1, <1>2 DEF Send, RecordUpdate

\* What the client knows outlasts what changes neither side of it.
LEMMA ContextKept ==
    ASSUME Context, UNCHANGED <<at, planned, believed>>,
           UNCHANGED <<tsm_current_state, instruction_container_register,
                       container>>
    PROVE  Context'
  BY DEF Context, PlanKnown, Knows, Selected

(***************************************************************************)
(* The pieces of the scripts.                                              *)
(***************************************************************************)

\* What may be sent has bits.
LEMMA SendableWord ==
    ASSUME NEW to, NEW sent, Sendable(to, sent)
    PROVE  /\ Wire(to, sent) \in Seq(Bit) /\ Wire(to, sent) # << >>
           /\ Len(Wire(to, sent)) \in Nat \ {0}
           /\ to # "ir" => to \in DataRegisters
           /\ to \in DataRegisters \cup {"ir"}
  <1>1. Wire(to, sent) \in Seq(Bit) \ {<< >>}
    BY WireTypes DEF Sendable
  <1>2. Len(Wire(to, sent)) \in Nat \ {0}
    BY <1>1, EmptySeq
  <1> QED
    BY <1>1, <1>2 DEF Sendable, DataRegisters

\* The way out of a scan is a script.
LEMMA ExitMoves ==
    ASSUME NEW end \in {"RUN_TEST_IDLE", "PAUSE_DR"}
    PROVE  Moves(FromExit[end]) \in Seq(Commands)
  <1>1. FromExit[end] = <<1, 0>> \/ FromExit[end] = <<0>>
    BY DEF FromExit
  <1>2. /\ <<1, 0>> \in Seq(Bit) /\ <<1, 0>> # << >>
        /\ <<0>> \in Seq(Bit) /\ <<0>> # << >>
    BY DEF Bit
  <1> QED
    BY <1>1, <1>2, MovesCommands

\* So are the seven ones.
LEMMA ResetScript == ResetMoves \in Seq(Commands)
  <1>1. [i \in 1..7 |-> 1] \in Seq(Bit) /\ [i \in 1..7 |-> 1] # << >>
    BY DEF Bit
  <1> QED
    BY <1>1, MovesCommands DEF ResetMoves

\* And what comes before them, one command at a time.
LEMMA PrefixSteps ==
    ASSUME NEW prefix \in ResetPrefixes
    PROVE  /\ prefix \in Seq(Commands) /\ prefix # << >>
           /\ Tail(prefix) = << >> \/ Tail(prefix) \in ResetPrefixes
           /\ \/ Head(prefix) = "r"
              \/ /\ Head(prefix) \in {"B", "b"}
                 /\ Tail(prefix) \in {<< >>, <<"b", "B">>, <<"B">>}
                      => prefix \in {<<"b", "B">>, <<"B">>}
  <1>1. ASSUME prefix = <<"B", "b", "r", "b", "B">>
        PROVE  /\ prefix \in Seq(Commands) /\ prefix # << >>
               /\ Tail(prefix) = <<"b", "r", "b", "B">> /\ Head(prefix) = "B"
    BY <1>1 DEF Commands
  <1>2. ASSUME prefix = <<"b", "r", "b", "B">>
        PROVE  /\ prefix \in Seq(Commands) /\ prefix # << >>
               /\ Tail(prefix) = <<"r", "b", "B">> /\ Head(prefix) = "b"
    BY <1>2 DEF Commands
  <1>3. ASSUME prefix = <<"r", "b", "B">>
        PROVE  /\ prefix \in Seq(Commands) /\ prefix # << >>
               /\ Tail(prefix) = <<"b", "B">> /\ Head(prefix) = "r"
    BY <1>3 DEF Commands
  <1>4. ASSUME prefix = <<"b", "B">>
        PROVE  /\ prefix \in Seq(Commands) /\ prefix # << >>
               /\ Tail(prefix) = <<"B">> /\ Head(prefix) = "b"
    BY <1>4 DEF Commands
  <1>5. ASSUME prefix = <<"B">>
        PROVE  /\ prefix \in Seq(Commands) /\ prefix # << >>
               /\ Tail(prefix) = << >> /\ Head(prefix) = "B"
    BY <1>5 DEF Commands
  <1>6. ASSUME prefix = <<"r">>
        PROVE  /\ prefix \in Seq(Commands) /\ prefix # << >>
               /\ Tail(prefix) = << >> /\ Head(prefix) = "r"
    BY <1>6 DEF Commands
  <1>7. /\ <<"b", "r", "b", "B">> \notin {<< >>, <<"b", "B">>, <<"B">>}
        /\ <<"r", "b", "B">> \notin {<< >>, <<"b", "B">>, <<"B">>}
    OBVIOUS
  <1> QED
    BY <1>1, <1>2, <1>3, <1>4, <1>5, <1>6, <1>7, Zenon DEF ResetPrefixes

\* A script with commands left in its first part is not sent yet.
LEMMA FirstPart ==
    ASSUME NEW s \in Seq(Commands), NEW j \in Nat, j < Len(s),
           NEW t \in Seq(Commands)
    PROVE  /\ Rest(s, j) \o t # << >>
           /\ Head(Rest(s, j) \o t) = s[j + 1]
           /\ Tail(Rest(s, j) \o t) = Rest(s, j + 1) \o t
  <1>1. /\ Rest(s, j) \in Seq(Commands) /\ Rest(s, j) # << >>
        /\ Head(Rest(s, j)) = s[j + 1] /\ Tail(Rest(s, j)) = Rest(s, j + 1)
    BY RestStep
  <1> DEFINE r == Rest(s, j)
  <1> HIDE DEF r
  <1>2. ASSUME r \in Seq(Commands), r # << >>
        PROVE  r \o t # << >> /\ Head(r \o t) = Head(r)
               /\ Tail(r \o t) = Tail(r) \o t
    BY <1>2, HeadOfScripts
  <1> QED
    BY <1>1, <1>2 DEF r

\* TMS is 1 with the last bit of a scan.
LastBit(w, i) == IF i = Len(w) THEN 1 ELSE 0

\* The three commands of bit i of a scan, and what is left after them.
LEMMA ScanSteps ==
    ASSUME NEW w \in Seq(Bit), NEW i \in 1..Len(w), NEW t \in Seq(Commands)
    PROVE  LET left(j) == Rest(ShiftBits(w), j) \o t IN
           /\ left(3 * i - 3) # << >>
           /\ Head(left(3 * i - 3)) = Digit(0, LastBit(w, i), w[i])
           /\ Tail(left(3 * i - 3)) = left(3 * i - 2)
           /\ left(3 * i - 2) # << >>
           /\ Head(left(3 * i - 2)) = "R"
           /\ Tail(left(3 * i - 2)) = left(3 * i - 1)
           /\ left(3 * i - 1) # << >>
           /\ Head(left(3 * i - 1)) = Digit(1, LastBit(w, i), w[i])
           /\ Tail(left(3 * i - 1)) = left(3 * i)
  <1>1. w # << >>
    BY EmptySeq
  <1> DEFINE s == ShiftBits(w)
             left(j) == Rest(s, j) \o t
  <1>2. /\ s \in Seq(Commands) /\ Len(s) = 3 * Len(w) /\ Len(w) \in Nat
        /\ s[3 * i - 2] = Digit(0, LastBit(w, i), w[i])
        /\ s[3 * i - 1] = "R" /\ s[3 * i] = Digit(1, LastBit(w, i), w[i])
    BY <1>1, ShiftBitsCommands DEF LastBit
  <1> HIDE DEF s
  <1>3. ASSUME NEW j \in Nat, j < Len(s)
        PROVE  /\ left(j) # << >> /\ Head(left(j)) = s[j + 1]
               /\ Tail(left(j)) = left(j + 1)
    BY <1>2, <1>3, FirstPart
  <1>4. /\ 3 * i - 3 \in Nat /\ 3 * i - 2 \in Nat /\ 3 * i - 1 \in Nat
        /\ 3 * i - 3 < Len(s) /\ 3 * i - 2 < Len(s) /\ 3 * i - 1 < Len(s)
        /\ (3 * i - 3) + 1 = 3 * i - 2 /\ (3 * i - 2) + 1 = 3 * i - 1
        /\ (3 * i - 1) + 1 = 3 * i
    BY <1>2
  <1> HIDE DEF left
  <1>5. /\ left(3 * i - 3) # << >> /\ Head(left(3 * i - 3)) = s[3 * i - 2]
        /\ Tail(left(3 * i - 3)) = left(3 * i - 2)
    BY <1>3, <1>4
  <1>6. /\ left(3 * i - 2) # << >> /\ Head(left(3 * i - 2)) = s[3 * i - 1]
        /\ Tail(left(3 * i - 2)) = left(3 * i - 1)
    BY <1>3, <1>4
  <1>7. /\ left(3 * i - 1) # << >> /\ Head(left(3 * i - 1)) = s[3 * i]
        /\ Tail(left(3 * i - 1)) = left(3 * i)
    BY <1>3, <1>4
  <1> QED
    BY <1>2, <1>5, <1>6, <1>7 DEF left, s

\* The two commands of bit m of a move, and the one that ends it.
LEMMA MoveSteps ==
    ASSUME NEW path \in Seq(Bit), path # << >>, NEW m \in 1..(Len(path) + 1)
    PROVE  LET left(j) == Rest(Moves(path), j)
               last == IF m > Len(path) THEN Len(path) ELSE m IN
           /\ left(2 * m - 2) # << >>
           /\ Head(left(2 * m - 2)) = Digit(0, path[last], 0)
           /\ Tail(left(2 * m - 2)) = left(2 * m - 1)
           /\ left(2 * m - 1) = << >> <=> m = Len(path) + 1
           /\ m <= Len(path) =>
                /\ path[m] \in Bit
                /\ Head(left(2 * m - 1)) = Digit(1, path[m], 0)
                /\ Tail(left(2 * m - 1)) = left(2 * m)
  <1> DEFINE s == Moves(path)
             n == Len(path)
  <1>1. /\ n \in Nat \ {0} /\ s \in Seq(Commands) /\ Len(s) = 2 * n + 1
        /\ \A i \in 1..n : /\ path[i] \in Bit
                           /\ s[2 * i - 1] = Digit(0, path[i], 0)
                           /\ s[2 * i] = Digit(1, path[i], 0)
        /\ s[2 * n + 1] = Digit(0, path[n], 0)
    BY MovesCommands
  <1> HIDE DEF s, n
  <1>2. ASSUME NEW j \in Nat, j < Len(s)
        PROVE  /\ Rest(s, j) # << >> /\ Head(Rest(s, j)) = s[j + 1]
               /\ Tail(Rest(s, j)) = Rest(s, j + 1)
    BY <1>1, <1>2, RestStep
  <1>3. Rest(s, Len(s)) = << >>
    BY <1>1, RestEnds
  <1>4. /\ m \in 1..(n + 1)
        /\ 2 * m - 2 \in Nat /\ 2 * m - 2 < Len(s) /\ (2 * m - 2) + 1 = 2 * m - 1
        /\ 2 * m - 1 \in Nat /\ (2 * m - 1) + 1 = 2 * m
        /\ m <= n => 2 * m - 1 < Len(s)
        /\ m = n + 1 => (2 * m - 1 = 2 * n + 1 /\ 2 * m - 1 = Len(s))
    <2>1. m \in 1..(n + 1)
      BY DEF n
    <2>2. PICK k \in Nat : k = n
      BY <1>1
    <2> QED
      BY <1>1, <2>1, <2>2
  <1>5. /\ Rest(s, 2 * m - 2) # << >>
        /\ Head(Rest(s, 2 * m - 2)) = s[2 * m - 1]
        /\ Tail(Rest(s, 2 * m - 2)) = Rest(s, 2 * m - 1)
    BY <1>2, <1>4
  <1>6. CASE m <= n
    <2>1. m \in 1..n /\ ~ (m > n) /\ m # n + 1
      BY <1>1, <1>4, <1>6
    <2>2. /\ Rest(s, 2 * m - 1) # << >>
          /\ Head(Rest(s, 2 * m - 1)) = s[2 * m]
          /\ Tail(Rest(s, 2 * m - 1)) = Rest(s, 2 * m)
      BY <1>2, <1>4, <1>6
    <2> QED
      BY <1>1, <1>5, <1>6, <2>1, <2>2 DEF s, n
  <1>7. CASE ~ (m <= n)
    <2>1. m = n + 1 /\ m > n
      BY <1>1, <1>4, <1>7
    <2> QED
      BY <1>1, <1>3, <1>4, <1>5, <1>7, <2>1 DEF s, n
  <1> QED
    BY <1>6, <1>7

(***************************************************************************)
(* The client decides.                                                     *)
(***************************************************************************)

\* With its script sent, the client is on no reset and in no scan.
LEMMA SentIsPassing ==
    ASSUME RefinementInvariant, script = << >>
    PROVE  Passing /\ tsm_current_state = at /\ at \in States
  <1>1. tsm_current_state = at /\ at \in States
    BY SentLeads DEF RefinementInvariant
  <1>2. ~ Resetting
    <2>1. ASSUME NEW prefix \in ResetPrefixes
          PROVE  prefix \o ResetMoves # << >>
      BY PrefixSteps, ResetScript, HeadOfScripts
    <2> QED
      BY <2>1 DEF Resetting
  <1>3. ~ Shifting
    <2> SUFFICES ASSUME Shifting
                 PROVE  FALSE
      OBVIOUS
    <2>1. PICK i \in 1..Len(ScanWord) :
            \/ script = Rest(ShiftBits(ScanWord), 3 * i - 3)
                          \o Moves(FromExit[at])
            \/ script = Rest(ShiftBits(ScanWord), 3 * i - 2)
                          \o Moves(FromExit[at])
            \/ script = Rest(ShiftBits(ScanWord), 3 * i - 1)
                          \o Moves(FromExit[at])
      BY DEF Shifting
    <2>2. ScanWord \in Seq(Bit)
      BY SendableWord DEF Shifting, InScan, ScanWord
    <2>3. Moves(FromExit[at]) \in Seq(Commands)
      BY ExitMoves DEF Shifting, InScan
    <2> QED
      BY <2>1, <2>2, <2>3, ScanSteps
  <1> QED
    BY <1>1, <1>2, <1>3 DEF RefinementInvariant, Underway

\* A move begins where the controller is.
LEMMA MoveBegins ==
    ASSUME NEW path, NEW s, NEW t, Walks(path, s, t)
    PROVE  OnTheWay(Moves(path), s, t)
  <1>1. PICK route : Follows(route, path, s, t)
    BY DEF Walks
  <1>2. /\ path \in Seq(Bit) /\ path # << >> /\ route[1] = s
    BY <1>1 DEF Follows
  <1>3. Moves(path) \in Seq(Commands) /\ Len(path) \in Nat
    BY <1>2, MovesCommands
  <1>4. Moves(path) = Rest(Moves(path), 0)
    BY <1>3, RestEnds
  <1>5. 1 \in 1..(Len(path) + 1) /\ 2 * 1 - 2 = 0
    BY <1>3
  <1>6. /\ Follows(route, path, route[1], t) /\ s = route[1]
        /\ Moves(path) = Rest(Moves(path), 2 * 1 - 2)
    BY <1>1, <1>2, <1>4, <1>5
  <1> QED
    BY <1>5, <1>6 DEF OnTheWay

\* Starting over: the port sees nothing.
LEMMA RestartRefines ==
    ASSUME RefinementInvariant, NEW trst \in BOOLEAN, Restart(trst)
    PROVE  (Context /\ Underway)' /\ Unseen
  <1>1. /\ script = << >> /\ planned.to = "none" /\ at' = "TEST_LOGIC_RESET"
        /\ believed' = "id_code" /\ UNCHANGED <<planned, scan, bits>>
        /\ UNCHANGED mockVars /\ UNCHANGED transcript
        /\ script' = (IF trst THEN <<"r">> ELSE << >>) \o ResetMoves
    BY DEF Restart, Ready
  <1>2. UNCHANGED <<tsm_current_state, tdo, instruction_container_register,
                    instruction_shift_register, container, shift, shift_amount,
                    dmVars>>
    BY <1>1 DEF mockVars, dtmVars, registers
  <1>3. Passing /\ tsm_current_state = at /\ at \in Resting
    BY <1>1, SentIsPassing DEF RefinementInvariant, SessionInvariant, PlanFits,
                               DataRegisters
  <1>4. Context'
    BY <1>1, <1>2 DEF RefinementInvariant, Context, PlanKnown, Knows
  <1>5. CASE trst
    <2>1. script' = <<"r">> \o ResetMoves
      BY <1>1, <1>5
    <2>2. <<"r">> \in ResetPrefixes /\ <<"r">> \notin {<<"b", "B">>, <<"B">>}
      BY DEF ResetPrefixes
    <2>3. Resetting'
      BY <1>1, <2>1, <2>2 DEF Resetting
    <2> QED
      BY <1>1, <1>2, <1>4, <2>3 DEF Underway, Unseen
  <1>6. CASE ~ trst
    <2> DEFINE ones == [i \in 1..7 |-> 1]
    <2>1. script' = Moves(ones)
      <3>1. script' = << >> \o ResetMoves
        BY <1>1, <1>6
      <3>2. << >> \o ResetMoves = ResetMoves
        BY ResetScript, ConcatEmptySeq
      <3> QED
        BY <3>1, <3>2 DEF ResetMoves
    <2>2. Walks(ones, tsm_current_state, "TEST_LOGIC_RESET")
      BY <1>3, ResetWalks DEF Resting
    <2> HIDE DEF ones
    <2>3. Moving'
      BY <1>1, <1>2, <2>1, <2>2, MoveBegins DEF Moving
    <2>4. Passing'
      BY <1>1, <1>2, <1>3 DEF Passing, DataScanned, Selected, ScanWord, Resting
    <2> QED
      BY <1>1, <1>2, <1>4, <2>3, <2>4 DEF Underway, Unseen
  <1> QED
    BY <1>5, <1>6

\* Going to a shift state.
LEMMA ApproachRefines ==
    ASSUME RefinementInvariant,
           NEW shiftState \in {"SHIFT_DR", "SHIFT_IR"}, NEW register, NEW sent,
           NEW end, Approach(shiftState, register, sent, end),
           register # "none", Sendable(register, sent),
           IF register = "ir" THEN sent = believed'
                              ELSE register = believed' /\ UNCHANGED believed
    PROVE  (Context /\ Underway)' /\ Unseen
  <1>1. /\ script = << >> /\ planned.to = "none" /\ at' = shiftState
        /\ script' = Moves(ToShift[shiftState][at])
        /\ planned' = [to |-> register, sent |-> sent, end |-> end]
        /\ UNCHANGED <<scan, bits>>
        /\ UNCHANGED mockVars /\ UNCHANGED transcript
    BY DEF Approach, Ready
  <1>2. UNCHANGED <<tsm_current_state, tdo, instruction_container_register,
                    instruction_shift_register, container, shift, shift_amount,
                    dmVars>>
    BY <1>1 DEF mockVars, dtmVars, registers
  <1>3. Passing /\ tsm_current_state = at /\ at \in Resting
    BY <1>1, SentIsPassing DEF RefinementInvariant, SessionInvariant, PlanFits,
                               DataRegisters
  <1>4. /\ planned'.to = register /\ planned'.sent = sent
    BY <1>1
  <1>5. PlanKnown'
    BY <1>4 DEF PlanKnown
  <1>6. Knows'
    <2>1. /\ tsm_current_state' = "TEST_LOGIC_RESET"
               => instruction_container_register' = IR_IDCODE
          /\ at' # "TEST_LOGIC_RESET"
      BY <1>1, <1>2 DEF RefinementInvariant, Context, Knows
    <2>2. ASSUME believed' \in DataRegisters, register # "ir"
          PROVE  Selected' = believed'
      <3>1. believed' = believed
        BY <2>2
      <3>2. ASSUME at = "TEST_LOGIC_RESET"
            PROVE  Selected = believed
        <4>1. /\ instruction_container_register = IR_IDCODE
              /\ believed = "id_code"
          BY <1>3, <3>2 DEF RefinementInvariant, Context, Knows
        <4> QED
          BY <4>1, ConstantsAssumption DEF Selected, RegisterOf
      <3>3. at # "TEST_LOGIC_RESET" => Selected = believed
        BY <1>1, <1>3, <2>2, <3>1 DEF RefinementInvariant, Context, Knows,
                                      Resting, InstructionLeaving
      <3> QED
        BY <1>2, <3>1, <3>2, <3>3 DEF Selected
    <2> QED
      BY <1>4, <2>1, <2>2 DEF Knows
  <1>7. Context'
    BY <1>2, <1>5, <1>6 DEF Context, RefinementInvariant
  <1>8. Moving'
    <2>1. Walks(ToShift[shiftState][at], tsm_current_state, shiftState)
      BY <1>3, ToShiftWalks DEF Resting
    <2> QED
      BY <1>1, <1>2, <2>1, MoveBegins DEF Moving
  <1>9. Passing'
    BY <1>1, <1>2, <1>3 DEF Passing, DataScanned, Selected, ScanWord, Resting
  <1> QED
    BY <1>1, <1>2, <1>7, <1>8, <1>9 DEF Underway, Unseen

\* Shifting the planned scan.
LEMMA ShiftPlannedRefines ==
    ASSUME RefinementInvariant, ShiftPlanned
    PROVE  (Context /\ Underway)' /\ Unseen
  <1>1. /\ script = << >> /\ planned.to # "none" /\ at' = planned.end
        /\ script' = ShiftBits(Wire(planned.to, planned.sent))
                       \o Moves(FromExit[planned.end])
        /\ planned' = NoScan
        /\ scan' = [to |-> planned.to, sent |-> planned.sent]
        /\ bits' = << >> /\ UNCHANGED believed
        /\ UNCHANGED mockVars /\ UNCHANGED transcript
    BY DEF ShiftPlanned
  <1>2. UNCHANGED <<tsm_current_state, tdo, instruction_container_register,
                    instruction_shift_register, container, shift, shift_amount,
                    dmVars>>
    BY <1>1 DEF mockVars, dtmVars, registers
  <1>3. Passing /\ tsm_current_state = at
    BY <1>1, SentIsPassing
  <1>4. /\ scan'.to = planned.to /\ scan'.sent = planned.sent
        /\ planned'.to = "none"
    BY <1>1 DEF NoScan
  <1>5. /\ Sendable(planned.to, planned.sent)
        /\ IF planned.to = "ir" THEN planned.sent = believed
                                ELSE planned.to = believed
    BY <1>1 DEF RefinementInvariant, Context, PlanKnown
  <1>6. IF planned.to = "ir"
        THEN at = "SHIFT_IR" /\ planned.end = "RUN_TEST_IDLE"
        ELSE /\ at = "SHIFT_DR" /\ planned.to \in DataRegisters
             /\ planned.end \in {"RUN_TEST_IDLE", "PAUSE_DR"}
    BY <1>1, NoDataRegister DEF RefinementInvariant, SessionInvariant, PlanFits
  <1>7. planned.to # "ir" => Selected = planned.to
    BY <1>3, <1>5, <1>6 DEF RefinementInvariant, Context, Knows,
                            InstructionLeaving
  <1>8. Context'
    <2>1. PlanKnown'
      BY <1>4 DEF PlanKnown
    <2>2. Knows'
      <3>1. /\ tsm_current_state' # "TEST_LOGIC_RESET"
            /\ at' # "TEST_LOGIC_RESET"
        BY <1>1, <1>2, <1>3, <1>6
      <3>2. planned.to = "ir" => tsm_current_state' \in InstructionLeaving
        BY <1>2, <1>3, <1>6 DEF InstructionLeaving
      <3>3. planned.to # "ir" => Selected' = believed'
        BY <1>1, <1>2, <1>5, <1>7 DEF Selected
      <3> QED
        BY <3>1, <3>2, <3>3 DEF Knows
    <2> QED
      BY <1>2, <2>1, <2>2 DEF Context, RefinementInvariant
  <1> DEFINE word == Wire(planned.to, planned.sent)
  <1>9. /\ word \in Seq(Bit) /\ Len(word) \in Nat \ {0} /\ word # << >>
    BY <1>5, SendableWord
  <1>10. ScanWord' = word
    BY <1>4 DEF ScanWord
  <1> HIDE DEF word
  <1>11. Scanned(0, << >>)'
    <2>1. CASE planned.to = "ir"
      BY <1>4, <2>1 DEF Scanned
    <2>2. CASE planned.to # "ir"
      <3>1. /\ planned.to \in DataRegisters
            /\ shift[planned.to] = container[planned.to] /\ shift_amount = 1
        BY <1>1, <1>3, <1>6, <1>7, <2>2, NoDataRegister DEF Passing, Captured
      <3>2. (0 + 1) % ShiftModulus = 1
        BY ProgramConstants
      <3>3. SubSeq(word, 1, 0) = << >>
        BY <1>9, SubSeqEmpty
      <3>4. shift[planned.to] \in Seq(Bit)
        BY <3>1, RegisterWords DEF RefinementInvariant, SessionInvariant,
                                   TypeOK, MockTypeOK
      <3>5. Conserved(<< >>, shift[planned.to], container[planned.to], << >>)
        BY <3>1, <3>4, ConcatEmptySeq DEF Conserved
      <3>6. /\ scan'.to = planned.to /\ scan'.to # "ir"
            /\ UNCHANGED <<shift, container, shift_amount>>
        BY <1>2, <1>4, <2>2
      <3>7. /\ scan'.to # "ir" /\ Len(<< >>) = 0 /\ ~ (0 > 0)
            /\ Conserved(<< >>, shift'[scan'.to], container'[scan'.to],
                         SubSeq(ScanWord', 1, 0))
            /\ shift_amount' = (0 + 1) % ShiftModulus
        <4>1. SubSeq(ScanWord', 1, 0) = << >>
          BY <1>10, <3>3
        <4>2. /\ shift'[scan'.to] = shift[planned.to]
              /\ container'[scan'.to] = container[planned.to]
          BY <3>6
        <4>3. shift_amount' = (0 + 1) % ShiftModulus
          BY <3>1, <3>2, <3>6
        <4>4. Len(<< >>) = 0 /\ ~ (0 > 0)
          OBVIOUS
        <4>5. Conserved(<< >>, shift'[scan'.to], container'[scan'.to],
                        SubSeq(ScanWord', 1, 0))
          BY <3>5, <4>1, <4>2 DEF Conserved
        <4> QED
          BY <3>6, <4>3, <4>4, <4>5
      <3> QED
        BY <3>7 DEF Scanned
    <2> QED
      BY <2>1, <2>2
  <1>12. 1 \in 1..Len(ScanWord') /\ 3 * 1 - 3 = 0 /\ 1 - 1 = 0
    BY <1>9, <1>10
  <1>13. script' = Rest(ShiftBits(ScanWord'), 0) \o Moves(FromExit[at'])
    <2>1. ShiftBits(word) \in Seq(Commands)
      BY <1>9, ShiftBitsCommands
    <2>2. Rest(ShiftBits(word), 0) = ShiftBits(word)
      BY <2>1, RestEnds
    <2> QED
      BY <1>1, <1>10, <2>2 DEF word
  <1>14. Shifting'
    <2>1. /\ planned'.to = "none" /\ Sendable(scan'.to, scan'.sent)
          /\ at' \in {"RUN_TEST_IDLE", "PAUSE_DR"}
      BY <1>1, <1>4, <1>5, <1>6
    <2>2. IF scan'.to = "ir"
          THEN /\ tsm_current_state' = "SHIFT_IR" /\ scan'.sent = believed'
               /\ at' = "RUN_TEST_IDLE"
          ELSE tsm_current_state' = "SHIFT_DR" /\ Selected' = scan'.to
      BY <1>1, <1>2, <1>3, <1>4, <1>5, <1>6, <1>7 DEF Selected
    <2>3. Scanned(0, bits)'
      BY <1>1, <1>11 DEF Scanned
    <2> QED
      BY <1>12, <1>13, <2>1, <2>2, <2>3 DEF Shifting, InScan
  <1> QED
    BY <1>1, <1>2, <1>8, <1>14 DEF Underway, Unseen

(***************************************************************************)
(* The target obeys a command of a reset.                                  *)
(***************************************************************************)

\* A reset of the target is a reset of the port.
LEMMA ResetIsReset ==
    ASSUME instruction_container_register' = IR_IDCODE,
           UNCHANGED <<dmVars, container, transcript>>
    PROVE  Port!Reset
  <1>1. Selected' = "id_code"
    BY ConstantsAssumption DEF Selected, RegisterOf
  <1>2. UNCHANGED Port!dmVars /\ UNCHANGED container["id_code"]
    BY DEF dmVars, cpu, Port!dmVars, Port!cpu
  <1> QED
    BY <1>1, <1>2 DEF Port!Reset

\* The seven ones that follow.
LEMMA OnesFollow ==
    ASSUME NEW s \in Resting, NEW commands, commands = << >> \o ResetMoves
    PROVE  OnTheWay(commands, s, "TEST_LOGIC_RESET")
  <1>1. commands = Moves([i \in 1..7 |-> 1])
    <2>1. << >> \o ResetMoves = ResetMoves
      BY ResetScript, ConcatEmptySeq
    <2> QED
      BY <2>1 DEF ResetMoves
  <1>2. Walks([i \in 1..7 |-> 1], s, "TEST_LOGIC_RESET")
    BY ResetWalks DEF Resting
  <1> QED
    BY <1>1, <1>2, MoveBegins

\* r and the commands around it.
LEMMA ResettingRefines ==
    ASSUME RefinementInvariant, Send, Resetting
    PROVE  (Context /\ Underway)' /\ (Unseen \/ Port!Reset)
  <1>1. PICK prefix \in ResetPrefixes :
            /\ script = prefix \o ResetMoves
            /\ prefix \in {<<"b", "B">>, <<"B">>}
                 => tsm_current_state = "TEST_LOGIC_RESET"
    BY DEF Resetting
  <1>2. /\ Head(script) = Head(prefix)
        /\ Tail(script) = Tail(prefix) \o ResetMoves
    BY <1>1, PrefixSteps, ResetScript, HeadOfScripts
  <1>3. /\ Drive(Head(prefix)) /\ script' = Tail(prefix) \o ResetMoves
        /\ UNCHANGED <<at, planned, believed, scan>>
        /\ at = "TEST_LOGIC_RESET" /\ believed = "id_code"
    BY <1>2, SendLeaves DEF Resetting, RefinementInvariant, Context, Knows
  <1>4. ASSUME tsm_current_state' \notin {"UPDATE_DR", "UPDATE_IR"}
               \/ tsm_current_state' = tsm_current_state
        PROVE  UNCHANGED transcript
    BY <1>4, SendLeaves
  <1>5. CASE Head(prefix) = "r"
    <2>1. reset /\ UNCHANGED dmVars
      BY <1>3, <1>5, OtherCommandEffect
    <2>2. /\ tsm_current_state' = "TEST_LOGIC_RESET"
          /\ instruction_container_register' = IR_IDCODE
          /\ UNCHANGED container
      BY <2>1 DEF reset, tsm_reset, state_entered, ResetIr
    <2>3. UNCHANGED transcript
      BY <1>4, <2>2
    <2>4. Port!Reset
      BY <2>1, <2>2, <2>3, ResetIsReset
    <2>5. Context'
      BY <1>3, <2>2 DEF RefinementInvariant, Context, PlanKnown, Knows
    <2>6. Underway'
      <3>1. CASE Tail(prefix) = << >>
        <4>1. OnTheWay(script', tsm_current_state', at')
          BY <1>3, <2>2, <3>1, OnesFollow DEF Resting
        <4>2. Passing'
          BY <2>2 DEF Passing
        <4> QED
          BY <4>1, <4>2 DEF Underway, Moving
      <3>2. CASE Tail(prefix) \in ResetPrefixes
        BY <1>3, <2>2, <3>2 DEF Underway, Resetting
      <3> QED
        BY <3>1, <3>2, PrefixSteps
    <2> QED
      BY <2>4, <2>5, <2>6
  <1>6. CASE Head(prefix) \in {"B", "b"}
    <2>1. UNCHANGED mockVars
      BY <1>3, <1>6, OtherCommandEffect
    <2>2. UNCHANGED <<tsm_current_state, instruction_container_register,
                      container, dmVars>>
      BY <2>1 DEF mockVars, dtmVars, registers
    <2>3. UNCHANGED transcript
      BY <1>4, <2>2
    <2>4. Context'
      BY <1>3, <2>2, ContextKept DEF RefinementInvariant
    <2>5. /\ Tail(prefix) \in {<< >>, <<"b", "B">>, <<"B">>}
               => prefix \in {<<"b", "B">>, <<"B">>}
          /\ Tail(prefix) = << >> \/ Tail(prefix) \in ResetPrefixes
      BY <1>6, PrefixSteps
    <2>6. Underway'
      <3>1. CASE Tail(prefix) = << >>
        <4>1. tsm_current_state' = "TEST_LOGIC_RESET"
          BY <1>1, <2>2, <2>5, <3>1
        <4>2. OnTheWay(script', tsm_current_state', at')
          BY <1>3, <3>1, <4>1, OnesFollow DEF Resting
        <4>3. Passing'
          BY <4>1 DEF Passing
        <4> QED
          BY <4>2, <4>3 DEF Underway, Moving
      <3>2. CASE Tail(prefix) \in ResetPrefixes
        <4>1. Tail(prefix) \in {<<"b", "B">>, <<"B">>}
                => tsm_current_state' = "TEST_LOGIC_RESET"
          BY <1>1, <2>2, <2>5
        <4> QED
          BY <1>3, <3>2, <4>1 DEF Underway, Resetting
      <3> QED
        BY <2>5, <3>1, <3>2
    <2> QED
      BY <2>2, <2>3, <2>4, <2>6 DEF Unseen
  <1> QED
    BY <1>5, <1>6, PrefixSteps

(***************************************************************************)
(* The target obeys a command of a move.                                   *)
(***************************************************************************)

\* Where the client is going.
LEMMA Destinations ==
    ASSUME SessionInvariant
    PROVE  at \in Resting \cup {"SHIFT_DR", "SHIFT_IR"}
  BY DEF SessionInvariant, PlanFits

\* A write with the clock low: the last one of a move into SHIFT_DR counts as
\* the first of the scan, and moves no bit.
LEMMA LowMoveRefines ==
    ASSUME RefinementInvariant, Send, Passing, NEW path, NEW route,
           NEW m \in 1..(Len(path) + 1), Follows(route, path, route[1], at),
           tsm_current_state = route[m], script = Rest(Moves(path), 2 * m - 2)
    PROVE  (Context /\ Underway)' /\ Unseen
  <1>1. /\ path \in Seq(Bit) /\ path # << >> /\ route[Len(path) + 1] = at
        /\ \A i \in 1..Len(path) : Spares(route[i], path[i], at)
    BY DEF Follows
  <1>2. PICK n \in Nat \ {0} : n = Len(path)
    BY <1>1, MovesCommands
  <1>3. PICK k \in 1..n : k = IF m > Len(path) THEN Len(path) ELSE m
    BY <1>2
  <1>4. /\ Head(script) = Digit(0, path[k], 0)
        /\ script' = Rest(Moves(path), 2 * m - 1)
        /\ script' = << >> <=> m = n + 1
        /\ script # << >>
    BY <1>1, <1>2, <1>3, MoveSteps, SendLeaves
  <1>5. path[k] \in Bit /\ 0 \in Bit
    BY <1>1, <1>2, <1>3, LenProperties DEF Bit
  <1>6. /\ set_pins(0, path[k], 0)
        /\ UNCHANGED <<at, planned, believed, scan, bits>>
    BY <1>4, <1>5, PinWriteEffect, SendLeaves
  <1>7. UNCHANGED <<tsm_current_state, instruction_container_register,
                    container, dmVars>>
    BY <1>6, LowElsewhere, LowInShiftIr, LowInShiftDr
  <1>8. Unseen
    BY <1>7, SendLeaves DEF Unseen
  <1>9. Context'
    BY <1>6, <1>7, ContextKept DEF RefinementInvariant
  <1>10. Moving'
    <2>1. /\ Follows(route, path, route[1], at') /\ tsm_current_state' = route[m]
          /\ script' = Rest(Moves(path), 2 * m - 1)
      BY <1>4, <1>6, <1>7
    <2> QED
      BY <2>1 DEF Moving, OnTheWay
  <1>11. at \in Resting \cup {"SHIFT_DR", "SHIFT_IR"}
    BY Destinations DEF RefinementInvariant
  <1>12. Passing'
    <2>1. CASE tsm_current_state \notin {"SHIFT_DR", "SHIFT_IR"}
      <3>1. UNCHANGED <<instruction_shift_register, shift, shift_amount>>
        BY <1>6, <2>1, LowElsewhere
      <3>2. tsm_current_state = "CAPTURE_DR" => script' # << >>
        BY <1>1, <1>2, <1>4, <1>11 DEF Resting
      <3>3. /\ UNCHANGED DataScanned /\ UNCHANGED InstructionScanned
        BY <1>6, <1>7, <3>1 DEF DataScanned, InstructionScanned, ScanWord,
           Selected, Conserved
      <3>4. tsm_current_state = "CAPTURE_DR" => (Captured => Captured')
        BY <1>4, <1>7, <3>1, <3>2 DEF Captured, Selected
      <3> QED
        BY <1>7, <2>1, <3>3, <3>4 DEF Passing
    <2>2. CASE tsm_current_state = "SHIFT_IR"
      BY <1>7, <2>2 DEF Passing
    <2>3. CASE tsm_current_state = "SHIFT_DR"
      <3>1. m = n + 1
        <4>1. m \in 1..n => Spares(route[m], path[m], at)
          BY <1>1, <1>2
        <4> QED
          BY <1>2, <2>3, <4>1 DEF Spares
      <3>2. Captured'
        <4>1. CASE Selected = "none"
          BY <1>7, <4>1 DEF Captured, Selected
        <4>2. CASE Selected # "none"
          <5>1. shift[Selected] = container[Selected] /\ shift_amount = 0
            BY <1>4, <2>3, <4>2 DEF Passing, Captured
          <5>2. ShiftDr(0)
            BY <1>6, <2>3, <4>2, LowInShiftDr
          <5>3. Incremented(0) = 1
            BY ProgramConstants DEF Incremented
          <5>4. UNCHANGED shift /\ shift_amount' = 1
            BY <5>1, <5>2, <5>3 DEF ShiftDr
          <5> QED
            BY <1>4, <1>7, <3>1, <5>1, <5>4 DEF Captured, Selected
        <4> QED
          BY <4>1, <4>2
      <3> QED
        BY <1>7, <2>3, <3>2 DEF Passing
    <2> QED
      BY <2>1, <2>2, <2>3
  <1> QED
    BY <1>8, <1>9, <1>10, <1>12 DEF Underway

(***************************************************************************)
(* The debug module of the port is the debug module of the target.  The    *)
(* names of the two are different symbols to the provers, so each handler  *)
(* is compared with its namesake, for the instance Port the property names *)
(* and for the instance of the proofs about it.                            *)
(***************************************************************************)

PortFacts == INSTANCE JtagPortProofs WITH
    selected <- Selected, id <- container["id_code"],
    Idcode <- PowerOn["id_code"], Dtmcs <- PowerOn["dtmcs"]

\* The addresses.
LEMMA PortAddresses ==
    /\ Port!DataRegister = DataRegister /\ PortFacts!DataRegister = DataRegister
    /\ Port!DMCONTROL = DMCONTROL /\ PortFacts!DMCONTROL = DMCONTROL
    /\ Port!DMSTATUS = DMSTATUS /\ PortFacts!DMSTATUS = DMSTATUS
    /\ Port!HARTINFO = HARTINFO /\ PortFacts!HARTINFO = HARTINFO
    /\ Port!ABSTRACTCS = ABSTRACTCS /\ PortFacts!ABSTRACTCS = ABSTRACTCS
    /\ Port!COMMAND = COMMAND /\ PortFacts!COMMAND = COMMAND
  BY DEF
    DataRegister, Port!DataRegister, PortFacts!DataRegister, DMCONTROL,
    Port!DMCONTROL, PortFacts!DMCONTROL, DMSTATUS, Port!DMSTATUS,
    PortFacts!DMSTATUS, HARTINFO, Port!HARTINFO, PortFacts!HARTINFO,
    ABSTRACTCS, Port!ABSTRACTCS, PortFacts!ABSTRACTCS, COMMAND, Port!COMMAND,
    PortFacts!COMMAND

\* A read of a data register.
LEMMA SameDataRead ==
    ASSUME NEW q
    PROVE  /\ Port!DataRead(q) <=> DataRead(q)
           /\ PortFacts!DataRead(q) <=> DataRead(q)
  <1>1. Port!DataRead(q) <=> DataRead(q)
    BY PortAddresses DEF
      cpu, Port!cpu, DataRead, Port!DataRead, Answers, Port!Answers
  <1>2. PortFacts!DataRead(q) <=> DataRead(q)
    BY PortAddresses DEF
      cpu, PortFacts!cpu, DataRead, PortFacts!DataRead, Answers,
      PortFacts!Answers
  <1> QED
    BY <1>1, <1>2

\* A write of one.
LEMMA SameDataWrite ==
    ASSUME NEW q
    PROVE  /\ Port!DataWrite(q) <=> DataWrite(q)
           /\ PortFacts!DataWrite(q) <=> DataWrite(q)
  <1>1. Port!DataWrite(q) <=> DataWrite(q)
    BY PortAddresses DEF
      cpu, Port!cpu, DataWrite, Port!DataWrite, Leaves, Port!Leaves
  <1>2. PortFacts!DataWrite(q) <=> DataWrite(q)
    BY PortAddresses DEF
      cpu, PortFacts!cpu, DataWrite, PortFacts!DataWrite, Leaves,
      PortFacts!Leaves
  <1> QED
    BY <1>1, <1>2

\* A read of dmcontrol.
LEMMA SameDmcontrolRead ==
    ASSUME NEW q
    PROVE  /\ Port!DmcontrolRead(q) <=> DmcontrolRead(q)
           /\ PortFacts!DmcontrolRead(q) <=> DmcontrolRead(q)
  <1>1. Port!DmcontrolRead(q) <=> DmcontrolRead(q)
    BY PortAddresses DEF
      cpu, Port!cpu, DmcontrolRead, Port!DmcontrolRead, Answers, Port!Answers,
      Reads, Port!Reads
  <1>2. PortFacts!DmcontrolRead(q) <=> DmcontrolRead(q)
    BY PortAddresses DEF
      cpu, PortFacts!cpu, DmcontrolRead, PortFacts!DmcontrolRead, Answers,
      PortFacts!Answers, Reads, PortFacts!Reads
  <1> QED
    BY <1>1, <1>2

\* A write of dmcontrol, with the instruction it makes the CPU run.
LEMMA SameDmcontrolWrite ==
    ASSUME NEW q
    PROVE  /\ Port!DmcontrolWrite(q) <=> DmcontrolWrite(q)
           /\ PortFacts!DmcontrolWrite(q) <=> DmcontrolWrite(q)
  <1>1. Port!DmcontrolWrite(q) <=> DmcontrolWrite(q)
    BY PortAddresses DEF
      cpu, Port!cpu, DmcontrolWrite, Port!DmcontrolWrite, Writes, Port!Writes,
      Leaves, Port!Leaves, Answers, Port!Answers, SingleStep, Port!SingleStep,
      Resumereq, Port!Resumereq, cpu_step, Port!cpu_step, Hasel, Port!Hasel,
      Dmactive, Port!Dmactive, HartArrayUnsupported,
      Port!HartArrayUnsupported, BitOf, Port!BitOf, W, Port!W
  <1>2. PortFacts!DmcontrolWrite(q) <=> DmcontrolWrite(q)
    BY PortAddresses DEF
      cpu, PortFacts!cpu, DmcontrolWrite, PortFacts!DmcontrolWrite, Writes,
      PortFacts!Writes, Leaves, PortFacts!Leaves, Answers, PortFacts!Answers,
      SingleStep, PortFacts!SingleStep, Resumereq, PortFacts!Resumereq,
      cpu_step, PortFacts!cpu_step, Hasel, PortFacts!Hasel, Dmactive,
      PortFacts!Dmactive, HartArrayUnsupported,
      PortFacts!HartArrayUnsupported, BitOf, PortFacts!BitOf, W, PortFacts!W
  <1> QED
    BY <1>1, <1>2

\* An access to dmstatus.
LEMMA SameDmstatusAccess ==
    ASSUME NEW q
    PROVE  /\ Port!DmstatusAccess(q) <=> DmstatusAccess(q)
           /\ PortFacts!DmstatusAccess(q) <=> DmstatusAccess(q)
  <1>1. Port!DmstatusAccess(q) <=> DmstatusAccess(q)
    BY PortAddresses DEF
      cpu, Port!cpu, DmstatusAccess, Port!DmstatusAccess, Answers,
      Port!Answers, DmstatusWord, Port!DmstatusWord, W, Port!W
  <1>2. PortFacts!DmstatusAccess(q) <=> DmstatusAccess(q)
    BY PortAddresses DEF
      cpu, PortFacts!cpu, DmstatusAccess, PortFacts!DmstatusAccess, Answers,
      PortFacts!Answers, DmstatusWord, PortFacts!DmstatusWord, W, PortFacts!W
  <1> QED
    BY <1>1, <1>2

\* A read of hartinfo.
LEMMA SameHartinfoRead ==
    ASSUME NEW q
    PROVE  /\ Port!HartinfoRead(q) <=> HartinfoRead(q)
           /\ PortFacts!HartinfoRead(q) <=> HartinfoRead(q)
  <1>1. Port!HartinfoRead(q) <=> HartinfoRead(q)
    BY PortAddresses DEF
      cpu, Port!cpu, HartinfoRead, Port!HartinfoRead, Reads, Port!Reads,
      Answers, Port!Answers, W, Port!W
  <1>2. PortFacts!HartinfoRead(q) <=> HartinfoRead(q)
    BY PortAddresses DEF
      cpu, PortFacts!cpu, HartinfoRead, PortFacts!HartinfoRead, Reads,
      PortFacts!Reads, Answers, PortFacts!Answers, W, PortFacts!W
  <1> QED
    BY <1>1, <1>2

\* A read of abstractcs.
LEMMA SameAbstractcsRead ==
    ASSUME NEW q
    PROVE  /\ Port!AbstractcsRead(q) <=> AbstractcsRead(q)
           /\ PortFacts!AbstractcsRead(q) <=> AbstractcsRead(q)
  <1>1. Port!AbstractcsRead(q) <=> AbstractcsRead(q)
    BY PortAddresses DEF
      cpu, Port!cpu, AbstractcsRead, Port!AbstractcsRead, Reads, Port!Reads,
      Answers, Port!Answers, AbstractcsWord, Port!AbstractcsWord, W, Port!W
  <1>2. PortFacts!AbstractcsRead(q) <=> AbstractcsRead(q)
    BY PortAddresses DEF
      cpu, PortFacts!cpu, AbstractcsRead, PortFacts!AbstractcsRead, Reads,
      PortFacts!Reads, Answers, PortFacts!Answers, AbstractcsWord,
      PortFacts!AbstractcsWord, W, PortFacts!W
  <1> QED
    BY <1>1, <1>2

\* A read of command.
LEMMA SameCommandRead ==
    ASSUME NEW q
    PROVE  /\ Port!CommandRead(q) <=> CommandRead(q)
           /\ PortFacts!CommandRead(q) <=> CommandRead(q)
  <1>1. Port!CommandRead(q) <=> CommandRead(q)
    BY PortAddresses DEF
      cpu, Port!cpu, CommandRead, Port!CommandRead, Reads, Port!Reads, Leaves,
      Port!Leaves, Regno, Port!Regno, CSR_MISA, Port!CSR_MISA, SetData0,
      Port!SetData0, MisaWord, Port!MisaWord, W, Port!W
  <1>2. PortFacts!CommandRead(q) <=> CommandRead(q)
    BY PortAddresses DEF
      cpu, PortFacts!cpu, CommandRead, PortFacts!CommandRead, Reads,
      PortFacts!Reads, Leaves, PortFacts!Leaves, Regno, PortFacts!Regno,
      CSR_MISA, PortFacts!CSR_MISA, SetData0, PortFacts!SetData0, MisaWord,
      PortFacts!MisaWord, W, PortFacts!W
  <1> QED
    BY <1>1, <1>2

\* An access to a register of the CPU.
LEMMA SameAccessRegister ==
    ASSUME NEW q
    PROVE  /\ Port!AccessRegister(q) <=> AccessRegister(q)
           /\ PortFacts!AccessRegister(q) <=> AccessRegister(q)
  <1>1. Port!AccessRegister(q) <=> AccessRegister(q)
    BY PortAddresses DEF
      cpu, Port!cpu, AccessRegister, Port!AccessRegister, Writes, Port!Writes,
      Leaves, Port!Leaves, Cmdtype, Port!Cmdtype, Size, Port!Size, IsWrite,
      Port!IsWrite, BitOf, Port!BitOf, Regno, Port!Regno, ReadableRegisters,
      Port!ReadableRegisters, RegisterValue, Port!RegisterValue, SetData0,
      Port!SetData0, MisaWord, Port!MisaWord, CSR_MISA, Port!CSR_MISA,
      DPC_REGNO, Port!DPC_REGNO, W, Port!W
  <1>2. PortFacts!AccessRegister(q) <=> AccessRegister(q)
    BY PortAddresses DEF
      cpu, PortFacts!cpu, AccessRegister, PortFacts!AccessRegister, Writes,
      PortFacts!Writes, Leaves, PortFacts!Leaves, Cmdtype, PortFacts!Cmdtype,
      Size, PortFacts!Size, IsWrite, PortFacts!IsWrite, BitOf,
      PortFacts!BitOf, Regno, PortFacts!Regno, ReadableRegisters,
      PortFacts!ReadableRegisters, RegisterValue, PortFacts!RegisterValue,
      SetData0, PortFacts!SetData0, MisaWord, PortFacts!MisaWord, CSR_MISA,
      PortFacts!CSR_MISA, DPC_REGNO, PortFacts!DPC_REGNO, W, PortFacts!W
  <1> QED
    BY <1>1, <1>2

\* What a read finds in a cell, and the segments after it.
LEMMA SameSegments ==
    ASSUME NEW cell, NEW word
    PROVE  /\ Port!CellWords(cell) = CellWords(cell)
           /\ PortFacts!CellWords(cell) = CellWords(cell)
           /\ Port!SegmentsWith(cell, word) = SegmentsWith(cell, word)
           /\ PortFacts!SegmentsWith(cell, word) = SegmentsWith(cell, word)
  <1>1. ASSUME NEW hi
        PROVE  /\ Port!Segment(hi) = Segment(hi)
               /\ PortFacts!Segment(hi) = Segment(hi)
    BY DEF Segment, Port!Segment, PortFacts!Segment
  <1>2. ASSUME NEW f, NEW x, NEW value
        PROVE  /\ Port!With(f, x, value) = With(f, x, value)
               /\ PortFacts!With(f, x, value) = With(f, x, value)
    BY DEF With, Port!With, PortFacts!With
  <1>3. /\ Port!CellWords(cell) = CellWords(cell)
        /\ PortFacts!CellWords(cell) = CellWords(cell)
    BY <1>1 DEF CellWords, Port!CellWords, PortFacts!CellWords, Known,
                Port!Known, PortFacts!Known, WordAt, Port!WordAt,
                PortFacts!WordAt
  <1>4. /\ Port!SegmentsWith(cell, word) = SegmentsWith(cell, word)
        /\ PortFacts!SegmentsWith(cell, word) = SegmentsWith(cell, word)
    BY <1>1, <1>2 DEF SegmentsWith, Port!SegmentsWith, PortFacts!SegmentsWith
  <1> QED
    BY <1>3, <1>4

\* An access to its memory.
LEMMA SameAccessMemory ==
    ASSUME NEW q
    PROVE  /\ Port!AccessMemory(q) <=> AccessMemory(q)
           /\ PortFacts!AccessMemory(q) <=> AccessMemory(q)
  <1>1. Port!AccessMemory(q) <=> AccessMemory(q)
    BY PortAddresses, SameSegments DEF
      cpu, Port!cpu, AccessMemory, Port!AccessMemory, Leaves, Port!Leaves,
      Writes, Port!Writes, Cmdtype, Port!Cmdtype, Arg1For, Port!Arg1For,
      IsWrite, Port!IsWrite, NextData1, Port!NextData1, Plus, Port!Plus,
      Increment, Port!Increment, Postincrement, Port!Postincrement, BitOf,
      Port!BitOf, Size, Port!Size, Cell, Port!Cell, W, Port!W, HalfSize,
      Port!HalfSize
  <1>2. PortFacts!AccessMemory(q) <=> AccessMemory(q)
    BY PortAddresses, SameSegments DEF
      cpu, PortFacts!cpu, AccessMemory, PortFacts!AccessMemory, Leaves,
      PortFacts!Leaves, Writes, PortFacts!Writes, Cmdtype, PortFacts!Cmdtype,
      Arg1For, PortFacts!Arg1For, IsWrite, PortFacts!IsWrite, NextData1,
      PortFacts!NextData1, Plus, PortFacts!Plus, Increment,
      PortFacts!Increment, Postincrement, PortFacts!Postincrement, BitOf,
      PortFacts!BitOf, Size, PortFacts!Size, Cell, PortFacts!Cell, W,
      PortFacts!W, HalfSize, PortFacts!HalfSize
  <1> QED
    BY <1>1, <1>2

\* A command of no known type.
LEMMA SameOtherCommand ==
    ASSUME NEW q
    PROVE  /\ Port!OtherCommand(q) <=> OtherCommand(q)
           /\ PortFacts!OtherCommand(q) <=> OtherCommand(q)
  <1>1. Port!OtherCommand(q) <=> OtherCommand(q)
    BY PortAddresses DEF
      cpu, Port!cpu, OtherCommand, Port!OtherCommand, Writes, Port!Writes,
      Leaves, Port!Leaves, Cmdtype, Port!Cmdtype
  <1>2. PortFacts!OtherCommand(q) <=> OtherCommand(q)
    BY PortAddresses DEF
      cpu, PortFacts!cpu, OtherCommand, PortFacts!OtherCommand, Writes,
      PortFacts!Writes, Leaves, PortFacts!Leaves, Cmdtype, PortFacts!Cmdtype
  <1> QED
    BY <1>1, <1>2

\* A request that is ignored.
LEMMA SameIgnored ==
    ASSUME NEW q
    PROVE  /\ Port!Ignored(q) <=> Ignored(q)
           /\ PortFacts!Ignored(q) <=> Ignored(q)
  <1>1. Port!Ignored(q) <=> Ignored(q)
    BY PortAddresses DEF
      cpu, Port!cpu, Ignored, Port!Ignored, Leaves, Port!Leaves
  <1>2. PortFacts!Ignored(q) <=> Ignored(q)
    BY PortAddresses DEF
      cpu, PortFacts!cpu, Ignored, PortFacts!Ignored, Leaves, PortFacts!Leaves
  <1> QED
    BY <1>1, <1>2

\* So a request does the same to both.
LEMMA SameDebugModule ==
    ASSUME NEW s
    PROVE  (Port!UpdateDmi(s) <=> UpdateDmi(s))
           /\ (PortFacts!UpdateDmi(s) <=> UpdateDmi(s))
  <1>1. /\ Port!Request(s) = Request(s)
        /\ PortFacts!Request(s) = Request(s)
    BY DEF Request, Port!Request, PortFacts!Request, ZeroScan, Port!ZeroScan,
           PortFacts!ZeroScan, W, Port!W, PortFacts!W
  <1>2. ASSUME NEW q
        PROVE  (Port!Handle(q) <=> Handle(q))
               /\ (PortFacts!Handle(q) <=> Handle(q))
    BY SameDataRead, SameDataWrite, SameDmcontrolRead, SameDmcontrolWrite,
       SameDmstatusAccess, SameHartinfoRead, SameAbstractcsRead,
       SameCommandRead, SameAccessRegister, SameAccessMemory,
       SameOtherCommand, SameIgnored
       DEF Handle, Port!Handle, PortFacts!Handle
  <1> QED
    BY <1>1, <1>2 DEF UpdateDmi, Port!UpdateDmi, PortFacts!UpdateDmi

\* The port of the proofs is the port of the property.
LEMMA SamePort ==
    /\ Port!PortInit <=> PortFacts!PortInit
    /\ [Port!PortNext]_(Port!portVars)
         => [PortFacts!PortNext]_(PortFacts!portVars)
    /\ Port!ReadsBack <=> PortFacts!ReadsBack
  <1>1. Port!PortInit <=> PortFacts!PortInit
    BY DEF Port!PortInit, PortFacts!PortInit, Port!DmInit, PortFacts!DmInit,
           Port!init_dmi, PortFacts!init_dmi, Port!DMCONTROL,
           PortFacts!DMCONTROL, Port!W, PortFacts!W
  <1>2. /\ Port!portVars = PortFacts!portVars /\ Port!dmVars = PortFacts!dmVars
        /\ Port!portVars' = PortFacts!portVars'
        /\ (UNCHANGED Port!dmVars) <=> UNCHANGED PortFacts!dmVars
    BY DEF Port!portVars, PortFacts!portVars, Port!dmVars, PortFacts!dmVars,
           Port!cpu, PortFacts!cpu
  <1>3. ASSUME NEW register
        PROVE  Port!Select(register) => PortFacts!Select(register)
    BY <1>2 DEF Port!Select, PortFacts!Select, Port!Completes,
                PortFacts!Completes
  <1>4. Port!SelectUnknown => PortFacts!SelectUnknown
    BY <1>2 DEF Port!SelectUnknown, PortFacts!SelectUnknown, Port!Completes,
                PortFacts!Completes
  <1>5. Port!Reset => PortFacts!Reset
    BY <1>2 DEF Port!Reset, PortFacts!Reset
  <1>6. ASSUME NEW sent
        PROVE  /\ Port!ScanIdcode(sent) => PortFacts!ScanIdcode(sent)
               /\ Port!ScanDtmcs(sent) => PortFacts!ScanDtmcs(sent)
    BY <1>2 DEF Port!ScanIdcode, PortFacts!ScanIdcode, Port!ScanDtmcs,
                PortFacts!ScanDtmcs, Port!Completes, PortFacts!Completes,
                Port!ReadThrough, PortFacts!ReadThrough, Port!LeftBehind,
                PortFacts!LeftBehind
  <1>7. ASSUME NEW s
        PROVE  Port!Transact(s) => PortFacts!Transact(s)
    BY SameDebugModule DEF Port!Transact, PortFacts!Transact,
                           Port!Completes, PortFacts!Completes
  <1>8. Port!PortNext => PortFacts!PortNext
    BY <1>3, <1>4, <1>5, <1>6, <1>7 DEF Port!PortNext, PortFacts!PortNext
  <1>9. Port!ReadsBack <=> PortFacts!ReadsBack
    BY PortAddresses DEF Port!ReadsBack, PortFacts!ReadsBack,
         Port!IsTransaction, PortFacts!IsTransaction, Port!Disturbed,
         PortFacts!Disturbed, Port!Writes, PortFacts!Writes, Port!Reads,
         PortFacts!Reads
  <1> QED
    BY <1>1, <1>2, <1>8, <1>9

\* What is assumed of the requests and contents of the one holds of the other.
LEMMA PortAssumption ==
    /\ Scans \subseteq PortFacts!Requests
    /\ ProgramCounters \subseteq PortFacts!Words
    /\ RegisterFiles \subseteq [0..31 -> PortFacts!Words]
    /\ PortFacts!IsMemory(LoadedProgram)
    /\ MemoryWords \subseteq PortFacts!Words
  <1>1. PortFacts!HalfSize = HalfSize
    BY DEF HalfSize, PortFacts!HalfSize
  <1>2. PortFacts!Half = Half
    BY <1>1 DEF Half, PortFacts!Half
  <1>3. PortFacts!Words = Words
    BY <1>2 DEF Words, PortFacts!Words
  <1>4. PortFacts!Requests = Requests
    BY <1>3 DEF Requests, PortFacts!Requests
  <1>5. PortFacts!Indices = Indices
    BY <1>1 DEF Indices, PortFacts!Indices
  <1>6. PortFacts!IsMemory(LoadedProgram)
    BY <1>2, <1>3, <1>5, DebuggerAssumption DEF IsMemory, PortFacts!IsMemory
  <1> QED
    BY <1>3, <1>4, <1>6, DebuggerAssumption

(***************************************************************************)
(* Entering an update state with a complete scan is the exchange.          *)
(***************************************************************************)

\* A register and the bits read from it, once its scan is complete.
LEMMA DataScannedWords ==
    ASSUME SessionInvariant, DataScanned
    PROVE  /\ scan.to \in DataRegisters
           /\ ScanWord \in Seq(Bit) /\ ScanWord # << >>
           /\ bits \in Seq(Bit) /\ bits # << >> /\ Len(bits) = Len(ScanWord)
           /\ container[scan.to] \in Seq(Bit) /\ shift[scan.to] \in Seq(Bit)
           /\ shift[scan.to] # << >>
           /\ Len(container[scan.to]) = Width[scan.to]
           /\ Len(shift[scan.to]) = Width[scan.to]
           /\ bits \o shift[scan.to] = container[scan.to] \o ScanWord
  <1>1. /\ scan.to \in DataRegisters /\ Sendable(scan.to, scan.sent)
        /\ Len(bits) = Len(ScanWord)
        /\ bits \o shift[scan.to] = container[scan.to] \o ScanWord
    BY DEF DataScanned, Conserved
  <1>2. /\ ScanWord \in Seq(Bit) /\ ScanWord # << >>
        /\ Len(ScanWord) \in Nat \ {0}
    BY <1>1, SendableWord DEF ScanWord
  <1>3. bits \in Seq(Bit) /\ bits # << >>
    BY <1>1, <1>2 DEF SessionInvariant, TypeOK
  <1>4. /\ container[scan.to] \in Seq(Bit) /\ shift[scan.to] \in Seq(Bit)
        /\ Len(container[scan.to]) = Width[scan.to]
        /\ Len(shift[scan.to]) = Width[scan.to]
        /\ Width[scan.to] \in Nat \ {0}
    BY <1>1, RegisterWords, ConstantTypes DEF SessionInvariant, TypeOK,
                                              MockTypeOK
  <1>5. shift[scan.to] # << >>
    BY <1>4
  <1> QED
    BY <1>1, <1>2, <1>3, <1>4, <1>5

\* A scan reads the register followed by what is sent, and leaves the rest of
\* the two in it.
LEMMA ScanExchanges ==
    ASSUME SessionInvariant, DataScanned
    PROVE  /\ Port!ReadThrough(container[scan.to], ScanWord) = bits
           /\ Port!LeftBehind(container[scan.to], ScanWord) = shift[scan.to]
  <1>1. /\ SubSeq(bits \o shift[scan.to], 1, Len(bits)) = bits
        /\ SubSeq(bits \o shift[scan.to], Len(bits) + 1,
                  Len(bits) + Len(shift[scan.to])) = shift[scan.to]
    BY DataScannedWords, SubSeqOfParts
  <1> QED
    BY <1>1, DataScannedWords DEF Port!ReadThrough, Port!LeftBehind

\* A dmi scan reads the answer in the container and leaves the request.
LEMMA DmiScanned ==
    ASSUME SessionInvariant, DataScanned, scan.to = "dmi"
    PROVE  /\ scan.sent \in Scans
           /\ Decode(bits) = dmi_container_register
           /\ Decode(shift["dmi"]) = scan.sent
  <1>1. scan.sent \in Scans
    BY DEF DataScanned, Sendable
  <1>2. scan.sent \in Requests /\ dmi_container_register \in Requests
    BY <1>1, DebuggerAssumption DEF SessionInvariant, TypeOK, MockTypeOK,
                                    DmTypeOK
  <1>3. ScanWord = Encode(scan.sent)
    BY DEF ScanWord, Wire
  <1>4. container["dmi"] = Encode(dmi_container_register)
    BY DEF SessionInvariant, TypeOK, MockTypeOK, OneContainer
  <1>5. /\ Len(Encode(scan.sent)) = 41
        /\ Len(Encode(dmi_container_register)) = 41
    BY <1>2, EncodeType, WordIsSequence
  <1>6. bits = Encode(dmi_container_register) /\ shift["dmi"] = Encode(scan.sent)
    <2>1. /\ Len(bits) = Len(container["dmi"])
          /\ Len(shift["dmi"]) = Len(ScanWord)
      BY <1>3, <1>4, <1>5, DataScannedWords
    <2>2. /\ bits \in Seq(Bit) /\ shift["dmi"] \in Seq(Bit)
          /\ container["dmi"] \in Seq(Bit) /\ ScanWord \in Seq(Bit)
          /\ bits \o shift["dmi"] = container["dmi"] \o ScanWord
      BY DataScannedWords
    <2>3. bits = container["dmi"] /\ shift["dmi"] = ScanWord
      BY <2>1, <2>2, ConcatSplits
    <2> QED
      BY <1>3, <1>4, <2>3
  <1> QED
    BY <1>1, <1>2, <1>6, DecodeEncode

\* The scan that selects the data register.
LEMMA DataUpdateRefines ==
    ASSUME RefinementInvariant, DataScanned, NEW ms, NEW di,
           set_pins(1, ms, di),
           Successor(tsm_current_state, ms) = "UPDATE_DR",
           transcript' = Append(transcript, Exchange)
    PROVE  /\ Port!PortNext /\ UNCHANGED instruction_container_register
           /\ UNCHANGED container["dtmcs"]
  <1>1. IF Selected = "dmi" THEN UpdateDmiRegister(ms, di)
                            ELSE UpdateDr /\ UNCHANGED dmVars
    BY HighEnters DEF state_entered
  <1>2. SessionInvariant
    BY DEF RefinementInvariant
  <1>3. Selected = scan.to /\ scan.to \in DataRegisters
    BY DEF DataScanned
  <1>4. /\ DOMAIN container = DataRegisters
        /\ container["dtmcs"] = PowerOn["dtmcs"]
    BY <1>2 DEF SessionInvariant, TypeOK, MockTypeOK, DtmTypeOK,
                RefinementInvariant, Context
  <1>5. UNCHANGED instruction_container_register /\ UNCHANGED Selected
    BY <1>1 DEF UpdateDmiRegister, UpdateDr, Selected
  <1>6. CASE scan.to = "dmi"
    <2>1. Exchange = [to |-> "dmi", request |-> scan.sent,
                      reply |-> dmi_container_register]
      BY <1>2, <1>6, DmiScanned DEF Exchange
    <2>2. /\ UpdateDmi(scan.sent)
          /\ container' = [container EXCEPT
                             !["dmi"] = Encode(dmi_container_register')]
      BY <1>1, <1>2, <1>3, <1>6, DmiScanned DEF UpdateDmiRegister
    <2>3. UNCHANGED <<container["id_code"], container["dtmcs"]>>
      BY <1>4, <2>2 DEF DataRegisters
    <2>4. Port!UpdateDmi(scan.sent)
      BY <2>2, SameDebugModule
    <2>5. Port!Transact(scan.sent)
      BY <1>3, <1>5, <1>6, <2>1, <2>3, <2>4 DEF Port!Transact, Port!Completes
    <2>6. scan.sent \in Scans
      BY <1>2, <1>6, DmiScanned
    <2> QED
      BY <1>5, <2>3, <2>5, <2>6 DEF Port!PortNext
  <1>7. CASE scan.to = "id_code"
    <2>1. /\ container' = [container EXCEPT !["id_code"] = shift["id_code"]]
          /\ UNCHANGED dmVars
      BY <1>1, <1>3, <1>7 DEF UpdateDr
    <2>2. /\ container'["id_code"] = shift["id_code"]
          /\ UNCHANGED container["dtmcs"]
      BY <1>4, <2>1 DEF DataRegisters
    <2>3. scan.sent \in WideWords /\ ScanWord = scan.sent
      BY <1>7 DEF DataScanned, Sendable, ScanWord, Wire
    <2>4. Exchange = [to |-> "id_code", sent |-> scan.sent, read |-> bits]
      BY <1>7 DEF Exchange
    <2>5. UNCHANGED Port!dmVars
      BY <2>1 DEF dmVars, cpu, Port!dmVars, Port!cpu
    <2>6. Port!ScanIdcode(scan.sent)
      BY <1>2, <1>3, <1>5, <1>7, <2>2, <2>3, <2>4, <2>5, ScanExchanges
         DEF Port!ScanIdcode, Port!Completes
    <2> QED
      BY <1>5, <2>2, <2>3, <2>6 DEF Port!PortNext
  <1>8. CASE scan.to = "dtmcs"
    <2>1. UNCHANGED container /\ UNCHANGED dmVars
      BY <1>1, <1>3, <1>8 DEF UpdateDr
    <2>2. scan.sent \in WideWords /\ ScanWord = scan.sent
      BY <1>8 DEF DataScanned, Sendable, ScanWord, Wire
    <2>3. Exchange = [to |-> "dtmcs", sent |-> scan.sent, read |-> bits]
      BY <1>8 DEF Exchange
    <2>4. UNCHANGED Port!dmVars
      BY <2>1 DEF dmVars, cpu, Port!dmVars, Port!cpu
    <2>5. Port!ScanDtmcs(scan.sent)
      BY <1>2, <1>3, <1>4, <1>5, <1>8, <2>1, <2>2, <2>3, <2>4, ScanExchanges
         DEF Port!ScanDtmcs, Port!Completes
    <2> QED
      BY <1>5, <2>1, <2>2, <2>5 DEF Port!PortNext
  <1> QED
    BY <1>3, <1>6, <1>7, <1>8 DEF DataRegisters

\* The scan of the instruction register.
LEMMA InstructionUpdateRefines ==
    ASSUME RefinementInvariant, InstructionScanned, NEW ms, NEW di,
           set_pins(1, ms, di),
           Successor(tsm_current_state, ms) = "UPDATE_IR",
           transcript' = Append(transcript, Exchange)
    PROVE  /\ Port!PortNext /\ UNCHANGED container
           /\ believed \in DataRegisters => Selected' = believed
  <1>1. UpdateIr /\ UNCHANGED dmVars
    BY HighEnters DEF state_entered
  <1>2. /\ scan.to = "ir" /\ scan.sent = believed
        /\ scan.sent \in DataRegisters \cup {"unknown"}
        /\ scan.sent # "unknown" => instruction_shift_register = ScanWord
    BY DEF InstructionScanned, Sendable
  <1>3. Exchange = [to |-> "ir", instruction |-> scan.sent]
    BY <1>2 DEF Exchange
  <1>4. /\ UNCHANGED container
        /\ instruction_container_register' = instruction_shift_register
    BY <1>1 DEF UpdateIr
  <1>5. UNCHANGED Port!dmVars /\ UNCHANGED container["id_code"]
    BY <1>1, <1>4 DEF dmVars, cpu, Port!dmVars, Port!cpu
  <1>6. CASE scan.sent = "unknown"
    <2>1. Selected' \in {"id_code", "dtmcs", "dmi", "none"}
      BY DEF Selected, RegisterOf
    <2>2. Port!SelectUnknown
      BY <1>3, <1>5, <1>6, <2>1 DEF Port!SelectUnknown, Port!Completes
    <2>3. believed \notin DataRegisters
      BY <1>2, <1>6 DEF DataRegisters
    <2> QED
      BY <1>4, <2>2, <2>3 DEF Port!PortNext
  <1>7. CASE scan.sent # "unknown"
    <2>1. ScanWord = InstructionWord[scan.sent] /\ scan.sent \in DataRegisters
      BY <1>2, <1>7 DEF ScanWord, Wire
    <2>2. RegisterOf(InstructionWord[scan.sent]) = scan.sent
      BY <2>1, ConstantsAssumption DEF RegisterOf, InstructionWord,
                                       DataRegisters
    <2>3. Selected' = scan.sent
      BY <1>2, <1>4, <1>7, <2>1, <2>2 DEF Selected
    <2>4. Port!Select(scan.sent)
      BY <1>3, <1>5, <2>3 DEF Port!Select, Port!Completes
    <2> QED
      BY <1>2, <1>4, <2>1, <2>3, <2>4 DEF Port!PortNext, DataRegisters
  <1> QED
    BY <1>6, <1>7

(***************************************************************************)
(* A write with the clock high on the way.                                 *)
(***************************************************************************)

\* What the client knows does not depend on the data register of an update,
\* nor, off the instruction column, on the state.
LEMMA KnowsMoves ==
    ASSUME Context, UNCHANGED <<at, planned, believed>>,
           UNCHANGED container["dtmcs"],
           UNCHANGED instruction_container_register,
           tsm_current_state' # "TEST_LOGIC_RESET",
           tsm_current_state \in InstructionLeaving
             => tsm_current_state' \in InstructionLeaving
    PROVE  Context'
  <1>1. PlanKnown'
    BY DEF Context, PlanKnown
  <1>2. Knows'
    BY DEF Context, Knows, Selected
  <1> QED
    BY <1>1, <1>2 DEF Context

\* From one state to the next on a way that spoils no scan.
LEMMA HighPasses ==
    ASSUME RefinementInvariant, Send, Passing, NEW ms \in Bit,
           Head(script) = Digit(1, ms, 0),
           Spares(tsm_current_state, ms, at), script' # << >>
    PROVE  /\ (Context /\ Passing)'
           /\ Unseen \/ Port!PortNext
           /\ tsm_current_state' = Successor(tsm_current_state, ms)
           /\ UNCHANGED at
  <1>1. /\ tsm_current_state \in States /\ ms \in {0, 1}
        /\ Context /\ SessionInvariant
    BY DEF RefinementInvariant, SessionInvariant, TypeOK, MockTypeOK,
           DtmTypeOK, States, Bit
  <1>2. /\ set_pins(1, ms, 0)
        /\ script # << >>
        /\ UNCHANGED <<at, planned, believed, scan, bits>>
    BY PinWriteEffect, SendLeaves DEF Bit
  <1>3. PICK s : s = Successor(tsm_current_state, ms)
    OBVIOUS
  <1>4. tsm_current_state' = s
    BY <1>2, <1>3, HighEnters
  <1>5. s \notin {"UPDATE_DR", "UPDATE_IR"} => UNCHANGED transcript
    BY <1>4, SendLeaves
  <1>6. CASE s = "TEST_LOGIC_RESET"
    <2>1. ResetIr /\ UNCHANGED dmVars
      BY <1>2, <1>3, <1>6, HighEnters DEF state_entered
    <2>2. /\ instruction_container_register' = IR_IDCODE
          /\ UNCHANGED <<container, transcript>>
      BY <1>5, <1>6, <2>1 DEF ResetIr
    <2>3. Port!Reset
      BY <2>1, <2>2, ResetIsReset
    <2>4. Knows'
      <3>1. tsm_current_state = "TEST_LOGIC_RESET"
              \/ at = "TEST_LOGIC_RESET"
        BY <1>3, <1>6 DEF Spares
      <3>2. tsm_current_state = "TEST_LOGIC_RESET"
              => UNCHANGED instruction_container_register
        BY <1>1, <2>2 DEF Context, Knows
      <3> QED
        BY <1>1, <1>2, <2>2, <3>1, <3>2 DEF Context, Knows, Selected,
                                            InstructionLeaving
    <2>5. Context'
      BY <1>1, <1>2, <2>2, <2>4 DEF Context, PlanKnown
    <2>6. Passing'
      BY <1>4, <1>6 DEF Passing
    <2> QED
      BY <1>2, <1>3, <1>4, <2>3, <2>5, <2>6 DEF Port!PortNext
  <1>7. CASE s = "CAPTURE_DR"
    <2>1. CaptureDr /\ UNCHANGED dmVars
      BY <1>2, <1>3, <1>7, HighEnters DEF state_entered
    <2>2. Unseen
      BY <1>5, <1>7, <2>1 DEF CaptureDr, Unseen
    <2>3. tsm_current_state = "SELECT_DR_SCAN"
      BY <1>1, <1>3, <1>7 DEF States, TapStates, OUT_OF_RANGE, Successor,
                              OnOne, OnZero
    <2>4. Context'
      BY <1>1, <1>2, <1>4, <1>7, <2>2, <2>3, KnowsMoves
         DEF Unseen, InstructionLeaving
    <2>5. Captured'
      <3>1. UNCHANGED Selected /\ UNCHANGED container
        BY <2>2 DEF Unseen, Selected
      <3>2. CASE Selected = "none"
        BY <3>1, <3>2 DEF Captured
      <3>3. CASE Selected # "none"
        <4>1. Selected \in DataRegisters /\ DOMAIN shift = DataRegisters
          BY <1>1, <3>3, SelectedType
             DEF SessionInvariant, TypeOK, MockTypeOK, DtmTypeOK
        <4>2. /\ shift'[Selected] = container[Selected]
              /\ shift_amount' = 0
          BY <2>1, <3>3, <4>1 DEF CaptureDr
        <4> QED
          BY <3>1, <4>2 DEF Captured
      <3> QED
        BY <3>2, <3>3
    <2>6. Passing'
      BY <1>4, <1>7, <2>5 DEF Passing
    <2> QED
      BY <1>2, <1>3, <1>4, <2>2, <2>4, <2>6
  <1>8. CASE s = "CAPTURE_IR"
    <2>1. CaptureIr /\ UNCHANGED dmVars
      BY <1>2, <1>3, <1>8, HighEnters DEF state_entered
    <2>2. Unseen
      BY <1>5, <1>8, <2>1 DEF CaptureIr, Unseen
    <2>3. tsm_current_state = "SELECT_IR_SCAN"
      BY <1>1, <1>3, <1>8 DEF States, TapStates, OUT_OF_RANGE, Successor,
                              OnOne, OnZero
    <2>4. Context'
      BY <1>1, <1>2, <1>4, <1>8, <2>2, <2>3, KnowsMoves
         DEF Unseen, InstructionLeaving
    <2>5. Passing'
      BY <1>4, <1>8 DEF Passing
    <2> QED
      BY <1>2, <1>3, <1>4, <2>2, <2>4, <2>5
  <1>9. CASE s = "UPDATE_DR"
    <2>1. tsm_current_state \in {"EXIT1_DR", "EXIT2_DR"}
      BY <1>1, <1>3, <1>9 DEF States, TapStates, OUT_OF_RANGE, Successor,
                              OnOne, OnZero
    <2>2. DataScanned /\ transcript' = Append(transcript, Exchange)
      BY <1>4, <1>9, <2>1, SendLeaves DEF Passing
    <2>3. /\ Port!PortNext /\ UNCHANGED instruction_container_register
          /\ UNCHANGED container["dtmcs"]
      BY <1>2, <1>3, <1>9, <2>2, DataUpdateRefines
    <2>4. Context'
      BY <1>1, <1>2, <1>4, <1>9, <2>1, <2>3, KnowsMoves
         DEF InstructionLeaving
    <2>5. Passing'
      BY <1>4, <1>9 DEF Passing
    <2> QED
      BY <1>2, <1>3, <1>4, <2>3, <2>4, <2>5
  <1>10. CASE s = "UPDATE_IR"
    <2>1. tsm_current_state \in {"EXIT1_IR", "EXIT2_IR"}
      BY <1>1, <1>3, <1>10 DEF States, TapStates, OUT_OF_RANGE, Successor,
                               OnOne, OnZero
    <2>2. InstructionScanned /\ transcript' = Append(transcript, Exchange)
      BY <1>4, <1>10, <2>1, SendLeaves DEF Passing
    <2>3. /\ Port!PortNext /\ UNCHANGED container
          /\ believed \in DataRegisters => Selected' = believed
      BY <1>2, <1>3, <1>10, <2>2, InstructionUpdateRefines
    <2>4. Knows'
      BY <1>1, <1>2, <1>4, <1>10, <2>3 DEF Context, Knows
    <2>5. Context'
      BY <1>1, <1>2, <2>3, <2>4 DEF Context, PlanKnown
    <2>6. Passing'
      BY <1>4, <1>10 DEF Passing
    <2> QED
      BY <1>2, <1>3, <1>4, <2>3, <2>5, <2>6
  <1>11. CASE s \notin {"TEST_LOGIC_RESET", "CAPTURE_DR", "CAPTURE_IR",
                        "UPDATE_DR", "UPDATE_IR"}
    <2>1. UNCHANGED <<tdo, instruction_container_register,
                      instruction_shift_register, container, shift,
                      shift_amount, dmVars>>
      BY <1>2, <1>3, <1>11, HighSilent
    <2>2. Unseen
      BY <1>5, <1>11, <2>1 DEF Unseen
    <2>3. /\ tsm_current_state \in InstructionLeaving
               => s \in InstructionLeaving
          /\ s \in {"EXIT1_DR", "PAUSE_DR", "EXIT2_DR"}
               => tsm_current_state \in {"EXIT1_DR", "PAUSE_DR", "EXIT2_DR"}
          /\ s \in {"EXIT1_IR", "PAUSE_IR", "EXIT2_IR"}
               => tsm_current_state \in {"EXIT1_IR", "PAUSE_IR", "EXIT2_IR"}
          /\ s = "SHIFT_DR" => tsm_current_state = "CAPTURE_DR"
      BY <1>1, <1>3, <1>11 DEF Spares, States, TapStates, OUT_OF_RANGE,
                               Successor, OnOne, OnZero, InstructionLeaving
    <2>4. Context'
      BY <1>1, <1>2, <1>4, <1>11, <2>1, <2>3, KnowsMoves
    <2>5. /\ UNCHANGED DataScanned /\ UNCHANGED InstructionScanned
      BY <1>2, <2>1 DEF DataScanned, InstructionScanned, ScanWord, Selected,
                        Conserved
    <2>6. Captured => Captured'
      BY <1>2, <2>1 DEF Captured, Selected
    <2>7. Passing'
      BY <1>4, <1>11, <2>3, <2>5, <2>6 DEF Passing
    <2> QED
      BY <1>2, <1>3, <1>4, <2>2, <2>4, <2>7
  <1> QED
    BY <1>6, <1>7, <1>8, <1>9, <1>10, <1>11

\* So a move goes on, or the port takes a step.
LEMMA HighMoveRefines ==
    ASSUME RefinementInvariant, Send, Passing, NEW path, NEW route,
           NEW m \in 1..(Len(path) + 1), Follows(route, path, route[1], at),
           tsm_current_state = route[m], script = Rest(Moves(path), 2 * m - 1)
    PROVE  (Context /\ Underway)' /\ (Unseen \/ Port!PortNext)
  <1>1. /\ path \in Seq(Bit) /\ path # << >>
        /\ \A i \in 1..Len(path) : /\ route[i + 1] = Successor(route[i], path[i])
                                   /\ Spares(route[i], path[i], at)
    BY DEF Follows
  <1>2. Len(path) \in Nat \ {0}
    BY <1>1, MovesCommands
  <1>3. m \in 1..Len(path) /\ m <= Len(path)
    <2>1. script # << >>
      BY SendLeaves
    <2>2. m # Len(path) + 1
      BY <1>1, <2>1, MoveSteps
    <2> QED
      BY <1>2, <2>2
  <1>4. /\ path[m] \in Bit /\ Head(script) = Digit(1, path[m], 0)
        /\ script' = Rest(Moves(path), 2 * m)
    BY <1>1, <1>3, MoveSteps, SendLeaves
  <1>5. /\ m + 1 \in 1..(Len(path) + 1) /\ 2 * (m + 1) - 2 = 2 * m
    BY <1>2, <1>3
  <1>6. script' # << >>
    <2>1. Rest(Moves(path), 2 * (m + 1) - 2) # << >>
      BY <1>1, <1>5, MoveSteps
    <2> QED
      BY <1>4, <1>5, <2>1
  <1>7. Spares(tsm_current_state, path[m], at)
    BY <1>1, <1>3
  <1>8. /\ (Context /\ Passing)' /\ (Unseen \/ Port!PortNext)
        /\ tsm_current_state' = Successor(tsm_current_state, path[m])
        /\ UNCHANGED at
    BY <1>4, <1>6, <1>7, HighPasses
  <1>9. Moving'
    <2>1. /\ Follows(route, path, route[1], at')
          /\ tsm_current_state' = route[m + 1]
          /\ script' = Rest(Moves(path), 2 * (m + 1) - 2)
      BY <1>1, <1>3, <1>4, <1>5, <1>8
    <2> QED
      BY <1>5, <2>1 DEF Moving, OnTheWay
  <1> QED
    BY <1>8, <1>9 DEF Underway

\* Every command of a move.
LEMMA MovingRefines ==
    ASSUME RefinementInvariant, Send, Moving, Passing
    PROVE  (Context /\ Underway)' /\ (Unseen \/ Port!PortNext)
  BY LowMoveRefines, HighMoveRefines DEF Moving, OnTheWay

(***************************************************************************)
(* The target obeys a command of a scan.                                   *)
(***************************************************************************)

\* The bits of two sequences, one after the other, are in their places.
Placed(z, a, b, p, q) ==
    /\ z \in Seq(Bit) /\ Len(z) = p + q
    /\ \A k \in 1..p : z[k] = a[k]
    /\ \A k \in (p + 1)..(p + q) : z[k] = b[k - p]

LEMMA ConcatPlaces ==
    ASSUME NEW a \in Seq(Bit), NEW b \in Seq(Bit)
    PROVE  Placed(a \o b, a, b, Len(a), Len(b))
  <1>1. PICK p, q \in Nat : p = Len(a) /\ q = Len(b)
    BY LenProperties
  <1>2. /\ a \o b \in Seq(Bit) /\ Len(a \o b) = p + q
        /\ \A i \in 1..(p + q) :
              (a \o b)[i] = IF i <= p THEN a[i] ELSE b[i - p]
    BY <1>1, ConcatProperties
  <1>3. ASSUME NEW k \in 1..p
        PROVE  (a \o b)[k] = a[k]
    BY <1>2
  <1>4. ASSUME NEW k \in (p + 1)..(p + q)
        PROVE  (a \o b)[k] = b[k - p]
    <2>1. k \in 1..(p + q) /\ ~ (k <= p)
      OBVIOUS
    <2> QED
      BY <1>2, <2>1
  <1> QED
    BY <1>1, <1>2, <1>3, <1>4 DEF Placed

\* The wrap of shift_amount repeats a bit and loses one.  Among ones, with the
\* register pushed out, that changes nothing.
Ones(s) == \A k \in 1..Len(s) : s[k] = 1

LEMMA WrapConserves ==
    ASSUME NEW n \in Nat, NEW m \in Nat, n > m,
           NEW out \in Seq(Bit), NEW w \in Seq(Bit), NEW c \in Seq(Bit),
           NEW in \in Seq(Bit), Len(w) = m, Len(c) = m, Len(out) = n,
           Len(in) = n, Conserved(out, w, c, in), Ones(in)
    PROVE  /\ out[n] = 1
           /\ Conserved(Append(out, 1), w, c, Append(in, 1))
  <1>1. /\ out \o w \in Seq(Bit) /\ Len(out \o w) = n + m
        /\ \A k \in 1..n : (out \o w)[k] = out[k]
        /\ \A k \in (n + 1)..(n + m) : (out \o w)[k] = w[k - n]
    <2>1. Placed(out \o w, out, w, Len(out), Len(w))
      BY ConcatPlaces, Zenon
    <2> QED
      BY <2>1 DEF Placed
  <1>2. /\ c \o in \in Seq(Bit) /\ Len(c \o in) = m + n
        /\ \A k \in 1..m : (c \o in)[k] = c[k]
        /\ \A k \in (m + 1)..(m + n) : (c \o in)[k] = in[k - m]
    <2>1. Placed(c \o in, c, in, Len(c), Len(in))
      BY ConcatPlaces, Zenon
    <2> QED
      BY <2>1 DEF Placed
  <1>3. ASSUME NEW k \in (m + 1)..(m + n)
        PROVE  (c \o in)[k] = 1 /\ (out \o w)[k] = 1
    <2>1. k - m \in 1..n
      OBVIOUS
    <2>2. in[k - m] = 1
      BY <2>1 DEF Ones
    <2> QED
      BY <1>2, <2>2 DEF Conserved
  <1>4. PICK out1, in1 : out1 = Append(out, 1) /\ in1 = Append(in, 1)
    OBVIOUS
  <1>5. /\ out1 \in Seq(Bit) /\ Len(out1) = n + 1
        /\ \A k \in 1..n : out1[k] = out[k]
        /\ out1[n + 1] = 1
    BY <1>4, AppendProperties DEF Bit
  <1>6. /\ in1 \in Seq(Bit) /\ Len(in1) = n + 1
        /\ \A k \in 1..n : in1[k] = in[k]
        /\ in1[n + 1] = 1
    BY <1>4, AppendProperties DEF Bit
  <1>7. ASSUME NEW k \in 1..(n + 1)
        PROVE  in1[k] = 1
    <2>1. CASE k = n + 1
      BY <1>6, <2>1
    <2>2. CASE k # n + 1
      <3>1. k \in 1..n
        BY <2>2
      <3>2. in[k] = 1
        BY <3>1 DEF Ones
      <3> QED
        BY <1>6, <3>1, <3>2
    <2> QED
      BY <2>1, <2>2
  <1>8. n + 1 \in Nat
    OBVIOUS
  <1>9. /\ out1 \o w \in Seq(Bit) /\ Len(out1 \o w) = n + 1 + m
        /\ \A k \in 1..(n + 1) : (out1 \o w)[k] = out1[k]
        /\ \A k \in (n + 1 + 1)..(n + 1 + m) :
              (out1 \o w)[k] = w[k - (n + 1)]
    <2>1. Placed(out1 \o w, out1, w, Len(out1), Len(w))
      BY <1>5, ConcatPlaces, Zenon
    <2> QED
      BY <1>5, <1>8, <2>1 DEF Placed
  <1>10. /\ c \o in1 \in Seq(Bit) /\ Len(c \o in1) = m + (n + 1)
         /\ \A k \in 1..m : (c \o in1)[k] = c[k]
         /\ \A k \in (m + 1)..(m + (n + 1)) : (c \o in1)[k] = in1[k - m]
    <2>1. Placed(c \o in1, c, in1, Len(c), Len(in1))
      BY <1>6, ConcatPlaces, Zenon
    <2> QED
      BY <1>6, <1>8, <2>1 DEF Placed
  <1>11. ASSUME NEW k \in 1..(n + 1 + m)
         PROVE  (out1 \o w)[k] = (c \o in1)[k]
    <2>1. CASE k \in 1..m
      <3>1. k \in 1..n /\ k \in 1..(n + 1)
        BY <2>1
      <3>2. (out1 \o w)[k] = out[k] /\ (out \o w)[k] = out[k]
        BY <1>1, <1>5, <1>9, <3>1
      <3>3. (c \o in1)[k] = c[k] /\ (c \o in)[k] = c[k]
        BY <1>2, <1>10, <2>1
      <3> QED
        BY <3>2, <3>3 DEF Conserved
    <2>2. CASE k \in (m + 1)..(m + (n + 1))
      <3>1. (c \o in1)[k] = 1
        <4>1. k - m \in 1..(n + 1)
          BY <2>2
        <4> QED
          BY <1>7, <1>10, <2>2, <4>1
      <3>2. CASE k \in (m + 1)..n
        <4>1. k \in 1..n /\ k \in 1..(n + 1) /\ k \in (m + 1)..(m + n)
          BY <3>2
        <4> QED
          BY <1>1, <1>3, <1>5, <1>9, <3>1, <4>1
      <3>3. CASE k = n + 1
        <4>1. k \in 1..(n + 1)
          BY <3>3
        <4> QED
          BY <1>5, <1>9, <3>1, <3>3, <4>1
      <3>4. CASE k \in (n + 2)..(n + 1 + m)
        <4>1. PICK j \in (n + 1)..(n + m) : j = k - 1
          BY <3>4
        <4>2. /\ k - (n + 1) = j - n /\ k \in (n + 1 + 1)..(n + 1 + m)
              /\ j \in (m + 1)..(m + n)
          BY <3>4, <4>1
        <4>3. w[j - n] = 1
          BY <1>1, <1>3, <4>1, <4>2
        <4> QED
          BY <1>9, <3>1, <4>2, <4>3
      <3>5. k \in (m + 1)..n \/ k = n + 1 \/ k \in (n + 2)..(n + 1 + m)
        BY <2>2
      <3> QED
        BY <3>2, <3>3, <3>4, <3>5, Zenon
    <2>3. k \in 1..m \/ k \in (m + 1)..(m + (n + 1))
      OBVIOUS
    <2> QED
      BY <2>1, <2>2, <2>3, Zenon
  <1>12. out1 \o w = c \o in1
    <2>1. Len(out1 \o w) = Len(c \o in1) /\ Len(out1 \o w) = n + 1 + m
      BY <1>9, <1>10
    <2>2. \A k \in 1..Len(out1 \o w) : (out1 \o w)[k] = (c \o in1)[k]
      BY <1>11, <2>1
    <2> QED
      BY <1>9, <1>10, <2>1, <2>2, SeqEqual, Zenon
  <1>13. out[n] = 1
    <2>1. n \in 1..n /\ n \in (m + 1)..(m + n)
      OBVIOUS
    <2> QED
      BY <1>1, <1>3, <2>1
  <1> QED
    BY <1>4, <1>12, <1>13 DEF Conserved

\* One shift of the instruction register moves what is in it up and adds a bit.
LEMMA InstructionShifts ==
    ASSUME NEW L \in Nat \ {0}, NEW r \in Seq(Bit), Len(r) = L,
           NEW w \in Seq(Bit), Len(w) = L, NEW i \in 1..L,
           \A k \in 1..(i - 1) : r[L - (i - 1) + k] = w[k]
    PROVE  \A k \in 1..i : ShiftIn(r, w[i])[L - i + k] = w[k]
  <1>1. r # << >>
    BY EmptySeq
  <1>2. /\ Tail(r) \in Seq(Bit) /\ Len(Tail(r)) = L - 1
        /\ \A k \in 1..(L - 1) : Tail(r)[k] = r[k + 1]
    BY <1>1, HeadTailProperties
  <1> DEFINE t == Tail(r)
  <1> HIDE DEF t
  <1>3. /\ t \in Seq(Bit) /\ Len(t) = L - 1
        /\ \A k \in 1..(L - 1) : t[k] = r[k + 1]
    BY <1>2 DEF t
  <1>4. w[i] \in Bit
    BY LenProperties
  <1>5. /\ \A k \in 1..(L - 1) : Append(t, w[i])[k] = t[k]
        /\ Append(t, w[i])[L] = w[i]
    <2>1. (L - 1) + 1 = L
      OBVIOUS
    <2> QED
      BY <1>3, <1>4, <2>1, AppendProperties
  <1>6. ASSUME NEW k \in 1..i
        PROVE  Append(t, w[i])[L - i + k] = w[k]
    <2>1. CASE k = i
      <3>1. L - i + k = L
        BY <2>1
      <3> QED
        BY <1>5, <2>1, <3>1
    <2>2. CASE k # i
      <3>1. /\ k \in 1..(i - 1) /\ L - i + k \in 1..(L - 1)
            /\ (L - i + k) + 1 = L - (i - 1) + k
        BY <2>2
      <3>2. Append(t, w[i])[L - i + k] = r[L - (i - 1) + k]
        BY <1>3, <1>5, <3>1
      <3> QED
        BY <3>1, <3>2
    <2> QED
      BY <2>1, <2>2
  <1> QED
    BY <1>6 DEF ShiftIn, t

\* Counting up is counting modulo the width.
LEMMA AmountCounts ==
    ASSUME NEW i \in Nat
    PROVE  /\ Incremented(i % ShiftModulus) = (i + 1) % ShiftModulus
           /\ i % ShiftModulus = 0 /\ i > 0 => i >= ShiftModulus
           /\ i % ShiftModulus \in Nat
           /\ ~ (i % ShiftModulus >= 1) => i % ShiftModulus = 0
  BY ProgramConstants DEF Incremented

\* What is shifted is words.
LEMMA ShiftFacts ==
    ASSUME RefinementInvariant, InScan
    PROVE  /\ ScanWord \in Seq(Bit) /\ ScanWord # << >>
           /\ Len(ScanWord) \in Nat \ {0}
           /\ bits \in Seq(Bit) /\ tdo \in Bit
           /\ instruction_shift_register \in Seq(Bit)
           /\ Len(instruction_shift_register) = IrLen
           /\ Moves(FromExit[at]) \in Seq(Commands)
           /\ scan.to # "ir" =>
                /\ scan.to \in DataRegisters /\ Selected = scan.to
                /\ DOMAIN shift = DataRegisters
                /\ shift[scan.to] \in Seq(Bit) /\ shift[scan.to] # << >>
                /\ container[scan.to] \in Seq(Bit)
                /\ Len(shift[scan.to]) = Width[scan.to]
                /\ Len(container[scan.to]) = Width[scan.to]
                /\ Width[scan.to] \in Nat \ {0}
  <1>1. SessionInvariant /\ MockTypeOK /\ DtmTypeOK
    BY DEF RefinementInvariant, SessionInvariant, TypeOK, MockTypeOK
  <1>2. /\ ScanWord \in Seq(Bit) /\ ScanWord # << >>
        /\ Len(ScanWord) \in Nat \ {0}
    BY SendableWord DEF InScan, ScanWord
  <1>3. bits \in Seq(Bit) /\ tdo \in Bit
    BY <1>1 DEF SessionInvariant, TypeOK, DtmTypeOK
  <1>4. /\ instruction_shift_register \in Seq(Bit)
        /\ Len(instruction_shift_register) = IrLen
    BY <1>1, WordIsSequence, ConstantsAssumption DEF DtmTypeOK
  <1>5. Moves(FromExit[at]) \in Seq(Commands)
    BY ExitMoves DEF InScan
  <1>6. ASSUME scan.to # "ir"
        PROVE  /\ scan.to \in DataRegisters /\ Selected = scan.to
               /\ DOMAIN shift = DataRegisters
               /\ shift[scan.to] \in Seq(Bit) /\ shift[scan.to] # << >>
               /\ container[scan.to] \in Seq(Bit)
               /\ Len(shift[scan.to]) = Width[scan.to]
               /\ Len(container[scan.to]) = Width[scan.to]
               /\ Width[scan.to] \in Nat \ {0}
    <2>1. scan.to \in DataRegisters /\ Selected = scan.to
      BY <1>6, SendableWord DEF InScan
    <2>2. /\ shift[scan.to] \in Seq(Bit) /\ container[scan.to] \in Seq(Bit)
          /\ Len(shift[scan.to]) = Width[scan.to]
          /\ Len(container[scan.to]) = Width[scan.to]
          /\ Width[scan.to] \in Nat \ {0}
      BY <1>1, <2>1, RegisterWords, ConstantTypes
    <2>3. shift[scan.to] # << >>
      BY <2>2
    <2> QED
      BY <1>1, <2>1, <2>2, <2>3 DEF DtmTypeOK
  <1> QED
    BY <1>2, <1>3, <1>4, <1>5, <1>6

\* Bit i of a scan of the instruction register, with the clock low.
LEMMA LowScansInstruction ==
    ASSUME RefinementInvariant, InScan, scan.to = "ir",
           NEW i \in 1..Len(ScanWord), NEW ms,
           set_pins(0, ms, ScanWord[i]), UNCHANGED scan,
           Scanned(i - 1, bits)
    PROVE  Scanned(i, Append(bits, tdo))'
  <1>1. instruction_shift_register'
          = ShiftIn(instruction_shift_register, ScanWord[i])
    BY LowInShiftIr DEF InScan
  <1>2. ScanWord' = ScanWord /\ scan'.to = "ir"
    BY DEF ScanWord
  <1>3. ASSUME Len(ScanWord) = IrLen
        PROVE  \A k \in 1..i :
                  instruction_shift_register'[IrLen - i + k] = ScanWord[k]
    <2>1. \A k \in 1..(i - 1) :
             instruction_shift_register[IrLen - (i - 1) + k] = ScanWord[k]
      BY <1>3 DEF Scanned
    <2>2. i \in 1..IrLen /\ IrLen \in Nat \ {0}
      BY <1>3, ConstantsAssumption
    <2>3. /\ instruction_shift_register \in Seq(Bit) /\ ScanWord \in Seq(Bit)
          /\ Len(instruction_shift_register) = IrLen
      BY ShiftFacts
    <2>4. \A k \in 1..i :
             ShiftIn(instruction_shift_register,
                     ScanWord[i])[IrLen - i + k] = ScanWord[k]
      BY <1>3, <2>1, <2>2, <2>3, InstructionShifts
    <2> QED
      BY <1>1, <2>4
  <1> QED
    BY <1>2, <1>3 DEF Scanned

\* Of a data register: the head of it comes out on TDO.
LEMMA LowShiftsData ==
    ASSUME RefinementInvariant, InScan, scan.to # "ir",
           NEW i \in 1..Len(ScanWord), ShiftDr(ScanWord[i]),
           Scanned(i - 1, bits), shift_amount >= 1
    PROVE  /\ Conserved(Append(bits, tdo'), shift'[scan.to],
                        container[scan.to], SubSeq(ScanWord, 1, i))
           /\ tdo' \in Bit
  <1>1. /\ tdo' = Head(shift[scan.to])
        /\ shift' = [shift EXCEPT ![scan.to]
                       = ShiftIn(shift[scan.to], ScanWord[i])]
    BY ShiftFacts DEF ShiftDr
  <1>2. shift'[scan.to] = ShiftIn(shift[scan.to], ScanWord[i])
    BY <1>1, ShiftFacts
  <1>3. Conserved(bits, shift[scan.to], container[scan.to],
                  SubSeq(ScanWord, 1, i - 1))
    BY DEF Scanned
  <1>4. /\ SubSeq(ScanWord, 1, i) = Append(SubSeq(ScanWord, 1, i - 1),
                                           ScanWord[i])
        /\ SubSeq(ScanWord, 1, i - 1) \in Seq(Bit) /\ ScanWord[i] \in Bit
    BY ShiftFacts, FirstBits
  <1>5. Conserved(Append(bits, Head(shift[scan.to])),
                  ShiftIn(shift[scan.to], ScanWord[i]), container[scan.to],
                  Append(SubSeq(ScanWord, 1, i - 1), ScanWord[i]))
    BY <1>3, <1>4, ShiftFacts, ShiftConserves
  <1>6. Head(shift[scan.to]) \in Bit
    BY ShiftFacts, HeadTailProperties
  <1> QED
    BY <1>1, <1>2, <1>4, <1>5, <1>6

\* When shift_amount has wrapped nothing moves, and the bit read before is on
\* TDO once more.  The examination of the chain, all ones, cannot tell.
LEMMA WrapShiftsNothing ==
    ASSUME RefinementInvariant, InScan, scan.to # "ir",
           NEW i \in 1..Len(ScanWord), ShiftDr(ScanWord[i]),
           Scanned(i - 1, bits), ~ (shift_amount >= 1)
    PROVE  /\ Conserved(Append(bits, tdo'), shift'[scan.to],
                        container[scan.to], SubSeq(ScanWord, 1, i))
           /\ tdo' \in Bit
  <1>1. PICK n, m \in Nat : n = i - 1 /\ m = Width[scan.to]
    <2>1. i - 1 \in Nat /\ Width[scan.to] \in Nat
      BY ShiftFacts
    <2> QED
      BY <2>1, Zenon
  <1>2. /\ shift_amount = (n + 1) % ShiftModulus /\ n + 1 = i
        /\ Len(bits) = n /\ (n > 0 => tdo = bits[n])
        /\ Conserved(bits, shift[scan.to], container[scan.to],
                     SubSeq(ScanWord, 1, n))
    BY <1>1 DEF Scanned
  <1>3. i >= ShiftModulus
    <2>1. i \in Nat /\ i > 0
      BY ShiftFacts
    <2>2. ~ (i % ShiftModulus >= 1)
      BY <1>2
    <2> QED
      BY <2>1, <2>2, AmountCounts
  <1>4. n >= 255 /\ Len(ScanWord) >= ShiftModulus /\ Len(ScanWord) >= 256
    BY <1>1, <1>3, ProgramConstants, ShiftFacts
  <1>5. scan.to \in {"id_code", "dtmcs"} /\ scan.sent \in WideWords
    <2>1. Sendable(scan.to, scan.sent)
      BY DEF InScan
    <2>2. ASSUME scan.to = "dmi"
          PROVE  FALSE
      <3>1. scan.sent \in Requests
        BY <2>1, <2>2, DebuggerAssumption DEF Sendable
      <3>2. ScanWord = Encode(scan.sent)
        BY <2>2 DEF ScanWord, Wire
      <3>3. Len(ScanWord) = 41
        BY <3>1, <3>2, EncodeType, WordIsSequence
      <3> QED
        BY <1>4, <3>3
    <2> QED
      BY <2>1, <2>2 DEF Sendable
  <1>6. m = 32
    BY <1>1, <1>5, ProgramConstants
  <1>7. ScanWord = scan.sent
    BY <1>5 DEF ScanWord, Wire
  <1>8. \A k \in 1..Len(ScanWord) : ScanWord[k] = 1
    BY <1>4, <1>5, <1>7, WideWordsAssumption
  <1>9. /\ SubSeq(ScanWord, 1, i) = Append(SubSeq(ScanWord, 1, n), 1)
        /\ SubSeq(ScanWord, 1, n) \in Seq(Bit)
        /\ Len(SubSeq(ScanWord, 1, n)) = n
    BY <1>1, <1>8, ShiftFacts, FirstBits
  <1>10. Ones(SubSeq(ScanWord, 1, n))
    <2>1. ASSUME NEW k \in 1..n
          PROVE  SubSeq(ScanWord, 1, n)[k] = 1
      <3>1. k \in 1..Len(ScanWord) /\ n \in 1..Len(ScanWord)
        BY <1>1, ShiftFacts
      <3>2. SubSeq(ScanWord, 1, n)[k] = ScanWord[k]
        BY <1>1, <3>1, ShiftFacts, SubSeqProperties
      <3> QED
        BY <1>8, <3>1, <3>2
    <2> QED
      BY <1>9, <2>1 DEF Ones
  <1>11. /\ bits[n] = 1
         /\ Conserved(Append(bits, 1), shift[scan.to], container[scan.to],
                      Append(SubSeq(ScanWord, 1, n), 1))
    <2>1. n > m
      BY <1>4, <1>6
    <2>2. /\ shift[scan.to] \in Seq(Bit) /\ container[scan.to] \in Seq(Bit)
          /\ bits \in Seq(Bit) /\ Len(shift[scan.to]) = m
          /\ Len(container[scan.to]) = m /\ Len(bits) = n
      BY <1>1, <1>2, ShiftFacts
    <2>3. PICK w, c, in : /\ w = shift[scan.to] /\ c = container[scan.to]
                          /\ in = SubSeq(ScanWord, 1, n)
      OBVIOUS
    <2>4. Conserved(bits, w, c, in)
      BY <1>2, <2>3
    <2>5. /\ in \in Seq(Bit) /\ Len(in) = n /\ Ones(in)
          /\ w \in Seq(Bit) /\ Len(w) = m /\ c \in Seq(Bit) /\ Len(c) = m
      BY <1>9, <1>10, <2>2, <2>3
    <2>6. bits[n] = 1 /\ Conserved(Append(bits, 1), w, c, Append(in, 1))
      BY <2>1, <2>2, <2>4, <2>5, WrapConserves
    <2> QED
      BY <2>3, <2>6
  <1>12. tdo' = tdo /\ UNCHANGED shift
    BY <1>5, ShiftFacts DEF ShiftDr
  <1>13. tdo = 1
    BY <1>2, <1>4, <1>11
  <1> QED
    BY <1>9, <1>11, <1>12, <1>13 DEF Bit

\* Bit i of a scan of a data register, with the clock low.
LEMMA LowScansData ==
    ASSUME RefinementInvariant, InScan, scan.to # "ir",
           NEW i \in 1..Len(ScanWord), NEW ms,
           set_pins(0, ms, ScanWord[i]), UNCHANGED scan, UNCHANGED bits,
           Scanned(i - 1, bits)
    PROVE  Scanned(i, Append(bits, tdo))'
  <1>1. ShiftDr(ScanWord[i]) /\ UNCHANGED container
    BY LowInShiftDr, ShiftFacts, NoDataRegister DEF InScan
  <1>2. /\ Conserved(Append(bits, tdo'), shift'[scan.to],
                     container[scan.to], SubSeq(ScanWord, 1, i))
        /\ tdo' \in Bit
    BY <1>1, LowShiftsData, WrapShiftsNothing
  <1>3. PICK n \in Nat : n = i - 1 /\ n + 1 = i
    OBVIOUS
  <1>4. shift_amount = i % ShiftModulus /\ Len(bits) = n
    BY <1>3 DEF Scanned
  <1>5. shift_amount' = (i + 1) % ShiftModulus
    BY <1>1, <1>4, AmountCounts DEF ShiftDr
  <1>6. Len(Append(bits, tdo')) = i /\ Append(bits, tdo')[i] = tdo'
    BY <1>2, <1>3, <1>4, ShiftFacts, AppendProperties
  <1>7. ScanWord' = ScanWord /\ scan'.to = scan.to
    BY DEF ScanWord
  <1>8. /\ Len(Append(bits', tdo')) = i
        /\ Conserved(Append(bits', tdo'), shift'[scan'.to],
                     container'[scan'.to], SubSeq(ScanWord', 1, i))
        /\ i > 0 => tdo' = Append(bits', tdo')[i]
    BY <1>1, <1>2, <1>6, <1>7
  <1> QED
    BY <1>5, <1>7, <1>8 DEF Scanned

(***************************************************************************)
(* The three commands of a bit.                                            *)
(***************************************************************************)

LEMMA InScanKept ==
    ASSUME InScan, UNCHANGED <<at, planned, believed, scan>>,
           UNCHANGED <<tsm_current_state, instruction_container_register>>
    PROVE  InScan' /\ ScanWord' = ScanWord
  BY DEF InScan, ScanWord, Selected

\* The write with the clock low.
LEMMA LowShiftRefines ==
    ASSUME RefinementInvariant, Send, InScan, NEW i \in 1..Len(ScanWord),
           script = Rest(ShiftBits(ScanWord), 3 * i - 3)
                      \o Moves(FromExit[at]),
           Scanned(i - 1, bits)
    PROVE  (Context /\ Underway)' /\ Unseen
  <1>1. PICK ms \in {0, 1} : /\ ms = LastBit(ScanWord, i)
                            /\ ms = IF i = Len(ScanWord) THEN 1 ELSE 0
    BY DEF LastBit
  <1>2. /\ Head(script) = Digit(0, ms, ScanWord[i])
        /\ Tail(script) = Rest(ShiftBits(ScanWord), 3 * i - 2)
                            \o Moves(FromExit[at])
    <2>1. ScanWord \in Seq(Bit) /\ Moves(FromExit[at]) \in Seq(Commands)
      BY ShiftFacts
    <2>2. Head(script) = Digit(0, LastBit(ScanWord, i), ScanWord[i])
      BY <2>1, ScanSteps
    <2>3. Tail(script) = Rest(ShiftBits(ScanWord), 3 * i - 2)
                           \o Moves(FromExit[at])
      BY <2>1, ScanSteps
    <2> QED
      BY <1>1, <2>2, <2>3, Zenon
  <1>3. ScanWord[i] \in Bit
    BY ShiftFacts, LenProperties
  <1>4. /\ Drive(Head(script)) /\ script' = Tail(script)
        /\ UNCHANGED <<at, planned, believed, scan>>
        /\ Head(script) # "R" => UNCHANGED bits
    BY SendLeaves
  <1>5. set_pins(0, ms, ScanWord[i]) /\ Head(script) # "R"
    BY <1>1, <1>2, <1>3, <1>4, PinWriteEffect DEF Bit
  <1>6. UNCHANGED <<tsm_current_state, instruction_container_register,
                    container, dmVars>>
    BY <1>5, LowInShiftIr, LowInShiftDr DEF InScan
  <1>7. UNCHANGED transcript
    BY <1>6, SendLeaves
  <1>8. Context'
    BY <1>4, <1>6, ContextKept DEF RefinementInvariant
  <1>9. InScan' /\ ScanWord' = ScanWord
    BY <1>4, <1>6, InScanKept
  <1>10. Scanned(i, Append(bits, tdo))'
    <2>1. CASE scan.to = "ir"
      BY <1>4, <1>5, <2>1, LowScansInstruction
    <2>2. CASE scan.to # "ir"
      BY <1>4, <1>5, <2>2, LowScansData
    <2> QED
      BY <2>1, <2>2
  <1>11. script' = Rest(ShiftBits(ScanWord'), 3 * i - 2)
                     \o Moves(FromExit[at'])
    BY <1>2, <1>4, <1>9
  <1>12. Shifting'
    BY <1>9, <1>10, <1>11 DEF Shifting
  <1> QED
    BY <1>6, <1>7, <1>8, <1>12 DEF Underway, Unseen

\* The answer to R is the bit.
LEMMA ReadRefines ==
    ASSUME RefinementInvariant, Send, InScan, NEW i \in 1..Len(ScanWord),
           script = Rest(ShiftBits(ScanWord), 3 * i - 2)
                      \o Moves(FromExit[at]),
           Scanned(i, Append(bits, tdo))
    PROVE  (Context /\ Underway)' /\ Unseen
  <1>1. /\ Head(script) = "R"
        /\ Tail(script) = Rest(ShiftBits(ScanWord), 3 * i - 1)
                            \o Moves(FromExit[at])
    BY ShiftFacts, ScanSteps
  <1>2. /\ Drive("R") /\ script' = Tail(script)
        /\ UNCHANGED <<at, planned, believed, scan>>
    BY <1>1, SendLeaves
  <1>3. UNCHANGED mockVars /\ bits' = Append(bits, tdo)
    BY <1>1, <1>2, OtherCommandEffect DEF Send
  <1>4. UNCHANGED <<tsm_current_state, tdo, instruction_container_register,
                    instruction_shift_register, container, shift,
                    shift_amount, dmVars>>
    BY <1>3 DEF mockVars, dtmVars, registers
  <1>5. UNCHANGED transcript
    BY <1>4, SendLeaves
  <1>6. Context'
    BY <1>2, <1>4, ContextKept DEF RefinementInvariant
  <1>7. InScan' /\ ScanWord' = ScanWord
    BY <1>2, <1>4, InScanKept
  <1>8. Scanned(i, bits)'
    BY <1>2, <1>3, <1>4, <1>7 DEF Scanned
  <1>9. script' = Rest(ShiftBits(ScanWord'), 3 * i - 1)
                    \o Moves(FromExit[at'])
    BY <1>1, <1>2, <1>7
  <1>10. Shifting'
    BY <1>7, <1>8, <1>9 DEF Shifting
  <1> QED
    BY <1>4, <1>5, <1>6, <1>10 DEF Underway, Unseen

\* All of a scan is in.
LEMMA ScannedWhole ==
    ASSUME RefinementInvariant, InScan, Scanned(Len(ScanWord), bits)
    PROVE  IF scan.to = "ir" THEN InstructionScanned ELSE DataScanned
  <1>1. SubSeq(ScanWord, 1, Len(ScanWord)) = ScanWord
    BY ShiftFacts, SubSeqFull
  <1>2. CASE scan.to = "ir"
    <2>1. /\ scan.sent = believed /\ Sendable(scan.to, scan.sent)
      BY <1>2 DEF InScan
    <2>2. ASSUME scan.sent # "unknown"
          PROVE  instruction_shift_register = ScanWord
      <3>1. scan.sent \in DataRegisters
        BY <1>2, <2>1, <2>2 DEF Sendable, DataRegisters
      <3>2. ScanWord \in Word(IrLen)
        <4>1. ScanWord = InstructionWord[scan.sent]
          BY <1>2 DEF ScanWord, Wire
        <4>2. InstructionWord[scan.sent] \in {IR_IDCODE, IR_DTMCS, IR_DMI}
          BY <3>1 DEF InstructionWord, DataRegisters
        <4> QED
          BY <4>1, <4>2, ConstantsAssumption
      <3>3. PICK n \in Nat : n = IrLen
        BY ConstantsAssumption
      <3>4. Len(ScanWord) = n
        BY <3>2, <3>3, WordIsSequence
      <3>5. \A k \in 1..n : instruction_shift_register[k] = ScanWord[k]
        <4>1. \A k \in 1..n :
                 instruction_shift_register[IrLen - n + k] = ScanWord[k]
          BY <1>2, <3>3, <3>4 DEF Scanned
        <4>2. \A k \in 1..n : IrLen - n + k = k
          BY <3>3
        <4> QED
          BY <4>1, <4>2
      <3> QED
        BY <3>3, <3>4, <3>5, ShiftFacts, SeqEqual
    <2> QED
      BY <1>2, <2>1, <2>2 DEF InstructionScanned
  <1>3. CASE scan.to # "ir"
    <2>1. /\ Len(bits) = Len(ScanWord)
          /\ Conserved(bits, shift[scan.to], container[scan.to], ScanWord)
      BY <1>1, <1>3 DEF Scanned
    <2> QED
      BY <1>3, <2>1, ShiftFacts DEF DataScanned, InScan
  <1> QED
    BY <1>2, <1>3

\* The write with the clock high: the next bit, or the way out.
LEMMA HighShiftRefines ==
    ASSUME RefinementInvariant, Send, InScan, NEW i \in 1..Len(ScanWord),
           script = Rest(ShiftBits(ScanWord), 3 * i - 1)
                      \o Moves(FromExit[at]),
           Scanned(i, bits)
    PROVE  (Context /\ Underway)' /\ Unseen
  <1>1. PICK ms \in {0, 1} : /\ ms = LastBit(ScanWord, i)
                            /\ ms = IF i = Len(ScanWord) THEN 1 ELSE 0
    BY DEF LastBit
  <1>2. /\ Head(script) = Digit(1, ms, ScanWord[i])
        /\ Tail(script) = Rest(ShiftBits(ScanWord), 3 * i)
                            \o Moves(FromExit[at])
    <2>1. ScanWord \in Seq(Bit) /\ Moves(FromExit[at]) \in Seq(Commands)
      BY ShiftFacts
    <2>2. Head(script) = Digit(1, LastBit(ScanWord, i), ScanWord[i])
      BY <2>1, ScanSteps
    <2>3. Tail(script) = Rest(ShiftBits(ScanWord), 3 * i)
                           \o Moves(FromExit[at])
      BY <2>1, ScanSteps
    <2> QED
      BY <1>1, <2>2, <2>3, Zenon
  <1>3. ScanWord[i] \in Bit
    BY ShiftFacts, LenProperties
  <1>4. /\ Drive(Head(script)) /\ script' = Tail(script)
        /\ UNCHANGED <<at, planned, believed, scan>>
        /\ Head(script) # "R" => UNCHANGED bits
    BY SendLeaves
  <1>5. set_pins(1, ms, ScanWord[i]) /\ UNCHANGED bits
    BY <1>1, <1>2, <1>3, <1>4, PinWriteEffect DEF Bit
  <1>6. PICK s : s = Successor(tsm_current_state, ms)
    OBVIOUS
  <1>7. s = IF ms = 0 THEN tsm_current_state
            ELSE IF scan.to = "ir" THEN "EXIT1_IR" ELSE "EXIT1_DR"
    BY <1>1, <1>6 DEF InScan, Successor, OnOne, OnZero
  <1>8. /\ tsm_current_state' = s
        /\ s \notin {"TEST_LOGIC_RESET", "CAPTURE_DR", "CAPTURE_IR",
                     "UPDATE_DR", "UPDATE_IR"}
    BY <1>5, <1>6, <1>7, HighEnters DEF InScan
  <1>9. UNCHANGED <<tdo, instruction_container_register,
                    instruction_shift_register, container, shift,
                    shift_amount, dmVars>>
    BY <1>5, <1>6, <1>8, HighSilent
  <1>10. UNCHANGED transcript
    BY <1>8, SendLeaves
  <1>11. Context'
    <2>1. tsm_current_state \in InstructionLeaving
            => tsm_current_state' \in InstructionLeaving
      BY <1>1, <1>7, <1>8 DEF InScan, InstructionLeaving
    <2> QED
      BY <1>4, <1>8, <1>9, <2>1, KnowsMoves DEF RefinementInvariant
  <1>12. ScanWord' = ScanWord
    BY <1>4 DEF ScanWord
  <1>13. Unseen
    BY <1>9, <1>10 DEF Unseen
  <1>14. CASE i # Len(ScanWord)
    <2>1. UNCHANGED tsm_current_state
      BY <1>1, <1>7, <1>8, <1>14
    <2>2. InScan'
      BY <1>4, <1>9, <2>1, InScanKept
    <2>3. PICK j : j = i + 1
      OBVIOUS
    <2>4. /\ j \in 1..Len(ScanWord') /\ 3 * j - 3 = 3 * i /\ j - 1 = i
      BY <1>12, <1>14, <2>3, ShiftFacts
    <2>5. Scanned(j - 1, bits)'
      <3>1. Scanned(i, bits)'
        BY <1>4, <1>5, <1>9, <1>12 DEF Scanned
      <3> QED
        BY <2>4, <3>1
    <2>6. script' = Rest(ShiftBits(ScanWord'), 3 * j - 3)
                      \o Moves(FromExit[at'])
      BY <1>2, <1>4, <1>12, <2>4
    <2>7. Shifting'
      BY <2>2, <2>4, <2>5, <2>6 DEF Shifting
    <2> QED
      BY <1>11, <1>13, <2>7 DEF Underway
  <1>15. CASE i = Len(ScanWord)
    <2>1. tsm_current_state'
            = IF scan.to = "ir" THEN "EXIT1_IR" ELSE "EXIT1_DR"
      BY <1>1, <1>7, <1>8, <1>15
    <2>2. script' = Moves(FromExit[at'])
      <3>1. /\ ShiftBits(ScanWord) \in Seq(Commands)
            /\ Len(ShiftBits(ScanWord)) = 3 * i
        BY <1>15, ShiftFacts, ShiftBitsCommands
      <3>2. Rest(ShiftBits(ScanWord), 3 * i) = << >>
        BY <3>1, RestEnds
      <3> QED
        BY <1>2, <1>4, <3>2, ShiftFacts, ConcatEmptySeq
    <2>3. Walks(FromExit[at'], tsm_current_state', at')
      BY <1>4, <2>1, FromExitWalks DEF InScan
    <2>4. Moving'
      BY <2>2, <2>3, MoveBegins DEF Moving
    <2>5. IF scan.to = "ir" THEN InstructionScanned ELSE DataScanned
      BY <1>15, ScannedWhole
    <2>6. IF scan.to = "ir" THEN InstructionScanned' ELSE DataScanned'
      BY <1>4, <1>5, <1>9, <1>12, <2>5
         DEF InstructionScanned, DataScanned, Selected
    <2>7. Passing'
      BY <2>1, <2>6 DEF Passing
    <2> QED
      BY <1>11, <1>13, <2>4, <2>7 DEF Underway
  <1> QED
    BY <1>14, <1>15

\* Every command of a scan.
LEMMA ShiftingRefines ==
    ASSUME RefinementInvariant, Send, Shifting
    PROVE  (Context /\ Underway)' /\ Unseen
  <1>1. InScan
    BY DEF Shifting
  <1>2. PICK i \in 1..Len(ScanWord) :
         \/ /\ script = Rest(ShiftBits(ScanWord), 3 * i - 3)
                          \o Moves(FromExit[at])
            /\ Scanned(i - 1, bits)
         \/ /\ script = Rest(ShiftBits(ScanWord), 3 * i - 2)
                          \o Moves(FromExit[at])
            /\ Scanned(i, Append(bits, tdo))
         \/ /\ script = Rest(ShiftBits(ScanWord), 3 * i - 1)
                          \o Moves(FromExit[at])
            /\ Scanned(i, bits)
    BY DEF Shifting
  <1> QED
    BY <1>1, <1>2, LowShiftRefines, ReadRefines, HighShiftRefines

(***************************************************************************)
(* The session implements the port.                                        *)
(***************************************************************************)

\* At power-on the first reset is on its way.
LEMMA RefinementInit ==
    ASSUME Init
    PROVE  RefinementInvariant /\ Port!PortInit
  <1>1. /\ MockInit /\ at = "TEST_LOGIC_RESET" /\ planned = NoScan
        /\ believed = "id_code" /\ transcript = << >>
        /\ script = <<"B", "b", "r", "b", "B">> \o ResetMoves
    BY DEF Init
  <1>2. /\ instruction_container_register = IR_IDCODE
        /\ \A r \in DataRegisters : container[r] = PowerOn[r]
    BY <1>1 DEF MockInit, DtmInit
  <1>3. /\ container["dtmcs"] = PowerOn["dtmcs"]
        /\ container["id_code"] = PowerOn["id_code"]
    BY <1>2 DEF DataRegisters
  <1>4. Selected = "id_code"
    BY <1>2, ConstantsAssumption DEF Selected, RegisterOf
  <1>5. Context
    BY <1>1, <1>2, <1>3 DEF Context, PlanKnown, Knows, NoScan
  <1>6. Resetting
    <2>1. PICK prefix : prefix = <<"B", "b", "r", "b", "B">>
      OBVIOUS
    <2>2. prefix \in ResetPrefixes
      BY <2>1 DEF ResetPrefixes
    <2>3. prefix \notin {<<"b", "B">>, <<"B">>}
      BY <2>1
    <2> QED
      BY <1>1, <2>1, <2>2, <2>3 DEF Resetting
  <1>7. Port!PortInit
    <2>1. DmInit
      BY <1>1 DEF MockInit
    <2>2. Port!DmInit
      BY <2>1 DEF DmInit, Port!DmInit, init_dmi, Port!init_dmi, DMCONTROL,
                  Port!DMCONTROL, W, Port!W
    <2> QED
      BY <1>1, <1>3, <1>4, <2>2 DEF Port!PortInit
  <1> QED
    BY <1>5, <1>6, <1>7, SessionInit DEF RefinementInvariant, Underway

\* A command of a script.
LEMMA SendRefines ==
    ASSUME RefinementInvariant, Send
    PROVE  RefinementInvariant' /\ (Unseen \/ Port!PortNext)
  <1>1. SessionInvariant'
    BY SendKeeps DEF RefinementInvariant
  <1>2. Port!Reset => Port!PortNext
    BY DEF Port!PortNext
  <1>3. (Context /\ Underway)' /\ (Unseen \/ Port!PortNext)
    BY <1>2, ResettingRefines, ShiftingRefines, MovingRefines
       DEF RefinementInvariant, Underway
  <1> QED
    BY <1>1, <1>3 DEF RefinementInvariant

\* What the client decides is for it alone.
LEMMA DecideRefines ==
    ASSUME RefinementInvariant, Decide
    PROVE  RefinementInvariant' /\ Unseen
  <1>1. SessionInvariant'
    BY DecideKeeps DEF RefinementInvariant
  <1>2. ASSUME NEW register \in DataRegisters \cup {"unknown"},
               Instruct(register)
        PROVE  (Context /\ Underway)' /\ Unseen
    <2>1. /\ Approach("SHIFT_IR", "ir", register, "RUN_TEST_IDLE")
          /\ register = believed'
      BY <1>2 DEF Instruct
    <2>2. Sendable("ir", register)
      BY DEF Sendable
    <2> QED
      BY <2>1, <2>2, ApproachRefines
  <1>3. ASSUME NEW end, NEW sent, Access(sent, end),
               believed \in DataRegisters, Sendable(believed, sent)
        PROVE  (Context /\ Underway)' /\ Unseen
    <2>1. /\ Approach("SHIFT_DR", believed, sent, end)
          /\ believed = believed' /\ UNCHANGED believed
      BY <1>3 DEF Access
    <2>2. believed # "none" /\ believed # "ir"
      BY <1>3 DEF DataRegisters
    <2> QED
      BY <1>3, <2>1, <2>2, ApproachRefines
  <1>4. ASSUME NEW end, believed \in {"id_code", "dtmcs"},
               NEW word \in WideWords, Access(word, end)
        PROVE  (Context /\ Underway)' /\ Unseen
    <2>1. Sendable(believed, word) /\ believed \in DataRegisters
      BY <1>4 DEF Sendable, DataRegisters
    <2> QED
      BY <1>3, <1>4, <2>1
  <1>5. ASSUME NEW end, believed = "dmi", NEW s \in Scans, Access(s, end)
        PROVE  (Context /\ Underway)' /\ Unseen
    <2>1. Sendable(believed, s) /\ believed \in DataRegisters
      BY <1>5 DEF Sendable, DataRegisters
    <2> QED
      BY <1>3, <1>5, <2>1
  <1>6. (Context /\ Underway)' /\ Unseen
    BY <1>2, <1>4, <1>5, RestartRefines DEF Decide
  <1> QED
    BY <1>1, <1>6 DEF RefinementInvariant

\* Nothing happening changes nothing.
LEMMA RefinementStutters ==
    ASSUME RefinementInvariant, UNCHANGED vars
    PROVE  RefinementInvariant' /\ Unseen
  <1>1. SessionInvariant'
    BY SessionStutters DEF RefinementInvariant
  <1>2. /\ UNCHANGED <<script, at, planned, believed, scan, bits, transcript>>
        /\ UNCHANGED <<tsm_current_state, tdo, instruction_container_register,
                       instruction_shift_register, container, shift,
                       shift_amount, dmVars>>
    BY DEF vars, clientVars, mockVars, dtmVars, registers
  <1>3. Unseen
    BY <1>2 DEF Unseen
  <1>4. Context'
    BY <1>2, ContextKept DEF RefinementInvariant
  <1>5. ScanWord' = ScanWord /\ Selected' = Selected
    BY <1>2 DEF ScanWord, Selected
  <1>6. Resetting => Resetting'
    BY <1>2 DEF Resetting
  <1>7. Shifting => Shifting'
    <2>1. InScan => InScan'
      BY <1>2, <1>5 DEF InScan
    <2>2. ASSUME NEW n
          PROVE  /\ Scanned(n, bits) => Scanned(n, bits)'
                 /\ Scanned(n, Append(bits, tdo))
                      => Scanned(n, Append(bits, tdo))'
      BY <1>2, <1>5 DEF Scanned
    <2> QED
      BY <1>2, <1>5, <2>1, <2>2 DEF Shifting
  <1>8. Moving => Moving'
    BY <1>2 DEF Moving
  <1>9. Passing => Passing'
    BY <1>2, <1>5 DEF Passing, DataScanned, InstructionScanned, Captured
  <1>10. Underway'
    BY <1>6, <1>7, <1>8, <1>9 DEF RefinementInvariant, Underway
  <1> QED
    BY <1>1, <1>3, <1>4, <1>10 DEF RefinementInvariant

\* Every step keeps the invariant and is a step of the port or none.
LEMMA StepRefines ==
    ASSUME RefinementInvariant, [Next]_vars
    PROVE  RefinementInvariant' /\ [Port!PortNext]_(Port!portVars)
  <1>1. ASSUME ShiftPlanned
        PROVE  RefinementInvariant' /\ Unseen
    BY <1>1, ShiftPlannedKeeps, ShiftPlannedRefines DEF RefinementInvariant
  <1>2. RefinementInvariant' /\ (Unseen \/ Port!PortNext)
    BY <1>1, SendRefines, DecideRefines, RefinementStutters DEF Next
  <1> QED
    BY <1>2, UnseenIsStutter

\* What the client knows of the target while it sends a script holds in every
\* reachable state.
THEOREM RefinementInvariantHolds == Spec => []RefinementInvariant
  <1>1. Init => RefinementInvariant
    BY RefinementInit
  <1>2. RefinementInvariant /\ [Next]_vars => RefinementInvariant'
    BY StepRefines
  <1> QED
    BY <1>1, <1>2, PTL DEF Spec

\* The wire, the clock, the sixteen TAP states and the shift registers
\* implement the port: every scan that reaches an update state is one atomic
\* exchange, and every other step is invisible.
THEOREM PortIsImplementedHolds == Spec => PortIsImplemented
  <1>1. Init => Port!PortInit
    BY RefinementInit
  <1>2. RefinementInvariant /\ [Next]_vars => [Port!PortNext]_(Port!portVars)
    BY StepRefines
  <1> QED
    BY <1>1, <1>2, RefinementInvariantHolds, PTL
       DEF Spec, PortIsImplemented, Port!PortSpec

\* So what is written to a data register through the wire, however the client
\* restarts, changes instruction and pauses in between, is read back.
THEOREM ReadsBackOverTheWireHolds == Spec => []ReadsBackOverTheWire
  <1>1. PortFacts!PortSpec => []PortFacts!ReadsBack
    BY PortAssumption, PortFacts!ReadsBackHolds
  <1>2. PortIsImplemented => PortFacts!PortSpec
    <2>1. Port!PortInit => PortFacts!PortInit
      BY SamePort
    <2>2. [Port!PortNext]_(Port!portVars)
            => [PortFacts!PortNext]_(PortFacts!portVars)
      BY SamePort
    <2> QED
      BY <2>1, <2>2, PTL DEF PortIsImplemented, Port!PortSpec,
                             PortFacts!PortSpec
  <1>3. PortFacts!ReadsBack => ReadsBackOverTheWire
    BY SamePort DEF ReadsBackOverTheWire
  <1> QED
    BY <1>1, <1>2, <1>3, PortIsImplementedHolds, PTL

=============================================================================
