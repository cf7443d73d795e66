---------------------------- MODULE BitbangChannel ----------------------------
(***************************************************************************)
(* What the server promises its client, without sockets and loops: one     *)
(* session, in which the commands are executed one at a time, in the order *)
(* they were sent and each exactly once, and a read is answered with what  *)
(* the target shows at that point.  Only the end of the session loses      *)
(* anything.                                                               *)
(***************************************************************************)
EXTENDS Integers, Sequences

CONSTANT Commands

VARIABLES
    session,  \* "waiting", "connected" or "over"
    queue,    \* commands submitted and not executed
    target,   \* commands that have driven the target
    answers   \* answers the client has yet to receive

channelVars == <<session, queue, target, answers>>

Prefixes(s) == { SubSeq(s, 1, n) : n \in 0..Len(s) }

ChannelInit ==
    session = "waiting" /\ queue = << >> /\ target = 0 /\ answers = << >>

Join ==
    /\ session = "waiting" /\ session' = "connected"
    /\ UNCHANGED <<queue, target, answers>>

Submit(command) ==
    /\ session = "connected"
    /\ queue' = Append(queue, command)
    /\ UNCHANGED <<session, target, answers>>

Drive ==
    /\ queue # << >> /\ Head(queue) \in {"drive", "other"}
    /\ queue' = Tail(queue)
    /\ target' = IF Head(queue) = "drive" THEN target + 1 ELSE target
    /\ UNCHANGED <<session, answers>>

Read ==
    /\ queue # << >> /\ Head(queue) = "read"
    /\ queue' = Tail(queue)
    /\ answers' = Append(answers, target)
    /\ UNCHANGED <<session, target>>

\* Commands after a quit are never executed, and answers may be lost by them.
Quit ==
    /\ queue # << >> /\ Head(queue) = "quit"
    /\ session' = "over" /\ queue' = << >>
    /\ answers' \in IF Len(queue) = 1 THEN {answers} ELSE Prefixes(answers)
    /\ UNCHANGED target

Deliver ==
    /\ answers # << >> /\ answers' = Tail(answers)
    /\ UNCHANGED <<session, queue, target>>

Leave ==
    /\ session = "connected" /\ session' = "over"
    /\ queue' \in {queue, << >>}
    /\ UNCHANGED <<target, answers>>

\* Nobody is there to answer any more.
Lose ==
    /\ session = "over"
    /\ queue' \in {queue, << >>} /\ answers' \in Prefixes(answers)
    /\ UNCHANGED <<session, target>>

ChannelNext ==
    \/ Join \/ Drive \/ Read \/ Quit \/ Deliver \/ Leave \/ Lose
    \/ \E command \in Commands : Submit(command)

ChannelSpec == ChannelInit /\ [][ChannelNext]_channelVars

=============================================================================
