---------------------------- MODULE MCBitbangServer --------------------------
(***************************************************************************)
(* BitbangServer with a client that sends at most MaxCommands commands     *)
(* over buffers of a few bytes, and a second client that knocks.           *)
(***************************************************************************)
EXTENDS BitbangServer

CONSTANT MaxCommands

VARIABLE sent  \* commands the client has sent

MCInit == Init /\ sent = 0

MCNext ==
    \/ /\ \/ ServerStep \/ Connect \/ Receive \/ Close \/ Ended
       /\ sent' = sent
    \/ /\ sent < MaxCommands /\ sent' = sent + 1
       /\ \E command \in Commands : Send(command)

MCSpec == MCInit /\ [][MCNext]_<<vars, sent>> /\ Fairness

\* Every R of a client that stays is answered in the end, whatever else it
\* sends, and even when a quit behind it ends the process, unless it sends more
\* after that quit.
EveryReadIsAnswered ==
    \A k \in 1..MaxCommands :
        (Len(asked) >= k) ~>
            (Len(got) >= k \/ late \/ peer \in {"closed", "gone", "reset"})

=============================================================================
