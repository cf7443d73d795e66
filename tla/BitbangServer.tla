---------------------------- MODULE BitbangServer ----------------------------
(***************************************************************************)
(* The server loop of remote_bitbang_t, from main() through tick(),        *)
(* accept() and execute_command(), with the sockets and the clients it     *)
(* talks to.  The server is single-threaded; what interleaves with it is   *)
(* the clients and the kernel's socket buffers.                            *)
(*                                                                         *)
(* The JTAG target behind set_pins() is abstracted to what this loop can   *)
(* get wrong: TDO is named by the number of commands that drove the target *)
(* before it, so a reply tells which commands of the client it answers.    *)
(***************************************************************************)
EXTENDS Integers, Sequences, SequencesExt, FiniteSets

CONSTANTS
    WireCapacity,   \* commands the server's receive buffer holds
    ReplyCapacity,  \* replies the client's receive buffer holds
    Window,         \* replies a client lets be outstanding
    Backlog         \* clients waiting in the listen queue

ASSUME BuffersAssumption ==
    /\ WireCapacity \in Nat \ {0} /\ ReplyCapacity \in Nat \ {0}
    /\ Window \in 1..ReplyCapacity
    /\ Backlog \in Nat \ {0}

\* "drive" stands for the pin writes 0..7 and for r, "read" for R, "quit" for
\* Q, and "other" for B, b and what the server does not support.
Commands == {"drive", "read", "quit", "other"}

VARIABLES
    server,     \* where the server is, or how it stopped
    client_fd,  \* 0, -1 after accept() found nobody, or the client's descriptor
    quit,
    tdo,        \* commands that have driven the target
    pending,    \* clients in the listen queue
    peer,       \* the accepted client's end, see Peers
    wire,       \* commands sent and not read
    replies,    \* replies written and not received
    accepted,   \* clients accepted so far
    driven,     \* "drive" commands the client sent
    asked,      \* per read command, the "drive" commands sent before it
    late,       \* it sent a command after a quit
    got         \* replies the client received

serverVars == <<server, client_fd, quit, tdo>>
netVars == <<pending, peer, wire, replies>>
historyVars == <<accepted, driven, asked, late, got>>
vars == <<serverVars, netVars, historyVars>>

Stopped == server \in {"exited", "aborted"}

\* "closed": the client ended its stream.  "gone": and the server wrote to it
\* since.  "reset": the connection broke off.  "none": no connection.
Peers == {"none", "open", "closed", "gone", "reset"}

Init ==
    /\ server = "start" /\ client_fd = 0 /\ quit = FALSE /\ tdo = 0
    /\ pending = 0 /\ peer = "none" /\ wire = << >> /\ replies = << >>
    /\ accepted = 0 /\ driven = 0 /\ asked = << >> /\ late = FALSE
    /\ got = << >>

-----------------------------------------------------------------------------
(***************************************************************************)
(* The server.                                                             *)
(***************************************************************************)

\* main() loads the program; the constructor sets the socket up.
Listen ==
    /\ server = "start"
    /\ server' = "tick"
    /\ UNCHANGED <<client_fd, quit, tdo, netVars, historyVars>>

\* No program is there, or socket(), setsockopt(), bind(), listen() or
\* getsockname() fails.
StartFails ==
    /\ server = "start"
    /\ server' \in {"exited", "aborted"}
    /\ UNCHANGED <<client_fd, quit, tdo, netVars, historyVars>>

\* main(): while (!done()) tick(); and tick() picks execute_command() or
\* accept().
Exit ==
    /\ server = "tick" /\ quit
    /\ server' = "exited"
    /\ UNCHANGED <<client_fd, quit, tdo, netVars, historyVars>>

\* A mistake a run must detect: descriptor 0 taken for a client's.
tickStdin ==
    /\ server = "tick" /\ ~ quit
    /\ server' = IF client_fd >= 0 THEN "read" ELSE "accept"
    /\ UNCHANGED <<client_fd, quit, tdo, netVars, historyVars>>

tick ==
    /\ server = "tick" /\ ~ quit
    /\ server' = IF client_fd > 0 THEN "read" ELSE "accept"
    /\ UNCHANGED <<client_fd, quit, tdo, netVars, historyVars>>

\* accept() sleeps and tries again until a client is there, or aborts.
accept ==
    /\ server = "accept" /\ pending > 0
    /\ pending' = pending - 1
    /\ client_fd' = 1 /\ peer' = "open" /\ accepted' = accepted + 1
    /\ server' = "tick"
    /\ UNCHANGED <<quit, tdo, wire, replies, driven, asked, late, got>>

AcceptAgain ==
    /\ server = "accept" /\ pending = 0
    /\ client_fd' = -1
    /\ UNCHANGED <<server, quit, tdo, netVars, historyVars>>

AcceptFails ==
    /\ server = "accept"
    /\ client_fd' = -1
    /\ server' = "aborted"
    /\ UNCHANGED <<quit, tdo, netVars, historyVars>>

\* The socket is closed.  When commands are unread in it the connection is
\* reset, and the replies the client's side does not have yet are lost.
Disconnect ==
    /\ client_fd' = 0 /\ wire' = << >>
    /\ peer' = IF peer = "open" THEN "none" ELSE peer
    /\ IF Len(wire) = 1
       THEN UNCHANGED replies
       ELSE \E n \in 0..Len(replies) : replies' = SubSeq(replies, 1, n)

StaysConnected == wire' = Tail(wire) /\ UNCHANGED <<client_fd, peer, replies>>

\* Mistakes a run must detect: a reply to commands that are not R, a quit that
\* closes the connection only, and a B or b that writes pins.
AnswersOther(command) ==
    /\ tdo' = IF command = "drive" THEN tdo + 1 ELSE tdo
    /\ server' = IF command \in {"read", "other"} THEN "write" ELSE "tick"
    /\ quit' = (command = "quit")
    /\ IF command = "quit" THEN Disconnect ELSE StaysConnected

QuitForgotten(command) ==
    /\ tdo' = IF command = "drive" THEN tdo + 1 ELSE tdo
    /\ server' = IF command = "read" THEN "write" ELSE "tick"
    /\ quit' = FALSE
    /\ IF command = "quit" THEN Disconnect ELSE StaysConnected

OtherDrives(command) ==
    /\ tdo' = IF command \in {"drive", "other"} THEN tdo + 1 ELSE tdo
    /\ server' = IF command = "read" THEN "write" ELSE "tick"
    /\ quit' = (command = "quit")
    /\ IF command = "quit" THEN Disconnect ELSE StaysConnected

\* What the switch of execute_command() and the code after it do.
Obey(command) ==
    /\ tdo' = IF command = "drive" THEN tdo + 1 ELSE tdo
    /\ server' = IF command = "read" THEN "write" ELSE "tick"
    /\ quit' = (command = "quit")
    /\ IF command = "quit" THEN Disconnect ELSE StaysConnected

\* A mistake a run must detect: a read that waits for one command more.
AwaitsAnother ==
    /\ server = "read" /\ wire # << >>
    /\ \/ Len(wire) > 1 /\ Obey(Head(wire)) /\ UNCHANGED <<pending, historyVars>>
       \/ Len(wire) = 1 /\ UNCHANGED vars

\* execute_command(): the command read is executed whole.  A read command
\* goes on to write its reply; quit closes the socket and sets quit.
execute_command ==
    /\ server = "read" /\ wire # << >>
    /\ Obey(Head(wire))
    /\ UNCHANGED <<pending, historyVars>>

\* The read loop never returns without a command: EAGAIN spins in it, and at
\* the end of the stream it sleeps a second and reads again.
ReadAgain ==
    /\ server = "read" /\ wire = << >>
    /\ peer \in {"open", "closed", "gone"}
    /\ UNCHANGED vars

\* A mistake a run must detect: EAGAIN taken for an error.
EagainFails ==
    /\ server = "read" /\ wire = << >> /\ peer \in {"reset", "gone", "open"}
    /\ server' = "aborted"
    /\ UNCHANGED <<client_fd, quit, tdo, netVars, historyVars>>

\* Any other errno of read().
ReadFails ==
    /\ server = "read" /\ wire = << >> /\ peer \in {"reset", "gone"}
    /\ server' = "aborted"
    /\ UNCHANGED <<client_fd, quit, tdo, netVars, historyVars>>

\* A mistake a run must detect: a write repeated although it succeeded.
WriteReplyAgain ==
    /\ server = "write" /\ peer = "open" /\ Len(replies) < ReplyCapacity
    /\ replies' = Append(replies, tdo)
    /\ server' \in {"write", "tick"}
    /\ UNCHANGED <<client_fd, quit, tdo, pending, peer, wire, historyVars>>

\* The reply is the value TDO has now.
WriteReply ==
    /\ server = "write" /\ peer = "open" /\ Len(replies) < ReplyCapacity
    /\ replies' = Append(replies, tdo)
    /\ server' = "tick"
    /\ UNCHANGED <<client_fd, quit, tdo, pending, peer, wire, historyVars>>

\* The kernel takes the reply to a client that ended its stream, the client's
\* side answers it with a reset, and what is still unread may be lost.
WriteToClosed ==
    /\ server = "write" /\ peer = "closed"
    /\ peer' = "gone" /\ wire' \in {wire, << >>}
    /\ server' = "tick"
    /\ UNCHANGED <<client_fd, quit, tdo, pending, replies, historyVars>>

\* write() returns -1, or SIGPIPE ends the process: the connection was reset,
\* or the socket is non-blocking and its buffer is full.
WriteFails ==
    /\ server = "write"
    /\ \/ peer \in {"reset", "gone"}
       \/ peer = "open" /\ Len(replies) = ReplyCapacity
    /\ server' = "aborted"
    /\ UNCHANGED <<client_fd, quit, tdo, netVars, historyVars>>

ServerStep ==
    \/ Listen \/ StartFails \/ Exit \/ tick \/ accept \/ AcceptAgain \/ AcceptFails
    \/ execute_command \/ ReadAgain \/ ReadFails
    \/ WriteReply \/ WriteToClosed \/ WriteFails

-----------------------------------------------------------------------------
(***************************************************************************)
(* The clients, external: how the server's code and the log of OpenOCD in  *)
(* the README show them to behave.                                         *)
(***************************************************************************)

Connect ==
    /\ ~ Stopped /\ server # "start" /\ pending < Backlog
    /\ pending' = pending + 1
    /\ UNCHANGED <<serverVars, peer, wire, replies, historyVars>>

Outstanding == Len(asked) - Len(got)

Send(command) ==
    /\ ~ Stopped /\ peer = "open" /\ Len(wire) < WireCapacity
    /\ command = "read" => Outstanding < Window
    /\ wire' = Append(wire, command)
    /\ driven' = IF command = "drive" THEN driven + 1 ELSE driven
    /\ asked' = IF command = "read" THEN Append(asked, driven) ELSE asked
    /\ late' = (late \/ "quit" \in ToSet(wire))
    /\ UNCHANGED <<serverVars, pending, peer, replies, accepted, got>>

Receive ==
    /\ replies # << >> /\ peer \in {"open", "none"}
    /\ got' = Append(got, Head(replies))
    /\ replies' = Tail(replies)
    /\ UNCHANGED <<serverVars, pending, peer, wire, accepted, driven, asked,
                   late>>

\* A client that goes away with replies unread resets the connection.
Close ==
    /\ ~ Stopped /\ peer = "open"
    /\ IF replies = << >>
       THEN peer' = "closed" /\ wire' = wire
       ELSE peer' = "reset" /\ wire' \in {wire, << >>}
    /\ UNCHANGED <<serverVars, pending, replies, historyVars>>

\* The process has ended.
Ended == Stopped /\ UNCHANGED vars

Next ==
    \/ ServerStep
    \/ Connect
    \/ \E command \in Commands : Send(command)
    \/ Receive
    \/ Close
    \/ Ended

\* The operating system lets the server run, and a client reads its replies.
Fairness == WF_vars(ServerStep) /\ WF_vars(Receive)

Spec == Init /\ [][Next]_vars /\ Fairness

-----------------------------------------------------------------------------
(***************************************************************************)
(* Properties.                                                             *)
(***************************************************************************)

\* Types, and execute_command() runs only with a client's descriptor.
TypeOK ==
    /\ server \in {"start", "tick", "accept", "read", "write", "exited", "aborted"}
    /\ client_fd \in {-1, 0, 1} /\ quit \in BOOLEAN /\ tdo \in Nat
    /\ pending \in 0..Backlog /\ peer \in Peers
    /\ wire \in Seq(Commands) /\ replies \in Seq(Nat)
    /\ Len(replies) <= ReplyCapacity
    /\ accepted \in Nat /\ driven \in Nat
    /\ asked \in Seq(Nat) /\ late \in BOOLEAN /\ got \in Seq(Nat)
    /\ server \in {"read", "write"} => client_fd = 1

\* OpenOCD writes many commands before it reads a reply.  Whatever the buffers
\* hold and however its writes and reads interleave with execute_command(),
\* the k-th reply is the TDO that the commands before the k-th R produced, and
\* those alone.
RepliesAnswerReads == IsPrefix(got \o replies, asked)

\* The server aborts only when it never had a client or when its client left:
\* with a client that never lets more replies be outstanding than its buffer
\* holds, the write() that does not retry EAGAIN cannot meet a full buffer.
AbortOnlyWithoutClient ==
    server = "aborted" => client_fd # 1 \/ peer \in {"gone", "reset"}

\* One process serves one session, and serves it in order: a quit ends the
\* process before it accepts again, a client that leaves without quit is never
\* given up, and whatever the sockets do in between no command is executed
\* twice, skipped or overtaken.
Channel == INSTANCE BitbangChannel WITH
    session <- IF accepted = 0 THEN "waiting"
               ELSE IF peer = "open" THEN "connected" ELSE "over",
    queue   <- wire,
    target  <- tdo,
    answers <- IF server = "write" THEN Append(replies, tdo) ELSE replies

ChannelIsImplemented == Channel!ChannelSpec

\* A quit command in the stream of a client that stays ends the process.
QuitStops ==
    ("quit" \in ToSet(wire)) ~>
        (Stopped \/ peer \in {"closed", "gone", "reset"})

\* The comment in the read loop: without a command, tick() is to return and
\* the next call tries again.
TickReturns == []<>(server = "tick" \/ Stopped)

-----------------------------------------------------------------------------
(***************************************************************************)
(* The inductive invariant behind the theorems of BitbangServerProofs.     *)
(***************************************************************************)

\* How many of the first n commands in a buffer are of a kind.
Ahead(buffer, n, command) == Cardinality({ j \in 1..n : buffer[j] = command })

\* The answers given, the one the server is about to write included.
Answered ==
    Len(got) + Len(replies) + (IF server = "write" THEN 1 ELSE 0)

\* The server holds a descriptor exactly for the one session it serves, from
\* accept() to the quit.
SessionMatchesServer ==
    /\ accepted \in {0, 1}
    /\ server \in {"start", "accept"} => accepted = 0
    /\ accepted = 0 => /\ client_fd # 1 /\ ~ quit /\ peer = "none"
                       /\ wire = << >> /\ replies = << >> /\ got = << >>
                       /\ asked = << >> /\ driven = 0 /\ tdo = 0
    /\ accepted = 1 => (client_fd = 1 <=> ~ quit)
    /\ peer = "open" => client_fd = 1
    /\ client_fd = 1 => peer # "none"

\* Nothing a client that stays has sent is lost or counted twice: every R it
\* sent is answered, being answered or in the buffer, every pin write is in
\* the target or in the buffer, and each R still in the buffer will find the
\* target where the client expects it.
StreamIsAccounted ==
    peer = "open" =>
        /\ Len(asked) = Answered + Ahead(wire, Len(wire), "read")
        /\ driven = tdo + Ahead(wire, Len(wire), "drive")
        /\ server = "write" => asked[Answered] = tdo
        /\ \A i \in 1..Len(wire) : wire[i] = "read" =>
             asked[Answered + Ahead(wire, i - 1, "read") + 1]
                 = tdo + Ahead(wire, i - 1, "drive")

ServerInvariant ==
    /\ TypeOK
    /\ SessionMatchesServer
    /\ Outstanding <= Window
    /\ StreamIsAccounted
    /\ RepliesAnswerReads
    /\ AbortOnlyWithoutClient

=============================================================================
