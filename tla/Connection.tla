------------------------------ MODULE Connection ------------------------------
(***************************************************************************)
(* ConnectionManager::run and connect_and_run of the Spot and the Futures  *)
(* adapters: dial, one session, backoff, again.                            *)
(*                                                                         *)
(* A session has two tasks.  The read loop selects, in this order, the     *)
(* shutdown signal, the rotation timer, the ping ticker and the socket; it *)
(* never writes to the socket but awaits room in a bounded channel.  The   *)
(* send task moves that channel's messages to the socket.  After the loop  *)
(* breaks, the session awaits the send task.                               *)
(*                                                                         *)
(* The peer reads and writes independently; it may turn deaf (neither      *)
(* reads nor writes, but the socket stays open) or be gone (the socket is  *)
(* closed or broken).  Time is left out: a timer may fire at any moment.   *)
(***************************************************************************)
EXTENDS Integers, Sequences, FiniteSets

CONSTANTS
  WriteCap,  \* capacity of the out_tx channel
  WireCap,   \* bound: messages the socket holds in either direction
  MaxPings   \* bound: pings the peer sends in one session

ASSUME ConnectionAssumption ==
  WriteCap \in Nat \ {0} /\ WireCap \in Nat \ {0} /\ MaxPings \in Nat

VARIABLES
  task,      \* where ConnectionManager::run is
  pending,   \* the message the read loop is putting into out_tx: <<>> or <<m>>
  out,       \* the out_tx channel
  writer,    \* the send task: "idle", "writing", "gone"
  writing,   \* the message the send task is writing: <<>> or <<m>>
  toPeer,    \* written to the socket, unread by the peer
  fromPeer,  \* sent by the peer, unread by the read loop
  peer,      \* "up", "deaf" or "gone"
  owes,      \* the peer has read a ping it has not answered
  waiting,   \* waiting_for_pong
  tick,      \* the ping interval has a tick to give
  rotation,  \* the rotation timer has fired
  shutdown,  \* the shutdown signal has been sent
  pinged,    \* history: pings the peer has sent in this session
  heard,     \* history: those the read loop has read
  ponged     \* history: the ids of the pongs written, in order

session == <<pending, out, writer, writing, waiting>>
wire    == <<toPeer, fromPeer, peer, owes, pinged>>
timers  == <<tick, rotation>>
vars    == <<task, session, wire, timers, shutdown, heard, ponged>>

\* A ping of the client; a pong carries the payload of its ping.
Ping    == [kind |-> "ping", id |-> 0]
Pong(i) == [kind |-> "pong", id |-> i]
Message == [kind : {"ping", "pong", "data", "close"}, id : 0..MaxPings]

Reasons == {"Shutdown", "ForcedRotation", "PeerClosed"}
Draining == {<<"drain", r>> : r \in Reasons}
Running  == {<<"select">>, <<"sending">>}

SocketTypeOK ==
  /\ toPeer \in Seq(Message) /\ Len(toPeer) <= WireCap
  /\ fromPeer \in Seq(Message) /\ Len(fromPeer) <= WireCap
  /\ peer \in {"up", "deaf", "gone"}
  /\ owes \in BOOLEAN
  /\ pinged \in 0..MaxPings

TypeOK ==
  /\ task \in {<<"check">>, <<"dial">>, <<"backoff">>, <<"stopped">>}
              \cup Running \cup Draining
  /\ pending \in Seq(Message) /\ Len(pending) <= 1
  /\ out \in Seq(Message) /\ Len(out) <= WriteCap
  /\ writer \in {"idle", "writing", "gone"}
  /\ writing \in Seq(Message) /\ Len(writing) <= 1
  /\ SocketTypeOK
  /\ {waiting, tick, rotation, shutdown} \subseteq BOOLEAN
  /\ heard \in 0..pinged
  /\ ponged \in Seq(1..MaxPings)

Init ==
  /\ task = <<"check">>
  /\ pending = <<>> /\ out = <<>> /\ writer = "gone" /\ writing = <<>>
  /\ toPeer = <<>> /\ fromPeer = <<>> /\ peer = "gone" /\ owes = FALSE
  /\ waiting = FALSE /\ tick = FALSE /\ rotation = FALSE
  /\ shutdown = FALSE
  /\ pinged = 0 /\ heard = 0 /\ ponged = <<>>

------------------------------------------------------------------------------
\* The loop of run

CheckShutdown ==
  /\ task = <<"check">>
  /\ task' = IF shutdown THEN <<"stopped">> ELSE <<"dial">>
  /\ UNCHANGED <<session, wire, timers, shutdown, heard, ponged>>

\* A session starts with nothing queued, no ping out and both timers reset.
Dialled ==
  /\ task = <<"dial">>
  /\ task' = <<"select">>
  /\ out' = <<>> /\ writer' = "idle" /\ waiting' = FALSE
  /\ toPeer' = <<>> /\ fromPeer' = <<>> /\ peer' = "up" /\ owes' = FALSE
  /\ tick' = FALSE /\ rotation' = FALSE
  /\ pinged' = 0 /\ heard' = 0 /\ ponged' = <<>>
  /\ UNCHANGED <<pending, writing, shutdown>>

\* The connect fails or takes more than ten seconds.
DialFailed ==
  /\ task = <<"dial">>
  /\ task' = <<"backoff">>
  /\ UNCHANGED <<session, wire, timers, shutdown, heard, ponged>>

\* The dial and the backoff both race with the shutdown signal.
Interrupted ==
  /\ task \in {<<"dial">>, <<"backoff">>} /\ shutdown
  /\ task' = <<"stopped">>
  /\ UNCHANGED <<session, wire, timers, shutdown, heard, ponged>>

BackoffElapsed ==
  /\ task = <<"backoff">> /\ ~shutdown
  /\ task' = <<"check">>
  /\ UNCHANGED <<session, wire, timers, shutdown, heard, ponged>>

------------------------------------------------------------------------------
\* The read loop of connect_and_run

\* Dropping out_tx closes the channel; what it holds is still written.
Break(reason) ==
  /\ task' = <<"drain", reason>>
  /\ UNCHANGED <<session, shutdown, ponged>>

ShutdownBranch ==
  /\ task = <<"select">> /\ shutdown
  /\ Break("Shutdown")
  /\ UNCHANGED <<wire, timers, heard>>

RotationBranch ==
  /\ task = <<"select">> /\ ~shutdown /\ rotation
  /\ Break("ForcedRotation")
  /\ UNCHANGED <<wire, timers, heard>>

\* A tick that only warns when the pong is missing.
PingTick_WarnsOnly ==
  /\ task = <<"select">> /\ ~shutdown /\ ~rotation /\ tick
  /\ tick' = FALSE
  /\ IF waiting THEN UNCHANGED <<task, pending>>
     ELSE task' = <<"sending">> /\ pending' = <<Ping>>
  /\ UNCHANGED <<out, writer, writing, waiting, shutdown, ponged, wire, rotation, heard>>

PingTick ==
  /\ task = <<"select">> /\ ~shutdown /\ ~rotation /\ tick
  /\ tick' = FALSE
  /\ IF waiting
     THEN Break("PeerClosed")
     ELSE /\ task' = <<"sending">> /\ pending' = <<Ping>>
          /\ UNCHANGED <<out, writer, writing, waiting, shutdown, ponged>>
  /\ UNCHANGED <<wire, rotation, heard>>

ReadTurn == task = <<"select">> /\ ~shutdown /\ ~rotation /\ ~tick

Received(kind) ==
  /\ ReadTurn
  /\ fromPeer # <<>> /\ Head(fromPeer).kind = kind
  /\ fromPeer' = Tail(fromPeer)
  /\ UNCHANGED <<toPeer, peer, owes, pinged, timers, shutdown, ponged>>

\* on_frame runs inline; what it does with the frame is the shard's matter.
ReadData ==
  /\ Received("data")
  /\ UNCHANGED <<task, session, heard>>

ReadPing ==
  /\ Received("ping")
  /\ heard' = Head(fromPeer).id
  /\ task' = <<"sending">> /\ pending' = <<Pong(Head(fromPeer).id)>>
  /\ UNCHANGED <<out, writer, writing, waiting>>

\* A pong that leaves the flag set.
ReadPong_Ignored ==
  /\ Received("pong")
  /\ UNCHANGED <<task, session, heard>>

ReadPong ==
  /\ Received("pong")
  /\ waiting' = FALSE
  /\ UNCHANGED <<task, pending, out, writer, writing, heard>>

ReadClose ==
  /\ Received("close")
  /\ Break("PeerClosed")
  /\ UNCHANGED heard

\* The end of the stream or a read error.
ReadEnd ==
  /\ ReadTurn
  /\ peer = "gone" /\ fromPeer = <<>>
  /\ Break("PeerClosed")
  /\ UNCHANGED <<wire, timers, heard>>

\* A loop that gives a message up when the channel is full.
SendOut_NoWait ==
  /\ task = <<"sending">>
  /\ out' = IF writer = "gone" \/ Len(out) = WriteCap THEN out ELSE out \o pending
  /\ task' = <<"select">> /\ pending' = <<>>
  /\ waiting' = (waiting \/ pending = <<Ping>>)
  /\ UNCHANGED <<writer, writing, wire, timers, shutdown, heard, ponged>>

\* The send awaits room; it fails, unnoticed, when the send task has ended.
\* waiting_for_pong is set once the ping is in the channel, or lost.
SendOut ==
  /\ task = <<"sending">>
  /\ writer = "gone" \/ Len(out) < WriteCap
  /\ out' = IF writer = "gone" THEN out ELSE out \o pending
  /\ task' = <<"select">> /\ pending' = <<>>
  /\ waiting' = (waiting \/ pending = <<Ping>>)
  /\ UNCHANGED <<writer, writing, wire, timers, shutdown, heard, ponged>>

\* A manager that reconnects after a rotation only.
SessionOver_RotationOnly ==
  /\ task \in Draining
  /\ writer = "gone"
  /\ task' = IF task[2] = "ForcedRotation" THEN <<"check">> ELSE <<"stopped">>
  /\ UNCHANGED <<session, wire, timers, shutdown, heard, ponged>>

\* send_task.await returns.
SessionOver ==
  /\ task \in Draining
  /\ writer = "gone"
  /\ task' = CASE task[2] = "Shutdown"       -> <<"stopped">>
               [] task[2] = "ForcedRotation" -> <<"check">>
               [] task[2] = "PeerClosed"     -> <<"backoff">>
  /\ UNCHANGED <<session, wire, timers, shutdown, heard, ponged>>

------------------------------------------------------------------------------
\* The send task

WriterTakes ==
  /\ writer = "idle" /\ out # <<>>
  /\ writer' = "writing" /\ writing' = <<Head(out)>> /\ out' = Tail(out)
  /\ UNCHANGED <<task, pending, waiting, wire, timers, shutdown, heard, ponged>>

WriterWrites ==
  /\ writer = "writing" /\ peer # "gone" /\ Len(toPeer) < WireCap
  /\ toPeer' = toPeer \o writing
  /\ ponged' = IF writing[1].kind = "pong" THEN Append(ponged, writing[1].id) ELSE ponged
  /\ writer' = "idle" /\ writing' = <<>>
  /\ UNCHANGED <<task, pending, out, waiting, fromPeer, peer, owes, pinged, timers,
                 shutdown, heard>>

\* A write error ends the task and closes the channel.
WriterFails ==
  /\ writer = "writing" /\ peer = "gone"
  /\ writer' = "gone" /\ writing' = <<>> /\ out' = <<>>
  /\ UNCHANGED <<task, pending, waiting, wire, timers, shutdown, heard, ponged>>

WriterEnds ==
  /\ writer = "idle" /\ out = <<>> /\ task \in Draining
  /\ writer' = "gone"
  /\ UNCHANGED <<task, pending, out, writing, waiting, wire, timers, shutdown, heard, ponged>>

------------------------------------------------------------------------------
\* The peer, the timers and the shutdown signal

InSession == task \in Running \cup Draining

PeerSends(m) ==
  /\ InSession /\ peer = "up" /\ Len(fromPeer) < WireCap
  /\ fromPeer' = Append(fromPeer, m)
  /\ UNCHANGED <<task, session, toPeer, peer, timers, shutdown, heard, ponged>>

PeerPings ==
  /\ pinged < MaxPings
  /\ pinged' = pinged + 1
  /\ PeerSends([kind |-> "ping", id |-> pinged + 1])
  /\ UNCHANGED owes

PeerData == PeerSends([kind |-> "data", id |-> 0]) /\ UNCHANGED <<owes, pinged>>

PeerCloses == PeerSends([kind |-> "close", id |-> 0]) /\ UNCHANGED <<owes, pinged>>

PeerPongs == owes /\ PeerSends(Pong(0)) /\ owes' = FALSE /\ UNCHANGED pinged

PeerReads ==
  /\ InSession /\ peer = "up" /\ toPeer # <<>>
  /\ toPeer' = Tail(toPeer)
  /\ owes' = (owes \/ Head(toPeer).kind = "ping")
  /\ UNCHANGED <<task, session, fromPeer, peer, pinged, timers, shutdown, heard, ponged>>

PeerTurnsDeaf ==
  /\ InSession /\ peer = "up"
  /\ peer' = "deaf"
  /\ UNCHANGED <<task, session, toPeer, fromPeer, owes, pinged, timers, shutdown,
                 heard, ponged>>

\* The socket is closed by the peer, reset, or given up by the kernel.
SocketBreaks ==
  /\ InSession /\ peer # "gone"
  /\ peer' = "gone"
  /\ UNCHANGED <<task, session, toPeer, fromPeer, owes, pinged, timers, shutdown,
                 heard, ponged>>

\* MissedTickBehavior::Skip: ticks that were not taken do not add up.
TickDue ==
  /\ task \in Running /\ ~tick
  /\ tick' = TRUE
  /\ UNCHANGED <<task, session, wire, rotation, shutdown, heard, ponged>>

RotationDue ==
  /\ task \in Running /\ ~rotation
  /\ rotation' = TRUE
  /\ UNCHANGED <<task, session, wire, tick, shutdown, heard, ponged>>

ShutdownSent ==
  /\ ~shutdown
  /\ shutdown' = TRUE
  /\ UNCHANGED <<task, session, wire, timers, heard, ponged>>

------------------------------------------------------------------------------
RunStep == CheckShutdown \/ Interrupted \/ BackoffElapsed \/ SessionOver
LoopStep ==
  \/ ShutdownBranch \/ RotationBranch \/ PingTick
  \/ ReadData \/ ReadPing \/ ReadPong \/ ReadClose \/ ReadEnd
  \/ SendOut
WriterStep == WriterTakes \/ WriterWrites \/ WriterFails \/ WriterEnds
PeerStep ==
  \/ PeerPings \/ PeerData \/ PeerCloses \/ PeerPongs \/ PeerReads
  \/ PeerTurnsDeaf \/ SocketBreaks

\* The process has ended this connection: nothing is left to happen.
Stopped == task = <<"stopped">> /\ shutdown /\ UNCHANGED vars

Next ==
  \/ RunStep \/ Dialled \/ DialFailed \/ LoopStep \/ WriterStep
  \/ PeerStep \/ TickDue \/ RotationDue \/ ShutdownSent \/ Stopped

Spec == Init /\ [][Next]_vars

\* The runtime polls both tasks, the ticker ticks, the kernel gives a socket
\* up whose send buffer stays full, and a peer that is up reads what it is sent.
Fairness ==
  /\ WF_vars(RunStep) /\ WF_vars(LoopStep) /\ WF_vars(WriterStep)
  /\ WF_vars(TickDue)
  /\ WF_vars(PeerReads) /\ WF_vars(PeerPongs)
  /\ WF_vars(peer = "deaf" /\ Len(toPeer) = WireCap /\ SocketBreaks)
  /\ WF_vars(Dialled \/ DialFailed)

FairSpec == Spec /\ Fairness

------------------------------------------------------------------------------
\* How many of the first n messages of s are of that kind.
SoFar(s, n, kind) == Cardinality({i \in 1..n : s[i].kind = kind})
Count(s, kind)    == SoFar(s, Len(s), kind)

\* Every ping of the peer is answered once, in order: the pongs written carry
\* the first numbers, those being written, queued and waiting for room the next
\* ones, up to the pings read so far, as long as the send task lives (the
\* awaited send of the Ping arm).
PongsInOrder ==
  (task \in Running /\ writer # "gone") =>
    LET unsent == writing \o out \o pending
    IN  /\ \A k \in 1..Len(ponged) : ponged[k] = k
        /\ \A i \in 1..Len(unsent) : unsent[i].kind = "pong" =>
             unsent[i].id = Len(ponged) + SoFar(unsent, i, "pong")
        /\ Len(ponged) + Count(unsent, "pong") = heard

Outstanding ==
  Count(pending \o out \o writing \o toPeer, "ping")
  + (IF owes THEN 1 ELSE 0) + Count(fromPeer, "pong")

\* The flag that decides whether the next tick drops the connection tells the
\* truth: it is set exactly while one ping, or its pong, is under way, and there
\* are never two (the tick arm and the Pong arm).
PingAccounted ==
  (task = <<"select">> /\ writer # "gone" /\ peer # "gone") =>
    Outstanding = (IF waiting THEN 1 ELSE 0)

\* A session whose peer has gone silent, or whose send task has failed, is left:
\* the second tick without a pong breaks the loop, whatever was queued.
DeadSessionEnds ==
  (task \in Running /\ (peer # "up" \/ writer = "gone")) ~> (task \notin Running)

\* run goes through sessions as ConnectionLife says: it ends only after the
\* shutdown signal, and after that signal it always ends, whether it comes in a
\* dial, in a backoff, in a send that awaits room or while the send task drains.
LifeOf == IF task = <<"stopped">> THEN "over" ELSE IF InSession THEN "up" ELSE "down"
Life == INSTANCE ConnectionLife WITH life <- LifeOf, halted <- shutdown
LifeKept == Life!LifeSpec
==============================================================================
