------------------------------- MODULE Connector -------------------------------
(***************************************************************************)
(* The connector process (bin/connector/src/main.rs): one task per         *)
(* WebSocket connection, the open interest poller, the startup publication *)
(* of the instrument definitions, each with a publisher of its own on one  *)
(* Aeron stream, and the shutdown of them all.                             *)
(*                                                                         *)
(* A frame is normalised and published inline.  A publication that the     *)
(* driver has closed is rebuilt by reconnect_sync, which blocks the worker *)
(* thread of the runtime until the driver is back.  Signals and timers are *)
(* delivered by the runtime's workers as well: while every worker is       *)
(* blocked there are neither.  The startup publication runs in main, on a  *)
(* thread that is not a worker.                                            *)
(*                                                                         *)
(* Connections are seen as ConnectionLife shows them (module Connection):  *)
(* after the shutdown signal a connection ends by itself.                  *)
(*                                                                         *)
(* A message is known by when its task came to it: the messages of a       *)
(* connection and of the poller by the sequence number they carry, the     *)
(* definitions of main by their place in the universe, in whose order they *)
(* are published.  A definition carries its position in exchangeInfo: such *)
(* numbers have holes and may descend; nothing here reads them.            *)
(***************************************************************************)
EXTENDS Integers, Sequences, FiniteSets, FiniteSetsExt

CONSTANTS
  Conns,        \* connection tasks
  Poller,       \* the open interest task
  Boot,         \* the startup publication of main
  Workers,      \* worker threads of the runtime
  Definitions,  \* instrument definitions main publishes
  MaxSeq,       \* bound: sequence numbers a task takes
  MaxDeaths     \* bound: times the media driver dies

Tasks == Conns \cup {Poller}
All   == Tasks \cup {Boot}

\* An instance that has no instrument is left out: it has nothing to publish.
ASSUME ConnectorAssumption ==
  /\ IsFiniteSet(Conns) /\ Conns # {} /\ Poller \notin Conns /\ Boot \notin Tasks
  /\ Workers \in Nat \ {0} /\ Definitions \in Nat \ {0}
  /\ MaxSeq \in Nat /\ MaxDeaths \in Nat

VARIABLES
  main,       \* "starting", "serving", "draining", "exited"
  asked,      \* ctrl-c has been pressed
  shutdown,   \* shutdown_tx has sent true
  driver,     \* the media driver is up
  deaths,     \* times it has died
  pc,         \* per task: where it is
  pub,        \* per task: its publication
  seq,        \* per task but main: next sequence number
  todo,       \* per task: messages normalised but not offered yet
  delivered,  \* per task: messages the stream has accepted
  failures,   \* the counter of failed offers
  spoiled     \* history: messages lost in the normalizer or the encoder

process == <<main, asked, shutdown>>
world   == <<driver, deaths>>
vars    == <<main, asked, shutdown, driver, deaths, pc, pub, seq, todo,
             delivered, failures, spoiled>>

Numbers == 0..(MaxSeq + Definitions)

TypeOK ==
  /\ main \in {"starting", "serving", "draining", "exited"}
  /\ {asked, shutdown, driver} \subseteq BOOLEAN
  /\ deaths \in 0..MaxDeaths
  /\ pc \in [All -> {"unborn", "building", "retryWait", "running", "publishing",
                     "reconnecting", "stopped"}]
  /\ pub \in [All -> {"none", "open", "orphan", "closed", "null"}]
  /\ seq \in [Tasks -> Numbers]
  /\ todo \in [All -> Seq(Numbers)] /\ delivered \in [All -> Seq(Numbers)]
  /\ \A t \in All : pc[t] = "publishing" => todo[t] # <<>>
  /\ failures \in Nat /\ spoiled \in Nat

Init ==
  /\ main = "starting" /\ asked = FALSE /\ shutdown = FALSE
  /\ driver \in BOOLEAN /\ deaths = 0
  /\ pc = [t \in All |-> IF t = Boot THEN "building" ELSE "unborn"]
  /\ pub = [t \in All |-> "none"]
  /\ seq = [t \in Tasks |-> 0]
  /\ todo = [t \in All |-> IF t = Boot THEN [k \in 1..Definitions |-> k - 1] ELSE <<>>]
  /\ delivered = [t \in All |-> <<>>]
  /\ failures = 0 /\ spoiled = 0

------------------------------------------------------------------------------
\* The runtime: what a worker thread does holds it until it is done.

Held == {t \in Tasks : pc[t] \in {"publishing", "reconnecting"}}
WorkerFree == Cardinality(Held) < Workers

\* main runs on its own thread; a task waits for a worker.
CanRun(t) == main # "exited" /\ (t = Boot \/ WorkerFree)

Goto(t, where) == pc' = [pc EXCEPT ![t] = where]

------------------------------------------------------------------------------
\* build_aeron_with_retry: one attempt is a blocking call on a thread of its
\* own, raced against shutdown, and so is the wait before the next one.

\* main has its definitions ready and publishes them at once.
Built(t) ==
  /\ pc[t] = "building" /\ driver /\ CanRun(t)
  /\ pub' = [pub EXCEPT ![t] = "open"]
  /\ Goto(t, IF t = Boot THEN "publishing" ELSE "running")
  /\ UNCHANGED <<process, world, seq, todo, delivered, failures, spoiled>>

BuildFailed(t) ==
  /\ pc[t] = "building" /\ ~driver /\ CanRun(t)
  /\ Goto(t, "retryWait")
  /\ UNCHANGED <<process, world, pub, seq, todo, delivered, failures, spoiled>>

RetryElapsed(t) ==
  /\ pc[t] = "retryWait" /\ ~shutdown /\ CanRun(t)
  /\ Goto(t, "building")
  /\ UNCHANGED <<process, world, pub, seq, todo, delivered, failures, spoiled>>

\* Interrupted, it gives a null publisher, and the task goes on with that.
BuildInterrupted(t) ==
  /\ pc[t] \in {"building", "retryWait"} /\ shutdown /\ CanRun(t)
  /\ pub' = [pub EXCEPT ![t] = "null"]
  /\ Goto(t, "running")
  /\ UNCHANGED <<process, world, seq, todo, delivered, failures, spoiled>>

------------------------------------------------------------------------------
\* One frame, or one answer of the open interest poll

\* A mark price whose funding rate is published first.
Frame_FundingFirst(t, n) ==
  /\ t \in Tasks /\ pc[t] = "running" /\ ~shutdown /\ CanRun(t)
  /\ n = 1 \/ t \in Conns
  /\ seq[t] + n <= MaxSeq
  /\ seq' = [seq EXCEPT ![t] = @ + n]
  /\ todo' = [todo EXCEPT ![t] = [k \in 1..n |-> seq[t] + n - k]]
  /\ Goto(t, "publishing")
  /\ UNCHANGED <<process, world, pub, delivered, failures, spoiled>>

\* Normalised to n messages: a mark price event of the futures gives two.
Frame(t, n) ==
  /\ t \in Tasks /\ pc[t] = "running" /\ ~shutdown /\ CanRun(t)
  /\ n = 1 \/ t \in Conns
  /\ seq[t] + n <= MaxSeq
  /\ seq' = [seq EXCEPT ![t] = @ + n]
  /\ todo' = [todo EXCEPT ![t] = [k \in 1..n |-> seq[t] + k - 1]]
  /\ Goto(t, "publishing")
  /\ UNCHANGED <<process, world, pub, delivered, failures, spoiled>>

\* A normalizer that fails has taken its sequence number already.  The poller
\* counts one only when its normalizer has succeeded.
FrameSpoiled(t) ==
  /\ t \in Conns /\ pc[t] = "running" /\ ~shutdown /\ CanRun(t)
  /\ seq[t] < MaxSeq
  /\ seq' = [seq EXCEPT ![t] = @ + 1]
  /\ spoiled' = spoiled + 1
  /\ UNCHANGED <<process, world, pc, pub, todo, delivered, failures>>

------------------------------------------------------------------------------
\* publish_one

\* After the last message: the task goes back to its socket; main drops its
\* publisher and starts the tasks.
AfterOffer(t) ==
  IF Len(todo[t]) > 1 THEN UNCHANGED <<pc, main>>
  ELSE IF t = Boot
  THEN /\ pc' = [u \in All |-> IF u = Boot THEN "stopped" ELSE "building"]
       /\ main' = "serving"
  ELSE Goto(t, "running") /\ UNCHANGED main

Offering(t) ==
  /\ main # "exited"
  /\ pc[t] = "publishing"
  /\ todo' = [todo EXCEPT ![t] = Tail(@)]
  /\ UNCHANGED <<asked, shutdown, world, pub, seq>>

\* A message that does not encode is given up, and not counted.
Unencoded(t) ==
  /\ Offering(t)
  /\ spoiled' = spoiled + 1
  /\ AfterOffer(t)
  /\ UNCHANGED <<delivered, failures>>

Offered(t) ==
  /\ Offering(t)
  /\ pub[t] \in {"open", "null"}
  /\ delivered' = IF pub[t] = "null" THEN delivered
                  ELSE [delivered EXCEPT ![t] = Append(@, Head(todo[t]))]
  /\ AfterOffer(t)
  /\ UNCHANGED <<failures, spoiled>>

\* Back pressure, an administrative action, or no subscriber (not connected):
\* counted and given up.
Refused(t) ==
  /\ Offering(t)
  /\ pub[t] \in {"open", "orphan"}
  /\ failures' = failures + 1
  /\ AfterOffer(t)
  /\ UNCHANGED <<delivered, spoiled>>

\* A publisher that counts a message only if it will not be rebuilt.
OfferedClosed_NotCounted(t) ==
  /\ Offering(t)
  /\ pub[t] = "closed"
  /\ Goto(t, "reconnecting")
  /\ UNCHANGED <<main, delivered, failures, spoiled>>

\* The message that finds the publication closed is counted and given up too.
OfferedClosed(t) ==
  /\ Offering(t)
  /\ pub[t] = "closed"
  /\ failures' = failures + 1
  /\ Goto(t, "reconnecting")
  /\ UNCHANGED <<main, delivered, spoiled>>

\* reconnect_sync: attempts without end, the worker blocked between them.
Reconnected(t) ==
  /\ main # "exited"
  /\ pc[t] = "reconnecting" /\ driver
  /\ pub' = [pub EXCEPT ![t] = "open"]
  /\ IF todo[t] # <<>> THEN Goto(t, "publishing") /\ UNCHANGED main
     ELSE IF t = Boot
     THEN /\ pc' = [u \in All |-> IF u = Boot THEN "stopped" ELSE "building"]
          /\ main' = "serving"
     ELSE Goto(t, "running") /\ UNCHANGED main
  /\ UNCHANGED <<asked, shutdown, world, seq, todo, delivered, failures, spoiled>>

------------------------------------------------------------------------------
\* The media driver

DriverDies ==
  /\ driver /\ deaths < MaxDeaths
  /\ driver' = FALSE /\ deaths' = deaths + 1
  /\ pub' = [t \in All |-> IF pub[t] = "open" THEN "orphan" ELSE pub[t]]
  /\ UNCHANGED <<process, pc, seq, todo, delivered, failures, spoiled>>

DriverRestarts ==
  /\ ~driver
  /\ driver' = TRUE
  /\ UNCHANGED <<process, deaths, pc, pub, seq, todo, delivered, failures, spoiled>>

\* The client's conductor notices that its driver is dead.
ClientCloses(t) ==
  /\ pub[t] = "orphan"
  /\ pub' = [pub EXCEPT ![t] = "closed"]
  /\ UNCHANGED <<process, world, pc, seq, todo, delivered, failures, spoiled>>

------------------------------------------------------------------------------
\* Shutdown

\* Before main listens for it, the signal just ends the process.
CtrlC ==
  /\ ~asked /\ main # "exited"
  /\ asked' = TRUE
  /\ main' = IF main = "starting" THEN "exited" ELSE main
  /\ UNCHANGED <<shutdown, world, pc, pub, seq, todo, delivered, failures, spoiled>>

SignalSeen ==
  /\ main = "serving" /\ asked /\ WorkerFree
  /\ main' = "draining" /\ shutdown' = TRUE
  /\ UNCHANGED <<asked, world, pc, pub, seq, todo, delivered, failures, spoiled>>

TaskStops(t) ==
  /\ t \in Tasks /\ pc[t] = "running" /\ shutdown /\ CanRun(t)
  /\ Goto(t, "stopped")
  /\ UNCHANGED <<process, world, pub, seq, todo, delivered, failures, spoiled>>

Drained ==
  /\ main = "draining" /\ \A t \in Tasks : pc[t] = "stopped"
  /\ main' = "exited"
  /\ UNCHANGED <<asked, shutdown, world, pc, pub, seq, todo, delivered, failures, spoiled>>

\* A main that waits for its tasks however long they take.
DrainTimeout_None ==
  /\ main = "draining" /\ \A t \in Tasks : pc[t] = "stopped"
  /\ WorkerFree
  /\ main' = "exited"
  /\ UNCHANGED <<asked, shutdown, world, pc, pub, seq, todo, delivered, failures, spoiled>>

DrainTimeout ==
  /\ main = "draining" /\ WorkerFree
  /\ main' = "exited"
  /\ UNCHANGED <<asked, shutdown, world, pc, pub, seq, todo, delivered, failures, spoiled>>

------------------------------------------------------------------------------
Build(t)   == Built(t) \/ BuildFailed(t) \/ RetryElapsed(t) \/ BuildInterrupted(t)
Publish(t) == Unencoded(t) \/ Offered(t) \/ Refused(t) \/ OfferedClosed(t)
Stop       == SignalSeen \/ Drained \/ DrainTimeout

Next ==
  \/ \E t \in All : Build(t) \/ Publish(t) \/ Reconnected(t) \/ ClientCloses(t)
  \/ \E t \in Tasks : \E n \in 1..2 : Frame(t, n)
  \/ \E t \in Tasks : FrameSpoiled(t) \/ TaskStops(t)
  \/ DriverDies \/ DriverRestarts
  \/ CtrlC \/ Stop

Spec == Init /\ [][Next]_vars

\* Threads run: a blocked one goes on when the driver is back, a publisher
\* works off its frame, main sees signals and timers when a worker is free.
RuntimeFair ==
  /\ WF_vars(\E t \in All : Publish(t))
  /\ WF_vars(\E t \in All : Reconnected(t))
  /\ WF_vars(\E t \in All : Built(t) \/ BuildInterrupted(t))
  /\ WF_vars(\E t \in All : ClientCloses(t))
  /\ WF_vars(\E t \in Tasks : TaskStops(t))
  /\ WF_vars(Stop)

FairSpec == Spec /\ RuntimeFair

------------------------------------------------------------------------------
\* The messages of one task reach the stream in the order in which the task
\* came to them, none of them twice, across back pressure, closed publications
\* and reconnects (publish_one is called in order, its loser is not offered
\* again): a connection's and the poller's sequence numbers ascend, the
\* definitions follow the universe.
InOrder ==
  \A t \in All : \A i, j \in 1..Len(delivered[t]) :
    i < j => delivered[t][i] < delivered[t][j]

SumOver(f) == MapThenSumSet(LAMBDA t : f[t], All)

\* The messages there have been.
Made == [t \in All |-> IF t = Boot THEN Definitions ELSE seq[t]]

\* The offer-failure counter is the whole truth about loss behind the
\* normalizer and the encoder, which count nothing: every other message is on
\* the stream, still to be offered, or counted (record_offer_failure of
\* publish_one), over refusals, closed publications and reconnects.
LossesCounted ==
  SumOver(Made) = SumOver([t \in All |-> Len(delivered[t]) + Len(todo[t])])
                 + failures + spoiled

\* No message is swallowed by the null publisher of an interrupted start: the
\* task that gets one stops before it handles a frame (the check of shutdown on
\* entry of ConnectionManager::run and OpenInterestPoller::run).
NothingSwallowed == \A t \in All : pub[t] = "null" => todo[t] = <<>>

Stuck == {t \in Tasks : pc[t] = "reconnecting"}

\* Ctrl-C ends the process, driver or no driver, unless reconnect_sync blocks
\* every worker of the runtime: then neither the signal nor the drain timeout
\* of main is ever delivered.
CtrlCExits == asked ~> (main = "exited" \/ Cardinality(Stuck) = Workers)

\* The drain of main: "Wait up to 5 s for async tasks to honour the shutdown
\* signal", then exit, even if the driver never comes back.
DrainIsBounded == asked ~> (main = "exited")

\* main publishes the definitions at startup so that consumers have the scales
\* before any market data.
DefinitionsFirst ==
  \A c \in Conns : delivered[c] # <<>> => Len(delivered[Boot]) = Definitions
==============================================================================
