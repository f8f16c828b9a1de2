------------------------------- MODULE Bridge -------------------------------
(***************************************************************************)
(* The ClickHouse bridge (bin/clickhouse-bridge/src/main.rs): a blocking   *)
(* thread polls Aeron and sends what it decodes into an unbounded channel, *)
(* an async task writes it to one inserter per table, and a watcher thread *)
(* waits for the signals that every other thread has blocked.              *)
(*                                                                         *)
(* ClickHouse and its inserters are external: a write, a commit or the     *)
(* final flush of a table succeeds, or fails and is logged.                *)
(***************************************************************************)
EXTENDS Integers, Sequences, FiniteSets

CONSTANTS Table,        \* the kinds of messages with a table, one inserter each
          Other,        \* the kinds without one
          MaxMessages   \* messages the poll thread decodes

VARIABLES main,       \* the async task: waiting, looping, flushing, exited
          poll,       \* the poll thread: none, setup, polling, ended
          ready,      \* aeron_ready, which the watcher spins on
          signal,     \* a SIGINT or SIGTERM is pending
          killed,     \* the watcher has ended the process
          channel,    \* messages the poll thread sent and nobody took
          buffered,   \* messages written to an inserter and not committed
          stored,     \* messages in ClickHouse
          logged,     \* messages whose loss was logged
          received    \* messages decoded so far

vars == <<main, poll, ready, signal, killed, channel, buffered, stored, logged, received>>
rows == <<channel, buffered, stored, logged, received>>

Kind    == Table \cup Other
Message == (1 .. MaxMessages) \X Kind

Init == /\ main = "waiting" /\ poll = "none" /\ ready = FALSE
        /\ signal = FALSE /\ killed = FALSE
        /\ channel = <<>> /\ buffered = {} /\ stored = {} /\ logged = {} /\ received = {}

Running == main # "exited"

(* wait_for_clickhouse tries until the server answers; the poll thread is    *)
(* spawned only behind it. Tables that are missing end the process.          *)
Connects ==
    /\ main = "waiting" /\ main' = "looping" /\ poll' = "setup"
    /\ UNCHANGED <<ready, signal, killed, rows>>

TablesMissing ==
    /\ main = "waiting" /\ main' = "exited"
    /\ UNCHANGED <<poll, ready, signal, killed, rows>>

(* Mutant: the watcher is never told. *)
ReadyAfterSetup_Not == ready

ReadyAfterSetup == TRUE

SetupDone ==
    /\ Running /\ poll = "setup" /\ poll' = "polling" /\ ready' = ReadyAfterSetup
    /\ UNCHANGED <<main, signal, killed, rows>>

(* An error of the set-up is in the handle of the thread, which nobody        *)
(* awaits; its sender is dropped.                                             *)
SetupFails ==
    /\ Running /\ poll = "setup" /\ poll' = "ended"
    /\ UNCHANGED <<main, ready, signal, killed, rows>>

(* Mutant: the first error ends the thread. *)
AfterPollError_Ends == "ended"

(* A poll that fails counts as one without fragments. *)
AfterPollError == "polling"

PollError ==
    /\ Running /\ poll = "polling" /\ poll' = AfterPollError
    /\ UNCHANGED <<main, ready, signal, killed, rows>>

(* Whatever from_bytes accepts is sent, with a table or without. *)
Decoded(kind) ==
    LET m == <<Cardinality(received) + 1, kind>>
    IN  /\ Running /\ poll = "polling" /\ Cardinality(received) < MaxMessages
        /\ channel' = Append(channel, m) /\ received' = received \cup {m}
        /\ UNCHANGED <<main, poll, ready, signal, killed, buffered, stored, logged>>

Receive(written) ==
    /\ main = "looping" /\ channel # <<>> /\ channel' = Tail(channel)
    /\ Head(channel)[2] \in Table
    /\ IF written THEN buffered' = buffered \cup {Head(channel)} /\ UNCHANGED logged
                  ELSE logged' = logged \cup {Head(channel)} /\ UNCHANGED buffered
    /\ UNCHANGED <<main, poll, ready, signal, killed, stored, received>>

(* TradingStatus, BookSnapshot, Heartbeat, FeedStatus...: write returns at    *)
(* once, and the message is only counted among the others.                   *)
PassesOver ==
    /\ main = "looping" /\ channel # <<>> /\ channel' = Tail(channel)
    /\ Head(channel)[2] \notin Table
    /\ UNCHANGED <<main, poll, ready, signal, killed, buffered, stored, logged, received>>

Of(tables) == {m \in buffered : m[2] \in tables}

(* commit and end go through the tables; one that fails does not stop the    *)
(* others. What a timeout cuts off stays with its inserter (commit) or is    *)
(* reported with it (end).                                                   *)
Commit(good, bad) ==
    /\ main = "looping" /\ buffered # {} /\ good \cap bad = {}
    /\ stored' = stored \cup Of(good) /\ logged' = logged \cup Of(bad)
    /\ buffered' = buffered \ Of(good \cup bad)
    /\ UNCHANGED <<main, poll, ready, signal, killed, channel, received>>

(* recv returns None when the sender is gone and the channel is empty. *)
ChannelClosed == poll = "ended" /\ channel = <<>>

LeavesLoop ==
    /\ main = "looping" /\ ChannelClosed /\ main' = "flushing"
    /\ UNCHANGED <<poll, ready, signal, killed, rows>>

Flushed(good) ==
    /\ main = "flushing" /\ main' = "exited"
    /\ stored' = stored \cup Of(good) /\ logged' = logged \cup Of(Table \ good) /\ buffered' = {}
    /\ UNCHANGED <<poll, ready, signal, killed, channel, received>>

Signalled ==
    /\ Running /\ ~signal /\ signal' = TRUE
    /\ UNCHANGED <<main, poll, ready, killed, rows>>

(* The watcher takes the signal only once Aeron is set up, and then calls    *)
(* _exit: what is queued or buffered goes with the process.                  *)
WatcherExits ==
    /\ Running /\ signal /\ ready
    /\ main' = "exited" /\ killed' = TRUE
    /\ UNCHANGED <<poll, ready, signal, rows>>

Next == \/ Connects \/ TablesMissing \/ SetupDone \/ SetupFails \/ PollError
        \/ \E kind \in Kind : Decoded(kind)
        \/ \E written \in BOOLEAN : Receive(written)
        \/ PassesOver
        \/ \E good, bad \in SUBSET Table : Commit(good, bad)
        \/ LeavesLoop \/ (\E good \in SUBSET Table : Flushed(good))
        \/ Signalled \/ WatcherExits

(* The threads run, ClickHouse is reached in the end, and its clients come   *)
(* back: every call has a timeout.                                           *)
Steps == \/ Connects \/ TablesMissing \/ SetupDone \/ SetupFails
         \/ (\E written \in BOOLEAN : Receive(written)) \/ PassesOver
         \/ LeavesLoop \/ (\E good \in SUBSET Table : Flushed(good))
Spec == Init /\ [][Next]_vars
FairSpec == Spec /\ WF_vars(Steps) /\ WF_vars(WatcherExits)

-----------------------------------------------------------------------------
WithTable(messages) == {m \in messages : m[2] \in Table}

(* A message with a table that the poll thread handed over is in the channel,  *)
(* with an inserter, in ClickHouse or in the log (write, commit, end); one      *)
(* without goes nowhere, by design, and no log says so. The loop is never left *)
(* with a row in hand: the thread polls on, as shutdown_flag is set only       *)
(* behind the loop, so the final flush there (main.rs:700-711) has nothing to  *)
(* flush, and a bridge that has received anything ends by the watcher's _exit. *)
OnlySignalsStop ==
    /\ WithTable(received)
         = WithTable({channel[i] : i \in DOMAIN channel}) \cup buffered \cup stored \cup logged
    /\ main \in {"flushing", "exited"} /\ ~killed => received = {}

(* Once ClickHouse is there a signal ends the bridge, whatever state the     *)
(* poll thread is in (install_sigint_handler).                               *)
SignalEnds == signal ~> main = "exited"
=============================================================================
