------------------------------ MODULE SpotShard ------------------------------
(***************************************************************************)
(* One symbol of the Spot shard task (run_shard of                         *)
(* bin/connector/examples/spot_e2e.rs): keeping the local book in step     *)
(* with the venue by sequence validation, buffering, REST recovery, the    *)
(* circuit breaker, the BBO check and the periodic snapshot check.         *)
(*                                                                         *)
(* The task is single-threaded: it takes one frame or tick at a time and   *)
(* never takes another while it awaits a REST snapshot (pc # "idle").      *)
(* Meanwhile the venue, the WebSocket task that fills the frame queue and  *)
(* the REST server go on.  The replay loop of apply_spot_snapshot is one   *)
(* step per buffered delta.  Symbols share nothing but the task's time, so *)
(* the other symbols of the shard are not modelled.                        *)
(*                                                                         *)
(* Failures modelled: deltas lost on a full queue or while disconnected,   *)
(* deltas delivered twice, deltas that do not parse, normalise or encode,  *)
(* REST requests that fail, REST servers that lag, buffer overflow, BBO    *)
(* mismatches of every duration.                                           *)
(***************************************************************************)
EXTENDS OrderBook, SpotSequence, RecoveryLimits

CONSTANTS
  QueueCap,   \* capacity of the frame channel
  RestLag     \* bound: updates by which a REST snapshot may lag the venue

ASSUME ShardAssumption == QueueCap \in Nat \ {0} /\ RestLag \in Nat

VARIABLES
  venue,     \* last update id the venue has generated
  streamed,  \* last update id carried by the depth stream so far
  frames,    \* depth deltas in the frame channel
  rest,      \* the REST request of the task: [st, id]
  pc,        \* what the task is doing
  val,       \* SymbolState.validator
  levels,    \* SymbolState.book: levels
  last,      \* SymbolState.book: last_update_id
  stale,     \* SymbolState.book: stale
  recBuf,    \* SymbolState.recovery_buf
  circuit,   \* SymbolState.circuit
  bbo,       \* SymbolState.bbo_validator: how long prices have mismatched
  feed,      \* SymbolState.feed_state
  handled,   \* history: highest update id among the deltas given to the validator
  based      \* history: a REST snapshot has been applied to the book

env  == <<venue, streamed>>
book == <<levels, last>>
hist == <<handled, based>>
vars == <<venue, streamed, frames, rest, pc, val, levels, last, stale,
          recBuf, circuit, bbo, feed, handled, based>>

FeedStates == {"Connecting", "Live", "Degraded", "Stale", "Recovering"}

NoRequest == [st |-> "none", id |-> 0]
Asked     == [st |-> "asked", id |-> 0]

TaskTypeOK ==
  /\ venue \in 0..MaxId
  /\ streamed \in 0..venue
  /\ frames \in Seq(Delta) /\ Len(frames) <= QueueCap
  /\ rest \in [st : {"none", "asked", "ok", "failed"}, id : 0..MaxId]
  /\ pc \in {"idle", "gapFetch", "gapReplay", "tickFetch", "tickReplay", "checkFetch"}
  /\ handled \in 0..MaxId

BookTypeOK ==
  /\ val \in Validator
  /\ levels \in [Levels -> Nat]
  /\ last \in 0..MaxId

FlagsOK == stale \in BOOLEAN /\ based \in BOOLEAN

RecoveryTypeOK ==
  /\ recBuf \in Seq(Delta) /\ Len(recBuf) <= MaxEvents
  /\ circuit \in Circuit
  /\ bbo \in {"none", "fresh", "degrade"}
  /\ feed \in FeedStates

TypeOK == TaskTypeOK /\ BookTypeOK /\ FlagsOK /\ RecoveryTypeOK

Init ==
  /\ venue = 0 /\ streamed = 0 /\ frames = <<>>
  /\ rest = NoRequest /\ pc = "idle"
  /\ val = NewValidator
  /\ levels = EmptyBook /\ last = 0 /\ stale = FALSE
  /\ recBuf = <<>> /\ circuit = NewCircuit
  /\ bbo = "none" /\ feed = "Connecting"
  /\ handled = 0 /\ based = FALSE

------------------------------------------------------------------------------
\* The venue, the WebSocket task and the clock

symbol == <<val, book, stale, recBuf, bbo, feed, hist>>

VenueUpdate ==
  /\ venue < MaxId
  /\ venue' = venue + 1
  /\ UNCHANGED <<streamed, frames, rest, pc, circuit, symbol>>

\* The stream sends what happened since its last delta.  The frame callback
\* drops the frame when the channel is full (try_send, result ignored).
StreamDelta ==
  /\ streamed < venue
  /\ streamed' = venue
  /\ frames' = IF Len(frames) < QueueCap
               THEN Append(frames, [first |-> streamed + 1, final |-> venue])
               ELSE frames
  /\ UNCHANGED <<venue, rest, pc, circuit, symbol>>

\* A delta sent while the connection is down or being rotated.
LoseDelta ==
  /\ streamed < venue
  /\ streamed' = venue
  /\ UNCHANGED <<venue, frames, rest, pc, circuit, symbol>>

\* The same delta delivered twice.
DuplicateDelta ==
  /\ frames # <<>> /\ Len(frames) < QueueCap
  /\ frames' = Append(frames, frames[Len(frames)])
  /\ UNCHANGED <<venue, streamed, rest, pc, circuit, symbol>>

RestServe(lag) ==
  /\ rest.st = "asked" /\ lag <= venue
  /\ rest' = [st |-> "ok", id |-> venue - lag]
  /\ UNCHANGED <<venue, streamed, frames, pc, circuit, symbol>>

RestFail ==
  /\ rest.st = "asked"
  /\ rest' = [st |-> "failed", id |-> 0]
  /\ UNCHANGED <<venue, streamed, frames, pc, circuit, symbol>>

CooldownPasses ==
  /\ circuit.open /\ circuit.wait > 0
  /\ circuit' = [circuit EXCEPT !.wait = @ - 1]
  /\ UNCHANGED <<venue, streamed, frames, rest, pc, symbol>>

------------------------------------------------------------------------------
\* A depth frame that does not parse, does not normalise or does not fit
\* encode_buf: it is off the queue and nothing else happens.  The validator
\* never sees it and the book is not marked stale.
SkipFrame ==
  /\ pc = "idle" /\ frames # <<>>
  /\ frames' = Tail(frames)
  /\ UNCHANGED <<env, rest, pc, circuit, symbol>>

\* A depth frame that is handled.  The first delta of all seeds the validator with the id
\* before its first update, so that it always bridges.

Seeded(d) ==
  IF val.st = "Awaiting" THEN OnSnapshot(d.first - 1) ELSE val

TakeFrame ==
  /\ pc = "idle" /\ frames # <<>>
  /\ frames' = Tail(frames)
  /\ handled' = IF Head(frames).final > handled THEN Head(frames).final ELSE handled
  /\ UNCHANGED <<env, based>>

ApplyFrame ==
  LET d == Head(frames) IN
  /\ TakeFrame
  /\ Applies(Seeded(d), d)
  /\ val' = Advanced(d)
  /\ levels' = ApplyDelta(levels, d) /\ last' = d.final
  /\ feed' = IF feed = "Connecting" THEN "Live" ELSE feed
  /\ UNCHANGED <<rest, pc, stale, recBuf, circuit, bbo>>

DiscardFrame ==
  /\ TakeFrame
  /\ Discards(Seeded(Head(frames)), Head(frames))
  /\ UNCHANGED <<rest, pc, val, book, stale, recBuf, circuit, bbo, feed>>

\* What push_to_recovery and the record_failure after an overflow leave.
AfterPush(ageOrBytes) ==
  IF Overflows(recBuf, ageOrBytes) THEN Failed(circuit, Cooldown) ELSE circuit

BufferFrame(ageOrBytes) ==
  LET d == Head(frames)
      c == AfterPush(ageOrBytes) IN
  /\ TakeFrame
  /\ Buffers(Seeded(d))
  /\ recBuf' = Pushed(recBuf, d, ageOrBytes)
  /\ circuit' = c
  /\ feed' = IF JustOpened(circuit, c) THEN "Degraded" ELSE feed
  /\ UNCHANGED <<rest, pc, val, book, stale, bbo>>

\* A gap marks the book stale, buffers the delta and, unless the circuit is
\* open, asks for a snapshot at once.
GapFrame(ageOrBytes) ==
  LET d == Head(frames)
      c == Checked(AfterPush(ageOrBytes)) IN
  /\ TakeFrame
  /\ Gaps(Seeded(d), d)
  /\ val' = Broken(Seeded(d))
  /\ stale' = TRUE
  /\ recBuf' = Pushed(recBuf, d, ageOrBytes)
  /\ circuit' = c
  /\ \/ c.open /\ feed' = "Degraded" /\ UNCHANGED <<rest, pc>>
     \/ ~c.open /\ feed' = "Recovering" /\ pc' = "gapFetch" /\ rest' = Asked
  /\ UNCHANGED <<book, bbo>>

------------------------------------------------------------------------------
\* Recovery: the 1-second tick retries stale books; both paths end alike.

Tick ==
  /\ pc = "idle" /\ stale
  /\ ~Checked(circuit).open
  /\ circuit' = Checked(circuit)
  /\ feed' = "Recovering" /\ pc' = "tickFetch" /\ rest' = Asked
  /\ UNCHANGED <<env, frames, val, book, stale, recBuf, bbo, hist>>

\* apply_spot_snapshot up to its replay loop.
ApplySnapshot ==
  /\ pc \in {"gapFetch", "tickFetch"} /\ rest.st = "ok"
  /\ levels' = SnapshotBook(rest.id) /\ last' = rest.id
  /\ val' = OnSnapshot(rest.id)
  /\ pc' = IF pc = "gapFetch" THEN "gapReplay" ELSE "tickReplay"
  /\ based' = TRUE
  /\ UNCHANGED <<env, frames, rest, stale, recBuf, circuit, bbo, feed, handled>>

Replaying == pc \in {"gapReplay", "tickReplay"}

\* drain_after keeps only what ends after the snapshot; the validator may
\* still discard a delta that was buffered twice.
ReplaySkip ==
  LET d == Head(recBuf) IN
  /\ Replaying /\ recBuf # <<>>
  /\ d.final <= rest.id \/ Discards(val, d)
  /\ recBuf' = Tail(recBuf)
  /\ UNCHANGED <<env, frames, rest, pc, val, book, stale, circuit, bbo, feed, hist>>

ReplayApply ==
  LET d == Head(recBuf) IN
  /\ Replaying /\ recBuf # <<>>
  /\ d.final > rest.id /\ Applies(val, d)
  /\ val' = Advanced(d)
  /\ levels' = ApplyDelta(levels, d) /\ last' = d.final
  /\ recBuf' = Tail(recBuf)
  /\ UNCHANGED <<env, frames, rest, pc, stale, circuit, bbo, feed, hist>>

\* A failed recovery: the cooldown, if it starts, runs from the time before
\* the request.  Only the gap handler sets Stale; the tick leaves Recovering.
FailRecovery(waited) ==
  LET c == Failed(circuit, Cooldown - waited) IN
  /\ circuit' = c
  /\ feed' = IF JustOpened(circuit, c) THEN "Degraded"
             ELSE IF pc \in {"gapFetch", "gapReplay"} THEN "Stale" ELSE feed
  /\ pc' = "idle" /\ rest' = NoRequest
  /\ UNCHANGED <<env, frames, stale, bbo, hist>>

\* GapInReplay: the rest of the drained deltas is lost, the book stays as the
\* replay left it.
ReplayGap(waited) ==
  LET d == Head(recBuf) IN
  /\ Replaying /\ recBuf # <<>>
  /\ d.final > rest.id /\ Gaps(val, d)
  /\ val' = Broken(val)
  /\ recBuf' = <<>>
  /\ FailRecovery(waited)
  /\ UNCHANGED book

FetchFailed(waited) ==
  /\ pc \in {"gapFetch", "tickFetch"} /\ rest.st = "failed"
  /\ FailRecovery(waited)
  /\ UNCHANGED <<val, book, recBuf>>

Recovered ==
  /\ Replaying /\ recBuf = <<>>
  /\ stale' = FALSE
  /\ circuit' = Succeeded(circuit)
  /\ bbo' = "none"
  /\ feed' = "Live" /\ pc' = "idle" /\ rest' = NoRequest
  /\ UNCHANGED <<env, frames, val, book, recBuf, hist>>

------------------------------------------------------------------------------
\* The periodic snapshot check

CheckTick ==
  /\ pc = "idle" /\ ~stale /\ HasBothSides(levels)
  /\ pc' = "checkFetch" /\ rest' = Asked
  /\ UNCHANGED <<env, frames, circuit, symbol>>

\* Compatible, or the fetch failed.
CheckPasses ==
  /\ pc = "checkFetch" /\ rest.st \in {"ok", "failed"}
  /\ pc' = "idle" /\ rest' = NoRequest
  /\ UNCHANGED <<env, frames, circuit, symbol>>

\* Incompatible: more prices than tolerated differ on one side.
CheckIncompatible ==
  /\ pc = "checkFetch" /\ rest.st = "ok"
  /\ \E side \in {Bids, Asks} :
       Prices(levels, side) # Prices(SnapshotBook(rest.id), side)
  /\ stale' = TRUE
  /\ feed' = "Stale" /\ pc' = "idle" /\ rest' = NoRequest
  /\ UNCHANGED <<env, frames, circuit, val, book, recBuf, bbo, hist>>

------------------------------------------------------------------------------
\* A BBO frame.  Its prices are of another stream, so they may match the book
\* or not in any state; the timer only ever grows until it is cleared.

task == <<env, frames, rest, pc, val, book, recBuf, circuit, hist>>

\* Matching prices, a stale book and a one-sided book all clear the timer.
BboClears ==
  /\ pc = "idle"
  /\ bbo' = "none"
  /\ UNCHANGED <<task, stale, feed>>

BboMismatches == pc = "idle" /\ ~stale /\ HasBothSides(levels)

BboTolerated ==
  /\ BboMismatches /\ bbo \in {"none", "fresh"}
  /\ bbo' = "fresh"
  /\ UNCHANGED <<task, stale, feed>>

BboDegrades ==
  /\ BboMismatches /\ bbo \in {"fresh", "degrade"}
  /\ bbo' = "degrade" /\ feed' = "Degraded"
  /\ UNCHANGED <<task, stale>>

\* A BBO handler that forgets to tell the feed state.
BboMarksStale_SilentFeed ==
  /\ BboMismatches /\ bbo \in {"fresh", "degrade"}
  /\ bbo' = "none" /\ stale' = TRUE
  /\ UNCHANGED <<task, feed>>

BboMarksStale ==
  /\ BboMismatches /\ bbo \in {"fresh", "degrade"}
  /\ bbo' = "none" /\ stale' = TRUE /\ feed' = "Stale"
  /\ UNCHANGED task

------------------------------------------------------------------------------

Environment ==
  \/ VenueUpdate
  \/ StreamDelta
  \/ LoseDelta
  \/ DuplicateDelta
  \/ \E lag \in 0..RestLag : RestServe(lag)
  \/ RestFail
  \/ CooldownPasses

HandleFrame ==
  \/ SkipFrame
  \/ ApplyFrame
  \/ DiscardFrame
  \/ \E ageOrBytes \in BOOLEAN : BufferFrame(ageOrBytes) \/ GapFrame(ageOrBytes)

FinishRecovery ==
  \/ ApplySnapshot
  \/ ReplaySkip
  \/ ReplayApply
  \/ \E waited \in 0..Cooldown : ReplayGap(waited) \/ FetchFailed(waited)
  \/ Recovered

CheckSnapshot == CheckTick \/ CheckPasses \/ CheckIncompatible

HandleBbo == BboClears \/ BboTolerated \/ BboDegrades \/ BboMarksStale

Next == Environment \/ HandleFrame \/ Tick \/ FinishRecovery \/ CheckSnapshot \/ HandleBbo

Spec == Init /\ [][Next]_vars

\* The task runs whenever it can, its ticker keeps ticking and time passes.
\* Nothing is asked of the venue and the stream; of the REST server, that a
\* request repeated forever is some time answered with a current snapshot.
Fairness ==
  /\ WF_vars(HandleFrame)
  /\ WF_vars(Tick)
  /\ WF_vars(FinishRecovery)
  /\ WF_vars(CheckPasses \/ CheckIncompatible)
  /\ WF_vars(CooldownPasses)
  /\ SF_vars(RestServe(0))

FairSpec == Spec /\ Fairness

------------------------------------------------------------------------------
\* Properties

\* Gaps, duplicates, overflows, lagging snapshots and failed replays never mix
\* updates: once a snapshot has been applied, the levels of the book are those
\* the venue had at the book's last_update_id, stale or not.
BookIsVenueBook == based => levels = VenueBook[last]

\* A book that is not stale reflects every delta its validator was given
\* (run_shard applies, discards or buffers each, and marks the book stale on a
\* gap).  A delta lost before it, in the channel or by one of the `continue`s
\* of SkipFrame, is missing unnoticed until the next one shows the gap.  It
\* holds when REST snapshots do not lag the venue.
NoMissedDelta == ~stale => last >= handled

\* The feed is announced Live only while the book is not stale, although three
\* handlers mark the book stale and four others set the feed state.
LiveMeansFresh == feed = "Live" => ~stale

\* The breaker is open exactly when it has counted the allowed failures, over
\* every interleaving of overflow failures, recovery failures and resets.
CircuitCountsFailures == circuit.open <=> circuit.failures = MaxAttempts

\* A stale book is some time not stale again, through failed requests, lagging
\* snapshots, overflows and open circuits.
StaleIsRecovered == stale ~> ~stale

\* While it is not stale the book only follows the venue forward.
Synced == INSTANCE SyncedBook WITH pos <- last, synced <- (~stale /\ feed # "Connecting")
FollowsVenue == Synced!Spec
==============================================================================
