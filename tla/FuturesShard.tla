----------------------------- MODULE FuturesShard -----------------------------
(***************************************************************************)
(* One symbol of the Futures shard task (run_shard of                      *)
(* bin/connector/examples/futures_e2e.rs).                                 *)
(*                                                                         *)
(* The task takes one frame at a time and awaits a REST snapshot inside    *)
(* the handler of a gap.  Unlike the Spot task it has no ticker: a book    *)
(* that stays stale after a failed recovery is not tried again.  Nor does  *)
(* it fetch a first snapshot: until somebody calls run_futures_recovery,   *)
(* the library's entry point for that, the validator awaits one and every  *)
(* delta is buffered.  SeedsBook says whether somebody does; the shard     *)
(* task as it stands does not.                                             *)
(*                                                                         *)
(* Failures modelled: deltas lost on a full queue or while disconnected,   *)
(* deltas delivered twice, deltas that do not parse or normalise, REST     *)
(* requests that fail, REST servers that lag, buffer overflow.  The ids of *)
(* a Futures stream have holes: ids between two events that change nothing *)
(* of this symbol.                                                         *)
(***************************************************************************)
EXTENDS OrderBook, FuturesSequence, RecoveryLimits

CONSTANTS
  QueueCap,   \* capacity of the frame channel
  RestLag,    \* bound: updates by which a REST snapshot may lag the venue
  SeedsBook   \* whether run_futures_recovery is called for a first snapshot

ASSUME ShardAssumption ==
  /\ QueueCap \in Nat \ {0}
  /\ RestLag \in Nat
  /\ SeedsBook \in BOOLEAN

VARIABLES
  venue,     \* last update id the venue has generated
  streamed,  \* last update id carried by the depth stream so far
  frames,    \* depth deltas in the frame channel
  rest,      \* the REST request of the task: [st, id]
  pc,        \* what the task is doing
  val,       \* FuturesSymbolState.validator
  levels,    \* FuturesSymbolState.book: levels
  last,      \* FuturesSymbolState.book: last_update_id
  stale,     \* FuturesSymbolState.book: stale
  recBuf,    \* FuturesSymbolState.recovery_buf
  circuit,   \* FuturesSymbolState.circuit
  feed,      \* FuturesSymbolState.feed_state
  handled,   \* history: highest id among the events the task dispatched
  based,     \* history: a REST snapshot has been applied to the book
  current    \* history: the last one applied held everything handled by then

env  == <<venue, streamed>>
book == <<levels, last>>
hist == <<handled, based, current>>
vars == <<venue, streamed, frames, rest, pc, val, levels, last, stale,
          recBuf, circuit, feed, handled, based, current>>

\* prev is the pu field: the final id of the event before.
FuturesDelta == [prev : 0..MaxId, first : 1..MaxId, final : 1..MaxId]

NoRequest == [st |-> "none", id |-> 0]
Asked     == [st |-> "asked", id |-> 0]

TaskTypeOK ==
  /\ venue \in 0..MaxId
  /\ streamed \in 0..venue
  /\ frames \in Seq(FuturesDelta) /\ Len(frames) <= QueueCap
  /\ rest \in [st : {"none", "asked", "ok", "failed"}, id : 0..MaxId]
  /\ pc \in {"idle", "seedFetch", "seedReplay", "gapFetch", "gapReplay"}
  /\ handled \in 0..MaxId

BookTypeOK ==
  /\ val \in Validator
  /\ levels \in [Levels -> Nat]
  /\ last \in 0..MaxId

FlagsOK == stale \in BOOLEAN /\ based \in BOOLEAN /\ current \in BOOLEAN

RecoveryTypeOK ==
  /\ recBuf \in Seq(FuturesDelta) /\ Len(recBuf) <= MaxEvents
  /\ circuit \in Circuit
  /\ feed \in {"Connecting", "Recovering", "Live"}

TypeOK == TaskTypeOK /\ BookTypeOK /\ FlagsOK /\ RecoveryTypeOK

Init ==
  /\ venue = 0 /\ streamed = 0 /\ frames = <<>>
  /\ rest = NoRequest /\ pc = "idle"
  /\ val = NewValidator
  /\ levels = EmptyBook /\ last = 0 /\ stale = FALSE
  /\ recBuf = <<>> /\ circuit = NewCircuit
  /\ feed = "Connecting"
  /\ handled = 0 /\ based = FALSE /\ current = FALSE

------------------------------------------------------------------------------
\* The venue, the WebSocket task and the REST server

symbol == <<val, book, stale, recBuf, circuit, feed, hist>>

VenueUpdate ==
  /\ venue < MaxId
  /\ venue' = venue + 1
  /\ UNCHANGED <<streamed, frames, rest, pc, symbol>>

\* An event starts at the first id that changed something, or before it.
StreamDelta ==
  /\ streamed < venue
  /\ streamed' = venue
  /\ \E first \in (streamed + 1)..venue :
       /\ \A k \in (streamed + 1)..(first - 1) : VenueBook[k] = VenueBook[streamed]
       /\ frames' =
            IF Len(frames) < QueueCap
            THEN Append(frames, [prev |-> streamed, first |-> first, final |-> venue])
            ELSE frames
  /\ UNCHANGED <<venue, rest, pc, symbol>>

\* An event sent while the connection is down or being rotated.
LoseDelta ==
  /\ streamed < venue
  /\ streamed' = venue
  /\ UNCHANGED <<venue, frames, rest, pc, symbol>>

\* The same event delivered twice.
DuplicateDelta ==
  /\ frames # <<>> /\ Len(frames) < QueueCap
  /\ frames' = Append(frames, frames[Len(frames)])
  /\ UNCHANGED <<venue, streamed, rest, pc, symbol>>

RestServe(lag) ==
  /\ rest.st = "asked" /\ lag <= venue
  /\ rest' = [st |-> "ok", id |-> venue - lag]
  /\ UNCHANGED <<venue, streamed, frames, pc, symbol>>

RestFail ==
  /\ rest.st = "asked"
  /\ rest' = [st |-> "failed", id |-> 0]
  /\ UNCHANGED <<venue, streamed, frames, pc, symbol>>

------------------------------------------------------------------------------
\* A depth frame

\* One that does not parse or normalise: it is off the queue and nothing else
\* happens.  The validator never sees it and the book is not rebuilt.
SkipFrame ==
  /\ pc = "idle" /\ frames # <<>>
  /\ frames' = Tail(frames)
  /\ UNCHANGED <<env, rest, pc, symbol>>

\* One that is dispatched to the symbol's book.
TakeFrame ==
  /\ pc = "idle" /\ frames # <<>>
  /\ frames' = Tail(frames)
  /\ handled' = IF Head(frames).final > handled THEN Head(frames).final ELSE handled
  /\ UNCHANGED <<env, based, current>>

\* A stale book, or a validator that awaits a snapshot: buffered, and on
\* overflow the whole buffer is given up.
BufferFrame(ageOrBytes) ==
  /\ TakeFrame
  /\ stale \/ val.st = "Awaiting"
  /\ recBuf' = Pushed(recBuf, Head(frames), ageOrBytes)
  /\ UNCHANGED <<rest, pc, val, book, stale, circuit, feed>>

\* The Buffering verdict: on overflow the delta alone is given up.
KeepFrame(ageOrBytes) ==
  /\ TakeFrame
  /\ ~stale /\ val.st = "Stale"
  /\ recBuf' = IF Overflows(recBuf, ageOrBytes)
               THEN recBuf ELSE Append(recBuf, Head(frames))
  /\ UNCHANGED <<rest, pc, val, book, stale, circuit, feed>>

ApplyFrame ==
  LET d == Head(frames) IN
  /\ TakeFrame
  /\ ~stale /\ Applies(val, d)
  /\ val' = Advanced(d)
  /\ levels' = ApplyDelta(levels, d) /\ last' = d.final
  /\ UNCHANGED <<rest, pc, stale, recBuf, circuit, feed>>

DiscardFrame ==
  /\ TakeFrame
  /\ ~stale /\ Discards(val, Head(frames))
  /\ UNCHANGED <<rest, pc, val, book, stale, recBuf, circuit, feed>>

\* A gap: the delta that shows it is not buffered, unlike in the Spot task.
GapFrame ==
  LET d == Head(frames)
      c == Checked(circuit) IN
  /\ TakeFrame
  /\ ~stale /\ Gaps(val, d)
  /\ val' = Broken(val)
  /\ stale' = TRUE
  /\ feed' = "Recovering"
  /\ circuit' = IF c.open THEN Failed(c, Cooldown) ELSE c
  /\ IF c.open THEN UNCHANGED <<rest, pc>> ELSE pc' = "gapFetch" /\ rest' = Asked
  /\ UNCHANGED <<book, recBuf>>

------------------------------------------------------------------------------
\* Recovery: apply_futures_snapshot, in the gap handler or for the first
\* snapshot of run_futures_recovery.

\* run_futures_recovery holds the book until its snapshot comes; it is called
\* again while the validator has no snapshot to go on from.
Seed ==
  /\ SeedsBook
  /\ pc = "idle" /\ ~stale /\ Buffers(val)
  /\ pc' = "seedFetch" /\ rest' = Asked
  /\ UNCHANGED <<env, frames, symbol>>

Fetching  == pc \in {"seedFetch", "gapFetch"}
Replaying == pc \in {"seedReplay", "gapReplay"}

\* A snapshot that leaves the validator where it was.
ApplySnapshot_KeepsSequence ==
  /\ Fetching /\ rest.st = "ok"
  /\ levels' = SnapshotBook(rest.id) /\ last' = rest.id
  /\ val' = [val EXCEPT !.st = "Active"]
  /\ pc' = IF pc = "gapFetch" THEN "gapReplay" ELSE "seedReplay"
  /\ based' = TRUE /\ current' = (rest.id >= handled)
  /\ UNCHANGED <<env, frames, rest, stale, recBuf, circuit, feed, handled>>

ApplySnapshot ==
  /\ Fetching /\ rest.st = "ok"
  /\ levels' = SnapshotBook(rest.id) /\ last' = rest.id
  /\ val' = OnSnapshot(rest.id)
  /\ pc' = IF pc = "gapFetch" THEN "gapReplay" ELSE "seedReplay"
  /\ based' = TRUE /\ current' = (rest.id >= handled)
  /\ UNCHANGED <<env, frames, rest, stale, recBuf, circuit, feed, handled>>

\* drain_after drops what the snapshot holds; the validator may still discard.
ReplaySkip ==
  LET d == Head(recBuf) IN
  /\ Replaying /\ recBuf # <<>>
  /\ d.final <= rest.id \/ Discards(val, d)
  /\ recBuf' = Tail(recBuf)
  /\ UNCHANGED <<env, frames, rest, pc, val, book, stale, circuit, feed, hist>>

ReplayApply ==
  LET d == Head(recBuf) IN
  /\ Replaying /\ recBuf # <<>>
  /\ d.final > rest.id /\ Applies(val, d)
  /\ val' = Advanced(d)
  /\ levels' = ApplyDelta(levels, d) /\ last' = d.final
  /\ recBuf' = Tail(recBuf)
  /\ UNCHANGED <<env, frames, rest, pc, stale, circuit, feed, hist>>

\* Only the gap handler counts a failure; the feed stays Recovering.
FailRecovery ==
  /\ circuit' = IF pc \in {"gapFetch", "gapReplay"}
                THEN Failed(circuit, Cooldown) ELSE circuit
  /\ pc' = "idle" /\ rest' = NoRequest
  /\ UNCHANGED <<env, frames, stale, feed, hist>>

\* GapInReplay: the rest of the drained deltas is lost.
ReplayGap ==
  LET d == Head(recBuf) IN
  /\ Replaying /\ recBuf # <<>>
  /\ d.final > rest.id /\ Gaps(val, d)
  /\ val' = Broken(val)
  /\ recBuf' = <<>>
  /\ FailRecovery
  /\ UNCHANGED book

FetchFailed ==
  /\ Fetching /\ rest.st = "failed"
  /\ FailRecovery
  /\ UNCHANGED <<val, book, recBuf>>

\* mark_recovered; the success and the feed state are the gap handler's.
Recovered ==
  /\ Replaying /\ recBuf = <<>>
  /\ stale' = FALSE
  /\ circuit' = IF pc = "gapReplay" THEN Succeeded(circuit) ELSE circuit
  /\ feed' = IF pc = "gapReplay" THEN "Live" ELSE feed
  /\ pc' = "idle" /\ rest' = NoRequest
  /\ UNCHANGED <<env, frames, val, book, recBuf, hist>>

------------------------------------------------------------------------------

Environment ==
  \/ VenueUpdate
  \/ StreamDelta
  \/ LoseDelta
  \/ DuplicateDelta
  \/ \E lag \in 0..RestLag : RestServe(lag)
  \/ RestFail

HandleFrame ==
  \/ SkipFrame
  \/ \E ageOrBytes \in BOOLEAN : BufferFrame(ageOrBytes) \/ KeepFrame(ageOrBytes)
  \/ ApplyFrame
  \/ DiscardFrame
  \/ GapFrame

FinishRecovery ==
  \/ ApplySnapshot
  \/ ReplaySkip
  \/ ReplayApply
  \/ ReplayGap
  \/ FetchFailed
  \/ Recovered

Next == Environment \/ HandleFrame \/ Seed \/ FinishRecovery

Spec == Init /\ [][Next]_vars

\* The venue and the stream go on as long as the bound lets them, the task
\* handles what it gets, and REST requests are not failed for ever.
Fairness ==
  /\ WF_vars(VenueUpdate)
  /\ WF_vars(StreamDelta)
  /\ WF_vars(HandleFrame)
  /\ WF_vars(Seed)
  /\ WF_vars(FinishRecovery)
  /\ SF_vars(RestServe(0))

FairSpec == Spec /\ Fairness

------------------------------------------------------------------------------
\* Properties

\* The validator has a position and the book is not marked: readers trust it.
InStep == ~stale /\ val.st \in {"Bridging", "Active"} /\ pc = "idle"

\* Gaps, duplicates, holes between event ids, lagging snapshots and failed
\* replays never mix updates: once a snapshot has been applied, the levels are
\* those the venue had at the book's last_update_id.
BookIsVenueBook == based => levels = VenueBook[last]

\* A trusted book lacks nothing that was dispatched to it, unless the snapshot
\* it rests on was already behind that (apply_futures_snapshot takes any).  An
\* event lost before that, on its way or by a `continue` of SkipFrame, is
\* missing unnoticed until the next one shows the gap by its pu.
MissesOnlyByLag == InStep /\ current => last >= handled

\* While it is trusted the book only follows the venue forward.
Synced == INSTANCE SyncedBook WITH pos <- last, synced <- InStep
FollowsVenue == Synced!Spec

\* The order book is seeded by a REST snapshot (README.md:91).
BookIsSeeded == <>based
==============================================================================
