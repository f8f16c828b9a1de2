--------------------------- MODULE SpotShardProofs ---------------------------
(***************************************************************************)
(* Proofs about SpotShard and about what it publishes (SpotShardPublish),  *)
(* for every venue history, every queue, buffer and circuit limit, and     *)
(* every REST lag.  Publishing adds nothing to what the shard does, and a  *)
(* subscriber stays in step with it.                                       *)
(***************************************************************************)
EXTENDS SpotShardPublish, TLAPS

------------------------------------------------------------------------------
(***************************************************************************)
(* The inductive invariant.                                                *)
(***************************************************************************)

\* Every delta on its way to the book is a range of streamed ids.
Ranges(seq, n) ==
  \A i \in 1..Len(seq) : seq[i].first <= seq[i].final /\ seq[i].final <= n

IdsOK == last <= venue /\ handled <= streamed /\ rest.id <= venue

\* Before the first delta nothing has happened to the symbol.
ConnectingInv ==
  /\ val.st = "Awaiting" <=> feed = "Connecting"
  /\ feed = "Connecting" =>
       ~based /\ ~stale /\ last = 0 /\ handled = 0 /\ levels = EmptyBook /\ pc = "idle"

\* The validator stands where the book stands, or the book is stale.
PositionInv ==
  /\ val.st \in {"Bridging", "Active"} => val.id = last
  /\ val.st = "Stale" => stale

\* What each wait of the task is for.
TaskInv ==
  /\ pc \in {"gapFetch", "tickFetch"} => stale
  /\ pc = "checkFetch" => ~stale
  /\ Replaying => /\ stale /\ rest.st = "ok" /\ based
                  /\ val.st \in {"Bridging", "Active"} /\ val.id >= rest.id

Inv ==
  /\ TypeOK
  /\ Ranges(frames, streamed)
  /\ Ranges(recBuf, streamed)
  /\ IdsOK
  /\ ConnectingInv
  /\ PositionInv
  /\ TaskInv
  /\ BookIsVenueBook
  /\ LiveMeansFresh
  /\ CircuitCountsFailures

------------------------------------------------------------------------------
(***************************************************************************)
(* Lemmas about the operators.                                             *)
(***************************************************************************)

\* record_failure keeps the breaker well formed and its flag in step with its
\* counter.
LEMMA FailedCircuit ==
  ASSUME NEW c \in Circuit, c.open <=> c.failures = MaxAttempts, NEW w \in 0..Cooldown
  PROVE  /\ Failed(c, w) \in Circuit
         /\ Failed(c, w).open <=> Failed(c, w).failures = MaxAttempts
<1>1. CASE c.open
  BY <1>1 DEF Failed
<1>2. CASE ~c.open /\ c.failures + 1 >= MaxAttempts
  BY <1>2, LimitsAssumption DEF Failed, Circuit
<1>3. CASE ~c.open /\ ~(c.failures + 1 >= MaxAttempts)
  <2>1. c.failures + 1 \in 0..MaxAttempts /\ c.failures + 1 # MaxAttempts
    BY <1>3, LimitsAssumption DEF Circuit
  <2>2. Failed(c, w) = [c EXCEPT !.failures = @ + 1]
    BY <1>3 DEF Failed
  <2> QED BY <1>3, <2>1, <2>2 DEF Circuit
<1> QED BY <1>1, <1>2, <1>3

\* So does check.
LEMMA CheckedCircuit ==
  ASSUME NEW c \in Circuit, c.open <=> c.failures = MaxAttempts
  PROVE  /\ Checked(c) \in Circuit
         /\ Checked(c).open <=> Checked(c).failures = MaxAttempts
BY LimitsAssumption DEF Checked, NewCircuit, Circuit

\* Applying a delta that overlaps or extends a good book gives a good book.
LEMMA ApplyDeltaIsExact ==
  ASSUME NEW id \in 0..MaxId, NEW d \in Delta,
         d.first <= id + 1, id <= d.final
  PROVE  ApplyDelta(VenueBook[id], d) = VenueBook[d.final]
<1>1. id \in (d.first - 1)..d.final
  BY DEF Delta
<1>2. \A l \in Levels \ Changed(d) : VenueBook[id][l] = VenueBook[d.final][l]
  BY <1>1 DEF Changed
<1>3. VenueBook[d.final] \in [Levels -> Nat]
  BY VenueAssumption DEF Delta
<1>4. VenueBook[d.final] = [l \in Levels |-> VenueBook[d.final][l]]
  BY <1>3
<1> QED BY <1>2, <1>4 DEF ApplyDelta

\* A book that has applied a delta is a book.
LEMMA ApplyDeltaType ==
  ASSUME NEW b \in [Levels -> Nat], NEW d \in Delta
  PROVE  ApplyDelta(b, d) \in [Levels -> Nat]
<1>1. VenueBook[d.final] \in [Levels -> Nat]
  BY VenueAssumption DEF Delta
<1> QED BY <1>1 DEF ApplyDelta

\* Ranges of ids up to n are ranges of ids up to any later id.
LEMMA RangesWeaken ==
  ASSUME NEW s \in Seq(Delta), NEW n \in Int, NEW m \in Int, n <= m, Ranges(s, n)
  PROVE  Ranges(s, m)
<1> SUFFICES ASSUME NEW i \in 1..Len(s)
             PROVE  s[i].first <= s[i].final /\ s[i].final <= m
  BY DEF Ranges
<1>1. s[i] \in Delta
  OBVIOUS
<1>2. s[i].first <= s[i].final /\ s[i].final <= n
  BY DEF Ranges
<1> QED BY <1>1, <1>2 DEF Delta

\* Taking the first delta off a queue of ranges.
LEMMA RangesHeadTail ==
  ASSUME NEW s \in Seq(Delta), s # <<>>, NEW n, Ranges(s, n)
  PROVE  /\ Head(s) \in Delta /\ Tail(s) \in Seq(Delta) /\ Len(Tail(s)) = Len(s) - 1
         /\ Head(s).first <= Head(s).final /\ Head(s).final <= n
         /\ Ranges(Tail(s), n)
<1>1. Head(s) = s[1] /\ 1 \in 1..Len(s)
  OBVIOUS
<1>2. \A i \in 1..Len(Tail(s)) : Tail(s)[i] = s[i + 1] /\ i + 1 \in 1..Len(s)
  OBVIOUS
<1>3. Head(s).first <= Head(s).final /\ Head(s).final <= n
  BY <1>1 DEF Ranges
<1>4. Ranges(Tail(s), n)
  BY <1>2 DEF Ranges
<1>5. Head(s) \in Delta /\ Tail(s) \in Seq(Delta) /\ Len(Tail(s)) = Len(s) - 1
  OBVIOUS
<1> QED BY <1>3, <1>4, <1>5

\* Adding a range to a queue of ranges.
LEMMA RangesAppend ==
  ASSUME NEW s \in Seq(Delta), NEW d \in Delta, NEW n,
         Ranges(s, n), d.first <= d.final, d.final <= n
  PROVE  Ranges(Append(s, d), n)
<1> SUFFICES ASSUME NEW i \in 1..Len(Append(s, d))
             PROVE  Append(s, d)[i].first <= Append(s, d)[i].final /\ Append(s, d)[i].final <= n
  BY DEF Ranges
<1>1. CASE i = Len(s) + 1
  BY <1>1
<1>2. CASE i \in 1..Len(s)
  BY <1>2 DEF Ranges
<1> QED BY <1>1, <1>2

\* A push stores ranges, within the limit.
LEMMA PushedBuffer ==
  ASSUME NEW buf \in Seq(Delta), Len(buf) <= MaxEvents, NEW d \in Delta,
         NEW hit \in BOOLEAN, NEW n,
         Ranges(buf, n), d.first <= d.final, d.final <= n
  PROVE  /\ Pushed(buf, d, hit) \in Seq(Delta)
         /\ Len(Pushed(buf, d, hit)) <= MaxEvents
         /\ Ranges(Pushed(buf, d, hit), n)
<1>1. CASE Overflows(buf, hit)
  <2>1. Pushed(buf, d, hit) = <<>>
    BY <1>1 DEF Pushed
  <2> QED BY <2>1, LimitsAssumption DEF Ranges
<1>2. CASE ~Overflows(buf, hit)
  <2>1. Pushed(buf, d, hit) = Append(buf, d) /\ Len(buf) < MaxEvents
    BY <1>2, LimitsAssumption DEF Pushed, Overflows
  <2>2. Append(buf, d) \in Seq(Delta) /\ Len(Append(buf, d)) <= MaxEvents
    BY <2>1, LimitsAssumption
  <2> QED BY <2>1, <2>2, RangesAppend
<1> QED BY <1>1, <1>2

------------------------------------------------------------------------------
(***************************************************************************)
(* The invariant holds initially and every action preserves it.            *)
(***************************************************************************)

\* A symbol that has just been set up (SymbolState::new) satisfies the invariant.
LEMMA InitInv == Init => Inv
<1> SUFFICES ASSUME Init PROVE Inv
  OBVIOUS
<1>1. TaskTypeOK
  BY VenueAssumption, ShardAssumption DEF Init, TaskTypeOK, NoRequest
<1>2. BookTypeOK
  BY VenueAssumption DEF Init, BookTypeOK, NewValidator, Validator, EmptyBook
<1>7. FlagsOK
  BY DEF Init, FlagsOK
<1>3. RecoveryTypeOK
  BY LimitsAssumption DEF Init, RecoveryTypeOK, NewCircuit, Circuit, FeedStates
<1>4. Ranges(frames, streamed) /\ Ranges(recBuf, streamed) /\ IdsOK
  BY DEF Init, Ranges, IdsOK, NoRequest
<1>5. ConnectingInv /\ PositionInv /\ TaskInv
  BY DEF Init, ConnectingInv, PositionInv, TaskInv, NewValidator, Replaying
<1>6. BookIsVenueBook /\ LiveMeansFresh /\ CircuitCountsFailures
  BY LimitsAssumption DEF Init, BookIsVenueBook, LiveMeansFresh, CircuitCountsFailures, NewCircuit
<1> QED BY <1>1, <1>2, <1>3, <1>4, <1>5, <1>6, <1>7 DEF Inv, TypeOK

\* The parts of the invariant that say nothing of the environment.
SymbolInv ==
  /\ BookTypeOK /\ FlagsOK /\ RecoveryTypeOK
  /\ ConnectingInv /\ PositionInv /\ BookIsVenueBook /\ LiveMeansFresh /\ CircuitCountsFailures

\* A step that leaves the symbol alone keeps what is said of the symbol.
LEMMA SymbolUntouched ==
  ASSUME SymbolInv, UNCHANGED <<symbol, pc, circuit>>
  PROVE  SymbolInv'
BY DEF SymbolInv, symbol, book, hist, BookTypeOK, FlagsOK, RecoveryTypeOK, ConnectingInv, PositionInv,
       BookIsVenueBook, LiveMeansFresh, CircuitCountsFailures

\* The venue, the WebSocket task, the REST server and the clock.
LEMMA EnvironmentInv ==
  ASSUME Inv, Environment
  PROVE  Inv'
<1>1. /\ SymbolInv /\ TaskTypeOK /\ Ranges(frames, streamed) /\ Ranges(recBuf, streamed)
      /\ IdsOK /\ TaskInv
  BY DEF Inv, TypeOK, SymbolInv
<1>2. /\ frames \in Seq(Delta) /\ recBuf \in Seq(Delta)
      /\ venue \in 0..MaxId /\ streamed \in 0..venue /\ last \in Int /\ handled \in Int
      /\ Len(frames) <= QueueCap /\ MaxId \in Nat /\ rest.id \in 0..MaxId
  BY <1>1, VenueAssumption DEF SymbolInv, TaskTypeOK, BookTypeOK, RecoveryTypeOK
<1>3. ASSUME TaskTypeOK', Ranges(frames, streamed)', Ranges(recBuf, streamed)', IdsOK',
             TaskInv', SymbolInv'
      PROVE  Inv'
  BY <1>3 DEF Inv, TypeOK, SymbolInv
<1>4. CASE VenueUpdate
  <2>1. SymbolInv'
    BY <1>1, <1>4, SymbolUntouched DEF VenueUpdate
  <2>2. TaskTypeOK' /\ IdsOK'
    BY <1>1, <1>2, <1>4 DEF VenueUpdate, TaskTypeOK, IdsOK, symbol, book, hist
  <2>3. Ranges(frames, streamed)' /\ Ranges(recBuf, streamed)'
    BY <1>1, <1>4 DEF VenueUpdate, Ranges, symbol
  <2>4. TaskInv'
    BY <1>1, <1>4 DEF VenueUpdate, TaskInv, Replaying, symbol, hist
  <2> QED BY <1>3, <2>1, <2>2, <2>3, <2>4
<1>5. CASE StreamDelta \/ LoseDelta
  <2> DEFINE d == [first |-> streamed + 1, final |-> venue]
  <2>1. /\ streamed < venue /\ streamed' = venue /\ UNCHANGED <<venue, rest, pc, circuit, symbol>>
        /\ \/ frames' = frames
           \/ Len(frames) < QueueCap /\ frames' = Append(frames, d)
    BY <1>5 DEF StreamDelta, LoseDelta
  <2>2. d \in Delta /\ d.first <= d.final /\ d.final <= venue
    BY <1>2, <2>1 DEF Delta
  <2>3. SymbolInv'
    BY <1>1, <2>1, SymbolUntouched
  <2>4. Ranges(frames, venue) /\ Ranges(recBuf, venue)
    BY <1>1, <1>2, RangesWeaken
  <2>5. frames' \in Seq(Delta) /\ Len(frames') <= QueueCap /\ Ranges(frames', venue)
    <3>1. CASE frames' = frames
      BY <1>2, <2>4, <3>1
    <3>2. CASE Len(frames) < QueueCap /\ frames' = Append(frames, d)
      <4>1. Append(frames, d) \in Seq(Delta) /\ Len(Append(frames, d)) <= QueueCap
        BY <1>2, <2>2, <3>2, ShardAssumption
      <4>2. Ranges(Append(frames, d), venue)
        BY <1>2, <2>2, <2>4, RangesAppend
      <4> QED BY <3>2, <4>1, <4>2
    <3> QED BY <2>1, <3>1, <3>2
  <2>6. Ranges(frames, streamed)' /\ Ranges(recBuf, streamed)'
    BY <2>1, <2>4, <2>5 DEF symbol
  <2>7. TaskTypeOK' /\ IdsOK'
    BY <1>1, <1>2, <2>1, <2>5 DEF TaskTypeOK, IdsOK, symbol, book, hist
  <2>8. TaskInv'
    BY <1>1, <2>1 DEF TaskInv, Replaying, symbol, hist
  <2> QED BY <1>3, <2>3, <2>6, <2>7, <2>8
<1>6. CASE DuplicateDelta
  <2> DEFINE d == frames[Len(frames)]
  <2>1. /\ frames # <<>> /\ Len(frames) < QueueCap /\ frames' = Append(frames, d)
        /\ UNCHANGED <<venue, streamed, rest, pc, circuit, symbol>>
    BY <1>6 DEF DuplicateDelta
  <2>2. d \in Delta /\ Len(frames) \in 1..Len(frames)
    BY <1>2, <2>1
  <2>3. d.first <= d.final /\ d.final <= streamed
    BY <1>1, <2>2 DEF Ranges
  <2>4. SymbolInv'
    BY <1>1, <2>1, SymbolUntouched
  <2>5. Append(frames, d) \in Seq(Delta) /\ Len(Append(frames, d)) <= QueueCap
    BY <1>2, <2>1, <2>2, ShardAssumption
  <2>6. Ranges(frames, streamed)'
    BY <1>1, <1>2, <2>1, <2>2, <2>3, RangesAppend
  <2>7. TaskTypeOK' /\ IdsOK' /\ Ranges(recBuf, streamed)'
    BY <1>1, <2>1, <2>5 DEF TaskTypeOK, IdsOK, symbol, book, hist
  <2>8. TaskInv'
    BY <1>1, <2>1 DEF TaskInv, Replaying, symbol, hist
  <2> QED BY <1>3, <2>4, <2>6, <2>7, <2>8
<1>7. CASE (\E lag \in 0..RestLag : RestServe(lag)) \/ RestFail
  <2>1. /\ rest.st = "asked"
        /\ rest' \in [st : {"none", "asked", "ok", "failed"}, id : 0..MaxId] /\ rest'.id <= venue
        /\ UNCHANGED <<venue, streamed, frames, pc, circuit, symbol>>
    BY <1>2, <1>7, ShardAssumption DEF RestServe, RestFail
  <2>2. SymbolInv'
    BY <1>1, <2>1, SymbolUntouched
  <2>3. TaskTypeOK' /\ IdsOK' /\ Ranges(frames, streamed)' /\ Ranges(recBuf, streamed)'
    BY <1>1, <2>1 DEF TaskTypeOK, IdsOK, symbol, book, hist
  <2>4. TaskInv'
    BY <1>1, <2>1 DEF TaskInv, Replaying, symbol, hist
  <2> QED BY <1>3, <2>2, <2>3, <2>4
<1>8. CASE CooldownPasses
  <2>1. UNCHANGED <<venue, streamed, frames, rest, pc, symbol>>
    BY <1>8 DEF CooldownPasses
  <2>2. circuit' \in Circuit /\ CircuitCountsFailures'
    <3>1. /\ circuit.open /\ circuit.wait > 0 /\ circuit' = [circuit EXCEPT !.wait = circuit.wait - 1]
          /\ circuit \in Circuit
      BY <1>1, <1>8 DEF CooldownPasses, SymbolInv, RecoveryTypeOK
    <3>2. circuit.wait - 1 \in 0..Cooldown
      BY <3>1, LimitsAssumption DEF Circuit
    <3> QED BY <1>1, <3>1, <3>2 DEF SymbolInv, CircuitCountsFailures, Circuit
  <2>3. SymbolInv'
    BY <1>1, <2>1, <2>2 DEF SymbolInv, symbol, book, hist, BookTypeOK, FlagsOK, RecoveryTypeOK,
       ConnectingInv, PositionInv, BookIsVenueBook, LiveMeansFresh
  <2>4. TaskTypeOK' /\ IdsOK' /\ Ranges(frames, streamed)' /\ Ranges(recBuf, streamed)'
    BY <1>1, <2>1 DEF TaskTypeOK, IdsOK, symbol, book, hist
  <2>5. TaskInv'
    BY <1>1, <2>1 DEF TaskInv, Replaying, symbol, hist
  <2> QED BY <1>3, <2>3, <2>4, <2>5
<1> QED BY <1>4, <1>5, <1>6, <1>7, <1>8 DEF Environment

\* What the invariant says of a frame being handled and of the validator that
\* judges it.
LEMMA FrameFacts ==
  ASSUME Inv, TakeFrame, NEW d, d = Head(frames), NEW v, v = Seeded(d)
  PROVE  /\ d \in Delta /\ d.first <= d.final /\ d.final <= streamed
         /\ frames' \in Seq(Delta) /\ Len(frames') <= QueueCap
         /\ Ranges(frames', streamed)
         /\ handled' \in 0..MaxId /\ handled' <= streamed
         /\ v \in Validator /\ v.st # "Awaiting"
         /\ feed # "Connecting" => v = val
         /\ feed = "Connecting" => v.st = "Bridging" /\ Applies(v, d)
         /\ UNCHANGED <<venue, streamed, based>>
         /\ pc = "idle"
<1>1. /\ frames \in Seq(Delta) /\ frames # <<>> /\ Ranges(frames, streamed)
      /\ frames' = Tail(frames) /\ UNCHANGED <<venue, streamed, based>> /\ pc = "idle"
      /\ handled \in 0..MaxId /\ handled <= streamed /\ streamed \in 0..venue /\ venue \in 0..MaxId
      /\ Len(frames) <= QueueCap /\ MaxId \in Nat /\ QueueCap \in Nat
      /\ val \in Validator
  BY VenueAssumption, ShardAssumption
  DEF Inv, TypeOK, TaskTypeOK, BookTypeOK, IdsOK, TakeFrame, env
<1>2. /\ d \in Delta /\ d.first <= d.final /\ d.final <= streamed
      /\ frames' \in Seq(Delta) /\ Len(frames') <= QueueCap /\ Ranges(frames', streamed)
  BY <1>1, RangesHeadTail
<1>3. handled' = IF d.final > handled THEN d.final ELSE handled
  BY DEF TakeFrame
<1>4. handled' \in 0..MaxId /\ handled' <= streamed
  BY <1>1, <1>2, <1>3 DEF Delta
<1>5. CASE val.st = "Awaiting"
  <2>1. v = [st |-> "Bridging", id |-> d.first - 1] /\ d.first - 1 \in Nat
    BY <1>2, <1>5 DEF Seeded, OnSnapshot, Delta
  <2>2. v \in Validator /\ v.st = "Bridging" /\ v.id = d.first - 1
    BY <2>1 DEF Validator
  <2>3. Applies(v, d)
    BY <1>2, <2>2 DEF Applies, Delta
  <2>4. feed = "Connecting"
    BY <1>5 DEF Inv, ConnectingInv
  <2> QED BY <1>1, <1>2, <1>4, <2>2, <2>3, <2>4
<1>6. CASE val.st # "Awaiting"
  <2>1. v = val /\ feed # "Connecting"
    BY <1>6 DEF Seeded, Inv, ConnectingInv
  <2> QED BY <1>1, <1>2, <1>4, <1>6, <2>1
<1> QED BY <1>5, <1>6

\* A delta that passes validation (ValidationResult::Apply).
LEMMA ApplyFrameInv ==
  ASSUME Inv, ApplyFrame
  PROVE  Inv'
<1> DEFINE d == Head(frames)
           v == Seeded(d)
<1>1. /\ TakeFrame /\ Applies(v, d)
      /\ val' = [st |-> "Active", id |-> d.final]
      /\ levels' = ApplyDelta(levels, d) /\ last' = d.final
      /\ feed' = IF feed = "Connecting" THEN "Live" ELSE feed
      /\ UNCHANGED <<rest, pc, stale, recBuf, circuit, bbo>>
  BY DEF ApplyFrame, Advanced
<1>2. /\ d \in Delta /\ d.first <= d.final /\ d.final <= streamed
      /\ frames' \in Seq(Delta) /\ Len(frames') <= QueueCap
      /\ Ranges(frames', streamed)
      /\ handled' \in 0..MaxId /\ handled' <= streamed
      /\ v.st # "Awaiting"
      /\ feed # "Connecting" => v = val
      /\ UNCHANGED <<venue, streamed, based>> /\ pc = "idle"
  BY <1>1, FrameFacts
<1>3. d.final \in 0..MaxId /\ streamed \in Int /\ venue \in Int /\ streamed <= venue
  BY <1>2, VenueAssumption DEF Delta, Inv, TypeOK, TaskTypeOK
<1>4. TaskTypeOK'
  BY <1>1, <1>2 DEF Inv, TypeOK, TaskTypeOK
<1>5. BookTypeOK'
  <2>1. levels' \in [Levels -> Nat]
    BY <1>1, <1>2, ApplyDeltaType DEF Inv, TypeOK, BookTypeOK
  <2> QED BY <1>1, <1>3, <2>1 DEF BookTypeOK, Validator
<1>6. FlagsOK'
  BY <1>1, <1>2 DEF Inv, TypeOK, FlagsOK
<1>7. RecoveryTypeOK' /\ CircuitCountsFailures'
  BY <1>1 DEF Inv, TypeOK, RecoveryTypeOK, CircuitCountsFailures, FeedStates
<1>8. Ranges(frames, streamed)' /\ Ranges(recBuf, streamed)'
  BY <1>1, <1>2 DEF Inv
<1>9. IdsOK'
  BY <1>1, <1>2, <1>3, VenueAssumption DEF Inv, IdsOK, Delta
<1>10. ConnectingInv'
  BY <1>1, <1>2 DEF Inv, ConnectingInv
<1>11. PositionInv'
  BY <1>1 DEF PositionInv
<1>12. TaskInv'
  BY <1>1, <1>2 DEF Inv, TaskInv, Replaying
<1>13. BookIsVenueBook'
  <2> SUFFICES ASSUME based PROVE levels' = VenueBook[d.final]
    BY <1>1, <1>2 DEF BookIsVenueBook
  <2>1. v = val /\ levels = VenueBook[last] /\ last \in 0..MaxId
    BY <1>2 DEF Inv, ConnectingInv, BookIsVenueBook, TypeOK, BookTypeOK
  <2>2. val.st \in {"Bridging", "Active"} => val.id = last
    BY DEF Inv, PositionInv
  <2>3. d.first <= last + 1 /\ last <= d.final
    BY <1>1, <1>2, <2>1, <2>2 DEF Applies, Delta
  <2> QED BY <1>1, <1>2, <2>1, <2>3, ApplyDeltaIsExact
<1>14. LiveMeansFresh'
  BY <1>1 DEF Inv, LiveMeansFresh, ConnectingInv
<1> QED BY <1>4, <1>5, <1>6, <1>7, <1>8, <1>9, <1>10, <1>11, <1>12, <1>13, <1>14 DEF Inv, TypeOK

\* A duplicate or old delta (ValidationResult::Discard).
LEMMA DiscardFrameInv ==
  ASSUME Inv, DiscardFrame
  PROVE  Inv'
<1> DEFINE d == Head(frames)
           v == Seeded(d)
<1>1. /\ TakeFrame /\ Discards(v, d)
      /\ UNCHANGED <<rest, pc, val, book, stale, recBuf, circuit, bbo, feed>>
  BY DEF DiscardFrame
<1>2. /\ frames' \in Seq(Delta) /\ Len(frames') <= QueueCap
      /\ Ranges(frames', streamed)
      /\ handled' \in 0..MaxId /\ handled' <= streamed
      /\ UNCHANGED <<venue, streamed, based>> /\ pc = "idle"
      /\ v \in Validator /\ d \in Delta
      /\ feed = "Connecting" => v.st = "Bridging" /\ Applies(v, d)
  BY <1>1, FrameFacts
<1>3. feed # "Connecting"
  BY <1>1, <1>2 DEF Applies, Discards, Validator, Delta
<1>4. TaskTypeOK' /\ IdsOK'
  BY <1>1, <1>2 DEF Inv, TypeOK, TaskTypeOK, IdsOK, book
<1>5. Ranges(frames, streamed)' /\ Ranges(recBuf, streamed)'
  BY <1>1, <1>2 DEF Inv
<1>6. BookTypeOK' /\ FlagsOK' /\ RecoveryTypeOK'
  BY <1>1, <1>2 DEF Inv, TypeOK, BookTypeOK, FlagsOK, RecoveryTypeOK, book
<1>7. ConnectingInv' /\ PositionInv' /\ TaskInv'
  BY <1>1, <1>2, <1>3 DEF Inv, ConnectingInv, PositionInv, TaskInv, Replaying, book
<1>8. BookIsVenueBook' /\ LiveMeansFresh' /\ CircuitCountsFailures'
  BY <1>1, <1>2 DEF Inv, BookIsVenueBook, LiveMeansFresh, CircuitCountsFailures, book
<1> QED BY <1>4, <1>5, <1>6, <1>7, <1>8 DEF Inv, TypeOK

\* The circuit after a push that may have overflowed.
LEMMA AfterPushCircuit ==
  ASSUME Inv, NEW hit \in BOOLEAN
  PROVE  /\ AfterPush(hit) \in Circuit
         /\ AfterPush(hit).open <=> AfterPush(hit).failures = MaxAttempts
<1>1. circuit \in Circuit /\ (circuit.open <=> circuit.failures = MaxAttempts)
  BY DEF Inv, TypeOK, RecoveryTypeOK, CircuitCountsFailures
<1>2. Cooldown \in 0..Cooldown
  BY LimitsAssumption
<1>3. /\ Failed(circuit, Cooldown) \in Circuit
      /\ Failed(circuit, Cooldown).open <=> Failed(circuit, Cooldown).failures = MaxAttempts
  BY <1>1, <1>2, FailedCircuit
<1> QED BY <1>1, <1>3 DEF AfterPush

\* A delta kept for replay (ValidationResult::Buffering).
LEMMA BufferFrameInv ==
  ASSUME Inv, NEW hit \in BOOLEAN, BufferFrame(hit)
  PROVE  Inv'
<1> DEFINE d == Head(frames)
           v == Seeded(d)
<1>1. /\ TakeFrame /\ v.st \in {"Awaiting", "Stale"}
      /\ recBuf' = Pushed(recBuf, d, hit) /\ circuit' = AfterPush(hit)
      /\ feed' = "Degraded" \/ feed' = feed
      /\ UNCHANGED <<rest, pc, val, book, stale, bbo>>
  BY DEF BufferFrame, Buffers
<1>2. /\ d \in Delta /\ d.first <= d.final /\ d.final <= streamed
      /\ frames' \in Seq(Delta) /\ Len(frames') <= QueueCap
      /\ Ranges(frames', streamed)
      /\ handled' \in 0..MaxId /\ handled' <= streamed
      /\ UNCHANGED <<venue, streamed, based>> /\ pc = "idle"
      /\ v.st # "Awaiting"
      /\ feed = "Connecting" => v.st = "Bridging"
  BY <1>1, FrameFacts
<1>3. feed # "Connecting"
  BY <1>1, <1>2
<1>4. TaskTypeOK' /\ IdsOK'
  BY <1>1, <1>2 DEF Inv, TypeOK, TaskTypeOK, IdsOK, book
<1>5. recBuf' \in Seq(Delta) /\ Len(recBuf') <= MaxEvents /\ Ranges(recBuf', streamed)
  BY <1>1, <1>2, PushedBuffer DEF Inv, TypeOK, RecoveryTypeOK
<1>6. Ranges(frames, streamed)' /\ Ranges(recBuf, streamed)'
  BY <1>2, <1>5
<1>7. BookTypeOK' /\ FlagsOK'
  BY <1>1, <1>2 DEF Inv, TypeOK, BookTypeOK, FlagsOK, book
<1>8. RecoveryTypeOK' /\ CircuitCountsFailures'
  BY <1>1, <1>5, AfterPushCircuit DEF Inv, TypeOK, RecoveryTypeOK, CircuitCountsFailures, FeedStates
<1>9. ConnectingInv' /\ PositionInv' /\ TaskInv'
  BY <1>1, <1>2, <1>3 DEF Inv, ConnectingInv, PositionInv, TaskInv, Replaying, book
<1>10. BookIsVenueBook' /\ LiveMeansFresh'
  BY <1>1, <1>2 DEF Inv, BookIsVenueBook, LiveMeansFresh, book
<1> QED BY <1>4, <1>6, <1>7, <1>8, <1>9, <1>10 DEF Inv, TypeOK

\* A gap, whether the circuit lets recovery start or not.
LEMMA GapFrameInv ==
  ASSUME Inv, NEW hit \in BOOLEAN, GapFrame(hit)
  PROVE  Inv'
<1> DEFINE d == Head(frames)
           v == Seeded(d)
<1>1. /\ TakeFrame /\ Gaps(v, d)
      /\ val' = [v EXCEPT !.st = "Stale"] /\ stale' = TRUE
      /\ recBuf' = Pushed(recBuf, d, hit) /\ circuit' = Checked(AfterPush(hit))
      /\ UNCHANGED <<book, bbo>>
      /\ \/ feed' = "Degraded" /\ UNCHANGED <<rest, pc>>
         \/ feed' = "Recovering" /\ pc' = "gapFetch" /\ rest' = Asked
  BY DEF GapFrame, Broken
<1>2. /\ d \in Delta /\ d.first <= d.final /\ d.final <= streamed
      /\ frames' \in Seq(Delta) /\ Len(frames') <= QueueCap
      /\ Ranges(frames', streamed)
      /\ handled' \in 0..MaxId /\ handled' <= streamed
      /\ UNCHANGED <<venue, streamed, based>> /\ pc = "idle"
      /\ v \in Validator
  BY <1>1, FrameFacts
<1>3. TaskTypeOK' /\ IdsOK'
  BY <1>1, <1>2, VenueAssumption DEF Inv, TypeOK, TaskTypeOK, IdsOK, book, Asked
<1>4. recBuf' \in Seq(Delta) /\ Len(recBuf') <= MaxEvents /\ Ranges(recBuf', streamed)
  BY <1>1, <1>2, PushedBuffer DEF Inv, TypeOK, RecoveryTypeOK
<1>5. Ranges(frames, streamed)' /\ Ranges(recBuf, streamed)'
  BY <1>2, <1>4
<1>6. val' \in Validator /\ val'.st = "Stale"
  BY <1>1, <1>2 DEF Validator
<1>7. BookTypeOK'
  BY <1>1, <1>6 DEF Inv, TypeOK, BookTypeOK, book
<1>8. FlagsOK'
  BY <1>1, <1>2 DEF Inv, TypeOK, FlagsOK
<1>9. RecoveryTypeOK' /\ CircuitCountsFailures'
  <2>1. circuit' \in Circuit /\ (circuit'.open <=> circuit'.failures = MaxAttempts)
    BY <1>1, AfterPushCircuit, CheckedCircuit
  <2> QED BY <1>1, <1>4, <2>1 DEF Inv, TypeOK, RecoveryTypeOK, CircuitCountsFailures, FeedStates
<1>10. ConnectingInv' /\ PositionInv' /\ LiveMeansFresh'
  BY <1>1, <1>6 DEF ConnectingInv, PositionInv, LiveMeansFresh
<1>11. TaskInv'
  BY <1>1, <1>2 DEF Inv, TaskInv, Replaying
<1>12. BookIsVenueBook'
  BY <1>1, <1>2 DEF Inv, BookIsVenueBook, book
<1> QED BY <1>3, <1>5, <1>7, <1>8, <1>9, <1>10, <1>11, <1>12 DEF Inv, TypeOK

\* The tick that starts a recovery of a stale book.
LEMMA TickInv ==
  ASSUME Inv, Tick
  PROVE  Inv'
<1>1. /\ pc = "idle" /\ stale /\ circuit' = Checked(circuit)
      /\ feed' = "Recovering" /\ pc' = "tickFetch" /\ rest' = Asked
      /\ UNCHANGED <<env, frames, val, book, stale, recBuf, bbo, hist>>
  BY DEF Tick
<1>2. feed # "Connecting"
  BY <1>1 DEF Inv, ConnectingInv
<1>3. TaskTypeOK' /\ IdsOK'
  BY <1>1, VenueAssumption DEF Inv, TypeOK, TaskTypeOK, IdsOK, env, book, hist, Asked
<1>4. BookTypeOK' /\ FlagsOK'
  BY <1>1 DEF Inv, TypeOK, BookTypeOK, FlagsOK, book, hist
<1>5. RecoveryTypeOK' /\ CircuitCountsFailures'
  <2>1. circuit' \in Circuit /\ (circuit'.open <=> circuit'.failures = MaxAttempts)
    BY <1>1, CheckedCircuit DEF Inv, TypeOK, RecoveryTypeOK, CircuitCountsFailures
  <2> QED BY <1>1, <2>1 DEF Inv, TypeOK, RecoveryTypeOK, CircuitCountsFailures, FeedStates
<1>6. Ranges(frames, streamed)' /\ Ranges(recBuf, streamed)'
  BY <1>1 DEF Inv, env
<1>7. ConnectingInv' /\ PositionInv' /\ TaskInv'
  BY <1>1, <1>2 DEF Inv, ConnectingInv, PositionInv, TaskInv, Replaying, book, hist
<1>8. BookIsVenueBook' /\ LiveMeansFresh'
  BY <1>1 DEF Inv, BookIsVenueBook, LiveMeansFresh, book, hist
<1> QED BY <1>3, <1>4, <1>5, <1>6, <1>7, <1>8 DEF Inv, TypeOK

\* The snapshot replaces the book and re-arms the validator.
LEMMA ApplySnapshotInv ==
  ASSUME Inv, ApplySnapshot
  PROVE  Inv'
<1>1. /\ pc \in {"gapFetch", "tickFetch"} /\ rest.st = "ok"
      /\ levels' = VenueBook[rest.id] /\ last' = rest.id
      /\ val' = [st |-> "Bridging", id |-> rest.id]
      /\ pc' \in {"gapReplay", "tickReplay"} /\ based'
      /\ UNCHANGED <<env, frames, rest, stale, recBuf, circuit, bbo, feed, handled>>
  BY DEF ApplySnapshot, SnapshotBook, OnSnapshot
<1>2. stale /\ feed # "Connecting"
  BY <1>1 DEF Inv, TaskInv, ConnectingInv
<1>3. rest.id \in 0..MaxId /\ rest.id <= venue
  BY DEF Inv, TypeOK, TaskTypeOK, IdsOK
<1>4. TaskTypeOK' /\ IdsOK'
  BY <1>1, <1>3 DEF Inv, TypeOK, TaskTypeOK, IdsOK, env
<1>5. BookTypeOK'
  BY <1>1, <1>3, VenueAssumption DEF BookTypeOK, Validator
<1>6. FlagsOK'
  BY <1>1 DEF Inv, TypeOK, ApplySnapshot, FlagsOK
<1>7. RecoveryTypeOK' /\ CircuitCountsFailures' /\ LiveMeansFresh'
  BY <1>1 DEF Inv, TypeOK, RecoveryTypeOK, CircuitCountsFailures, LiveMeansFresh
<1>8. Ranges(frames, streamed)' /\ Ranges(recBuf, streamed)'
  BY <1>1 DEF Inv, env
<1>9. ConnectingInv' /\ PositionInv'
  BY <1>1, <1>2 DEF ConnectingInv, PositionInv
<1>10. TaskInv'
  BY <1>1, <1>2, <1>3 DEF TaskInv, Replaying
<1>11. BookIsVenueBook'
  BY <1>1 DEF BookIsVenueBook
<1> QED BY <1>4, <1>5, <1>6, <1>7, <1>8, <1>9, <1>10, <1>11 DEF Inv, TypeOK

\* What the invariant says of a buffered delta being replayed.
LEMMA ReplayFacts ==
  ASSUME Inv, Replaying, recBuf # <<>>, NEW d, d = Head(recBuf)
  PROVE  /\ d \in Delta /\ d.first <= d.final /\ d.final <= streamed
         /\ Tail(recBuf) \in Seq(Delta) /\ Len(Tail(recBuf)) <= MaxEvents
         /\ Ranges(Tail(recBuf), streamed)
         /\ stale /\ feed # "Connecting" /\ feed # "Live"
         /\ based /\ levels = VenueBook[last]
         /\ val \in Validator /\ val.id = last /\ val.st \in {"Bridging", "Active"}
         /\ last \in 0..MaxId /\ rest.id \in 0..MaxId /\ last >= rest.id
         /\ streamed <= venue /\ streamed \in Int /\ venue \in Int
<1>1. recBuf \in Seq(Delta) /\ Len(recBuf) <= MaxEvents /\ Ranges(recBuf, streamed)
  BY DEF Inv, TypeOK, RecoveryTypeOK
<1>2. /\ d \in Delta /\ d.first <= d.final /\ d.final <= streamed
      /\ Tail(recBuf) \in Seq(Delta) /\ Len(Tail(recBuf)) <= MaxEvents
      /\ Ranges(Tail(recBuf), streamed)
  BY <1>1, RangesHeadTail, LimitsAssumption
<1>3. /\ stale /\ based /\ val.st \in {"Bridging", "Active"} /\ val.id >= rest.id
      /\ val.id = last
  BY DEF Inv, TaskInv, PositionInv
<1>4. feed # "Connecting" /\ feed # "Live" /\ levels = VenueBook[last]
  BY <1>3 DEF Inv, ConnectingInv, LiveMeansFresh, BookIsVenueBook
<1>5. /\ val \in Validator /\ last \in 0..MaxId /\ rest.id \in 0..MaxId
      /\ streamed <= venue /\ streamed \in Int /\ venue \in Int
  BY DEF Inv, TypeOK, TaskTypeOK, BookTypeOK
<1> QED BY <1>2, <1>3, <1>4, <1>5

\* A buffered delta that the snapshot already contains.
LEMMA ReplaySkipInv ==
  ASSUME Inv, ReplaySkip
  PROVE  Inv'
<1>1. /\ Replaying /\ recBuf # <<>> /\ recBuf' = Tail(recBuf)
      /\ UNCHANGED <<env, frames, rest, pc, val, book, stale, circuit, bbo, feed, hist>>
  BY DEF ReplaySkip
<1>2. recBuf' \in Seq(Delta) /\ Len(recBuf') <= MaxEvents /\ Ranges(recBuf', streamed)
  BY <1>1, ReplayFacts
<1>3. TaskTypeOK' /\ IdsOK'
  BY <1>1 DEF Inv, TypeOK, TaskTypeOK, IdsOK, env, book, hist
<1>4. BookTypeOK' /\ FlagsOK'
  BY <1>1 DEF Inv, TypeOK, BookTypeOK, FlagsOK, book, hist
<1>5. RecoveryTypeOK' /\ CircuitCountsFailures'
  BY <1>1, <1>2 DEF Inv, TypeOK, RecoveryTypeOK, CircuitCountsFailures
<1>6. Ranges(frames, streamed)' /\ Ranges(recBuf, streamed)'
  BY <1>1, <1>2 DEF Inv, env
<1>7. ConnectingInv' /\ PositionInv' /\ TaskInv'
  BY <1>1 DEF Inv, ConnectingInv, PositionInv, TaskInv, Replaying, book, hist
<1>8. BookIsVenueBook' /\ LiveMeansFresh'
  BY <1>1 DEF Inv, BookIsVenueBook, LiveMeansFresh, book, hist
<1> QED BY <1>3, <1>4, <1>5, <1>6, <1>7, <1>8 DEF Inv, TypeOK

\* A buffered delta replayed on top of the snapshot.
LEMMA ReplayApplyInv ==
  ASSUME Inv, ReplayApply
  PROVE  Inv'
<1> DEFINE d == Head(recBuf)
<1>1. /\ Replaying /\ recBuf # <<>> /\ recBuf' = Tail(recBuf)
      /\ d.final > rest.id /\ Applies(val, d)
      /\ val' = [st |-> "Active", id |-> d.final]
      /\ levels' = ApplyDelta(levels, d) /\ last' = d.final
      /\ UNCHANGED <<env, frames, rest, pc, stale, circuit, bbo, feed, hist>>
  BY DEF ReplayApply, Advanced
<1>2. /\ d \in Delta /\ d.first <= d.final /\ d.final <= streamed
      /\ recBuf' \in Seq(Delta) /\ Len(recBuf') <= MaxEvents /\ Ranges(recBuf', streamed)
      /\ stale /\ feed # "Connecting" /\ feed # "Live"
      /\ based /\ levels = VenueBook[last]
      /\ val \in Validator /\ val.id = last /\ val.st \in {"Bridging", "Active"}
      /\ last \in 0..MaxId /\ rest.id \in 0..MaxId /\ last >= rest.id
      /\ streamed <= venue /\ streamed \in Int /\ venue \in Int
  BY <1>1, ReplayFacts
<1>3. d.first <= last + 1 /\ last <= d.final /\ d.final \in 0..MaxId
  BY <1>1, <1>2 DEF Applies, Delta
<1>4. levels' = VenueBook[d.final]
  BY <1>1, <1>2, <1>3, ApplyDeltaIsExact
<1>5. TaskTypeOK' /\ IdsOK'
  BY <1>1, <1>2, <1>3 DEF Inv, TypeOK, TaskTypeOK, IdsOK, env, hist
<1>6. BookTypeOK'
  BY <1>1, <1>3, <1>4, VenueAssumption DEF BookTypeOK, Validator
<1>7. FlagsOK'
  BY <1>1 DEF Inv, TypeOK, FlagsOK, hist
<1>8. RecoveryTypeOK' /\ CircuitCountsFailures' /\ LiveMeansFresh'
  BY <1>1, <1>2 DEF Inv, TypeOK, RecoveryTypeOK, CircuitCountsFailures, LiveMeansFresh
<1>9. Ranges(frames, streamed)' /\ Ranges(recBuf, streamed)'
  BY <1>1, <1>2 DEF Inv, env
<1>10. ConnectingInv' /\ PositionInv'
  BY <1>1, <1>2 DEF ConnectingInv, PositionInv
<1>11. TaskInv'
  BY <1>1, <1>2, <1>3 DEF Inv, TaskInv, Replaying, hist
<1>12. BookIsVenueBook'
  BY <1>1, <1>4 DEF BookIsVenueBook
<1> QED BY <1>5, <1>6, <1>7, <1>8, <1>9, <1>10, <1>11, <1>12 DEF Inv, TypeOK

\* The circuit, the feed and the task after a recovery that failed.
LEMMA FailedRecoveryFacts ==
  ASSUME Inv, NEW waited \in 0..Cooldown, FailRecovery(waited), stale
  PROVE  /\ circuit' \in Circuit /\ CircuitCountsFailures'
         /\ feed' \in FeedStates /\ feed' # "Live" /\ feed' # "Connecting" /\ feed # "Connecting"
         /\ pc' = "idle" /\ rest' = NoRequest
         /\ UNCHANGED <<env, frames, stale, bbo, hist>>
<1> DEFINE c == Failed(circuit, Cooldown - waited)
<1>1. /\ circuit' = c /\ pc' = "idle" /\ rest' = NoRequest
      /\ feed' \in {"Degraded", "Stale", feed}
      /\ UNCHANGED <<env, frames, stale, bbo, hist>>
  BY DEF FailRecovery
<1>2. Cooldown - waited \in 0..Cooldown
  BY LimitsAssumption
<1>3. circuit \in Circuit /\ (circuit.open <=> circuit.failures = MaxAttempts)
  BY DEF Inv, TypeOK, RecoveryTypeOK, CircuitCountsFailures
<1>4. c \in Circuit /\ (c.open <=> c.failures = MaxAttempts)
  BY <1>2, <1>3, FailedCircuit
<1>5. feed \in FeedStates /\ feed # "Live" /\ feed # "Connecting"
  BY DEF Inv, TypeOK, RecoveryTypeOK, LiveMeansFresh, ConnectingInv
<1> QED BY <1>1, <1>4, <1>5 DEF CircuitCountsFailures, FeedStates

\* A gap during replay: the buffer is lost, the book keeps what was replayed.
LEMMA ReplayGapInv ==
  ASSUME Inv, NEW waited \in 0..Cooldown, ReplayGap(waited)
  PROVE  Inv'
<1>1. /\ Replaying /\ recBuf # <<>> /\ val' = [val EXCEPT !.st = "Stale"] /\ recBuf' = <<>>
      /\ FailRecovery(waited) /\ UNCHANGED book
  BY DEF ReplayGap, Broken
<1>2. stale
  BY <1>1 DEF Inv, TaskInv
<1>3. /\ circuit' \in Circuit /\ CircuitCountsFailures'
      /\ feed' \in FeedStates /\ feed' # "Live" /\ feed' # "Connecting" /\ feed # "Connecting"
      /\ pc' = "idle" /\ rest' = NoRequest
      /\ UNCHANGED <<env, frames, stale, bbo, hist>>
  BY <1>1, <1>2, FailedRecoveryFacts
<1>4. TaskTypeOK' /\ IdsOK'
  BY <1>1, <1>3, VenueAssumption DEF Inv, TypeOK, TaskTypeOK, IdsOK, NoRequest, env, book, hist
<1>5. val' \in Validator /\ val'.st = "Stale"
  BY <1>1 DEF Inv, TypeOK, BookTypeOK, Validator
<1>6. BookTypeOK' /\ FlagsOK'
  BY <1>1, <1>3, <1>5 DEF Inv, TypeOK, BookTypeOK, FlagsOK, book, hist
<1>7. RecoveryTypeOK'
  BY <1>1, <1>3, LimitsAssumption DEF Inv, TypeOK, RecoveryTypeOK
<1>8. Ranges(frames, streamed)' /\ Ranges(recBuf, streamed)'
  BY <1>1, <1>3 DEF Inv, Ranges, env
<1>9. ConnectingInv' /\ PositionInv' /\ LiveMeansFresh' /\ TaskInv'
  BY <1>2, <1>3, <1>5 DEF ConnectingInv, PositionInv, LiveMeansFresh, TaskInv, Replaying
<1>10. BookIsVenueBook'
  BY <1>1, <1>3 DEF Inv, BookIsVenueBook, book, hist
<1> QED BY <1>3, <1>4, <1>6, <1>7, <1>8, <1>9, <1>10 DEF Inv, TypeOK

\* A REST request that failed.
LEMMA FetchFailedInv ==
  ASSUME Inv, NEW waited \in 0..Cooldown, FetchFailed(waited)
  PROVE  Inv'
<1>1. /\ pc \in {"gapFetch", "tickFetch"} /\ FailRecovery(waited)
      /\ UNCHANGED <<val, book, recBuf>>
  BY DEF FetchFailed
<1>2. stale
  BY <1>1 DEF Inv, TaskInv
<1>3. /\ circuit' \in Circuit /\ CircuitCountsFailures'
      /\ feed' \in FeedStates /\ feed' # "Live" /\ feed' # "Connecting" /\ feed # "Connecting"
      /\ pc' = "idle" /\ rest' = NoRequest
      /\ UNCHANGED <<env, frames, stale, bbo, hist>>
  BY <1>1, <1>2, FailedRecoveryFacts
<1>4. TaskTypeOK' /\ IdsOK'
  BY <1>1, <1>3, VenueAssumption DEF Inv, TypeOK, TaskTypeOK, IdsOK, NoRequest, env, book, hist
<1>5. BookTypeOK' /\ FlagsOK'
  BY <1>1, <1>3 DEF Inv, TypeOK, BookTypeOK, FlagsOK, book, hist
<1>6. RecoveryTypeOK'
  BY <1>1, <1>3 DEF Inv, TypeOK, RecoveryTypeOK
<1>7. Ranges(frames, streamed)' /\ Ranges(recBuf, streamed)'
  BY <1>1, <1>3 DEF Inv, env
<1>8. ConnectingInv' /\ LiveMeansFresh' /\ TaskInv'
  BY <1>1, <1>2, <1>3 DEF Inv, ConnectingInv, LiveMeansFresh, TaskInv, Replaying
<1>9. PositionInv' /\ BookIsVenueBook'
  BY <1>1, <1>3 DEF Inv, PositionInv, BookIsVenueBook, book, hist
<1> QED BY <1>3, <1>4, <1>5, <1>6, <1>7, <1>8, <1>9 DEF Inv, TypeOK

\* A recovery that succeeded.
LEMMA RecoveredInv ==
  ASSUME Inv, Recovered
  PROVE  Inv'
<1>1. /\ Replaying /\ stale' = FALSE /\ circuit' = NewCircuit
      /\ bbo' = "none" /\ feed' = "Live" /\ pc' = "idle" /\ rest' = NoRequest
      /\ UNCHANGED <<env, frames, val, book, recBuf, hist>>
  BY DEF Recovered, Succeeded
<1>2. stale /\ feed # "Connecting" /\ val.st \in {"Bridging", "Active"}
  BY <1>1 DEF Inv, TaskInv, ConnectingInv
<1>3. TaskTypeOK' /\ IdsOK'
  BY <1>1, VenueAssumption DEF Inv, TypeOK, TaskTypeOK, IdsOK, NoRequest, env, book, hist
<1>4. BookTypeOK' /\ FlagsOK'
  BY <1>1 DEF Inv, TypeOK, BookTypeOK, FlagsOK, book, hist
<1>5. RecoveryTypeOK' /\ CircuitCountsFailures'
  BY <1>1, LimitsAssumption
  DEF Inv, TypeOK, RecoveryTypeOK, CircuitCountsFailures, NewCircuit, Circuit, FeedStates
<1>6. Ranges(frames, streamed)' /\ Ranges(recBuf, streamed)'
  BY <1>1 DEF Inv, env
<1>7. ConnectingInv' /\ PositionInv' /\ LiveMeansFresh' /\ TaskInv'
  BY <1>1, <1>2 DEF Inv, ConnectingInv, PositionInv, LiveMeansFresh, TaskInv, Replaying, book, hist
<1>8. BookIsVenueBook'
  BY <1>1 DEF Inv, BookIsVenueBook, book, hist
<1> QED BY <1>3, <1>4, <1>5, <1>6, <1>7, <1>8 DEF Inv, TypeOK

\* A book with both sides has seen its first delta.
LEMMA TwoSidedIsConnected ==
  ASSUME Inv, HasBothSides(levels)
  PROVE  feed # "Connecting"
BY DEF Inv, ConnectingInv, HasBothSides, EmptyBook, Levels

\* The periodic comparison with a REST snapshot.
LEMMA CheckSnapshotInv ==
  ASSUME Inv, CheckSnapshot
  PROVE  Inv'
<1>1. CASE CheckTick \/ CheckPasses
  <2>1. /\ UNCHANGED <<env, frames, circuit, symbol>>
        /\ \/ pc = "idle" /\ ~stale /\ HasBothSides(levels) /\ pc' = "checkFetch" /\ rest' = Asked
           \/ pc = "checkFetch" /\ pc' = "idle" /\ rest' = NoRequest
    BY <1>1 DEF CheckTick, CheckPasses
  <2>2. feed # "Connecting"
    BY <2>1, TwoSidedIsConnected DEF Inv, ConnectingInv
  <2>3. TaskTypeOK' /\ IdsOK'
    BY <2>1, VenueAssumption
    DEF Inv, TypeOK, TaskTypeOK, IdsOK, NoRequest, Asked, env, symbol, book, hist
  <2>4. BookTypeOK' /\ FlagsOK' /\ RecoveryTypeOK'
    BY <2>1 DEF Inv, TypeOK, BookTypeOK, FlagsOK, RecoveryTypeOK, symbol, book, hist
  <2>5. Ranges(frames, streamed)' /\ Ranges(recBuf, streamed)'
    BY <2>1 DEF Inv, env, symbol
  <2>6. ConnectingInv' /\ PositionInv' /\ TaskInv'
    BY <2>1, <2>2 DEF Inv, ConnectingInv, PositionInv, TaskInv, Replaying, symbol, book, hist
  <2>7. BookIsVenueBook' /\ LiveMeansFresh' /\ CircuitCountsFailures'
    BY <2>1 DEF Inv, BookIsVenueBook, LiveMeansFresh, CircuitCountsFailures, symbol, book, hist
  <2> QED BY <2>3, <2>4, <2>5, <2>6, <2>7 DEF Inv, TypeOK
<1>2. CASE CheckIncompatible
  <2>1. /\ pc = "checkFetch" /\ stale' = TRUE /\ feed' = "Stale" /\ pc' = "idle" /\ rest' = NoRequest
        /\ UNCHANGED <<env, frames, circuit, val, book, recBuf, bbo, hist>>
    BY <1>2 DEF CheckIncompatible
  <2>2. feed # "Connecting"
    BY <2>1 DEF Inv, ConnectingInv
  <2>3. TaskTypeOK' /\ IdsOK'
    BY <2>1, VenueAssumption DEF Inv, TypeOK, TaskTypeOK, IdsOK, NoRequest, env, book, hist
  <2>4. BookTypeOK' /\ FlagsOK'
    BY <2>1 DEF Inv, TypeOK, BookTypeOK, FlagsOK, book, hist
  <2>5. RecoveryTypeOK'
    BY <2>1 DEF Inv, TypeOK, RecoveryTypeOK, FeedStates
  <2>6. Ranges(frames, streamed)' /\ Ranges(recBuf, streamed)'
    BY <2>1 DEF Inv, env
  <2>7. ConnectingInv' /\ PositionInv' /\ TaskInv'
    BY <2>1, <2>2 DEF Inv, ConnectingInv, PositionInv, TaskInv, Replaying, book, hist
  <2>8. BookIsVenueBook' /\ LiveMeansFresh' /\ CircuitCountsFailures'
    BY <2>1 DEF Inv, BookIsVenueBook, LiveMeansFresh, CircuitCountsFailures, book, hist
  <2> QED BY <2>3, <2>4, <2>5, <2>6, <2>7, <2>8 DEF Inv, TypeOK
<1> QED BY <1>1, <1>2 DEF CheckSnapshot

\* The comparison with the best bid and offer.
LEMMA HandleBboInv ==
  ASSUME Inv, HandleBbo
  PROVE  Inv'
<1>1. /\ UNCHANGED task /\ pc = "idle"
      /\ bbo' \in {"none", "fresh", "degrade"}
      /\ \/ UNCHANGED <<stale, feed>>
         \/ BboMismatches /\ UNCHANGED stale /\ feed' = "Degraded"
         \/ BboMismatches /\ stale' = TRUE /\ feed' = "Stale"
  BY DEF HandleBbo, BboClears, BboTolerated, BboDegrades, BboMarksStale, BboMismatches
<1>2. BboMismatches => feed # "Connecting"
  BY TwoSidedIsConnected DEF BboMismatches
<1>3. TaskTypeOK' /\ IdsOK'
  BY <1>1 DEF Inv, TypeOK, TaskTypeOK, IdsOK, task, env, book, hist
<1>4. BookTypeOK'
  BY <1>1 DEF Inv, TypeOK, BookTypeOK, task, book
<1>5. FlagsOK'
  BY <1>1 DEF Inv, TypeOK, FlagsOK, task, hist
<1>6. RecoveryTypeOK' /\ CircuitCountsFailures'
  BY <1>1 DEF Inv, TypeOK, RecoveryTypeOK, CircuitCountsFailures, FeedStates, task
<1>7. Ranges(frames, streamed)' /\ Ranges(recBuf, streamed)'
  BY <1>1 DEF Inv, task, env
<1>8. ConnectingInv' /\ PositionInv' /\ TaskInv'
  BY <1>1, <1>2 DEF Inv, ConnectingInv, PositionInv, TaskInv, Replaying, task, book, hist
<1>9. BookIsVenueBook' /\ LiveMeansFresh'
  BY <1>1 DEF Inv, BookIsVenueBook, LiveMeansFresh, task, book, hist
<1> QED BY <1>3, <1>4, <1>5, <1>6, <1>7, <1>8, <1>9 DEF Inv, TypeOK

\* A frame that is skipped only leaves the queue.
LEMMA SkipFrameInv == ASSUME Inv, SkipFrame PROVE Inv'
<1>1. /\ SymbolInv /\ TaskTypeOK /\ Ranges(frames, streamed) /\ Ranges(recBuf, streamed)
      /\ IdsOK /\ TaskInv
  BY DEF Inv, TypeOK, SymbolInv
<1>2. SymbolInv'
  BY <1>1, SymbolUntouched DEF SkipFrame
<1>3. UNCHANGED <<env, rest, pc, last, stale, recBuf, handled, val>>
  BY DEF SkipFrame, symbol, book, hist
<1>4. frames \in Seq(Delta) /\ frames # <<>> /\ frames' = Tail(frames) /\ Len(frames) <= QueueCap
  BY <1>1 DEF SkipFrame, TaskTypeOK
<1>5. based' = based
  BY DEF SkipFrame, symbol, hist
<1>6. Ranges(frames, streamed)' /\ frames' \in Seq(Delta) /\ Len(frames') < Len(frames)
  BY <1>1, <1>3, <1>4, RangesHeadTail DEF env
<1>7. Len(frames') <= QueueCap
  BY <1>4, <1>6, ShardAssumption
<1>8. TaskTypeOK'
  BY <1>1, <1>3, <1>6, <1>7 DEF TaskTypeOK, env
<1>9. IdsOK' /\ TaskInv' /\ Ranges(recBuf, streamed)'
  BY <1>1, <1>3, <1>5 DEF IdsOK, TaskInv, Replaying, env
<1> QED BY <1>2, <1>6, <1>8, <1>9 DEF Inv, TypeOK, SymbolInv

\* Every step keeps the invariant.
LEMMA NextInv == Inv /\ [Next]_vars => Inv'
<1> SUFFICES ASSUME Inv, [Next]_vars PROVE Inv'
  OBVIOUS
<1>1. CASE Environment
  BY <1>1, EnvironmentInv
<1>2. CASE HandleFrame
  BY <1>2, SkipFrameInv, ApplyFrameInv, DiscardFrameInv, BufferFrameInv, GapFrameInv DEF HandleFrame
<1>3. CASE Tick
  BY <1>3, TickInv
<1>4. CASE FinishRecovery
  BY <1>4, ApplySnapshotInv, ReplaySkipInv, ReplayApplyInv, ReplayGapInv, FetchFailedInv,
     RecoveredInv DEF FinishRecovery
<1>5. CASE CheckSnapshot
  BY <1>5, CheckSnapshotInv
<1>6. CASE HandleBbo
  BY <1>6, HandleBboInv
<1>7. CASE UNCHANGED vars
  <2>1. SymbolInv'
    BY <1>7, SymbolUntouched DEF Inv, TypeOK, SymbolInv, vars, symbol, book, hist
  <2>2. TaskTypeOK' /\ IdsOK' /\ TaskInv' /\ Ranges(frames, streamed)' /\ Ranges(recBuf, streamed)'
    BY <1>7 DEF Inv, TypeOK, TaskTypeOK, IdsOK, TaskInv, Replaying, vars
  <2> QED BY <2>1, <2>2 DEF Inv, TypeOK, SymbolInv
<1> QED BY <1>1, <1>2, <1>3, <1>4, <1>5, <1>6, <1>7 DEF Next

\* The invariant holds in every reachable state.
LEMMA InvHolds == Spec => []Inv
BY InitInv, NextInv, PTL DEF Spec

------------------------------------------------------------------------------
(***************************************************************************)
(* The results.                                                            *)
(***************************************************************************)

\* Every variable keeps its type and every queue its limit: the frame channel
\* its capacity, the recovery buffer its max_events, the breaker its counter.
THEOREM TypeCorrect == Spec => []TypeOK
<1>1. Inv => TypeOK
  BY DEF Inv
<1> QED BY <1>1, InvHolds, PTL

\* Once a snapshot has been applied, the levels of the local book are those
\* the venue had at the book's last_update_id, whatever was lost, repeated,
\* overflowed or failed.
THEOREM BookIsExact == Spec => []BookIsVenueBook
<1>1. Inv => BookIsVenueBook
  BY DEF Inv
<1> QED BY <1>1, InvHolds, PTL

\* A symbol is announced Live only while its book is not marked stale.
THEOREM LiveIsFresh == Spec => []LiveMeansFresh
<1>1. Inv => LiveMeansFresh
  BY DEF Inv
<1> QED BY <1>1, InvHolds, PTL

\* The circuit breaker is open exactly when it has counted max_attempts
\* failures.
THEOREM CircuitCounts == Spec => []CircuitCountsFailures
<1>1. Inv => CircuitCountsFailures
  BY DEF Inv
<1> QED BY <1>1, InvHolds, PTL

------------------------------------------------------------------------------
(***************************************************************************)
(* The shard implements SyncedBook: a step changes the position of a good  *)
(* book only forward, a book becomes bad without moving, and is good again *)
(* only at a position the venue has reached.                               *)
(***************************************************************************)

good == ~stale /\ feed # "Connecting"

\* A step of the shard is a step of SyncedBook or leaves what it shows alone.
LEMMA StepRefines ==
  ASSUME Inv, Inv', [Next]_vars
  PROVE  [Synced!Next]_<<venue, last, good>>
<1> USE DEF good
<1>1. /\ last' \in 0..venue' /\ good \in BOOLEAN /\ good' \in BOOLEAN
      /\ last \in 0..MaxId /\ last <= venue
  BY DEF Inv, IdsOK, TypeOK, TaskTypeOK, BookTypeOK
<1>2. ASSUME UNCHANGED <<venue, last, stale, feed>> PROVE UNCHANGED <<venue, last, good>>
  BY <1>2
<1>3. ASSUME UNCHANGED venue, ~good PROVE Synced!Rebuild
  BY <1>1, <1>3 DEF Synced!Rebuild
<1>4. ASSUME UNCHANGED <<venue, last>>, good, ~good' PROVE Synced!Lose
  BY <1>4 DEF Synced!Lose
<1>5. ASSUME UNCHANGED <<venue, last>>, good' = good PROVE UNCHANGED <<venue, last, good>>
  BY <1>5
<1>6. CASE Environment
  <2>1. CASE VenueUpdate
    BY <2>1 DEF VenueUpdate, Synced!Next, Synced!Publish, symbol, book
  <2>2. CASE ~VenueUpdate
    <3>1. UNCHANGED <<venue, last, stale, feed>>
      BY <1>6, <2>2 DEF Environment, StreamDelta, LoseDelta, DuplicateDelta, RestServe, RestFail,
         CooldownPasses, symbol, book
    <3> QED BY <1>2, <3>1
  <2> QED BY <2>1, <2>2
<1>7. CASE ApplyFrame
  <2> DEFINE d == Head(frames)
  <2>1. /\ TakeFrame /\ Applies(Seeded(d), d) /\ last' = d.final
        /\ UNCHANGED <<venue, stale>> /\ feed' = IF feed = "Connecting" THEN "Live" ELSE feed
    BY <1>7 DEF ApplyFrame, TakeFrame, env
  <2>2. CASE ~good
    BY <1>3, <2>1, <2>2 DEF Synced!Next
  <2>3. CASE good
    <3>1. d \in Delta /\ d.first <= d.final /\ d.final <= streamed /\ Seeded(d) = val
      BY <2>1, <2>3, FrameFacts
    <3>2. val.st \in {"Bridging", "Active"} /\ val.id = last
      BY <2>1, <2>3, <3>1 DEF Applies, Inv, PositionInv
    <3>3. d.final >= last + 1
      BY <1>1, <2>1, <3>1, <3>2 DEF Applies, Delta
    <3>4. last' \in (last + 1)..venue
      BY <1>1, <2>1, <3>1, <3>3 DEF Delta
    <3> QED BY <2>1, <2>3, <3>4 DEF Synced!Next, Synced!Follow
  <2> QED BY <2>2, <2>3
<1>8. CASE HandleFrame /\ ~ApplyFrame
  <2>1. CASE SkipFrame \/ DiscardFrame
    BY <1>2, <2>1 DEF SkipFrame, DiscardFrame, TakeFrame, env, book, symbol
  <2>2. ASSUME NEW hit \in BOOLEAN, BufferFrame(hit)
        PROVE  [Synced!Next]_<<venue, last, good>>
    <3>1. /\ UNCHANGED <<venue, last, stale>> /\ feed' \in {"Degraded", feed}
      BY <2>2 DEF BufferFrame, TakeFrame, env, book
    <3>2. CASE good
      BY <1>5, <3>1, <3>2
    <3>3. CASE ~good
      BY <1>3, <3>1, <3>3 DEF Synced!Next
    <3> QED BY <3>2, <3>3
  <2>3. ASSUME NEW hit \in BOOLEAN, GapFrame(hit)
        PROVE  [Synced!Next]_<<venue, last, good>>
    <3>1. UNCHANGED <<venue, last>> /\ stale' = TRUE
      BY <2>3 DEF GapFrame, TakeFrame, env, book
    <3> QED BY <1>3, <1>4, <3>1 DEF Synced!Next
  <2> QED BY <1>8, <2>1, <2>2, <2>3 DEF HandleFrame
<1>9. CASE Tick \/ FinishRecovery
  <2>1. UNCHANGED venue
    BY <1>9 DEF Tick, FinishRecovery, ApplySnapshot, ReplaySkip, ReplayApply, ReplayGap, FetchFailed,
       FailRecovery, Recovered, env
  <2>2. Tick \/ Replaying \/ pc \in {"gapFetch", "tickFetch"}
    BY <1>9 DEF FinishRecovery, ApplySnapshot, ReplaySkip, ReplayApply, ReplayGap, FetchFailed, Recovered
  <2>3. stale
    BY <2>2 DEF Tick, Inv, TaskInv
  <2> QED BY <1>3, <2>1, <2>3 DEF Synced!Next
<1>10. CASE CheckSnapshot \/ HandleBbo
  <2>1. /\ UNCHANGED <<venue, last>>
        /\ \/ UNCHANGED <<stale, feed>>
           \/ stale' = TRUE
           \/ BboMismatches /\ UNCHANGED stale /\ feed' = "Degraded"
    BY <1>10 DEF CheckSnapshot, CheckTick, CheckPasses, CheckIncompatible, HandleBbo, BboClears,
       BboTolerated, BboDegrades, BboMarksStale, BboMismatches, symbol, task, env, book
  <2>2. BboMismatches => feed # "Connecting"
    BY TwoSidedIsConnected DEF BboMismatches
  <2>3. CASE ~good
    BY <1>3, <2>1, <2>3 DEF Synced!Next
  <2>4. CASE good /\ ~good'
    BY <1>4, <2>1, <2>4 DEF Synced!Next
  <2>5. CASE good /\ good'
    BY <1>5, <2>1, <2>5
  <2> QED BY <2>3, <2>4, <2>5
<1>11. CASE UNCHANGED vars
  BY <1>2, <1>11 DEF vars
<1> QED BY <1>6, <1>7, <1>8, <1>9, <1>10, <1>11 DEF Next, HandleFrame

\* While it is not stale, the local book only moves forward with the venue and
\* never ahead of it; recovery repositions it only after it was marked stale.
THEOREM BookFollowsVenue == Spec => FollowsVenue
<1>1. Init => Synced!Init
  BY DEF Init, Synced!Init
<1>2. Inv /\ Inv' /\ [Next]_vars => [Synced!Next]_<<venue, last, good>>
  BY StepRefines
<1> QED BY <1>1, <1>2, InvHolds, PTL DEF Spec, FollowsVenue, Synced!Spec, good

------------------------------------------------------------------------------
(***************************************************************************)
(* Freshness: a book that is not stale reflects every delta its validator  *)
(* was given, when REST snapshots do not lag the venue.                    *)
(***************************************************************************)

\* No delta of seq reaches across id: each ends by it or starts after it.
Boundary(id, seq) == \A i \in 1..Len(seq) : seq[i].final <= id \/ seq[i].first > id

\* Wherever a delta may leave an active validator, and wherever it stands, is
\* a boundary of the deltas still to come: discarding one loses nothing.
AlignedInv ==
  /\ \A i \in 1..Len(frames) : Boundary(frames[i].final, frames)
  /\ \A i \in 1..Len(recBuf) : Boundary(recBuf[i].final, frames)
  /\ val.st = "Active" => val.id <= streamed /\ Boundary(val.id, frames)

\* The answer the task recovers from is not older than what it has handled,
\* because it takes no frame while it waits.
CurrentAnswer ==
  pc \in {"gapFetch", "tickFetch", "gapReplay", "tickReplay"} /\ rest.st = "ok"
    => rest.id >= handled

FreshInv == AlignedInv /\ CurrentAnswer /\ NoMissedDelta

\* A boundary stays one when the first delta is taken off.
LEMMA BoundaryTail ==
  ASSUME NEW s \in Seq(Delta), s # <<>>, NEW id, Boundary(id, s)
  PROVE  Boundary(id, Tail(s))
<1>1. \A i \in 1..Len(Tail(s)) : Tail(s)[i] = s[i + 1] /\ i + 1 \in 1..Len(s)
  OBVIOUS
<1> QED BY <1>1 DEF Boundary

\* A boundary stays one when a delta that does not reach across it is added.
LEMMA BoundaryAppend ==
  ASSUME NEW s \in Seq(Delta), NEW d \in Delta, NEW id, Boundary(id, s),
         d.final <= id \/ d.first > id
  PROVE  Boundary(id, Append(s, d))
<1> SUFFICES ASSUME NEW i \in 1..Len(Append(s, d))
             PROVE  Append(s, d)[i].final <= id \/ Append(s, d)[i].first > id
  BY DEF Boundary
<1>1. CASE i = Len(s) + 1
  BY <1>1
<1>2. CASE i \in 1..Len(s)
  BY <1>2 DEF Boundary
<1> QED BY <1>1, <1>2

\* What the shard invariant says of the queues.
LEMMA QueueFacts ==
  ASSUME Inv
  PROVE  /\ frames \in Seq(Delta) /\ recBuf \in Seq(Delta)
         /\ Ranges(frames, streamed) /\ Ranges(recBuf, streamed)
         /\ streamed \in 0..venue /\ venue \in 0..MaxId /\ MaxId \in Nat
         /\ val \in Validator /\ last \in 0..MaxId /\ handled \in 0..MaxId
         /\ rest.id \in 0..MaxId /\ handled <= streamed
BY VenueAssumption DEF Inv, TypeOK, TaskTypeOK, BookTypeOK, RecoveryTypeOK, IdsOK

\* A step that leaves the queues alone keeps the boundaries, unless it moves an
\* active validator.
LEMMA AlignedKept ==
  ASSUME Inv, AlignedInv, UNCHANGED <<frames, recBuf>>, streamed' \in Int, streamed' >= streamed,
         val' = val \/ val'.st # "Active"
  PROVE  AlignedInv'
<1>1. streamed \in Int /\ (val.st = "Active" => val.id \in Int)
  BY QueueFacts DEF Validator
<1> QED BY <1>1 DEF AlignedInv, Boundary

\* A new delta starts after every id streamed so far.
LEMMA AlignedStream ==
  ASSUME Inv, AlignedInv, StreamDelta
  PROVE  AlignedInv'
<1> DEFINE d == [first |-> streamed + 1, final |-> venue]
<1>1. /\ streamed < venue /\ streamed' = venue /\ UNCHANGED <<val, recBuf>>
      /\ frames' = frames \/ frames' = Append(frames, d)
  BY DEF StreamDelta, symbol
<1>2. /\ frames \in Seq(Delta) /\ recBuf \in Seq(Delta)
      /\ Ranges(frames, streamed) /\ Ranges(recBuf, streamed)
      /\ streamed \in 0..venue /\ venue \in 0..MaxId /\ MaxId \in Nat /\ val \in Validator
  BY QueueFacts
<1>3. CASE frames' = frames
  BY <1>1, <1>2, <1>3, AlignedKept
<1>4. CASE frames' = Append(frames, d)
  <2>1. d \in Delta
    BY <1>1, <1>2 DEF Delta
  <2>2. ASSUME NEW id \in Int, id <= streamed, Boundary(id, frames)
        PROVE  Boundary(id, frames')
    <3>1. d.first > id
      BY <1>2, <2>2
    <3> QED BY <1>2, <1>4, <2>1, <2>2, <3>1, BoundaryAppend
  <2>3. Boundary(d.final, frames')
    <3>1. Boundary(d.final, frames)
      <4> SUFFICES ASSUME NEW i \in 1..Len(frames) PROVE frames[i].final <= venue
        BY DEF Boundary
      <4>1. frames[i] \in Delta /\ frames[i].final <= streamed
        BY <1>2 DEF Ranges
      <4> QED BY <1>1, <1>2, <4>1 DEF Delta
    <3> QED BY <1>2, <1>4, <2>1, <3>1, BoundaryAppend
  <2>4. ASSUME NEW i \in 1..Len(frames')
        PROVE  Boundary(frames'[i].final, frames')
    <3>1. CASE i = Len(frames) + 1
      BY <1>2, <1>4, <2>3, <3>1
    <3>2. CASE i \in 1..Len(frames)
      <4>1. frames'[i] = frames[i] /\ frames[i] \in Delta
        BY <1>2, <1>4, <3>2
      <4>2. frames[i].final \in Int /\ frames[i].final <= streamed /\ Boundary(frames[i].final, frames)
        BY <1>2, <3>2, <4>1 DEF Ranges, Delta, AlignedInv
      <4> QED BY <2>2, <4>1, <4>2
    <3> QED BY <1>2, <1>4, <2>1, <3>1, <3>2
  <2>5. ASSUME NEW i \in 1..Len(recBuf)
        PROVE  Boundary(recBuf[i].final, frames')
    <3>1. recBuf[i] \in Delta
      BY <1>2
    <3>2. recBuf[i].final \in Int /\ recBuf[i].final <= streamed /\ Boundary(recBuf[i].final, frames)
      BY <1>2, <3>1 DEF Ranges, Delta, AlignedInv
    <3> QED BY <2>2, <3>2
  <2>6. val.st = "Active" => val.id <= venue /\ Boundary(val.id, frames')
    BY <1>1, <1>2, <2>2 DEF AlignedInv, Validator
  <2> QED BY <1>1, <2>4, <2>5, <2>6 DEF AlignedInv
<1> QED BY <1>1, <1>3, <1>4

\* A delta delivered twice brings no new boundary and crosses none.
LEMMA AlignedDuplicate ==
  ASSUME Inv, AlignedInv, DuplicateDelta
  PROVE  AlignedInv'
<1> DEFINE d == frames[Len(frames)]
<1>1. frames # <<>> /\ frames' = Append(frames, d) /\ UNCHANGED <<streamed, val, recBuf>>
  BY DEF DuplicateDelta, symbol
<1>2. frames \in Seq(Delta) /\ d \in Delta /\ Len(frames) \in 1..Len(frames)
  BY <1>1, QueueFacts
<1>3. ASSUME NEW id, Boundary(id, frames)
      PROVE  Boundary(id, frames')
  <2>1. d.final <= id \/ d.first > id
    BY <1>2, <1>3 DEF Boundary
  <2> QED BY <1>1, <1>2, <1>3, <2>1, BoundaryAppend
<1>4. ASSUME NEW i \in 1..Len(frames')
      PROVE  Boundary(frames'[i].final, frames')
  <2>1. PICK j \in 1..Len(frames) : frames'[i] = frames[j]
    <3>1. CASE i = Len(frames) + 1
      BY <1>1, <1>2, <3>1
    <3>2. CASE i \in 1..Len(frames)
      BY <1>1, <1>2, <3>2
    <3> QED BY <1>1, <1>2, <3>1, <3>2
  <2>2. Boundary(frames[j].final, frames)
    BY DEF AlignedInv
  <2> QED BY <1>3, <2>1, <2>2
<1> QED BY <1>1, <1>3, <1>4 DEF AlignedInv

\* Taking a frame: the queue shortens, the delta itself ends on a boundary.
LEMMA TakenFrame ==
  ASSUME Inv, AlignedInv, frames # <<>>, frames' = Tail(frames), NEW d, d = Head(frames)
  PROVE  /\ Boundary(d.final, frames) /\ Boundary(d.final, frames')
         /\ \A i \in 1..Len(frames') : Boundary(frames'[i].final, frames')
         /\ \A i \in 1..Len(recBuf) : Boundary(recBuf[i].final, frames')
         /\ val.st = "Active" => Boundary(val.id, frames')
<1>1. frames # <<>> /\ frames' = Tail(frames) /\ frames \in Seq(Delta)
  BY QueueFacts
<1>2. ASSUME NEW id, Boundary(id, frames) PROVE Boundary(id, frames')
  BY <1>1, <1>2, BoundaryTail
<1>3. d = frames[1] /\ 1 \in 1..Len(frames)
  BY <1>1
<1>4. Boundary(d.final, frames)
  BY <1>3 DEF AlignedInv
<1>5. \A i \in 1..Len(frames') : frames'[i] = frames[i + 1] /\ i + 1 \in 1..Len(frames)
  BY <1>1
<1>6. \A i \in 1..Len(frames') : Boundary(frames'[i].final, frames')
  BY <1>2, <1>5 DEF AlignedInv
<1> QED BY <1>2, <1>4, <1>6 DEF AlignedInv

\* Whatever becomes of a frame, it leaves the boundaries in place.
LEMMA AlignedFrame ==
  ASSUME Inv, AlignedInv, HandleFrame
  PROVE  AlignedInv'
<1> DEFINE d == Head(frames)
<1>1. /\ pc = "idle" /\ frames # <<>> /\ frames' = Tail(frames) /\ UNCHANGED streamed
      /\ recBuf' \in {recBuf, <<>>, Append(recBuf, d)}
      /\ \/ val' = val
         \/ val'.st # "Active"
         \/ val' = [st |-> "Active", id |-> d.final]
  <2>0. CASE SkipFrame
    BY <2>0 DEF SkipFrame, symbol, env
  <2>1. CASE ApplyFrame
    BY <2>1 DEF ApplyFrame, TakeFrame, Advanced, env
  <2>2. CASE DiscardFrame
    BY <2>2 DEF DiscardFrame, TakeFrame, env
  <2>3. ASSUME NEW hit \in BOOLEAN, BufferFrame(hit) PROVE <1>1!:
    BY <2>3 DEF BufferFrame, TakeFrame, Pushed, env
  <2>4. ASSUME NEW hit \in BOOLEAN, GapFrame(hit) PROVE <1>1!:
    <3>1. Seeded(d) \in Validator
      BY <2>4, FrameFacts DEF GapFrame
    <3>2. val' = [Seeded(d) EXCEPT !.st = "Stale"]
      BY <2>4 DEF GapFrame, Broken
    <3>3. val'.st # "Active"
      BY <3>1, <3>2 DEF Validator
    <3> QED BY <2>4, <3>3 DEF GapFrame, TakeFrame, Pushed, env
  <2> QED BY <2>0, <2>1, <2>2, <2>3, <2>4 DEF HandleFrame
<1>2. /\ Boundary(d.final, frames')
      /\ \A i \in 1..Len(frames') : Boundary(frames'[i].final, frames')
      /\ \A i \in 1..Len(recBuf) : Boundary(recBuf[i].final, frames')
      /\ val.st = "Active" => Boundary(val.id, frames')
  BY <1>1, TakenFrame
<1>3. d \in Delta /\ d.final <= streamed
  BY <1>1, QueueFacts, RangesHeadTail DEF Inv
<1>4. recBuf \in Seq(Delta)
  BY QueueFacts
<1>5. \A i \in 1..Len(recBuf') : Boundary(recBuf'[i].final, frames')
  <2>1. CASE recBuf' = recBuf
    BY <1>2, <2>1
  <2>2. CASE recBuf' = <<>>
    BY <2>2
  <2>3. CASE recBuf' = Append(recBuf, d)
    <3> SUFFICES ASSUME NEW i \in 1..Len(recBuf') PROVE Boundary(recBuf'[i].final, frames')
      OBVIOUS
    <3>1. CASE i = Len(recBuf) + 1
      BY <1>2, <1>3, <1>4, <2>3, <3>1
    <3>2. CASE i \in 1..Len(recBuf)
      BY <1>2, <1>3, <1>4, <2>3, <3>2
    <3> QED BY <1>3, <1>4, <2>3, <3>1, <3>2
  <2> QED BY <1>1, <2>1, <2>2, <2>3
<1>6. val'.st = "Active" => val'.id <= streamed' /\ Boundary(val'.id, frames')
  <2>1. CASE val' = val
    BY <1>1, <1>2, <2>1 DEF AlignedInv
  <2>2. CASE val' = [st |-> "Active", id |-> d.final]
    BY <1>1, <1>2, <1>3, <2>2
  <2> QED BY <1>1, <2>1, <2>2
<1> QED BY <1>2, <1>5, <1>6 DEF AlignedInv

\* Replaying a buffered delta leaves the validator on a boundary.
LEMMA AlignedReplay ==
  ASSUME Inv, AlignedInv, ReplaySkip \/ ReplayApply \/ \E waited \in 0..Cooldown : ReplayGap(waited)
  PROVE  AlignedInv'
<1> DEFINE d == Head(recBuf)
<1>1. /\ Replaying /\ recBuf # <<>> /\ UNCHANGED <<frames, streamed>>
      /\ recBuf' = Tail(recBuf) \/ recBuf' = <<>>
      /\ val' = val \/ val' = [st |-> "Active", id |-> d.final] \/ val' = [val EXCEPT !.st = "Stale"]
  BY DEF ReplaySkip, ReplayApply, ReplayGap, FailRecovery, Advanced, Broken, env
<1>2. recBuf \in Seq(Delta) /\ val \in Validator
  BY QueueFacts
<1>3. d.final <= streamed
  BY <1>1, ReplayFacts
<1>4. d = recBuf[1] /\ 1 \in 1..Len(recBuf)
  BY <1>1, <1>2
<1>5. Boundary(d.final, frames)
  BY <1>4 DEF AlignedInv
<1>6. \A i \in 1..Len(recBuf') : \E j \in 1..Len(recBuf) : recBuf'[i] = recBuf[j]
  <2>1. CASE recBuf' = <<>>
    BY <2>1
  <2>2. CASE recBuf' = Tail(recBuf)
    <3>1. \A i \in 1..Len(recBuf') : recBuf'[i] = recBuf[i + 1] /\ i + 1 \in 1..Len(recBuf)
      BY <1>1, <1>2, <2>2
    <3> QED BY <3>1
  <2> QED BY <1>1, <2>1, <2>2
<1>7. \A i \in 1..Len(recBuf') : Boundary(recBuf'[i].final, frames)
  BY <1>6 DEF AlignedInv
<1>8. val'.st = "Active" => val'.id <= streamed /\ Boundary(val'.id, frames)
  <2>1. CASE val' = val
    BY <2>1 DEF AlignedInv
  <2>2. CASE val' = [st |-> "Active", id |-> d.final]
    BY <1>3, <1>5, <2>2
  <2>3. CASE val' = [val EXCEPT !.st = "Stale"]
    BY <1>2, <2>3 DEF Validator
  <2> QED BY <1>1, <2>1, <2>2, <2>3
<1> QED BY <1>1, <1>7, <1>8 DEF AlignedInv

\* Every step keeps the boundaries.
LEMMA AlignedStep ==
  ASSUME Inv, AlignedInv, [Next]_vars
  PROVE  AlignedInv'
<1>1. CASE StreamDelta
  BY <1>1, AlignedStream
<1>2. CASE DuplicateDelta
  BY <1>2, AlignedDuplicate
<1>3. CASE HandleFrame
  BY <1>3, AlignedFrame
<1>4. CASE ReplaySkip \/ ReplayApply \/ \E waited \in 0..Cooldown : ReplayGap(waited)
  BY <1>4, AlignedReplay
<1>5. CASE ApplySnapshot
  <2>1. UNCHANGED <<frames, recBuf, streamed>> /\ val'.st # "Active"
    BY <1>5 DEF ApplySnapshot, OnSnapshot, env
  <2> QED BY <2>1, QueueFacts, AlignedKept
<1>6. CASE LoseDelta
  <2>1. UNCHANGED <<frames, recBuf, val>> /\ streamed' = venue /\ streamed < venue
    BY <1>6 DEF LoseDelta, symbol
  <2>2. streamed \in Int /\ venue \in Int
    BY QueueFacts
  <2> QED BY <2>1, <2>2, AlignedKept
<1>7. CASE UNCHANGED <<frames, recBuf, streamed, val>>
  <2>1. streamed \in Int
    BY QueueFacts
  <2> QED BY <1>7, <2>1, AlignedKept
<1>8. CASE UNCHANGED vars
  BY <1>7, <1>8 DEF vars
<1>9. CASE Environment /\ ~StreamDelta /\ ~DuplicateDelta /\ ~LoseDelta
  BY <1>7, <1>9 DEF Environment, VenueUpdate, RestServe, RestFail, CooldownPasses, symbol
<1>10. CASE Tick \/ Recovered \/ \E waited \in 0..Cooldown : FetchFailed(waited)
  BY <1>7, <1>10 DEF Tick, Recovered, FetchFailed, FailRecovery, env
<1>11. CASE CheckSnapshot
  BY <1>7, <1>11 DEF CheckSnapshot, CheckTick, CheckPasses, CheckIncompatible, symbol, env
<1>12. CASE HandleBbo
  BY <1>7, <1>12 DEF HandleBbo, BboClears, BboTolerated, BboDegrades, BboMarksStale, task, env
<1> QED BY <1>1, <1>2, <1>3, <1>4, <1>5, <1>6, <1>8, <1>9, <1>10, <1>11, <1>12
        DEF Next, FinishRecovery, Environment

\* No frame is taken between a REST answer and the recovery that uses it.
LEMMA AnswerStep ==
  ASSUME RestLag = 0, Inv, CurrentAnswer, [Next]_vars
  PROVE  CurrentAnswer'
<1>1. handled <= streamed /\ streamed <= venue /\ handled \in Int /\ streamed \in Int /\ venue \in Int
  BY QueueFacts
<1>2. CASE UNCHANGED <<rest, handled>> /\ (pc' = pc \/ pc' = "idle" \/ ApplySnapshot)
  BY <1>2 DEF CurrentAnswer, ApplySnapshot
<1>3. CASE pc' = "idle" \/ rest' = Asked \/ pc' = "checkFetch"
  BY <1>3 DEF CurrentAnswer, Asked
<1>4. CASE UNCHANGED vars
  BY <1>2, <1>4 DEF vars
<1>5. CASE Environment
  <2>1. CASE \E lag \in 0..RestLag : RestServe(lag)
    <3>1. rest'.id = venue /\ UNCHANGED handled
      BY <1>1, <2>1 DEF RestServe, symbol, hist
    <3> QED BY <1>1, <3>1 DEF CurrentAnswer
  <2>2. CASE RestFail
    BY <2>2 DEF RestFail, CurrentAnswer
  <2> QED BY <1>2, <1>5, <2>1, <2>2
          DEF Environment, VenueUpdate, StreamDelta, LoseDelta, DuplicateDelta, CooldownPasses, symbol, hist
<1>6. CASE HandleFrame
  <2>1. pc = "idle" /\ (UNCHANGED pc \/ rest' = Asked)
    BY <1>6 DEF HandleFrame, SkipFrame, ApplyFrame, DiscardFrame, BufferFrame, GapFrame, TakeFrame
  <2> QED BY <1>3, <2>1
<1>7. CASE Tick \/ FinishRecovery
  BY <1>2, <1>3, <1>7 DEF Tick, FinishRecovery, ApplySnapshot, ReplaySkip, ReplayApply, ReplayGap,
     FetchFailed, FailRecovery, Recovered, hist
<1>8. CASE CheckSnapshot \/ HandleBbo
  BY <1>2, <1>3, <1>8 DEF CheckSnapshot, CheckTick, CheckPasses, CheckIncompatible, HandleBbo,
     BboClears, BboTolerated, BboDegrades, BboMarksStale, task, hist
<1> QED BY <1>4, <1>5, <1>6, <1>7, <1>8 DEF Next

\* A delta that passes, or is discarded, leaves a good book up to date.
LEMMA FrameKeepsUp ==
  ASSUME Inv, AlignedInv, NoMissedDelta, ApplyFrame \/ DiscardFrame
  PROVE  NoMissedDelta'
<1> DEFINE d == Head(frames)
<1>1. /\ TakeFrame /\ UNCHANGED stale
      /\ \/ Applies(Seeded(d), d) /\ last' = d.final
         \/ Discards(Seeded(d), d) /\ last' = last
  BY DEF ApplyFrame, DiscardFrame, book
<1>2. /\ frames # <<>> /\ d \in Delta /\ d.first <= d.final
      /\ Seeded(d) \in Validator
      /\ feed # "Connecting" => Seeded(d) = val
      /\ feed = "Connecting" => Seeded(d).st = "Bridging" /\ Applies(Seeded(d), d)
  BY <1>1, FrameFacts DEF TakeFrame
<1>3. handled' = IF d.final > handled THEN d.final ELSE handled
  BY <1>1 DEF TakeFrame
<1>4. handled \in Int /\ last \in Int /\ frames \in Seq(Delta)
  BY QueueFacts
<1> SUFFICES ASSUME ~stale PROVE last' >= handled'
  BY <1>1 DEF NoMissedDelta
<1>5. last >= handled
  BY DEF NoMissedDelta
<1>6. val.st \in {"Bridging", "Active"} => val.id = last
  BY DEF Inv, PositionInv
<1>7. CASE feed = "Connecting"
  <2>1. handled = 0 /\ last' = d.final
    BY <1>1, <1>2, <1>7 DEF Inv, ConnectingInv, Applies, Discards, Delta, Validator
  <2> QED BY <1>2, <1>3, <2>1 DEF Delta
<1>8. CASE feed # "Connecting" /\ Applies(val, d) /\ last' = d.final
  <2>1. last <= d.final
    BY <1>2, <1>4, <1>6, <1>8 DEF Applies, Delta
  <2> QED BY <1>2, <1>3, <1>4, <1>5, <1>8, <2>1 DEF Delta
<1>9. CASE feed # "Connecting" /\ Discards(val, d) /\ last' = last
  <2>1. d.final <= last
    <3>1. CASE val.st = "Bridging"
      BY <1>6, <1>9, <3>1 DEF Discards
    <3>2. CASE val.st = "Active"
      <4>1. Boundary(val.id, frames) /\ d = frames[1] /\ 1 \in 1..Len(frames)
        BY <1>2, <1>4, <3>2 DEF AlignedInv
      <4>2. d.final <= val.id \/ d.first > val.id
        BY <4>1 DEF Boundary
      <4>3. d.first < val.id + 1
        BY <1>9, <3>2 DEF Discards
      <4> QED BY <1>2, <1>4, <1>6, <3>2, <4>2, <4>3 DEF Delta
    <3> QED BY <1>9, <3>1, <3>2 DEF Discards
  <2> QED BY <1>2, <1>3, <1>4, <1>5, <1>9, <2>1 DEF Delta
<1> QED BY <1>1, <1>2, <1>7, <1>8, <1>9

\* A book becomes good again only from a snapshot that contains everything
\* handled; nothing else brings a good book behind.
LEMMA MissedStep ==
  ASSUME Inv, AlignedInv, CurrentAnswer, NoMissedDelta, [Next]_vars
  PROVE  NoMissedDelta'
<1>1. CASE UNCHANGED <<last, handled>> /\ (UNCHANGED stale \/ stale' = TRUE)
  BY <1>1 DEF NoMissedDelta
<1>2. CASE stale /\ UNCHANGED stale
  BY <1>2 DEF NoMissedDelta
<1>3. CASE UNCHANGED vars
  BY <1>1, <1>3 DEF vars
<1>4. CASE Environment
  BY <1>1, <1>4 DEF Environment, VenueUpdate, StreamDelta, LoseDelta, DuplicateDelta, RestServe,
     RestFail, CooldownPasses, symbol, book, hist
<1>5. CASE SkipFrame \/ ApplyFrame \/ DiscardFrame
  <2>1. CASE SkipFrame
    BY <1>1, <2>1 DEF SkipFrame, symbol, book, hist
  <2> QED BY <1>5, <2>1, FrameKeepsUp
<1>6. ASSUME NEW hit \in BOOLEAN, BufferFrame(hit)
      PROVE  NoMissedDelta'
  <2> DEFINE d == Head(frames)
  <2>1. TakeFrame /\ Seeded(d).st \in {"Awaiting", "Stale"} /\ UNCHANGED stale
    BY <1>6 DEF BufferFrame, Buffers
  <2>2. Seeded(d) = val /\ val.st = "Stale"
    BY <2>1, FrameFacts
  <2> QED BY <1>2, <2>1, <2>2 DEF Inv, PositionInv
<1>7. ASSUME NEW hit \in BOOLEAN, GapFrame(hit)
      PROVE  NoMissedDelta'
  BY <1>7 DEF GapFrame, NoMissedDelta
<1>8. CASE FinishRecovery /\ ~Recovered
  <2>1. stale
    BY <1>8 DEF FinishRecovery, ApplySnapshot, ReplaySkip, ReplayApply, ReplayGap, FetchFailed,
       Replaying, Inv, TaskInv
  <2>2. UNCHANGED stale
    BY <1>8 DEF FinishRecovery, ApplySnapshot, ReplaySkip, ReplayApply, ReplayGap, FetchFailed,
       FailRecovery
  <2> QED BY <1>2, <2>1, <2>2
<1>9. CASE Recovered
  <2>1. Replaying /\ UNCHANGED <<last, handled>>
    BY <1>9 DEF Recovered, book, hist
  <2>2. rest.id >= handled /\ val.id >= rest.id /\ val.id = last
    BY <2>1 DEF CurrentAnswer, Replaying, Inv, TaskInv, PositionInv
  <2>3. last \in Int /\ handled \in Int /\ rest.id \in Int
    BY QueueFacts
  <2> QED BY <2>1, <2>2, <2>3 DEF NoMissedDelta
<1>10. CASE Tick \/ CheckSnapshot \/ HandleBbo
  BY <1>1, <1>10 DEF Tick, CheckSnapshot, CheckTick, CheckPasses, CheckIncompatible, HandleBbo,
     BboClears, BboTolerated, BboDegrades, BboMarksStale, symbol, task, book, hist
<1> QED BY <1>3, <1>4, <1>5, <1>6, <1>7, <1>8, <1>9, <1>10 DEF Next, HandleFrame

\* With REST snapshots that do not lag the venue, a book that is not stale
\* reflects every delta that was given to its validator, whatever was lost,
\* skipped, repeated or overflowed and however often recovery failed.
THEOREM NothingMissed ==
  ASSUME RestLag = 0
  PROVE  Spec => []NoMissedDelta
<1>1. Init => FreshInv
  BY DEF Init, FreshInv, AlignedInv, CurrentAnswer, NoMissedDelta, NewValidator
<1>2. Inv /\ FreshInv /\ [Next]_vars => FreshInv'
  BY AlignedStep, AnswerStep, MissedStep DEF FreshInv
<1>3. FreshInv => NoMissedDelta
  BY DEF FreshInv
<1> QED BY <1>1, <1>2, <1>3, InvHolds, PTL DEF Spec

------------------------------------------------------------------------------
(***************************************************************************)
(* Publishing is part of the steps of SpotShard.                           *)
(***************************************************************************)

\* Every step that offers something is a step of the shard's task or of its
\* environment.
LEMMA PublishStep == ASSUME PublishNext PROVE Next
BY DEF PublishNext, Next, Silently, PublishFrame, PublishGap, PublishTick, PublishFailure,
       PublishRecovered, PublishIncompatible, PublishBbo, PublishBboStale,
       HandleFrame, FinishRecovery, CheckSnapshot, HandleBbo

\* The publishing shard implements the shard: what is proved of Spec holds of
\* run_shard with its offers.
THEOREM PublishIsShard == PublishSpec => Spec
<1>1. PublishInit => Init
  BY DEF PublishInit
<1>2. [PublishNext]_<<vars, view>> => [Next]_vars
  BY PublishStep
<1> QED BY <1>1, <1>2, PTL DEF PublishSpec, Spec

------------------------------------------------------------------------------
(***************************************************************************)
(* What a list of messages tells.                                          *)
(***************************************************************************)

Msgs(list) == {list[i] : i \in 1..Len(list)}

\* A step's messages tell what it changed: the feed state and the stale flag.
Tells(ms) ==
  /\ \A m \in ms : m.type = "FeedStatus" => m.state = feed'
  /\ feed' = feed \/ \E m \in ms : m.type = "FeedStatus"
  /\ stale' <=> /\ stale \/ \E m \in ms : m.type = "BookStale"
                /\ \A m \in ms : m.type # "BookRecovered"

\* A few messages have a last one among those of a kind.
LEMMA LastOfFew ==
  ASSUME NEW S, S \subseteq 1..4, S # {}
  PROVE  \E i \in S : \A j \in S : j <= i
<1>1. CASE 4 \in S
  BY <1>1
<1>2. CASE 4 \notin S /\ 3 \in S
  <2>1. S \subseteq 1..3
    BY <1>2
  <2> QED BY <1>2, <2>1
<1>3. CASE 4 \notin S /\ 3 \notin S /\ 2 \in S
  <2>1. S \subseteq 1..2
    BY <1>3
  <2> QED BY <1>3, <2>1
<1>4. CASE 4 \notin S /\ 3 \notin S /\ 2 \notin S
  <2>1. \A i \in S : i = 1
    BY <1>4
  <2>2. 1 \in S
    BY <2>1
  <2> QED BY <2>1, <2>2
<1> QED BY <1>1, <1>2, <1>3, <1>4

\* A subscriber that hears such messages stays in step (Hears).
LEMMA SubscriberHears ==
  ASSUME NEW msgs, Len(msgs) \in 0..4, Tells(Msgs(msgs)), Offers(msgs), SubscriberInStep
  PROVE  SubscriberInStep'
<1>1. out' = msgs /\ Hears
  BY DEF Offers
<1>2. \A t : Offered(t) \subseteq 1..4 /\ Offered(t) = {i \in 1..Len(msgs) : msgs[i].type = t}
  BY <1>1 DEF Offered
<1>3. \A t : Offered(t) # {} <=> \E m \in Msgs(msgs) : m.type = t
  BY <1>2 DEF Msgs
<1>4. heard' = feed'
  <2>1. CASE Offered("FeedStatus") = {}
    BY <1>1, <1>3, <2>1 DEF Hears, Tells, SubscriberInStep
  <2>2. CASE Offered("FeedStatus") # {}
    <3> DEFINE i == CHOOSE i \in Offered("FeedStatus") : \A j \in Offered("FeedStatus") : j <= i
    <3>1. \E k \in Offered("FeedStatus") : \A j \in Offered("FeedStatus") : j <= k
      BY <1>2, <2>2, LastOfFew
    <3>2. i \in Offered("FeedStatus")
      BY <3>1
    <3>3. msgs[i].type = "FeedStatus" /\ msgs[i] \in Msgs(msgs)
      BY <1>2, <3>2 DEF Msgs
    <3>4. heard' = msgs[i].state
      BY <1>1, <2>2 DEF Hears
    <3> QED BY <3>3, <3>4 DEF Tells
  <2> QED BY <2>1, <2>2
<1>5. marked' = stale'
  <2>1. marked' = ((marked \/ Offered("BookStale") # {}) /\ Offered("BookRecovered") = {})
    BY <1>1 DEF Hears
  <2>2. stale' <=> /\ stale \/ Offered("BookStale") # {}
                   /\ Offered("BookRecovered") = {}
    BY <1>3 DEF Tells
  <2> QED BY <2>1, <2>2 DEF SubscriberInStep
<1> QED BY <1>4, <1>5 DEF SubscriberInStep

------------------------------------------------------------------------------
(***************************************************************************)
(* What each handler offers.                                               *)
(***************************************************************************)

\* The messages a step may offer.
Kinds == {Msg("GapDetected"), Msg("BookStale"), Msg("BookRecovered"), Msg("BestBidOffer"),
          Status(feed'), DeltaMsg(Head(frames))}

Few(msgs, n) == msgs \in Seq(Kinds) /\ Len(msgs) \in 0..n

\* set_feed_state offers the new state, or nothing.
LEMMA StatusIsFew ==
  /\ Few(StatusChange, 1)
  /\ StatusChange = <<>> <=> feed' = feed
  /\ Msgs(StatusChange) = IF feed' = feed THEN {} ELSE {Status(feed')}
<1>1. CASE feed' = feed
  <2>1. StatusChange = <<>>
    BY <1>1 DEF StatusChange
  <2> QED BY <1>1, <2>1 DEF Few, Msgs
<1>2. CASE feed' # feed
  <2>1. StatusChange = <<Status(feed')>>
    BY <1>2 DEF StatusChange
  <2>2. Status(feed') \in Kinds
    BY DEF Kinds
  <2>3. Msgs(<<Status(feed')>>) = {Status(feed')}
    BY DEF Msgs
  <2> QED BY <1>2, <2>1, <2>2, <2>3 DEF Few
<1> QED BY <1>1, <1>2

\* A message before others.
LEMMA Before ==
  ASSUME NEW m \in Kinds, NEW msgs, NEW n \in Nat, Few(msgs, n)
  PROVE  Few(<<m>> \o msgs, n + 1) /\ Msgs(<<m>> \o msgs) = {m} \cup Msgs(msgs)
<1>1. Few(<<m>> \o msgs, n + 1) /\ Len(<<m>> \o msgs) = Len(msgs) + 1
  BY DEF Few
<1>2. (<<m>> \o msgs)[1] = m /\ \A i \in 1..Len(msgs) : (<<m>> \o msgs)[i + 1] = msgs[i]
  BY DEF Few
<1>3. \A i \in 1..Len(<<m>> \o msgs) : i = 1 \/ (i - 1 \in 1..Len(msgs) /\ i = (i - 1) + 1)
  BY <1>1 DEF Few
<1>4. ASSUME NEW x \in Msgs(<<m>> \o msgs) PROVE x \in {m} \cup Msgs(msgs)
  BY <1>2, <1>3 DEF Msgs
<1>5. ASSUME NEW x \in {m} \cup Msgs(msgs) PROVE x \in Msgs(<<m>> \o msgs)
  <2>1. CASE x = m
    <3>1. 1 \in 1..Len(<<m>> \o msgs)
      BY <1>1 DEF Few
    <3> QED BY <1>2, <2>1, <3>1 DEF Msgs
  <2>2. CASE x \in Msgs(msgs)
    <3>1. PICK i \in 1..Len(msgs) : x = msgs[i]
      BY <2>2 DEF Msgs
    <3>2. i + 1 \in 1..Len(<<m>> \o msgs)
      BY <1>1 DEF Few
    <3> QED BY <1>2, <3>1, <3>2 DEF Msgs
  <2> QED BY <1>5, <2>1, <2>2
<1> QED BY <1>1, <1>4, <1>5

\* The frame offered after the control messages of its handling: it adds to
\* them only when there are none.
LEMMA AfterFrameIsFew ==
  ASSUME NEW ctl, NEW n \in Nat, Few(ctl, n), NEW frame, frame \in Kinds \/ ctl # <<>>
  PROVE  /\ Few(AfterFrame(ctl, frame), n + 1)
         /\ Msgs(AfterFrame(ctl, frame)) = IF ctl = <<>> THEN {frame} ELSE Msgs(ctl)
<1>1. CASE ctl = <<>>
  <2>1. AfterFrame(ctl, frame) = <<frame>> /\ frame \in Kinds
    BY <1>1 DEF AfterFrame
  <2>2. Msgs(<<frame>>) = {frame}
    BY DEF Msgs
  <2> QED BY <1>1, <2>1, <2>2 DEF Few
<1>2. CASE ctl # <<>>
  <2> DEFINE all == Append(ctl, ctl[Len(ctl)])
  <2>1. AfterFrame(ctl, frame) = all
    BY <1>2 DEF AfterFrame
  <2>2. Len(ctl) \in 1..Len(ctl) /\ ctl[Len(ctl)] \in Kinds
    BY <1>2 DEF Few
  <2>3. Few(all, n + 1) /\ Len(all) = Len(ctl) + 1
    BY <2>2 DEF Few
  <2>4. \A i \in 1..Len(all) : IF i = Len(ctl) + 1 THEN all[i] = ctl[Len(ctl)]
                                                ELSE i \in 1..Len(ctl) /\ all[i] = ctl[i]
    BY <2>2, <2>3 DEF Few
  <2>5. ASSUME NEW x \in Msgs(all) PROVE x \in Msgs(ctl)
    BY <2>2, <2>4 DEF Msgs
  <2>6. ASSUME NEW x \in Msgs(ctl) PROVE x \in Msgs(all)
    <3>1. PICK i \in 1..Len(ctl) : x = ctl[i]
      BY DEF Msgs
    <3>2. i \in 1..Len(all) /\ i # Len(ctl) + 1
      BY <2>3 DEF Few
    <3> QED BY <2>4, <3>1, <3>2 DEF Msgs
  <2>7. Msgs(all) = Msgs(ctl)
    BY <2>5, <2>6
  <2> QED BY <1>2, <2>1, <2>3, <2>7
<1> QED BY <1>1, <1>2

------------------------------------------------------------------------------
(***************************************************************************)
(* The steps.                                                              *)
(***************************************************************************)

\* A recovery that a gap started runs in the state Recovering, so that its end
\* changes the feed state and overwrites the frame.
RecoveringInv == pc \in {"gapFetch", "gapReplay"} => feed = "Recovering"

\* No handler runs while a recovery is awaited, so nothing else sets the state.
LEMMA RecoveringKept == ASSUME RecoveringInv, [Next]_vars PROVE RecoveringInv'
<1>1. CASE Environment
  BY <1>1 DEF RecoveringInv, Environment, VenueUpdate, StreamDelta, LoseDelta, DuplicateDelta,
              RestServe, RestFail, CooldownPasses, symbol
<1>2. CASE HandleFrame
  BY <1>2 DEF RecoveringInv, HandleFrame, SkipFrame, symbol, TakeFrame, ApplyFrame, DiscardFrame, BufferFrame, GapFrame
<1>3. CASE Tick \/ CheckSnapshot \/ HandleBbo
  BY <1>3 DEF RecoveringInv, Tick, CheckSnapshot, CheckTick, CheckPasses, CheckIncompatible,
              HandleBbo, BboClears, BboTolerated, BboDegrades, BboMarksStale, BboMismatches,
              symbol, task
<1>4. CASE FinishRecovery
  <2>1. CASE ApplySnapshot \/ ReplaySkip \/ ReplayApply \/ Recovered
    BY <2>1 DEF RecoveringInv, ApplySnapshot, ReplaySkip, ReplayApply, Recovered
  <2>2. CASE \E waited \in 0..Cooldown : ReplayGap(waited) \/ FetchFailed(waited)
    BY <2>2 DEF RecoveringInv, ReplayGap, FetchFailed, FailRecovery
  <2> QED BY <1>4, <2>1, <2>2 DEF FinishRecovery
<1>5. CASE UNCHANGED vars
  BY <1>5 DEF RecoveringInv, vars
<1> QED BY <1>1, <1>2, <1>3, <1>4, <1>5 DEF Next

\* What the messages say.
LEMMA MessageFacts ==
  /\ Msg("GapDetected") \in Kinds /\ Msg("BookStale") \in Kinds
  /\ Msg("BookRecovered") \in Kinds /\ Msg("BestBidOffer") \in Kinds
  /\ DeltaMsg(Head(frames)) \in Kinds
  /\ \A t : Msg(t).type = t
  /\ DeltaMsg(Head(frames)).type = "BookDelta"
  /\ Status(feed').type = "FeedStatus" /\ Status(feed').state = feed'
BY DEF Kinds, Msg, DeltaMsg, Status

\* At most four messages that tell what a step changed keep the subscriber in
\* step.
LEMMA FewTell ==
  ASSUME NEW msgs, NEW n \in 0..4, Few(msgs, n), Offers(msgs), Tells(Msgs(msgs)),
         SubscriberInStep
  PROVE  SubscriberInStep'
<1>1. \A k \in 0..n : k \in 0..4
  OBVIOUS
<1>2. Len(msgs) \in 0..n
  BY DEF Few
<1>3. Len(msgs) \in 0..4
  BY <1>1, <1>2
<1> QED BY <1>3, SubscriberHears

\* A frame handled without a word but the feed state (the BBO and the deltas
\* that start no recovery).
LEMMA FrameTells ==
  ASSUME NEW frame \in Kinds, frame.type \in {"BookDelta", "BestBidOffer"},
         stale' = stale, Offers(AfterFrame(StatusChange, frame)), SubscriberInStep
  PROVE  SubscriberInStep'
<1> DEFINE ms == Msgs(AfterFrame(StatusChange, frame))
<1>1. Few(StatusChange, 1)
  BY StatusIsFew
<1>2. Few(AfterFrame(StatusChange, frame), 1 + 1)
  BY <1>1, AfterFrameIsFew
<1>3. ms = IF StatusChange = <<>> THEN {frame} ELSE Msgs(StatusChange)
  BY <1>1, AfterFrameIsFew
<1>4. (feed' = feed /\ ms = {frame}) \/ (feed' # feed /\ ms = {Status(feed')})
  BY <1>3, StatusIsFew
<1>5. Tells(ms)
  BY <1>4, MessageFacts DEF Tells
<1> HIDE DEF ms
<1>6. 1 + 1 \in 0..4
  OBVIOUS
<1> QED BY <1>2, <1>5, <1>6, FewTell DEF ms

\* What a handler offers tells what it did.
LEMMA StepTells ==
  ASSUME RecoveringInv, SubscriberInStep, PublishNext
  PROVE  SubscriberInStep'
<1> DEFINE delta  == DeltaMsg(Head(frames))
<1>1. CASE Silently
  <2>1. feed' = feed /\ stale' = stale
    BY <1>1 DEF Silently, Environment, VenueUpdate, StreamDelta, LoseDelta, DuplicateDelta,
                RestServe, RestFail, CooldownPasses, symbol, SkipFrame, ApplySnapshot,
                ReplaySkip, ReplayApply, CheckTick, CheckPasses
  <2>2. Few(<<>>, 0) /\ Msgs(<<>>) = {}
    BY DEF Few, Msgs
  <2>3. Tells(Msgs(<<>>))
    BY <2>1, <2>2 DEF Tells
  <2> QED BY <1>1, <2>2, <2>3, FewTell DEF Silently
<1>2. CASE PublishFrame
  <2>1. stale' = stale /\ Offers(AfterFrame(StatusChange, delta))
    BY <1>2 DEF PublishFrame, ApplyFrame, DiscardFrame, BufferFrame
  <2> QED BY <2>1, MessageFacts, FrameTells
<1>3. CASE PublishBbo
  <2>1. stale' = stale /\ Offers(AfterFrame(StatusChange, Msg("BestBidOffer")))
    BY <1>3 DEF PublishBbo, BboClears, BboTolerated, BboDegrades, task
  <2> QED BY <2>1, MessageFacts, FrameTells
<1>4. CASE PublishTick
  <2>1. stale' = stale /\ Offers(StatusChange)
    BY <1>4 DEF PublishTick, Tick
  <2>2. Tells(Msgs(StatusChange))
    BY <2>1, StatusIsFew, MessageFacts DEF Tells
  <2>3. 1 \in 0..4
    OBVIOUS
  <2> QED BY <2>1, <2>2, <2>3, StatusIsFew, FewTell
<1>5. CASE PublishGap
  <2> DEFINE ctl == <<Msg("GapDetected"), Msg("BookStale")>> \o StatusChange
             all == IF pc' = "idle" THEN AfterFrame(ctl, delta) ELSE ctl
  <2>1. stale' = TRUE /\ Offers(all)
    BY <1>5 DEF PublishGap, GapFrame
  <2>2. ctl = <<Msg("GapDetected")>> \o (<<Msg("BookStale")>> \o StatusChange)
    BY StatusIsFew DEF Few
  <2>3. /\ Few(<<Msg("BookStale")>> \o StatusChange, 1 + 1)
        /\ Msgs(<<Msg("BookStale")>> \o StatusChange) = {Msg("BookStale")} \cup Msgs(StatusChange)
    BY StatusIsFew, MessageFacts, Before
  <2>4. 1 + 1 \in Nat
    OBVIOUS
  <2>5. /\ Few(ctl, 1 + 1 + 1)
        /\ Msgs(ctl) = {Msg("GapDetected"), Msg("BookStale")} \cup Msgs(StatusChange)
    <3>1. /\ Few(<<Msg("GapDetected")>> \o (<<Msg("BookStale")>> \o StatusChange), 1 + 1 + 1)
          /\ Msgs(<<Msg("GapDetected")>> \o (<<Msg("BookStale")>> \o StatusChange))
               = {Msg("GapDetected")} \cup Msgs(<<Msg("BookStale")>> \o StatusChange)
      BY <2>3, <2>4, MessageFacts, Before
    <3>2. Msgs(ctl) = {Msg("GapDetected")} \cup ({Msg("BookStale")} \cup Msgs(StatusChange))
      BY <2>2, <2>3, <3>1
    <3> QED BY <2>2, <3>1, <3>2
  <2>6. Tells(Msgs(ctl))
    BY <2>1, <2>5, StatusIsFew, MessageFacts DEF Tells
  <2>7. ctl # <<>>
    BY <2>5 DEF Msgs
  <2>8. Few(AfterFrame(ctl, delta), 1 + 1 + 1 + 1) /\ Msgs(AfterFrame(ctl, delta)) = Msgs(ctl)
    <3> HIDE DEF ctl
    <3>1. 1 + 1 + 1 \in Nat
      OBVIOUS
    <3> QED BY <2>5, <2>7, <3>1, MessageFacts, AfterFrameIsFew
  <2>9. 1 + 1 + 1 \in 0..4 /\ 1 + 1 + 1 + 1 \in 0..4
    OBVIOUS
  <2> QED BY <2>1, <2>5, <2>6, <2>8, <2>9, FewTell
<1>6. CASE PublishFailure
  <2>1. /\ stale' = stale /\ Offers(EndsFrame(StatusChange))
        /\ pc \in {"gapFetch", "gapReplay"} => feed' \in {"Degraded", "Stale"}
    BY <1>6 DEF PublishFailure, ReplayGap, FetchFailed, FailRecovery
  <2>2. Few(StatusChange, 1) /\ Tells(Msgs(StatusChange))
    BY <2>1, StatusIsFew, MessageFacts DEF Tells
  <2>3. CASE pc \in {"gapFetch", "gapReplay"}
    <3> DEFINE again == AfterFrame(StatusChange, StatusChange[Len(StatusChange)])
    <3>1. StatusChange # <<>>
      BY <2>1, <2>3, StatusIsFew DEF RecoveringInv
    <3>2. Few(again, 1 + 1) /\ Msgs(again) = Msgs(StatusChange)
      BY <2>2, <3>1, AfterFrameIsFew
    <3>3. Offers(again) /\ 1 + 1 \in 0..4
      BY <2>1, <2>3 DEF EndsFrame
    <3> HIDE DEF again
    <3> QED BY <2>2, <3>2, <3>3, FewTell
  <2>4. CASE pc \notin {"gapFetch", "gapReplay"}
    <3>1. Offers(StatusChange) /\ 1 \in 0..4
      BY <2>1, <2>4 DEF EndsFrame
    <3> QED BY <2>2, <3>1, FewTell
  <2> QED BY <2>3, <2>4
<1>7. CASE PublishRecovered
  <2> DEFINE ctl   == <<Msg("BookRecovered")>> \o StatusChange
             again == AfterFrame(ctl, ctl[Len(ctl)])
  <2>1. stale' = FALSE /\ Offers(EndsFrame(ctl))
    BY <1>7 DEF PublishRecovered, Recovered
  <2>2. Few(ctl, 1 + 1) /\ Msgs(ctl) = {Msg("BookRecovered")} \cup Msgs(StatusChange)
    BY StatusIsFew, MessageFacts, Before
  <2>3. Tells(Msgs(ctl))
    BY <2>1, <2>2, StatusIsFew, MessageFacts DEF Tells
  <2>4. ctl # <<>> /\ 1 + 1 \in 0..4 /\ 1 + 1 + 1 \in 0..4
    BY <2>2 DEF Msgs
  <2> HIDE DEF ctl
  <2>5. Few(again, 1 + 1 + 1) /\ Msgs(again) = Msgs(ctl)
    BY <2>2, <2>4, AfterFrameIsFew
  <2>6. Offers(ctl) \/ Offers(again)
    BY <2>1 DEF EndsFrame
  <2> HIDE DEF again
  <2> QED BY <2>2, <2>3, <2>4, <2>5, <2>6, FewTell
<1>8. CASE PublishIncompatible
  <2> DEFINE ctl == <<Msg("BookStale")>> \o StatusChange
  <2>1. stale' = TRUE /\ Offers(ctl)
    BY <1>8 DEF PublishIncompatible, CheckIncompatible
  <2>2. Few(ctl, 1 + 1) /\ Msgs(ctl) = {Msg("BookStale")} \cup Msgs(StatusChange)
    BY StatusIsFew, MessageFacts, Before
  <2>3. Tells(Msgs(ctl))
    BY <2>1, <2>2, StatusIsFew, MessageFacts DEF Tells
  <2>4. 1 + 1 \in 0..4
    OBVIOUS
  <2> HIDE DEF ctl
  <2> QED BY <2>1, <2>2, <2>3, <2>4, FewTell
<1>9. CASE PublishBboStale
  <2> DEFINE ctl == <<Msg("BookStale")>> \o StatusChange
             all == AfterFrame(ctl, Msg("BestBidOffer"))
  <2>1. stale' = TRUE /\ Offers(all)
    BY <1>9 DEF PublishBboStale, BboMarksStale
  <2>2. Few(ctl, 1 + 1) /\ Msgs(ctl) = {Msg("BookStale")} \cup Msgs(StatusChange)
    BY StatusIsFew, MessageFacts, Before
  <2>3. Tells(Msgs(ctl))
    BY <2>1, <2>2, StatusIsFew, MessageFacts DEF Tells
  <2>4. ctl # <<>> /\ 1 + 1 + 1 \in 0..4
    BY <2>2 DEF Msgs
  <2> HIDE DEF ctl
  <2>5. Few(all, 1 + 1 + 1) /\ Msgs(all) = Msgs(ctl)
    BY <2>2, <2>4, MessageFacts, AfterFrameIsFew
  <2> HIDE DEF all
  <2> QED BY <2>1, <2>3, <2>4, <2>5, FewTell
<1> QED BY <1>1, <1>2, <1>3, <1>4, <1>5, <1>6, <1>7, <1>8, <1>9 DEF PublishNext

\* A subscriber's view of a symbol is what its task holds: the feed state and
\* whether the book is stale, although the frames between the messages of
\* run_shard are overwritten.
THEOREM SubscriberIsInStep == PublishSpec => []SubscriberInStep
<1>1. PublishInit => RecoveringInv /\ SubscriberInStep
  BY DEF PublishInit, Init, RecoveringInv, SubscriberInStep
<1>2. RecoveringInv /\ SubscriberInStep /\ [PublishNext]_<<vars, view>>
        => (RecoveringInv /\ SubscriberInStep)'
  <2> SUFFICES ASSUME RecoveringInv, SubscriberInStep, [PublishNext]_<<vars, view>>
               PROVE  (RecoveringInv /\ SubscriberInStep)'
    OBVIOUS
  <2>1. RecoveringInv'
    BY PublishStep, RecoveringKept DEF vars, view
  <2>2. SubscriberInStep'
    BY StepTells DEF SubscriberInStep, vars, view
  <2> QED BY <2>1, <2>2
<1> QED BY <1>1, <1>2, PTL DEF PublishSpec

\* The publishing shard keeps what the shard keeps.
THEOREM PublishKeeps ==
  PublishSpec => []TypeOK /\ []BookIsVenueBook /\ []LiveMeansFresh /\ []CircuitCountsFailures
                  /\ FollowsVenue
BY PublishIsShard, TypeCorrect, BookIsExact, LiveIsFresh, CircuitCounts, BookFollowsVenue, PTL
===============================================================================
