-------------------------- MODULE FuturesShardProofs --------------------------
(***************************************************************************)
(* Proofs about FuturesShard, for every venue history, every queue, buffer *)
(* and circuit limit, and every REST lag.                                  *)
(***************************************************************************)
EXTENDS FuturesShard, TLAPS

------------------------------------------------------------------------------
(***************************************************************************)
(* The inductive invariant.                                                *)
(***************************************************************************)

Elems(s) == {s[i] : i \in 1..Len(s)}

\* Every event on its way to the book.
Events == Elems(frames) \union Elems(recBuf)

\* An event starts behind the event before it, and what lies between them
\* changed nothing.
IsEvent(d) ==
  /\ d \in FuturesDelta
  /\ d.prev < d.first /\ d.first <= d.final
  /\ VenueBook[d.first - 1] = VenueBook[d.prev]

\* An event reaches across an id when it starts before and ends after it.
Crosses(d, id) == d.prev < id /\ id < d.final

Typed ==
  /\ venue \in 0..MaxId /\ streamed \in 0..venue
  /\ frames \in Seq(FuturesDelta) /\ recBuf \in Seq(FuturesDelta)
  /\ rest \in [st : {"none", "asked", "ok", "failed"}, id : 0..MaxId] /\ rest.id <= venue
  /\ handled \in 0..MaxId
  /\ val \in Validator
  /\ levels \in [Levels -> Nat] /\ last \in 0..MaxId /\ last <= venue
  /\ stale \in BOOLEAN

\* The events are those of one stream: none reaches across the end of another.
Chained ==
  /\ \A d \in Events : IsEvent(d) /\ d.final <= streamed
  /\ \A d, e \in Events : ~Crosses(d, e.final)

\* An active validator stands at the end of an event.
Placed ==
  val.st = "Active" => val.id <= streamed /\ \A d \in Events : ~Crosses(d, val.id)

\* A validator with a position stands where the book stands.
PositionInv == val.st \in {"Bridging", "Active"} => based /\ val.id = last

\* What each wait of the task is for.
TaskInv ==
  /\ pc = "gapFetch" => stale
  /\ pc = "seedFetch" => Buffers(val)
  /\ Replaying => val.st \in {"Bridging", "Active"}

\* A replay begins with everything handled when its snapshot was current.
CurrentInv == current /\ (Replaying \/ InStep) => last >= handled

Inv == Typed /\ Chained /\ Placed /\ PositionInv /\ TaskInv /\ CurrentInv /\ BookIsVenueBook

------------------------------------------------------------------------------
(***************************************************************************)
(* Lemmas about the operators.                                             *)
(***************************************************************************)

\* Taking the first event off a queue.
LEMMA TailElems ==
  ASSUME NEW s \in Seq(FuturesDelta), s # <<>>
  PROVE  /\ Head(s) \in Elems(s) /\ Tail(s) \in Seq(FuturesDelta)
         /\ Elems(Tail(s)) \subseteq Elems(s)
<1>1. Head(s) = s[1] /\ 1 \in 1..Len(s) /\ Tail(s) \in Seq(FuturesDelta)
  OBVIOUS
<1>2. \A i \in 1..Len(Tail(s)) : Tail(s)[i] = s[i + 1] /\ i + 1 \in 1..Len(s)
  OBVIOUS
<1> QED BY <1>1, <1>2 DEF Elems

\* Adding an event to a queue.
LEMMA AppendElems ==
  ASSUME NEW s \in Seq(FuturesDelta), NEW d \in FuturesDelta
  PROVE  Append(s, d) \in Seq(FuturesDelta) /\ Elems(Append(s, d)) \subseteq Elems(s) \union {d}
<1>1. \A i \in 1..Len(Append(s, d)) :
        (i = Len(s) + 1 /\ Append(s, d)[i] = d) \/ (i \in 1..Len(s) /\ Append(s, d)[i] = s[i])
  OBVIOUS
<1> QED BY <1>1 DEF Elems

\* An empty queue has no events.
LEMMA EmptyElems == Elems(<<>>) = {} /\ <<>> \in Seq(FuturesDelta)
BY DEF Elems

\* Applying an event that overlaps or follows a good book gives a good book.
LEMMA ApplyDeltaIsExact ==
  ASSUME NEW id \in 0..MaxId, NEW d, IsEvent(d), d.first <= id + 1 \/ d.prev = id, id <= d.final
  PROVE  ApplyDelta(VenueBook[id], d) = VenueBook[d.final]
<1> DEFINE k == IF d.first <= id + 1 THEN id ELSE d.first - 1
<1>1. d \in FuturesDelta /\ d.prev < d.first /\ d.first <= d.final
  BY DEF IsEvent
<1>2. k \in (d.first - 1)..d.final /\ VenueBook[id] = VenueBook[k]
  BY <1>1 DEF IsEvent, FuturesDelta
<1>3. \A l \in Levels \ Changed(d) : VenueBook[k][l] = VenueBook[d.final][l]
  BY <1>2 DEF Changed
<1>4. VenueBook[d.final] \in [Levels -> Nat]
  BY <1>1, VenueAssumption DEF FuturesDelta
<1>5. VenueBook[d.final] = [l \in Levels |-> VenueBook[d.final][l]]
  BY <1>4
<1> QED BY <1>2, <1>3, <1>5 DEF ApplyDelta

\* A book that has applied an event is a book.
LEMMA ApplyDeltaType ==
  ASSUME NEW b \in [Levels -> Nat], NEW d \in FuturesDelta
  PROVE  ApplyDelta(b, d) \in [Levels -> Nat]
<1>1. VenueBook[d.final] \in [Levels -> Nat]
  BY VenueAssumption DEF FuturesDelta
<1> QED BY <1>1 DEF ApplyDelta

\* An event that applies takes the book on, to the venue's of its end.
LEMMA AppliesFacts ==
  ASSUME Inv, NEW d \in Events, Applies(val, d)
  PROVE  /\ val.st \in {"Bridging", "Active"}
         /\ last < d.final /\ d.final \in 0..MaxId /\ d.final <= venue /\ d.final <= streamed
         /\ ApplyDelta(levels, d) = VenueBook[d.final]
         /\ ApplyDelta(levels, d) \in [Levels -> Nat]
         /\ Advanced(d) \in Validator
<1>1. IsEvent(d) /\ d.final <= streamed
  BY DEF Inv, Chained
<1>2. d \in FuturesDelta /\ d.prev < d.first /\ d.first <= d.final
  BY <1>1 DEF IsEvent
<1>3. val.st \in {"Bridging", "Active"} /\ based /\ val.id = last /\ last \in 0..MaxId
  BY DEF Inv, Applies, Bridges, PositionInv, Typed
<1>4. /\ d.first <= last + 1 \/ d.prev = last
      /\ last < d.final
  BY <1>2, <1>3 DEF Applies, Bridges, FuturesDelta
<1>5. d.final \in 0..MaxId /\ d.final <= venue
  BY <1>1, <1>2, VenueAssumption DEF Inv, Typed, FuturesDelta
<1>6. levels = VenueBook[last]
  BY <1>3 DEF Inv, BookIsVenueBook
<1>7. ApplyDelta(levels, d) = VenueBook[d.final]
  BY <1>1, <1>3, <1>4, <1>5, <1>6, ApplyDeltaIsExact
<1>8. ApplyDelta(levels, d) \in [Levels -> Nat]
  BY <1>2, ApplyDeltaType DEF Inv, Typed
<1>9. Advanced(d) \in Validator
  BY <1>5 DEF Advanced, Validator
<1> QED BY <1>1, <1>3, <1>4, <1>5, <1>7, <1>8, <1>9

\* Fewer events, and a stream that goes on, keep what is said of the events.
LEMMA FewerEvents ==
  ASSUME Inv, Events' \subseteq Events, streamed' \in Int, streamed <= streamed'
  PROVE  /\ Chained'
         /\ val' = val \/ val'.st # "Active" => Placed'
<1>1. streamed \in Int /\ \A d \in Events : d.final \in Int
  BY DEF Inv, Typed, Chained, IsEvent, FuturesDelta
<1>2. Chained'
  BY <1>1 DEF Inv, Chained
<1>3. ASSUME val' = val PROVE Placed'
  BY <1>1, <1>3 DEF Inv, Placed, Typed, Validator
<1>4. ASSUME val'.st # "Active" PROVE Placed'
  BY <1>4 DEF Placed
<1> QED BY <1>2, <1>3, <1>4

------------------------------------------------------------------------------
(***************************************************************************)
(* The invariant holds initially and every action preserves it.            *)
(***************************************************************************)

\* A symbol that has just been set up (FuturesSymbolState::new).
LEMMA InitInv == Init => Inv
<1> SUFFICES ASSUME Init PROVE Inv
  OBVIOUS
<1>1. Typed
  <2>1. frames \in Seq(FuturesDelta) /\ recBuf \in Seq(FuturesDelta)
    BY EmptyElems DEF Init
  <2>2. val \in Validator /\ levels \in [Levels -> Nat]
    BY DEF Init, NewValidator, Validator, EmptyBook
  <2>3. rest \in [st : {"none", "asked", "ok", "failed"}, id : 0..MaxId] /\ rest.id = 0
    BY VenueAssumption DEF Init, NoRequest
  <2>4. venue = 0 /\ streamed = 0 /\ handled = 0 /\ last = 0 /\ stale = FALSE /\ MaxId \in Nat
    BY VenueAssumption DEF Init
  <2>5. venue \in 0..MaxId /\ streamed \in 0..venue /\ handled \in 0..MaxId /\ last \in 0..MaxId
        /\ last <= venue /\ stale \in BOOLEAN
    <3>1. 0 \in 0..MaxId /\ 0 \in 0..0 /\ 0 <= 0
      BY VenueAssumption
    <3>2. stale \in BOOLEAN
      BY <2>4
    <3> QED BY <2>4, <3>1, <3>2, Zenon
  <2>6. rest.id <= venue
    BY <2>3, <2>4
  <2> QED BY <2>1, <2>2, <2>3, <2>5, <2>6 DEF Typed
<1>2. Events = {}
  BY EmptyElems DEF Init, Events
<1>3. Chained /\ Placed
  BY <1>2 DEF Init, Chained, Placed, NewValidator
<1>4. PositionInv /\ TaskInv /\ CurrentInv /\ BookIsVenueBook
  BY DEF Init, PositionInv, TaskInv, CurrentInv, BookIsVenueBook, NewValidator, Replaying
<1> QED BY <1>1, <1>3, <1>4 DEF Inv

\* What is said of the symbol and its task holds as long as they are left alone.
LEMMA Untouched ==
  ASSUME Inv, UNCHANGED <<pc, symbol>>
  PROVE  PositionInv' /\ TaskInv' /\ CurrentInv' /\ BookIsVenueBook'
BY DEF Inv, symbol, book, hist, PositionInv, TaskInv, CurrentInv, BookIsVenueBook, Buffers,
       Replaying, InStep

\* An event that starts where the stream stands joins the chain.
LEMMA NewEvent ==
  ASSUME Inv, NEW d, IsEvent(d), d.prev = streamed, d.final = streamed', streamed' \in Int,
         Events' \subseteq Events \union {d}, UNCHANGED val
  PROVE  Chained' /\ Placed'
<1>1. streamed \in Int /\ \A e \in Events : IsEvent(e) /\ e \in FuturesDelta /\ e.final <= streamed
  BY DEF Inv, Typed, Chained, IsEvent
<1>2. d \in FuturesDelta /\ d.prev < d.final
  BY DEF IsEvent, FuturesDelta
<1>3. streamed < streamed'
  BY <1>2
<1>4. \A e \in Events' : IsEvent(e) /\ e.final <= streamed'
  BY <1>1, <1>2, <1>3 DEF FuturesDelta
<1>5. \A e, f \in Events' : ~Crosses(e, f.final)
  <2> SUFFICES ASSUME NEW e \in Events', NEW f \in Events' PROVE ~Crosses(e, f.final)
    OBVIOUS
  <2>1. CASE e \in Events /\ f \in Events
    BY <2>1 DEF Inv, Chained
  <2>2. CASE e = d
    BY <1>1, <1>2, <2>2 DEF Crosses, FuturesDelta
  <2>3. CASE e \in Events /\ f = d
    BY <1>1, <1>2, <1>3, <2>3 DEF Crosses, FuturesDelta
  <2> QED BY <2>1, <2>2, <2>3
<1>6. Placed'
  <2> SUFFICES ASSUME val.st = "Active"
               PROVE  val.id <= streamed' /\ \A e \in Events' : ~Crosses(e, val.id)
    BY DEF Placed
  <2>1. val.id \in Int /\ val.id <= streamed /\ \A e \in Events : ~Crosses(e, val.id)
    BY DEF Inv, Placed, Typed, Validator
  <2> QED BY <1>1, <1>2, <1>3, <2>1 DEF Crosses, FuturesDelta
<1>7. Chained'
  BY <1>4, <1>5 DEF Chained
<1> QED BY <1>6, <1>7

\* The venue, the stream and the REST server.
LEMMA EnvironmentInv ==
  ASSUME Inv, Environment
  PROVE  Inv'
<1>1. /\ Typed /\ Chained /\ Placed
      /\ frames \in Seq(FuturesDelta) /\ recBuf \in Seq(FuturesDelta)
      /\ venue \in 0..MaxId /\ streamed \in 0..venue /\ MaxId \in Nat
  BY VenueAssumption DEF Inv, Typed
<1>2. UNCHANGED <<pc, symbol>>
  BY DEF Environment, VenueUpdate, StreamDelta, LoseDelta, DuplicateDelta, RestServe, RestFail
<1>3. PositionInv' /\ TaskInv' /\ CurrentInv' /\ BookIsVenueBook'
  BY <1>2, Untouched
<1>4. CASE VenueUpdate
  <2>1. Events' = Events /\ streamed' = streamed /\ val' = val
    BY <1>2, <1>4 DEF VenueUpdate, Events, symbol
  <2>2. Chained' /\ Placed'
    BY <1>1, <2>1, FewerEvents
  <2>3. Typed'
    BY <1>1, <1>4 DEF VenueUpdate, Typed, symbol, book, hist
  <2> QED BY <1>3, <2>2, <2>3 DEF Inv
<1>5. CASE StreamDelta
  <2>1. PICK first \in (streamed + 1)..venue :
          /\ \A k \in (streamed + 1)..(first - 1) : VenueBook[k] = VenueBook[streamed]
          /\ frames' = IF Len(frames) < QueueCap
                       THEN Append(frames, [prev |-> streamed, first |-> first, final |-> venue])
                       ELSE frames
    BY <1>5 DEF StreamDelta
  <2> DEFINE d == [prev |-> streamed, first |-> first, final |-> venue]
  <2>2. streamed < venue /\ streamed' = venue /\ UNCHANGED <<venue, rest, pc, symbol>>
    BY <1>5 DEF StreamDelta
  <2>3. VenueBook[first - 1] = VenueBook[streamed]
    BY <1>1, <2>1
  <2>4. d \in FuturesDelta
    BY <1>1, <2>1, <2>2 DEF FuturesDelta
  <2>5. d.prev = streamed /\ d.first = first /\ d.final = venue
    OBVIOUS
  <2> HIDE DEF d
  <2>6. IsEvent(d)
    BY <1>1, <2>1, <2>3, <2>4, <2>5 DEF IsEvent
  <2>7. frames' \in Seq(FuturesDelta) /\ Elems(frames)' \subseteq Elems(frames) \union {d}
    BY <1>1, <2>1, <2>4, AppendElems DEF d
  <2>8. Events' \subseteq Events \union {d} /\ val' = val
    BY <2>2, <2>7 DEF Events, symbol
  <2>9. Chained' /\ Placed'
    BY <1>1, <2>2, <2>5, <2>6, <2>8, NewEvent
  <2>10. Typed'
    BY <1>1, <2>2, <2>7 DEF Typed, symbol, book, hist
  <2> QED BY <1>3, <2>9, <2>10 DEF Inv
<1>6. CASE LoseDelta
  <2>1. Events' = Events /\ streamed' = venue /\ streamed <= streamed' /\ val' = val
    BY <1>1, <1>6 DEF LoseDelta, Events, symbol
  <2>2. Chained' /\ Placed'
    BY <1>1, <2>1, FewerEvents
  <2>3. Typed'
    BY <1>1, <1>6 DEF LoseDelta, Typed, symbol, book, hist
  <2> QED BY <1>3, <2>2, <2>3 DEF Inv
<1>7. CASE DuplicateDelta
  <2> DEFINE d == frames[Len(frames)]
  <2>1. frames # <<>> /\ frames' = Append(frames, d) /\ UNCHANGED <<venue, streamed, rest, symbol>>
    BY <1>7 DEF DuplicateDelta
  <2>2. Len(frames) \in 1..Len(frames) /\ d \in FuturesDelta
    BY <1>1, <2>1
  <2>3. d \in Elems(frames)
    BY <2>2 DEF Elems
  <2> HIDE DEF d
  <2>4. frames' \in Seq(FuturesDelta) /\ Elems(frames)' \subseteq Elems(frames)
    BY <1>1, <2>1, <2>2, <2>3, AppendElems
  <2>5. Events' \subseteq Events /\ streamed' = streamed /\ val' = val
    BY <2>1, <2>4 DEF Events, symbol
  <2>6. Chained' /\ Placed'
    BY <1>1, <2>5, FewerEvents
  <2>7. Typed'
    BY <1>1, <2>1, <2>4 DEF Typed, symbol, book, hist
  <2> QED BY <1>3, <2>6, <2>7 DEF Inv
<1>8. CASE (\E lag \in 0..RestLag : RestServe(lag)) \/ RestFail
  <2>1. /\ rest' \in [st : {"none", "asked", "ok", "failed"}, id : 0..MaxId] /\ rest'.id <= venue
        /\ UNCHANGED <<venue, streamed, frames, symbol>>
    BY <1>1, <1>8, ShardAssumption DEF RestServe, RestFail
  <2>2. Events' = Events /\ streamed' = streamed /\ val' = val
    BY <2>1 DEF Events, symbol
  <2>3. Chained' /\ Placed'
    BY <1>1, <2>2, FewerEvents
  <2>4. Typed'
    BY <1>1, <2>1 DEF Typed, symbol, book, hist
  <2> QED BY <1>3, <2>3, <2>4 DEF Inv
<1> QED BY <1>4, <1>5, <1>6, <1>7, <1>8 DEF Environment

\* What the invariant says of a frame being handled.
LEMMA FrameFacts ==
  ASSUME Inv, TakeFrame, NEW d, d = Head(frames)
  PROVE  /\ d \in Events /\ IsEvent(d) /\ d \in FuturesDelta /\ d.final <= streamed
         /\ frames' \in Seq(FuturesDelta) /\ Elems(frames)' \subseteq Elems(frames)
         /\ handled' \in 0..MaxId
         /\ handled' = IF d.final > handled THEN d.final ELSE handled
         /\ UNCHANGED <<venue, streamed, based, current>>
         /\ pc = "idle"
<1>1. /\ frames \in Seq(FuturesDelta) /\ frames # <<>> /\ frames' = Tail(frames)
      /\ UNCHANGED <<venue, streamed, based, current>> /\ pc = "idle"
      /\ handled' = IF d.final > handled THEN d.final ELSE handled
      /\ handled \in 0..MaxId
  BY DEF Inv, Typed, TakeFrame, env
<1>2. d \in Elems(frames) /\ frames' \in Seq(FuturesDelta) /\ Elems(frames)' \subseteq Elems(frames)
  BY <1>1, TailElems
<1>3. d \in Events
  BY <1>2 DEF Events
<1>4. IsEvent(d) /\ d \in FuturesDelta /\ d.final <= streamed
  BY <1>3 DEF Inv, Chained, IsEvent
<1>5. handled' \in 0..MaxId
  BY <1>1, <1>4 DEF FuturesDelta
<1> QED BY <1>1, <1>2, <1>3, <1>4, <1>5

\* A frame that leaves validator and book alone, kept for replay or not.
LEMMA QuietFrameInv ==
  ASSUME Inv, TakeFrame, UNCHANGED <<rest, pc, val, book, stale, circuit, feed>>,
         recBuf' \in Seq(FuturesDelta), Elems(recBuf)' \subseteq Elems(recBuf) \union {Head(frames)},
         InStep => Head(frames).final <= last
  PROVE  Inv'
<1> DEFINE d == Head(frames)
<1>1. /\ d \in Events /\ d \in FuturesDelta
      /\ frames' \in Seq(FuturesDelta) /\ Elems(frames)' \subseteq Elems(frames)
      /\ handled' \in 0..MaxId
      /\ handled' = IF d.final > handled THEN d.final ELSE handled
      /\ UNCHANGED <<venue, streamed, based, current>> /\ pc = "idle"
  BY FrameFacts
<1> HIDE DEF d
<1>2. Events' \subseteq Events
  BY <1>1 DEF Events, d
<1>3. Chained' /\ Placed'
  BY <1>1, <1>2, FewerEvents DEF Inv, Typed
<1>4. Typed'
  BY <1>1 DEF Inv, Typed, book
<1>5. PositionInv' /\ TaskInv' /\ BookIsVenueBook'
  BY <1>1 DEF Inv, PositionInv, TaskInv, BookIsVenueBook, Buffers, Replaying, book
<1>6. CurrentInv'
  BY <1>1 DEF Inv, CurrentInv, InStep, Replaying, book, d
<1> QED BY <1>3, <1>4, <1>5, <1>6 DEF Inv

\* What a push leaves in the buffer.
LEMMA PushedElems ==
  ASSUME NEW s \in Seq(FuturesDelta), NEW d \in FuturesDelta, NEW hit \in BOOLEAN
  PROVE  Pushed(s, d, hit) \in Seq(FuturesDelta) /\ Elems(Pushed(s, d, hit)) \subseteq Elems(s) \union {d}
BY AppendElems, EmptyElems DEF Pushed

\* The frames that change nothing of the book.
LEMMA KeptFrameInv ==
  ASSUME Inv, DiscardFrame \/ \E hit \in BOOLEAN : BufferFrame(hit) \/ KeepFrame(hit)
  PROVE  Inv'
<1> DEFINE d == Head(frames)
<1>1. TakeFrame /\ UNCHANGED <<rest, pc, val, book, stale, circuit, feed>>
  BY DEF DiscardFrame, BufferFrame, KeepFrame
<1>2. d \in Events /\ d \in FuturesDelta /\ recBuf \in Seq(FuturesDelta)
  BY <1>1, FrameFacts DEF Inv, Typed
<1>3. recBuf' \in Seq(FuturesDelta) /\ Elems(recBuf)' \subseteq Elems(recBuf) \union {d}
  <2>1. CASE DiscardFrame
    BY <1>2, <2>1 DEF DiscardFrame
  <2>2. ASSUME NEW hit \in BOOLEAN, BufferFrame(hit) \/ KeepFrame(hit)
        PROVE  recBuf' \in Seq(FuturesDelta) /\ Elems(recBuf)' \subseteq Elems(recBuf) \union {d}
    <3>1. recBuf' = Pushed(recBuf, d, hit) \/ recBuf' = recBuf \/ recBuf' = Append(recBuf, d)
      BY <2>2 DEF BufferFrame, KeepFrame
    <3>2. CASE recBuf' = Pushed(recBuf, d, hit)
      BY <1>2, <3>2, PushedElems
    <3>3. CASE recBuf' = recBuf
      BY <1>2, <3>3
    <3>4. CASE recBuf' = Append(recBuf, d)
      BY <1>2, <3>4, AppendElems
    <3> QED BY <3>1, <3>2, <3>3, <3>4
  <2> QED BY <2>1, <2>2
<1>4. InStep => d.final <= last
  <2> SUFFICES ASSUME InStep PROVE d.final <= last
    OBVIOUS
  <2>1. ~stale /\ val.st \in {"Bridging", "Active"} /\ val.id = last
    BY DEF InStep, Inv, PositionInv
  <2>2. Discards(val, d)
    BY <2>1 DEF DiscardFrame, BufferFrame, KeepFrame
  <2>3. val.st = "Active" => ~Crosses(d, val.id)
    BY <1>2 DEF Inv, Placed
  <2>4. d.final \in Int /\ val.id \in Int
    BY <1>2 DEF FuturesDelta, Inv, Typed, Validator
  <2> QED BY <2>1, <2>2, <2>3, <2>4 DEF Discards, Before, Crosses
<1> QED BY <1>1, <1>3, <1>4, QuietFrameInv

\* A delta that passes validation (ValidationResult::Apply).
LEMMA ApplyFrameInv ==
  ASSUME Inv, ApplyFrame
  PROVE  Inv'
<1> DEFINE d == Head(frames)
<1>1. /\ TakeFrame /\ ~stale /\ Applies(val, d) /\ val' = Advanced(d)
      /\ levels' = ApplyDelta(levels, d) /\ last' = d.final
      /\ UNCHANGED <<rest, pc, stale, recBuf, circuit, feed>>
  BY DEF ApplyFrame
<1>2. /\ d \in Events /\ d \in FuturesDelta /\ d.final <= streamed
      /\ frames' \in Seq(FuturesDelta) /\ Elems(frames)' \subseteq Elems(frames)
      /\ handled' \in 0..MaxId
      /\ handled' = IF d.final > handled THEN d.final ELSE handled
      /\ UNCHANGED <<venue, streamed, based, current>> /\ pc = "idle"
  BY <1>1, FrameFacts
<1>3. /\ val.st \in {"Bridging", "Active"}
      /\ last < d.final /\ d.final \in 0..MaxId /\ d.final <= venue
      /\ ApplyDelta(levels, d) = VenueBook[d.final]
      /\ ApplyDelta(levels, d) \in [Levels -> Nat] /\ Advanced(d) \in Validator
  BY <1>1, <1>2, AppliesFacts
<1> HIDE DEF d
<1>4. Events' \subseteq Events
  BY <1>1, <1>2 DEF Events
<1>5. Chained'
  BY <1>2, <1>4, FewerEvents DEF Inv, Typed
<1>6. Placed'
  BY <1>1, <1>2, <1>4 DEF Inv, Chained, Placed, Advanced
<1>7. Typed'
  BY <1>1, <1>2, <1>3 DEF Inv, Typed
<1>8. PositionInv' /\ TaskInv' /\ BookIsVenueBook'
  BY <1>1, <1>2, <1>3 DEF Inv, PositionInv, TaskInv, BookIsVenueBook, Replaying, Advanced
<1>9. CurrentInv'
  <2>1. InStep
    BY <1>1, <1>2, <1>3 DEF InStep
  <2>2. last \in Int /\ handled \in Int /\ (current => last >= handled)
    BY <2>1 DEF Inv, Typed, CurrentInv
  <2> QED BY <1>1, <1>2, <1>3, <2>2 DEF CurrentInv, FuturesDelta
<1> QED BY <1>5, <1>6, <1>7, <1>8, <1>9 DEF Inv

\* A gap marks the book stale (ValidationResult::Gap).
LEMMA GapFrameInv ==
  ASSUME Inv, GapFrame
  PROVE  Inv'
<1>1. /\ TakeFrame /\ val' = Broken(val) /\ stale' = TRUE
      /\ (UNCHANGED <<rest, pc>> \/ (pc' = "gapFetch" /\ rest' = Asked))
      /\ UNCHANGED <<book, recBuf>>
  BY DEF GapFrame
<1>2. /\ frames' \in Seq(FuturesDelta) /\ Elems(frames)' \subseteq Elems(frames)
      /\ handled' \in 0..MaxId
      /\ UNCHANGED <<venue, streamed, based, current>> /\ pc = "idle"
  BY <1>1, FrameFacts
<1>3. val' \in Validator /\ val'.st = "Stale"
  BY <1>1 DEF Inv, Typed, Validator, Broken
<1>4. Events' \subseteq Events
  BY <1>1, <1>2 DEF Events
<1>5. Chained' /\ Placed'
  BY <1>2, <1>3, <1>4, FewerEvents DEF Inv, Typed
<1>6. Typed'
  BY <1>1, <1>2, <1>3, VenueAssumption DEF Inv, Typed, book, Asked
<1>7. PositionInv' /\ TaskInv' /\ CurrentInv' /\ BookIsVenueBook'
  BY <1>1, <1>2, <1>3
  DEF Inv, PositionInv, TaskInv, CurrentInv, BookIsVenueBook, Replaying, InStep, book
<1> QED BY <1>5, <1>6, <1>7 DEF Inv

\* The first snapshot is asked for (run_futures_recovery).
LEMMA SeedInv ==
  ASSUME Inv, Seed
  PROVE  Inv'
<1>1. /\ Buffers(val) /\ pc' = "seedFetch" /\ rest' = Asked
      /\ UNCHANGED <<venue, streamed, frames, symbol>>
  BY DEF Seed, env
<1>2. Events' = Events /\ val' = val
  BY <1>1 DEF Events, symbol
<1>3. Chained' /\ Placed'
  BY <1>1, <1>2, FewerEvents DEF Inv, Typed
<1>4. Typed'
  BY <1>1, VenueAssumption DEF Inv, Typed, symbol, book, hist, Asked
<1>5. PositionInv' /\ TaskInv' /\ CurrentInv' /\ BookIsVenueBook'
  BY <1>1 DEF Inv, PositionInv, TaskInv, CurrentInv, BookIsVenueBook, Replaying, InStep, Buffers,
              symbol, book, hist
<1> QED BY <1>3, <1>4, <1>5 DEF Inv

\* A snapshot arrives (apply_futures_snapshot up to its replay).
LEMMA ApplySnapshotInv ==
  ASSUME Inv, ApplySnapshot
  PROVE  Inv'
<1>1. /\ rest.st = "ok" /\ Fetching
      /\ levels' = VenueBook[rest.id] /\ last' = rest.id
      /\ val' = [st |-> "Bridging", id |-> rest.id]
      /\ pc' \in {"gapReplay", "seedReplay"}
      /\ based' = TRUE /\ current' = (rest.id >= handled)
      /\ UNCHANGED <<env, frames, rest, stale, recBuf, handled>>
  BY DEF ApplySnapshot, SnapshotBook, OnSnapshot
<1>2. rest.id \in 0..MaxId /\ rest.id <= venue /\ VenueBook[rest.id] \in [Levels -> Nat]
  BY VenueAssumption DEF Inv, Typed
<1>3. val' \in Validator /\ val'.st = "Bridging" /\ val'.id = rest.id
  BY <1>1, <1>2 DEF Validator
<1>4. Events' = Events /\ streamed' = streamed /\ streamed \in Int
  BY <1>1 DEF Events, env, Inv, Typed
<1>5. Chained' /\ Placed'
  BY <1>3, <1>4, FewerEvents
<1>6. Typed'
  BY <1>1, <1>2, <1>3 DEF Inv, Typed, env
<1>7. PositionInv' /\ TaskInv' /\ CurrentInv' /\ BookIsVenueBook'
  BY <1>1, <1>3 DEF PositionInv, TaskInv, CurrentInv, BookIsVenueBook, Replaying
<1> QED BY <1>5, <1>6, <1>7 DEF Inv

\* A buffered event that the snapshot or the book already holds.
LEMMA ReplaySkipInv ==
  ASSUME Inv, ReplaySkip
  PROVE  Inv'
<1>1. /\ recBuf # <<>> /\ recBuf' = Tail(recBuf)
      /\ UNCHANGED <<env, frames, rest, pc, val, book, stale, hist>>
  BY DEF ReplaySkip
<1>2. recBuf' \in Seq(FuturesDelta) /\ Elems(recBuf)' \subseteq Elems(recBuf)
  BY <1>1, TailElems DEF Inv, Typed
<1>3. Events' \subseteq Events /\ streamed' = streamed /\ streamed \in Int /\ val' = val
  BY <1>1, <1>2 DEF Events, env, Inv, Typed
<1>4. Chained' /\ Placed'
  BY <1>3, FewerEvents
<1>5. Typed'
  BY <1>1, <1>2 DEF Inv, Typed, env, book, hist
<1>6. PositionInv' /\ TaskInv' /\ CurrentInv' /\ BookIsVenueBook'
  BY <1>1 DEF Inv, PositionInv, TaskInv, CurrentInv, BookIsVenueBook, Replaying, InStep, Buffers,
              book, hist
<1> QED BY <1>4, <1>5, <1>6 DEF Inv

\* A buffered event that is applied.
LEMMA ReplayApplyInv ==
  ASSUME Inv, ReplayApply
  PROVE  Inv'
<1> DEFINE d == Head(recBuf)
<1>1. /\ recBuf # <<>> /\ Replaying /\ Applies(val, d) /\ val' = Advanced(d)
      /\ levels' = ApplyDelta(levels, d) /\ last' = d.final
      /\ recBuf' = Tail(recBuf)
      /\ UNCHANGED <<env, frames, rest, pc, stale, hist>>
  BY DEF ReplayApply
<1>2. d \in Elems(recBuf) /\ recBuf' \in Seq(FuturesDelta) /\ Elems(recBuf)' \subseteq Elems(recBuf)
  BY <1>1, TailElems DEF Inv, Typed
<1>3. d \in Events
  BY <1>2 DEF Events
<1>4. /\ val.st \in {"Bridging", "Active"}
      /\ last < d.final /\ d.final \in 0..MaxId /\ d.final <= venue /\ d.final <= streamed
      /\ ApplyDelta(levels, d) = VenueBook[d.final]
      /\ ApplyDelta(levels, d) \in [Levels -> Nat] /\ Advanced(d) \in Validator
  BY <1>1, <1>3, AppliesFacts
<1> HIDE DEF d
<1>5. Events' \subseteq Events /\ streamed' = streamed /\ streamed \in Int
  BY <1>1, <1>2 DEF Events, env, Inv, Typed
<1>6. Chained'
  BY <1>5, FewerEvents
<1>7. Placed'
  BY <1>1, <1>3, <1>4, <1>5 DEF Inv, Chained, Placed, Advanced
<1>8. Typed'
  BY <1>1, <1>2, <1>4 DEF Inv, Typed, env, hist
<1>9. PositionInv' /\ TaskInv' /\ BookIsVenueBook'
  BY <1>1, <1>4 DEF Inv, PositionInv, TaskInv, BookIsVenueBook, Replaying, Advanced, hist
<1>10. CurrentInv'
  <2>1. last \in Int /\ handled \in Int /\ d.final \in Int /\ (current => last >= handled)
    BY <1>1, <1>4 DEF Inv, Typed, CurrentInv
  <2>2. last' = d.final /\ handled' = handled /\ current' = current
    BY <1>1 DEF hist
  <2> QED BY <1>4, <2>1, <2>2 DEF CurrentInv
<1> QED BY <1>6, <1>7, <1>8, <1>9, <1>10 DEF Inv

\* A recovery that fails leaves no book in step.
LEMMA FailedInv ==
  ASSUME Inv, ReplayGap \/ FetchFailed
  PROVE  Inv'
<1>1. /\ FailRecovery /\ UNCHANGED book
      /\ \/ Replaying /\ val' = Broken(val) /\ recBuf' = <<>>
         \/ Fetching /\ UNCHANGED <<val, recBuf>>
  BY DEF ReplayGap, FetchFailed
<1>2. pc' = "idle" /\ rest' = NoRequest /\ UNCHANGED <<env, frames, stale, hist>>
  BY <1>1 DEF FailRecovery
<1>3. val' \in Validator /\ (val' = val \/ val'.st = "Stale")
  BY <1>1 DEF Inv, Typed, Validator, Broken
<1>4. recBuf' \in Seq(FuturesDelta) /\ Elems(recBuf)' \subseteq Elems(recBuf)
  BY <1>1, EmptyElems DEF Inv, Typed
<1>5. Events' \subseteq Events /\ streamed' = streamed /\ streamed \in Int
  BY <1>2, <1>4 DEF Events, env, Inv, Typed
<1>6. Chained' /\ Placed'
  BY <1>3, <1>5, FewerEvents
<1>7. Typed'
  BY <1>1, <1>2, <1>3, <1>4, VenueAssumption DEF Inv, Typed, env, book, hist, NoRequest
<1>8. PositionInv' /\ TaskInv' /\ BookIsVenueBook'
  BY <1>1, <1>2, <1>3 DEF Inv, PositionInv, TaskInv, BookIsVenueBook, Replaying, env, book, hist
<1>9. ~InStep'
  <2>1. CASE Replaying /\ val' = Broken(val)
    <3>1. val'.st = "Stale"
      BY <2>1 DEF Inv, Typed, Validator, Broken
    <3> QED BY <3>1 DEF InStep
  <2>2. CASE Fetching /\ val' = val
    <3>1. stale \/ Buffers(val)
      BY <2>2 DEF Inv, TaskInv, Fetching
    <3> QED BY <1>2, <2>2, <3>1 DEF InStep, Buffers
  <2> QED BY <1>1, <2>1, <2>2
<1>10. CurrentInv'
  BY <1>2, <1>9 DEF CurrentInv, Replaying
<1> QED BY <1>6, <1>7, <1>8, <1>10 DEF Inv

\* A recovery that succeeded.
LEMMA RecoveredInv ==
  ASSUME Inv, Recovered
  PROVE  Inv'
<1>1. /\ Replaying /\ stale' = FALSE /\ pc' = "idle" /\ rest' = NoRequest
      /\ UNCHANGED <<env, frames, val, book, recBuf, hist>>
  BY DEF Recovered
<1>2. Events' = Events /\ streamed' = streamed /\ streamed \in Int /\ val' = val
  BY <1>1 DEF Events, env, Inv, Typed
<1>3. Chained' /\ Placed'
  BY <1>2, FewerEvents
<1>4. Typed'
  <2>1. /\ rest' \in [st : {"none", "asked", "ok", "failed"}, id : 0..MaxId] /\ rest'.id = 0
        /\ venue' = venue /\ venue \in 0..MaxId
    BY <1>1, VenueAssumption DEF Inv, Typed, env, NoRequest
  <2>2. rest'.id <= venue'
    BY <2>1, VenueAssumption
  <2> QED BY <1>1, <2>1, <2>2 DEF Inv, Typed, env, book, hist
<1>5. PositionInv' /\ TaskInv' /\ CurrentInv' /\ BookIsVenueBook'
  BY <1>1 DEF Inv, PositionInv, TaskInv, CurrentInv, BookIsVenueBook, Replaying, book, hist
<1> QED BY <1>3, <1>4, <1>5 DEF Inv

\* An event that is skipped only leaves the queue.
LEMMA SkipFrameInv == ASSUME Inv, SkipFrame PROVE Inv'
<1>1. /\ frames \in Seq(FuturesDelta) /\ frames # <<>> /\ frames' = Tail(frames)
      /\ UNCHANGED <<env, rest, pc, symbol>> /\ UNCHANGED <<recBuf, val>>
  BY DEF SkipFrame, symbol, Inv, Typed
<1>2. frames' \in Seq(FuturesDelta) /\ Elems(frames)' \subseteq Elems(frames)
  BY <1>1, TailElems
<1>3. Events' \subseteq Events /\ UNCHANGED streamed
  BY <1>1, <1>2 DEF Events, env
<1>4. Chained' /\ Placed'
  BY <1>1, <1>3, FewerEvents DEF Inv, Typed
<1>5. Typed'
  BY <1>1, <1>2 DEF Inv, Typed, env, symbol, book, hist
<1> QED BY <1>1, <1>4, <1>5, Untouched DEF Inv

\* Every step keeps the invariant.
LEMMA NextInv == Inv /\ [Next]_vars => Inv'
<1> SUFFICES ASSUME Inv, [Next]_vars PROVE Inv'
  OBVIOUS
<1>1. CASE Environment
  BY <1>1, EnvironmentInv
<1>2. CASE HandleFrame
  BY <1>2, SkipFrameInv, KeptFrameInv, ApplyFrameInv, GapFrameInv DEF HandleFrame
<1>3. CASE Seed
  BY <1>3, SeedInv
<1>4. CASE FinishRecovery
  BY <1>4, ApplySnapshotInv, ReplaySkipInv, ReplayApplyInv, FailedInv, RecoveredInv DEF FinishRecovery
<1>5. CASE UNCHANGED vars
  <2>1. UNCHANGED <<pc, symbol>> /\ Events' = Events /\ streamed' = streamed /\ val' = val
    BY <1>5 DEF vars, symbol, book, hist, Events
  <2>2. Chained' /\ Placed'
    BY <2>1, FewerEvents DEF Inv, Typed
  <2>3. Typed'
    BY <1>5 DEF Inv, Typed, vars
  <2> QED BY <2>1, <2>2, <2>3, Untouched DEF Inv
<1> QED BY <1>1, <1>2, <1>3, <1>4, <1>5 DEF Next

\* The invariant holds in every reachable state.
LEMMA InvHolds == Spec => []Inv
BY InitInv, NextInv, PTL DEF Spec

------------------------------------------------------------------------------
(***************************************************************************)
(* The results.                                                            *)
(***************************************************************************)

\* Once a snapshot has been applied, the levels of the futures book are those
\* the venue had at the book's last_update_id, whatever was lost, repeated,
\* overflowed, served late or failed.
THEOREM BookIsExact == Spec => []BookIsVenueBook
<1>1. Inv => BookIsVenueBook
  BY DEF Inv
<1> QED BY <1>1, InvHolds, PTL

\* A trusted futures book misses dispatched events only when the snapshot of
\* apply_futures_snapshot was already behind them.
THEOREM MissesAreLags == Spec => []MissesOnlyByLag
<1>1. Inv => MissesOnlyByLag
  BY DEF Inv, CurrentInv, MissesOnlyByLag
<1> QED BY <1>1, InvHolds, PTL

\* A step of the shard is a step of SyncedBook or leaves what it shows alone.
LEMMA StepRefines ==
  ASSUME Inv, Inv', [Next]_vars
  PROVE  [Synced!Next]_<<venue, last, InStep>>
<1>1. /\ last' \in 0..venue' /\ InStep \in BOOLEAN /\ InStep' \in BOOLEAN
      /\ last \in 0..MaxId /\ last <= venue
  BY DEF Inv, Typed, InStep
<1>2. ASSUME UNCHANGED venue, ~InStep PROVE Synced!Rebuild
  BY <1>1, <1>2 DEF Synced!Rebuild
<1>3. CASE Environment
  <2>1. InStep' = InStep /\ last' = last
    BY <1>3 DEF Environment, VenueUpdate, StreamDelta, LoseDelta, DuplicateDelta, RestServe, RestFail,
                symbol, book, InStep
  <2>2. CASE VenueUpdate
    BY <2>1, <2>2 DEF VenueUpdate, Synced!Next, Synced!Publish
  <2>3. CASE ~VenueUpdate
    <3>1. venue' = venue
      BY <1>3, <2>3 DEF Environment, StreamDelta, LoseDelta, DuplicateDelta, RestServe, RestFail
    <3> QED BY <2>1, <3>1
  <2> QED BY <2>2, <2>3
<1>4. CASE ApplyFrame
  <2> DEFINE d == Head(frames)
  <2>1. /\ TakeFrame /\ ~stale /\ Applies(val, d) /\ val' = Advanced(d) /\ last' = d.final
        /\ UNCHANGED <<stale, pc, venue>>
    BY <1>4 DEF ApplyFrame, TakeFrame, env
  <2>2. d \in Events /\ pc = "idle"
    BY <2>1, FrameFacts
  <2>3. val.st \in {"Bridging", "Active"} /\ last < d.final /\ d.final \in 0..MaxId /\ d.final <= venue
    BY <2>1, <2>2, AppliesFacts
  <2>4. InStep /\ InStep'
    BY <2>1, <2>2, <2>3 DEF InStep, Advanced
  <2>5. venue \in Int /\ last' \in (last + 1)..venue
    BY <1>1, <2>1, <2>3 DEF Inv, Typed
  <2> QED BY <2>1, <2>4, <2>5 DEF Synced!Next, Synced!Follow
<1>5. CASE GapFrame
  <2>1. ~stale /\ Gaps(val, Head(frames)) /\ pc = "idle" /\ stale' = TRUE /\ UNCHANGED <<venue, last>>
    BY <1>5 DEF GapFrame, TakeFrame, env, book
  <2>2. InStep /\ ~InStep'
    BY <2>1 DEF InStep, Gaps
  <2> QED BY <2>1, <2>2 DEF Synced!Next, Synced!Lose
<1>6. CASE HandleFrame /\ ~ApplyFrame /\ ~GapFrame
  <2>1. UNCHANGED <<venue, last, stale, val, pc>>
    BY <1>6 DEF HandleFrame, SkipFrame, DiscardFrame, BufferFrame, KeepFrame, TakeFrame, env,
                symbol, book
  <2> QED BY <2>1 DEF InStep
<1>7. CASE Seed
  <2>1. ~InStep /\ ~InStep' /\ UNCHANGED <<venue, last>>
    BY <1>7 DEF Seed, InStep, Buffers, env, symbol, book
  <2> QED BY <1>1, <2>1
<1>8. CASE FinishRecovery
  <2>1. UNCHANGED venue /\ (Fetching \/ Replaying)
    BY <1>8 DEF FinishRecovery, ApplySnapshot, ReplaySkip, ReplayApply, ReplayGap, FetchFailed,
                FailRecovery, Recovered, env
  <2>2. ~InStep
    BY <2>1 DEF InStep, Fetching, Replaying
  <2> QED BY <1>2, <2>1, <2>2 DEF Synced!Next
<1>9. CASE UNCHANGED vars
  BY <1>9 DEF vars, InStep
<1> QED BY <1>3, <1>4, <1>5, <1>6, <1>7, <1>8, <1>9 DEF Next, HandleFrame

\* While a reader may trust it, the futures book only moves forward with the
\* venue and never ahead of it; it is repositioned only when nobody does.
THEOREM BookFollowsVenue == Spec => FollowsVenue
<1>1. Init => Synced!Init
  BY DEF Init, Synced!Init, InStep, NewValidator
<1>2. Inv /\ Inv' /\ [Next]_vars => [Synced!Next]_<<venue, last, InStep>>
  BY StepRefines
<1> QED BY <1>1, <1>2, InvHolds, PTL DEF Spec, FollowsVenue, Synced!Spec
==============================================================================
