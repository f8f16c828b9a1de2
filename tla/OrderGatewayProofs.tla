------------------------- MODULE OrderGatewayProofs -------------------------
(***************************************************************************)
(* Proofs about OrderGateway, for any number of orders and trades, of any  *)
(* sizes, and any number of failures and crashes: the ids it gives are     *)
(* fresh; the gateway refuses nothing the engine asks for; engine and      *)
(* gateway agree; what is forgotten is closed; fills are trades, counted   *)
(* once; the journal rebuilds the orders and is a legal history of them.   *)
(*                                                                         *)
(* IdInv is the invariant about ids.  Inv, below it, relates the           *)
(* exchange's book, the checks, the journal, the orders in memory, the     *)
(* machines, and the list of actions under way.                            *)
(***************************************************************************)
EXTENDS OrderGateway, FiniteSetTheorems, SequenceTheorems, TLAPS

------------------------------------------------------------------------------
(***************************************************************************)
(* The order machine keeps its type.                                       *)
(***************************************************************************)

\* The machine an input may leave, before the engine forgets a closed one.
AnySm == [status : InPlay \cup Terminal \cup {"Untracked"},
          counted : Seq(Trade), buffered : Seq(Trade), seen : SUBSET Trade]

Typed(r) == r.sm \in AnySm /\ r.actions \in Seq(SmAction)

\* What the engine is fed: the exchange's reports and the checks' outcomes.
SmInput == [kind : {"Acknowledged", "CancelConfirmed", "Rejected", "Expired"}]
             \cup [kind : {"FillReceived"}, trade : Trade]
             \cup [kind : {"StatusCheckResult"}, outcome : Outcome]

\* The listing of a finite set is a sequence of its elements, each once.
LEMMA Listing ==
  ASSUME NEW S, IsFiniteSet(S)
  PROVE  SetToSeq(S) \in [1 .. Cardinality(S) -> S] /\ IsInjective(SetToSeq(S))
<1>1. ExistsBijection(1 .. Cardinality(S), S)
  BY FS_CardinalityType
<1>2. PICK f : f \in Bijection(1 .. Cardinality(S), S)
  BY <1>1 DEF ExistsBijection
<1>3. f \in [1 .. Cardinality(S) -> S] /\ IsInjective(f)
  BY <1>2 DEF Bijection, Injection, IsInjective
<1> QED BY <1>3 DEF SetToSeq

\* As a sequence.
LEMMA ListingIsSeq ==
  ASSUME NEW S, IsFiniteSet(S)
  PROVE  SetToSeq(S) \in Seq(S)
<1>1. Cardinality(S) \in Nat
  BY FS_CardinalityType
<1>2. SetToSeq(S) \in [1 .. Cardinality(S) -> S]
  BY Listing
<1> QED BY <1>1, <1>2, SeqDef

\* Fills handed on are actions.
LEMMA FillsTyped ==
  ASSUME NEW s \in Seq(Trade)
  PROVE  ApplyFills(s) \in Seq(SmAction)
<1>1. DOMAIN s = 1 .. Len(s) /\ Len(s) \in Nat /\ \A i \in 1 .. Len(s) : s[i] \in Trade
  BY LenProperties, ElementOfSeq
<1>2. ApplyFills(s) \in [1 .. Len(s) -> SmAction]
  BY <1>1 DEF ApplyFills, SmAction
<1> QED BY <1>1, <1>2, SeqDef

\* An action without a trade is one.
LEMMA DoTyped ==
  ASSUME NEW k \in {"ApplyAck", "ApplyCancel", "ApplyReject", "ApplyExpire",
                    "ScheduleStatusCheck"}
  PROVE  Do(k) \in SmAction /\ <<Do(k)>> \in Seq(SmAction)
BY DEF Do, SmAction

\* An acknowledgement with its fills is a list of actions.
LEMMA AckThenFillsTyped ==
  ASSUME NEW s \in Seq(Trade)
  PROVE  <<Do("ApplyAck")>> \o ApplyFills(s) \in Seq(SmAction)
BY DoTyped, FillsTyped, ConcatProperties

\* The states an order can have by its fills.
LEMMA ProgressTyped ==
  ASSUME NEW s
  PROVE  Progress(s) \in {"Filled", "PartiallyFilled", "New"}
BY DEF Progress

\* An ignored input changes nothing.
LEMMA IgnoredTyped ==
  ASSUME NEW m \in AnySm
  PROVE  Typed(Ignored(m))
BY EmptySeq DEF Typed, Ignored, Result

\* The arms of process_* that close an order.
LEMMA ClosedTyped ==
  ASSUME NEW m \in AnySm, NEW status \in Terminal,
         NEW k \in {"ApplyCancel", "ApplyReject", "ApplyExpire"}
  PROVE  Typed(Closed(m, status, k))
BY DoTyped DEF Typed, Closed, Result, AnySm

\* An acknowledgement, late or not (machine.rs:257).
LEMMA AcknowledgeTyped ==
  ASSUME NEW m \in AnySm
  PROVE  Typed(Acknowledge(m))
<1> DEFINE counted == m.counted \o m.buffered
<1>1. m.counted \in Seq(Trade) /\ m.buffered \in Seq(Trade)
  BY DEF AnySm
<1>2. counted \in Seq(Trade)
  BY <1>1, ConcatProperties
<1>3. Progress(counted) \in InPlay \cup Terminal \cup {"Untracked"}
  BY ProgressTyped DEF InPlay, Terminal
<1>4. <<>> \in Seq(Trade)
  BY EmptySeq
<1>5. Acknowledge(m).sm \in AnySm
  <2> HIDE DEF counted
  <2>1. Acknowledge(m).sm = [m EXCEPT !.status = Progress(counted), !.counted = counted,
                                      !.buffered = <<>>]
    BY DEF Acknowledge, Result, counted
  <2> QED BY <2>1, <1>2, <1>3, <1>4 DEF AnySm
<1>6. Acknowledge(m).actions \in Seq(SmAction)
  BY <1>1, AckThenFillsTyped DEF Acknowledge, Result
<1> QED BY <1>5, <1>6 DEF Typed

\* A fill before the acknowledgement (machine.rs:279).
LEMMA BufferFillTyped ==
  ASSUME NEW m \in AnySm, NEW t \in Trade
  PROVE  Typed(BufferFill(m, t))
<1>1. Append(m.buffered, t) \in Seq(Trade)
  BY AppendProperties DEF AnySm
<1>2. Result([m EXCEPT !.seen = @ \cup {t}, !.buffered = Append(@, t)], <<>>).sm \in AnySm
  BY <1>1 DEF AnySm, Result
<1> QED BY <1>2, IgnoredTyped, EmptySeq DEF BufferFill, Typed, Result

\* A fill of a live order (machine.rs:317).
LEMMA CountFillTyped ==
  ASSUME NEW m \in AnySm, NEW t \in Trade
  PROVE  Typed(CountFill(m, t))
<1> DEFINE counted == Append(m.counted, t)
<1>1. counted \in Seq(Trade)
  BY AppendProperties DEF AnySm
<1>2. Progress(counted) \in InPlay \cup Terminal \cup {"Untracked"}
  BY ProgressTyped DEF InPlay, Terminal
<1>3. ApplyFills(<<t>>) \in Seq(SmAction)
  <2>1. <<t>> \in Seq(Trade)
    OBVIOUS
  <2> QED BY <2>1, FillsTyped
<1>4. CASE t \in m.seen
  BY <1>4, IgnoredTyped DEF CountFill
<1>5. CASE t \notin m.seen
  <2> HIDE DEF counted
  <2>1. CountFill(m, t) = Result([m EXCEPT !.seen = @ \cup {t}, !.counted = counted,
                                           !.status = Progress(counted)],
                                 ApplyFills(<<t>>))
    BY <1>5 DEF CountFill, counted
  <2>2. [m EXCEPT !.seen = @ \cup {t}, !.counted = counted,
                  !.status = Progress(counted)] \in AnySm
    BY <1>1, <1>2 DEF AnySm
  <2> QED BY <2>1, <2>2, <1>3 DEF Typed, Result
<1> QED BY <1>4, <1>5

\* A check that finds the order filled (machine.rs:441).
LEMMA FilledByCheckTyped ==
  ASSUME NEW m \in AnySm, NEW listed \in SUBSET Trade
  PROVE  Typed(FilledByCheck(m, listed))
<1> DEFINE unseen == listed \ m.seen
           fresh  == SetToSeq(unseen) \o m.buffered
<1>1. IsFiniteSet(unseen)
  BY QuantityAssumption, FS_Subset
<1>2. SetToSeq(unseen) \in Seq(unseen)
  BY <1>1, ListingIsSeq
<1>3. SetToSeq(unseen) \in Seq(Trade)
  BY <1>2, SeqMonotonic
<1>4. m.buffered \in Seq(Trade) /\ m.counted \in Seq(Trade)
  BY DEF AnySm
<1>5. fresh \in Seq(Trade)
  BY <1>3, <1>4, ConcatProperties
<1>6. m.counted \o fresh \in Seq(Trade)
  BY <1>4, <1>5, ConcatProperties
<1>7. <<Do("ApplyAck")>> \o ApplyFills(fresh) \in Seq(SmAction)
  BY <1>5, AckThenFillsTyped
<1>8. FilledByCheck(m, listed) =
        Result([m EXCEPT !.status = "Filled", !.counted = @ \o fresh, !.buffered = <<>>,
                         !.seen = @ \cup listed], <<Do("ApplyAck")>> \o ApplyFills(fresh))
  BY DEF FilledByCheck
<1> HIDE DEF fresh
<1>9. [m EXCEPT !.status = "Filled", !.counted = @ \o fresh, !.buffered = <<>>,
                !.seen = @ \cup listed] \in AnySm
  BY <1>6, EmptySeq DEF AnySm, Terminal
<1> QED BY <1>7, <1>8, <1>9 DEF Typed, Result

\* Every input, in every state, leaves a machine and actions of their types.
LEMMA ProcessTyped ==
  ASSUME NEW m \in AnySm, NEW in \in SmInput
  PROVE  Typed(Process(m, in))
<1>1. Typed(Ignored(m)) /\ Typed(Acknowledge(m))
  BY IgnoredTyped, AcknowledgeTyped
<1>2. /\ Typed(Closed(m, "Rejected", "ApplyReject"))
      /\ Typed(Closed(m, "Cancelled", "ApplyCancel"))
      /\ Typed(Closed(m, "Expired", "ApplyExpire"))
  BY ClosedTyped DEF Terminal
<1>3. in.kind = "FillReceived" =>
        Typed(BufferFill(m, in.trade)) /\ Typed(CountFill(m, in.trade))
  BY BufferFillTyped, CountFillTyped DEF SmInput
<1>4. in.kind = "StatusCheckResult" => Typed(ResolveFromCheck(m, in.outcome))
  <2> SUFFICES ASSUME in.kind = "StatusCheckResult"
               PROVE  Typed(ResolveFromCheck(m, in.outcome))
    OBVIOUS
  <2> DEFINE outcome == in.outcome
  <2>1. outcome \in Outcome
    BY DEF SmInput
  <2>2. outcome.kind = "Filled" => Typed(FilledByCheck(m, outcome.trades))
    BY <2>1, FilledByCheckTyped DEF Outcome
  <2>3. Typed(Result(m, <<Do("ScheduleStatusCheck")>>))
    BY DoTyped DEF Typed, Result
  <2> HIDE DEF outcome
  <2>4. Typed(ResolveFromCheck(m, outcome))
    BY <1>1, <1>2, <2>2, <2>3 DEF ResolveFromCheck
  <2> QED BY <2>4 DEF outcome
<1>5. Typed(ProcessPending(m, in))
  BY <1>1, <1>2, <1>3 DEF ProcessPending
<1>6. Typed(ProcessLive(m, in))
  BY <1>1, <1>2, <1>3 DEF ProcessLive
<1>7. Typed(ProcessUnknown(m, in))
  BY <1>1, <1>2, <1>3, <1>4 DEF ProcessUnknown
<1> QED BY <1>1, <1>5, <1>6, <1>7 DEF Process

\* The engine keeps only orders in play (machine.rs:577).
LEMMA KeptTyped ==
  ASSUME NEW m \in AnySm
  PROVE  Kept(m) \in Sm
BY EmptySeq DEF Kept, AnySm, Sm, Untracked, NewSm, InPlay

------------------------------------------------------------------------------
(***************************************************************************)
(* TypeOK is inductive.                                                    *)
(***************************************************************************)

\* What the list todo is made of.
Todo == [cloid : Cloid, act : SmAction]

\* Journal::append, successful or not: the log grows by the entry, what is in
\* the file does not shrink, and a request is added only with its entry.
Appended(e) ==
  /\ journal' = Append(journal, e)
  /\ written' \in written .. Len(journal')
  /\ torn' \in BOOLEAN /\ failures' \in 0 .. MaxFailures

\* Both outcomes of an append (journal.rs:536).
LEMMA AppendsEntry ==
  ASSUME TypeOK, NEW e \in JournalEntry, Persist(e) \/ PersistFails(e)
  PROVE  /\ Appended(e)
         /\ journal' \in Seq(JournalEntry) /\ written' \in 0 .. Len(journal')
         /\ Len(journal') = Len(journal) + 1 /\ written' >= written
<1>0. journal \in Seq(JournalEntry) /\ written \in 0 .. Len(journal) /\ Len(journal) \in Nat
  BY LenProperties DEF TypeOK
<1>1. journal' = Append(journal, e)
  BY DEF Persist, PersistFails
<1>2. journal' \in Seq(JournalEntry) /\ Len(journal') = Len(journal) + 1
  BY <1>0, <1>1, AppendProperties
<1>3. written' \in written .. Len(journal')
  <2>1. CASE Persist(e)
    <3>1. written' = Len(journal')
      BY <2>1 DEF Persist
    <3> QED BY <1>0, <1>2, <3>1
  <2>2. CASE PersistFails(e)
    <3>1. written' \in written .. Len(journal)
      BY <2>2 DEF PersistFails
    <3> QED BY <1>0, <1>2, <3>1
  <2> QED BY <2>1, <2>2
<1>4. torn' \in BOOLEAN
  BY DEF Persist, PersistFails
<1>5. failures' \in 0 .. MaxFailures
  <2>1. failures \in 0 .. MaxFailures /\ MaxFailures \in Nat
    BY FailureAssumption DEF TypeOK
  <2>2. failures' = failures \/ (failures < MaxFailures /\ failures' = failures + 1)
    BY DEF Persist, PersistFails
  <2> QED BY <2>1, <2>2
<1> QED BY <1>0, <1>1, <1>2, <1>3, <1>4, <1>5 DEF Appended

\* TypeOK holds at the start.
LEMMA StartsTyped == Init => TypeOK
<1> SUFFICES ASSUME Init PROVE TypeOK
  OBVIOUS
<1>1. Absent \in PendingOrder /\ Untracked \in Sm /\ Do("None") \in Check /\ Unsent \in VenueOrder
  <2>1. Absent \in PendingOrder
    BY EmptySeq DEF Absent, PendingOrder
  <2>2. Untracked \in Sm
    BY EmptySeq DEF Untracked, NewSm, Sm
  <2> QED BY <2>1, <2>2 DEF Do, Check, Unsent, VenueOrder
<1>2. todo \in Seq([cloid : Cloid, act : SmAction]) /\ journal \in Seq(JournalEntry) /\ Len(journal) = 0
  BY EmptySeq DEF Init
<1>3. torn \in BOOLEAN
  BY DEF Init
<1>4. 0 \in 0 .. MaxCounter + 1 /\ 0 \in 0 .. MaxFailures /\ 0 \in 0 .. MaxCrashes
  BY CounterAssumption, FailureAssumption
<1>5. /\ orders \in [Cloid -> PendingOrder] /\ sms \in [Cloid -> Sm]
      /\ checks \in [Cloid -> Check] /\ venue \in [Cloid -> VenueOrder]
  BY <1>1 DEF Init
<1> QED BY <1>2, <1>3, <1>4, <1>5 DEF Init, TypeOK

\* A record of the exchange with another state, or more trades, is one.
LEMMA VenueTyped ==
  ASSUME TypeOK, NEW c \in Cloid, VenueNext(c)
  PROVE  TypeOK'
<1> USE DEF gateway, file, engine, history
<1>0. venue \in [Cloid -> VenueOrder]
  BY DEF TypeOK
<1>1. ASSUME NEW k \in {"Unsent", "Sent", "Open"} \cup Terminal, Venue(c, k)
      PROVE  TypeOK'
  <2>1. venue' \in [Cloid -> VenueOrder]
    BY <1>0, <1>1 DEF Venue, VenueOrder
  <2> QED BY <1>1, <2>1 DEF Venue, TypeOK
<1>2. CASE VenueAccept(c)
  <2>1. venue' \in [Cloid -> VenueOrder]
    BY <1>0, <1>2 DEF VenueAccept, VenueOrder
  <2> QED BY <1>2, <2>1 DEF VenueAccept, TypeOK
<1>3. CASE VenueCancel(c) \/ VenueExpire(c) \/ VenueReject(c)
  BY <1>1, <1>3 DEF VenueCancel, VenueExpire, VenueReject, Terminal
<1>4. ASSUME NEW t \in Trade, VenueTrade(c, t)
      PROVE  TypeOK'
  <2>1. venue' \in [Cloid -> VenueOrder]
    BY <1>0, <1>4 DEF VenueTrade, VenueOrder, Terminal
  <2> QED BY <1>4, <2>1 DEF VenueTrade, TypeOK
<1>5. OutcomeNow(c) \in Check /\ Do("Error") \in Check
  BY <1>0 DEF OutcomeNow, Check, Outcome, Do, VenueOrder, Terminal
<1>6. ASSUME NEW o \in Check, AnswerWith(c, o)
      PROVE  TypeOK'
  <2>1. checks' \in [Cloid -> Check]
    BY <1>6 DEF AnswerWith, TypeOK
  <2> QED BY <1>6, <2>1 DEF AnswerWith, TypeOK
<1>7. CASE Answer(c) \/ AnswerFail(c)
  BY <1>5, <1>6, <1>7 DEF Answer, AnswerFail
<1> QED BY <1>2, <1>3, <1>4, <1>7 DEF VenueNext

\* Enqueue and EnqueueFails keep the types.
LEMMA EnqueueTyped ==
  ASSUME TypeOK, Enqueue \/ EnqueueFails
  PROVE  TypeOK'
<1> USE DEF gateway, file, engine, history
<1>1. next \in Cloid /\ next' = next + 1
  BY DEF Enqueue, EnqueueFails
<1>2. next' \in 0 .. MaxCounter + 1
  BY <1>1, CounterAssumption DEF Cloid
<1>3. RequestOf(next) \in JournalEntry
  BY <1>1 DEF RequestOf, JournalEntry
<1>4. Persist(RequestOf(next)) \/ PersistFails(RequestOf(next))
  BY DEF Enqueue, EnqueueFails
<1>5. /\ journal' \in Seq(JournalEntry) /\ written' \in 0 .. Len(journal')
      /\ torn' \in BOOLEAN /\ failures' \in 0 .. MaxFailures
      /\ Len(journal') = Len(journal) + 1
  BY <1>3, <1>4, AppendsEntry DEF Appended
<1>6. replayed' \in 0 .. Len(journal')
  <2>1. replayed' = replayed /\ replayed \in 0 .. Len(journal) /\ Len(journal) \in Nat
    BY LenProperties DEF Enqueue, EnqueueFails, TypeOK
  <2> QED BY <1>5, <2>1
<1>7. orders' \in [Cloid -> PendingOrder] /\ sms' \in [Cloid -> Sm]
  <2>1. NewPending \in PendingOrder /\ NewSm \in Sm
    BY EmptySeq DEF NewPending, PendingOrder, NewSm, Sm, InPlay
  <2> QED BY <1>1, <2>1 DEF Enqueue, EnqueueFails, TypeOK
<1>8. UNCHANGED <<up, todo, checks, venue, crashes, dropped, restored>>
  BY DEF Enqueue, EnqueueFails
<1> QED BY <1>2, <1>5, <1>6, <1>7, <1>8 DEF TypeOK

\* Whatever the engine is fed, its machines and what is left to do keep their types.
LEMMA FeedTyped ==
  ASSUME TypeOK, NEW c \in Cloid, NEW in \in SmInput, Feed(c, in), checks' \in [Cloid -> Check]
  PROVE  TypeOK'
<1> USE DEF gateway, file, engine, history
<1> DEFINE result == Process(sms[c], in)
<1>1. sms[c] \in AnySm
  BY DEF TypeOK, Sm, AnySm
<1>2. result.sm \in AnySm /\ result.actions \in Seq(SmAction)
  BY <1>1, ProcessTyped DEF Typed
<1>3. sms' = [sms EXCEPT ![c] = Kept(result.sm)] /\ todo' = Acts(c, result.actions)
  BY DEF Feed
<1>4. UNCHANGED <<up, replayed, gateway, venue, failures, crashes, history>>
  BY DEF Feed
<1> HIDE DEF result
<1>5. sms' \in [Cloid -> Sm]
  BY <1>2, <1>3, KeptTyped DEF TypeOK
<1>6. todo' \in Seq(Todo)
  <2>1. /\ DOMAIN result.actions = 1 .. Len(result.actions) /\ Len(result.actions) \in Nat
        /\ \A i \in 1 .. Len(result.actions) : result.actions[i] \in SmAction
    BY <1>2, LenProperties, ElementOfSeq
  <2>2. todo' \in [1 .. Len(result.actions) -> Todo]
    BY <1>3, <2>1 DEF Acts, Todo
  <2> QED BY <2>1, <2>2, SeqDef
<1> QED BY <1>4, <1>5, <1>6 DEF TypeOK, Todo

\* A report of the exchange keeps the types.
LEMMA ReceiveTyped ==
  ASSUME TypeOK, NEW c \in Cloid, Receive(c)
  PROVE  TypeOK'
<1>1. PICK report \in Reports(c) : Feed(c, report)
  BY DEF Receive
<1>2. venue[c].trades \in SUBSET Trade
  BY DEF TypeOK, VenueOrder
<1>3. report \in SmInput
  BY <1>2 DEF Reports, SmInput
<1> QED BY <1>1, <1>3, FeedTyped DEF Receive, TypeOK

\* The answer of a check keeps the types.
LEMMA ResolveTyped ==
  ASSUME TypeOK, NEW c \in Cloid, Resolve(c)
  PROVE  TypeOK'
<1>1. [kind |-> "StatusCheckResult", outcome |-> checks[c]] \in SmInput
  BY DEF Resolve, SmInput
<1>2. checks' \in [Cloid -> Check]
  BY DEF Resolve, TypeOK, Check, Do
<1> QED BY <1>1, <1>2, FeedTyped DEF Resolve

\* The timeout of overdue orders keeps the types.
LEMMA TickTyped ==
  ASSUME TypeOK, Tick
  PROVE  TypeOK'
<1> USE DEF gateway, file, engine, history
<1>1. PICK latest \in Cloid :
        LET overdue == {c \in 0 .. latest : sms[c].status = "Pending"}
        IN  /\ overdue # {}
            /\ sms' = [c \in Cloid |-> IF c \in overdue
                          THEN [sms[c] EXCEPT !.status = "UnknownStatus"] ELSE sms[c]]
            /\ todo' = LET list == SetToSeq(overdue)
                       IN  [i \in DOMAIN list |->
                              [cloid |-> list[i], act |-> Do("ScheduleStatusCheck")]]
  BY DEF Tick
<1> DEFINE overdue == {c \in 0 .. latest : sms[c].status = "Pending"}
           list == SetToSeq(overdue)
<1>2. overdue \in SUBSET Cloid
  BY CounterAssumption DEF Cloid
<1>3. IsFiniteSet(overdue)
  <2>1. MaxCounter \in Int /\ 0 \in Int
    BY CounterAssumption
  <2>2. IsFiniteSet(Cloid)
    BY <2>1, FS_Interval DEF Cloid
  <2> QED BY <1>2, <2>2, FS_Subset
<1>4. list \in Seq(overdue)
  BY <1>3, ListingIsSeq
<1>5. DOMAIN list = 1 .. Len(list) /\ Len(list) \in Nat /\ \A i \in 1 .. Len(list) : list[i] \in Cloid
  BY <1>2, <1>4, LenProperties, ElementOfSeq
<1>6. sms' = [c \in Cloid |-> IF c \in overdue
                THEN [sms[c] EXCEPT !.status = "UnknownStatus"] ELSE sms[c]]
      /\ todo' = [i \in DOMAIN list |-> [cloid |-> list[i], act |-> Do("ScheduleStatusCheck")]]
  BY <1>1
<1> HIDE DEF overdue, list
<1>7. sms' \in [Cloid -> Sm]
  BY <1>6 DEF TypeOK, Sm, InPlay
<1>8. todo' \in Seq(Todo)
  <2>1. todo' \in [1 .. Len(list) -> Todo]
    BY <1>5, <1>6, DoTyped DEF Todo
  <2> QED BY <1>5, <2>1, SeqDef
<1>9. UNCHANGED <<up, replayed, gateway, checks, venue, failures, crashes, history>>
  BY DEF Tick
<1> QED BY <1>7, <1>8, <1>9 DEF TypeOK, Todo

\* Asking a check keeps the types.
LEMMA ScheduleTyped ==
  ASSUME TypeOK, Schedule
  PROVE  TypeOK'
<1> USE DEF gateway, file, engine, history
<1>1. todo \in Seq(Todo) /\ todo # <<>>
  BY DEF Schedule, TypeOK, Todo
<1>2. todo' \in Seq(Todo)
  BY <1>1, HeadTailProperties DEF Schedule
<1>3. checks' \in [Cloid -> Check]
  BY DEF Schedule, TypeOK, Check, Do
<1>4. UNCHANGED <<up, replayed, gateway, sms, venue, failures, crashes, history>>
  BY DEF Schedule
<1> QED BY <1>2, <1>3, <1>4 DEF TypeOK, Todo

\* What the gateway is asked to do, and what it writes of it, have their types.
LEMMA AppliedTyped ==
  ASSUME NEW order \in PendingOrder, NEW act \in SmAction, NEW c \in Cloid,
         act.kind # "ScheduleStatusCheck"
  PROVE  /\ Applied(order, act) \in PendingOrder
         /\ EntryOf(c, order, act) \in JournalEntry
         /\ EntryOf(c, order, act).kind # "Requested"
<1>1. CASE act.kind = "ApplyFill"
  <2>1. act.trade \in Trade
    BY <1>1 DEF SmAction
  <2>2. Append(order.fills, act.trade) \in Seq(Trade)
    BY <2>1, AppendProperties DEF PendingOrder
  <2>3. OnFill(order, act.trade) \in PendingOrder
    BY <2>2 DEF OnFill, PendingOrder, Terminal
  <2>4. /\ EntryOf(c, order, act).kind = "Filled"
        /\ EntryOf(c, order, act) \in JournalEntry
    BY <1>1, <2>1 DEF EntryOf, JournalEntry
  <2> QED BY <1>1, <2>3, <2>4 DEF Applied
<1>2. CASE act.kind # "ApplyFill"
  <2>1. act.kind \in {"ApplyAck", "ApplyCancel", "ApplyReject", "ApplyExpire"}
    BY <1>2 DEF SmAction
  <2>2. /\ Settles[act.kind] \in {"New"} \cup Terminal
        /\ Records[act.kind] \in {"Acknowledged", "Cancelled", "Rejected", "Expired"}
    BY <2>1 DEF Settles, Records, Terminal
  <2>3. Applied(order, act) = [order EXCEPT !.status = Settles[act.kind]]
    BY <1>2 DEF Applied
  <2>4. EntryOf(c, order, act) = [kind |-> Records[act.kind], cloid |-> c]
    BY <1>2 DEF EntryOf
  <2>5. Applied(order, act) \in PendingOrder
    BY <2>2, <2>3 DEF PendingOrder
  <2> QED BY <2>2, <2>4, <2>5 DEF JournalEntry
<1> QED BY <1>1, <1>2

\* The first action of the list, and the entry that Apply writes of it.
LEMMA ApplyEntry ==
  ASSUME TypeOK, Apply
  PROVE  \E e \in JournalEntry :
            /\ Persist(e) \/ PersistFails(e)
            /\ e.kind # "Requested"
            /\ orders' \in [Cloid -> PendingOrder]
            /\ todo' \in Seq(Todo)
            /\ dropped' \subseteq Cloid
<1> DEFINE c == todo[1].cloid
           act == todo[1].act
           e == EntryOf(c, orders[c], act)
<1>1. todo \in Seq(Todo) /\ todo # <<>> /\ Len(todo) \in Nat /\ Len(todo) >= 1
  BY LenProperties, EmptySeq DEF Apply, TypeOK, Todo
<1>2. \A i \in 1 .. Len(todo) : todo[i] \in Todo
  BY <1>1, ElementOfSeq
<1>3. c \in Cloid /\ act \in SmAction /\ act.kind # "ScheduleStatusCheck"
  BY <1>1, <1>2 DEF Todo, Apply
<1>4. orders[c] \in PendingOrder
  BY <1>3 DEF TypeOK
<1>5. /\ Applied(orders[c], act) \in PendingOrder
      /\ e \in JournalEntry /\ e.kind # "Requested"
  BY <1>3, <1>4, AppliedTyped
<1>6. /\ orders' = [orders EXCEPT ![c] = Applied(@, act)]
      /\ \/ Persist(e) /\ todo' = Tail(todo) /\ dropped' = dropped
         \/ /\ PersistFails(e) /\ todo' = <<>>
            /\ dropped' = dropped \cup {todo[i].cloid : i \in 2 .. Len(todo)}
  BY DEF Apply, ApplyTo
<1> HIDE DEF e, act
<1>7. orders' \in [Cloid -> PendingOrder]
  BY <1>5, <1>6 DEF TypeOK
<1>8. todo' \in Seq(Todo)
  BY <1>1, <1>6, HeadTailProperties, EmptySeq
<1>9. dropped' \subseteq Cloid
  <2>1. {todo[i].cloid : i \in 2 .. Len(todo)} \subseteq Cloid
    BY <1>1, <1>2 DEF Todo
  <2>2. dropped \subseteq Cloid
    BY DEF TypeOK
  <2> QED BY <1>6, <2>1, <2>2
<1> QED BY <1>5, <1>6, <1>7, <1>8, <1>9

\* An action handed to the gateway keeps the types.
LEMMA ApplyTyped ==
  ASSUME TypeOK, Apply
  PROVE  TypeOK'
<1> USE DEF gateway, file, engine, history
<1>1. PICK e \in JournalEntry :
            /\ Persist(e) \/ PersistFails(e)
            /\ orders' \in [Cloid -> PendingOrder]
            /\ todo' \in Seq(Todo)
            /\ dropped' \subseteq Cloid
  BY ApplyEntry
<1>2. /\ journal' \in Seq(JournalEntry) /\ written' \in 0 .. Len(journal')
      /\ torn' \in BOOLEAN /\ failures' \in 0 .. MaxFailures
      /\ Len(journal') = Len(journal) + 1
  BY <1>1, AppendsEntry DEF Appended
<1>3. UNCHANGED <<up, replayed, next, sms, checks, venue, crashes, restored>>
  BY DEF Apply
<1>4. replayed' \in 0 .. Len(journal')
  <2>1. replayed \in 0 .. Len(journal) /\ Len(journal) \in Nat
    BY LenProperties DEF TypeOK
  <2> QED BY <1>2, <1>3, <2>1
<1> QED BY <1>1, <1>2, <1>3, <1>4 DEF TypeOK, Todo

\* What a crash leaves of the journal.
LEMMA Truncated ==
  ASSUME TypeOK, Crash
  PROVE  /\ journal' \in Seq(JournalEntry) /\ Len(journal') = written
         /\ \A i \in 1 .. written : journal'[i] = journal[i]
<1>1. journal \in Seq(JournalEntry) /\ written \in 0 .. Len(journal) /\ Len(journal) \in Nat
  BY LenProperties DEF TypeOK
<1>2. \A i \in 1 .. written : journal[i] \in JournalEntry
  BY <1>1, ElementOfSeq
<1>3. journal' = SubSeq(journal, 1, written) /\ written \in Int /\ 1 \in Int
  BY <1>1 DEF Crash
<1>4. /\ journal' \in Seq(JournalEntry)
      /\ Len(journal') = IF 1 <= written THEN written - 1 + 1 ELSE 0
      /\ \A i \in 1 .. written - 1 + 1 : journal'[i] = journal[1 + i - 1]
  BY <1>2, <1>3, SubSeqProperties
<1> QED BY <1>1, <1>4

\* A crash keeps the types.
LEMMA CrashTyped ==
  ASSUME TypeOK, Crash
  PROVE  TypeOK'
<1> USE DEF gateway, file, engine, history
<1>1. journal' \in Seq(JournalEntry) /\ Len(journal') = written
  BY Truncated
<1>2. written' = written /\ written \in Nat
  BY LenProperties DEF TypeOK, Crash
<1>3. /\ orders' \in [Cloid -> PendingOrder] /\ sms' \in [Cloid -> Sm]
      /\ checks' \in [Cloid -> Check]
  <2>1. Absent \in PendingOrder
    BY EmptySeq DEF Absent, PendingOrder
  <2>2. Untracked \in Sm
    BY EmptySeq DEF Untracked, NewSm, Sm
  <2> QED BY <2>1, <2>2 DEF Crash, Check, Do
<1>4. crashes' \in 0 .. MaxCrashes /\ next' \in 0 .. MaxCounter + 1
  BY FailureAssumption, CounterAssumption DEF Crash, TypeOK
<1>5. todo' \in Seq([cloid : Cloid, act : SmAction])
  BY EmptySeq DEF Crash
<1>6. up' = "Down" /\ replayed' = 0 /\ dropped' = {} /\ restored' = {}
      /\ UNCHANGED <<torn, venue, failures>>
  BY DEF Crash
<1> QED BY <1>1, <1>2, <1>3, <1>4, <1>5, <1>6 DEF TypeOK

\* One replayed entry keeps the types.
LEMMA ReplayTyped ==
  ASSUME TypeOK, Replay
  PROVE  TypeOK'
<1> USE DEF Starting, file, engine
<1> DEFINE e == journal[replayed + 1]
<1>1. journal \in Seq(JournalEntry) /\ replayed \in 0 .. Len(journal) /\ Len(journal) \in Nat
  BY LenProperties DEF TypeOK
<1>2. replayed + 1 \in 1 .. Len(journal)
  BY <1>1 DEF Replay
<1>3. e \in JournalEntry
  BY <1>1, <1>2, ElementOfSeq
<1>4. replayed' = replayed + 1 /\ orders' = ReplayEntry(orders, e)
      /\ restored' = restored \cup {e.cloid}
  BY DEF Replay
<1>5. e.cloid \in Cloid /\ e.kind \in {"Filled", "Requested", "Acknowledged", "Cancelled",
                                        "Rejected", "Expired"}
      /\ (e.kind = "Filled" => e.trade \in Trade)
  BY <1>3 DEF JournalEntry
<1> HIDE DEF e
<1>6. orders[e.cloid] \in PendingOrder
  BY <1>5 DEF TypeOK
<1>7. ReplayOpen(orders[e.cloid], e) \in PendingOrder \/ e.kind = "Requested"
  <2>1. CASE e.kind = "Filled"
    <3>1. Append(orders[e.cloid].fills, e.trade) \in Seq(Trade)
      BY <1>5, <1>6, <2>1, AppendProperties DEF PendingOrder
    <3>2. ReplayFill(orders[e.cloid], e) \in PendingOrder
      BY <3>1 DEF ReplayFill, PendingOrder, Terminal
    <3> QED BY <2>1, <3>2 DEF ReplayOpen
  <2>2. CASE e.kind \in {"Acknowledged", "Cancelled", "Rejected", "Expired"}
    BY <1>6, <2>2 DEF ReplayOpen, PendingOrder, Terminal
  <2> QED BY <1>5, <2>1, <2>2
<1>8. NewPending \in PendingOrder
  BY EmptySeq DEF NewPending, PendingOrder
<1>9. orders' \in [Cloid -> PendingOrder]
  BY <1>4, <1>5, <1>7, <1>8 DEF ReplayEntry, TypeOK
<1>10. restored' \subseteq Cloid
  BY <1>4, <1>5 DEF TypeOK
<1>11. UNCHANGED <<up, next, journal, written, torn, sms, checks, todo, venue, failures,
                   crashes, dropped>>
  BY DEF Replay
<1>12. replayed' \in 0 .. Len(journal)
  BY <1>1, <1>2, <1>4
<1> QED BY <1>9, <1>10, <1>11, <1>12 DEF TypeOK

\* Opening, and the end of the replay, keep the types.
LEMMA OpenTyped ==
  ASSUME TypeOK, Open \/ Restarted
  PROVE  TypeOK'
<1> USE DEF Starting, file, engine
<1>1. up' \in {"Refused", "Replaying", "Running"} /\ (next' = next \/ next' \in 0 .. MaxCounter + 1)
  BY DEF Open, Restarted, ResumesAt
<1>2. UNCHANGED <<replayed, orders, restored, journal, written, torn, sms, checks, todo,
                  venue, failures, crashes, dropped>>
  BY DEF Open, Restarted
<1> QED BY <1>1, <1>2 DEF TypeOK

\* Sending an order keeps the types.
LEMMA SendTyped ==
  ASSUME TypeOK, NEW c \in Cloid, Send(c)
  PROVE  TypeOK'
<1> USE DEF gateway, file, engine, history
<1>1. venue' \in [Cloid -> VenueOrder]
  BY DEF Send, Venue, VenueOrder, TypeOK
<1>2. UNCHANGED <<up, replayed, gateway, engine, todo, failures, crashes, history>>
  BY DEF Send, Venue
<1> QED BY <1>1, <1>2 DEF TypeOK

\* TypeOK is inductive.
LEMMA StepTyped == TypeOK /\ [Next]_vars => TypeOK'
<1> SUFFICES ASSUME TypeOK, [Next]_vars PROVE TypeOK'
  OBVIOUS
<1>1. CASE TaskNext
  BY <1>1, EnqueueTyped, TickTyped, ScheduleTyped, ApplyTyped, SendTyped, ReceiveTyped,
     ResolveTyped DEF TaskNext
<1>2. CASE \E c \in Cloid : VenueNext(c)
  BY <1>2, VenueTyped
<1>3. CASE Crash
  BY <1>3, CrashTyped
<1>4. CASE Open \/ Replay \/ Restarted
  BY <1>4, OpenTyped, ReplayTyped
<1>5. CASE UNCHANGED vars
  BY <1>5 DEF vars, gateway, file, engine, history, TypeOK
<1> QED BY <1>1, <1>2, <1>3, <1>4, <1>5 DEF Next

\* Every variable keeps its type, whatever is reported, fails or crashes: in
\* particular the engine keeps only machines of orders in play, and what it asks
\* of the gateway is what the gateway can do (machine.rs, gateway.rs).
THEOREM TypeCorrect == Spec => []TypeOK
BY StartsTyped, StepTyped, PTL DEF Spec

------------------------------------------------------------------------------
(***************************************************************************)
(* Client order ids are fresh.  An id can be used only below the counter   *)
(* of the generator, and no order is tracked or sent before its request is *)
(* in the file; so what a crash leaves of the journal names every order    *)
(* the exchange has seen.                                                  *)
(***************************************************************************)

\* The request of an order is in the file.
InFile(c) == \E i \in 1 .. written : journal[i] = RequestOf(c)

\* The inductive invariant.
IdInv ==
  /\ up = "Running" => \A c \in Requested(journal) : c < next
  /\ up # "Running" => \A c \in Cloid : sms[c].status = "Untracked"
  /\ \A c \in Cloid : sms[c].status # "Untracked" \/ venue[c].state # "Unsent" => InFile(c)

\* What is in the file stays there, as long as its entries do.
LEMMA FileStays ==
  ASSUME NEW c, InFile(c), written \in Nat, written' \in Nat, written' >= written,
         \A i \in 1 .. written : journal'[i] = journal[i]
  PROVE  InFile(c)'
<1>1. PICK i \in 1 .. written : journal[i] = RequestOf(c)
  BY DEF InFile
<1>2. i \in 1 .. written' /\ journal'[i] = RequestOf(c)
  BY <1>1
<1> QED BY <1>2 DEF InFile, RequestOf

\* An entry more adds at most the id it requests.
LEMMA RequestedGrows ==
  ASSUME TypeOK, NEW e \in JournalEntry, journal' = Append(journal, e)
  PROVE  /\ \A c \in Requested(journal') :
               c \in Requested(journal) \/ (e.kind = "Requested" /\ c = e.cloid)
         /\ \A i \in 1 .. Len(journal) : journal'[i] = journal[i]
         /\ journal'[Len(journal) + 1] = e
<1>1. journal \in Seq(JournalEntry) /\ Len(journal) \in Nat /\ DOMAIN journal = 1 .. Len(journal)
  BY LenProperties DEF TypeOK
<1>2. /\ journal' \in Seq(JournalEntry) /\ Len(journal') = Len(journal) + 1
      /\ \A i \in 1 .. Len(journal) : journal'[i] = journal[i]
      /\ journal'[Len(journal) + 1] = e
  BY <1>1, AppendProperties
<1>3. DOMAIN journal' = 1 .. Len(journal) + 1
  BY <1>2, LenProperties
<1>4. ASSUME NEW c \in Requested(journal')
      PROVE  c \in Requested(journal) \/ (e.kind = "Requested" /\ c = e.cloid)
  <2>1. PICK i \in DOMAIN journal' : journal'[i].kind = "Requested" /\ c = journal'[i].cloid
    BY <1>4 DEF Requested
  <2>2. i \in 1 .. Len(journal) \/ i = Len(journal) + 1
    BY <1>1, <1>3, <2>1
  <2>3. CASE i \in 1 .. Len(journal)
    BY <1>1, <1>2, <2>1, <2>3 DEF Requested
  <2>4. CASE i = Len(journal) + 1
    BY <1>2, <2>1, <2>4
  <2> QED BY <2>2, <2>3, <2>4
<1> QED BY <1>2, <1>4

\* What a request in the file means for the ids in the journal.
LEMMA InFileRequested ==
  ASSUME TypeOK, NEW c \in Cloid, InFile(c)
  PROVE  c \in Requested(journal)
<1>1. PICK i \in 1 .. written : journal[i] = RequestOf(c)
  BY DEF InFile
<1>2. DOMAIN journal = 1 .. Len(journal) /\ written \in 0 .. Len(journal) /\ Len(journal) \in Nat
  BY LenProperties DEF TypeOK
<1>3. i \in DOMAIN journal /\ journal[i].kind = "Requested" /\ journal[i].cloid = c
  BY <1>1, <1>2 DEF RequestOf
<1> QED BY <1>3 DEF Requested

\* A step that writes nothing and sends nothing keeps the invariant, if what
\* it tracks was tracked before.
LEMMA QuietStep ==
  ASSUME IdInv, UNCHANGED <<up, next, journal, written>>,
         \A c \in Cloid : sms'[c].status # "Untracked" => sms[c].status # "Untracked",
         \A c \in Cloid : venue'[c].state # "Unsent" => venue[c].state # "Unsent"
  PROVE  IdInv'
<1>1. \A c \in Cloid : InFile(c) => InFile(c)'
  BY DEF InFile, RequestOf
<1> QED BY <1>1 DEF IdInv

\* What the exchange does concerns orders sent before.
LEMMA VenueFresh ==
  ASSUME TypeOK, IdInv, NEW c \in Cloid, VenueNext(c)
  PROVE  IdInv'
<1> USE DEF gateway, file, engine, history
<1>0. venue \in [Cloid -> VenueOrder]
  BY DEF TypeOK
<1>1. ASSUME NEW k, venue[c].state # "Unsent", Venue(c, k)
      PROVE  IdInv'
  <2>1. \A d \in Cloid : venue'[d].state # "Unsent" => venue[d].state # "Unsent"
    BY <1>0, <1>1 DEF Venue
  <2>2. UNCHANGED <<up, next, journal, written, sms>>
    BY <1>1 DEF Venue
  <2> QED BY <2>1, <2>2, QuietStep
<1>2. CASE VenueAccept(c) \/ \E t \in Trade : VenueTrade(c, t)
  <2>1. \A d \in Cloid : venue'[d].state # "Unsent" => venue[d].state # "Unsent"
    BY <1>0, <1>2 DEF VenueAccept, VenueTrade
  <2>2. UNCHANGED <<up, next, journal, written, sms>>
    BY <1>2 DEF VenueAccept, VenueTrade
  <2> QED BY <2>1, <2>2, QuietStep
<1>3. CASE VenueCancel(c) \/ VenueExpire(c) \/ VenueReject(c)
  BY <1>1, <1>3 DEF VenueCancel, VenueExpire, VenueReject
<1>4. CASE Answer(c) \/ AnswerFail(c)
  <2>1. UNCHANGED <<up, next, journal, written, sms, venue>>
    BY <1>4 DEF Answer, AnswerFail, AnswerWith
  <2> QED BY <2>1, QuietStep
<1> QED BY <1>2, <1>3, <1>4 DEF VenueNext

\* The engine is fed only for tracked orders.
LEMMA FeedFresh ==
  ASSUME TypeOK, IdInv, NEW c \in Cloid, Receive(c) \/ Resolve(c)
  PROVE  IdInv'
<1> USE DEF gateway, file, engine, history
<1>1. PICK in : Feed(c, in)
  BY DEF Receive, Resolve
<1>2. /\ sms[c].status # "Untracked" /\ UNCHANGED <<up, next, journal, written, venue>>
      /\ \A d \in Cloid : d # c => sms'[d] = sms[d]
  BY <1>1 DEF Feed, TypeOK
<1> QED BY <1>2, QuietStep

\* An enqueue takes the next id, and tracks the order only with its request in the file.
LEMMA EnqueueFresh ==
  ASSUME TypeOK, IdInv, Enqueue \/ EnqueueFails
  PROVE  IdInv'
<1> USE DEF gateway, file, engine, history
<1> DEFINE e == RequestOf(next)
<1>1. next \in Cloid /\ next' = next + 1 /\ up = "Running" /\ up' = "Running" /\ venue' = venue
  BY DEF Enqueue, EnqueueFails, Idle
<1>2. e \in JournalEntry /\ e.cloid = next
  BY <1>1 DEF RequestOf, JournalEntry
<1>3. Persist(e) \/ PersistFails(e)
  BY DEF Enqueue, EnqueueFails
<1>4. /\ journal' = Append(journal, e) /\ written' >= written /\ written' \in 0 .. Len(journal')
      /\ Len(journal') = Len(journal) + 1
  BY <1>2, <1>3, AppendsEntry DEF Appended
<1>5. /\ \A c \in Requested(journal') :
            c \in Requested(journal) \/ (e.kind = "Requested" /\ c = e.cloid)
      /\ \A i \in 1 .. Len(journal) : journal'[i] = journal[i]
      /\ journal'[Len(journal) + 1] = e
  BY <1>2, <1>4, RequestedGrows
<1>6. written \in 0 .. Len(journal) /\ Len(journal) \in Nat
  BY LenProperties DEF TypeOK
<1>7. \A c \in Cloid : InFile(c) => InFile(c)'
  BY <1>4, <1>5, <1>6, FileStays
<1>8. \A c \in Requested(journal') : c < next'
  <2>1. next \in Nat /\ \A c \in Requested(journal) : c \in Int /\ c < next
    BY <1>1, CounterAssumption DEF IdInv, Cloid, TypeOK, Requested, JournalEntry
  <2> QED BY <1>1, <1>2, <1>5, <2>1
<1>9. \A c \in Cloid : sms'[c].status # "Untracked" \/ venue'[c].state # "Unsent" => InFile(c)'
  <2>1. CASE Enqueue
    <3>0. written' = Len(journal) + 1
      BY <1>4, <2>1 DEF Enqueue, Persist
    <3>1. \A c \in Cloid : c = next => InFile(c)'
      <4>1. Len(journal) + 1 \in 1 .. written' /\ journal'[Len(journal) + 1] = RequestOf(next)
        BY <1>5, <1>6, <3>0
      <4> QED BY <4>1 DEF InFile, RequestOf
    <3>2. \A c \in Cloid : c # next => sms'[c] = sms[c]
      BY <2>1 DEF Enqueue, TypeOK
    <3>3. \A c \in Cloid : c # next /\ (sms'[c].status # "Untracked" \/ venue'[c].state # "Unsent")
                             => InFile(c)
      BY <1>1, <3>2 DEF IdInv
    <3> QED BY <1>7, <3>1, <3>3
  <2>2. CASE EnqueueFails
    BY <1>1, <1>7, <2>2 DEF EnqueueFails, IdInv
  <2> QED BY <2>1, <2>2
<1> QED BY <1>1, <1>8, <1>9 DEF IdInv

\* No action of the gateway requests an order.
LEMMA ApplyFresh ==
  ASSUME TypeOK, IdInv, Apply
  PROVE  IdInv'
<1> USE DEF gateway, file, engine, history
<1>1. PICK e \in JournalEntry : (Persist(e) \/ PersistFails(e)) /\ e.kind # "Requested"
  BY ApplyEntry
<1>2. /\ journal' = Append(journal, e) /\ written' >= written /\ written' \in 0 .. Len(journal')
      /\ Len(journal') = Len(journal) + 1
  BY <1>1, AppendsEntry DEF Appended
<1>3. /\ \A c \in Requested(journal') : c \in Requested(journal)
      /\ \A i \in 1 .. Len(journal) : journal'[i] = journal[i]
  BY <1>1, <1>2, RequestedGrows
<1>4. written \in 0 .. Len(journal) /\ Len(journal) \in Nat
  BY LenProperties DEF TypeOK
<1>5. \A c \in Cloid : InFile(c) => InFile(c)'
  BY <1>2, <1>3, <1>4, FileStays
<1>6. UNCHANGED <<up, next, sms, venue>>
  BY DEF Apply
<1> QED BY <1>3, <1>5, <1>6 DEF IdInv

\* A crash keeps what is in the file.
LEMMA CrashFresh ==
  ASSUME TypeOK, IdInv, Crash
  PROVE  IdInv'
<1> USE DEF gateway, file, engine, history
<1>1. \A i \in 1 .. written : journal'[i] = journal[i]
  BY Truncated
<1>2. written' = written /\ written \in Nat
  BY LenProperties DEF Crash, TypeOK
<1>3. \A c \in Cloid : InFile(c) => InFile(c)'
  BY <1>1, <1>2, FileStays
<1>4. up' = "Down" /\ venue' = venue /\ sms' = [c \in Cloid |-> Untracked]
  BY DEF Crash
<1>5. \A c \in Cloid : sms'[c].status = "Untracked"
  BY <1>4 DEF Untracked, NewSm
<1> QED BY <1>3, <1>4, <1>5 DEF IdInv

\* IdInv is inductive.
LEMMA StepFresh == TypeOK /\ IdInv /\ [Next]_vars => IdInv'
<1> SUFFICES ASSUME TypeOK, IdInv, [Next]_vars PROVE IdInv'
  OBVIOUS
<1> USE DEF gateway, file, engine, history
<1>1. CASE Enqueue \/ EnqueueFails
  BY <1>1, EnqueueFresh
<1>2. CASE Tick
  <2>1. UNCHANGED <<up, next, journal, written, venue>>
        /\ \A c \in Cloid : sms'[c].status # "Untracked" => sms[c].status # "Untracked"
    BY <1>2 DEF Tick
  <2> QED BY <2>1, QuietStep
<1>3. CASE Schedule
  BY <1>3, QuietStep DEF Schedule
<1>4. CASE Apply
  BY <1>4, ApplyFresh
<1>5. ASSUME NEW c \in Cloid, Send(c)
      PROVE  IdInv'
  <2>1. /\ sms[c].status # "Untracked" /\ UNCHANGED <<up, next, journal, written, sms>>
        /\ \A d \in Cloid : d # c => venue'[d] = venue[d]
    BY <1>5 DEF Send, Venue, TypeOK
  <2>2. \A d \in Cloid : InFile(d) => InFile(d)'
    BY <2>1 DEF InFile, RequestOf
  <2> QED BY <2>1, <2>2 DEF IdInv
<1>6. CASE \E c \in Cloid : Receive(c) \/ Resolve(c)
  BY <1>6, FeedFresh
<1>7. CASE \E c \in Cloid : VenueNext(c)
  BY <1>7, VenueFresh
<1>8. CASE Crash
  BY <1>8, CrashFresh
<1>9. CASE Open \/ Replay \/ Restarted
  <2>1. UNCHANGED <<journal, written, sms, venue>> /\ up # "Running"
    BY <1>9 DEF Open, Replay, Restarted, Starting
  <2>2. \A c \in Cloid : InFile(c) => InFile(c)'
    BY <2>1 DEF InFile, RequestOf
  <2>3. up' = "Running" => \A c \in Requested(journal') : c < next'
    BY <1>9, <2>1 DEF Open, Replay, Restarted, ResumesAt, Starting
  <2> QED BY <2>1, <2>2, <2>3 DEF IdInv
<1>10. CASE UNCHANGED vars
  BY <1>10, QuietStep DEF vars
<1> QED BY <1>1, <1>2, <1>3, <1>4, <1>5, <1>6, <1>7, <1>8, <1>9, <1>10 DEF Next, TaskNext

\* IdInv holds at the start.
LEMMA StartsFresh == Init => IdInv
<1> SUFFICES ASSUME Init PROVE IdInv
  OBVIOUS
<1>1. Requested(journal) = {}
  BY DEF Init, Requested
<1>2. \A c \in Cloid : sms[c].status = "Untracked" /\ venue[c].state = "Unsent"
  BY DEF Init, Untracked, NewSm, Unsent
<1> QED BY <1>1, <1>2 DEF Init, IdInv

\* An id that the exchange or the journal may have seen is below the counter of
\* the generator, after any crash, replay and failed write: it is never given
\* again (cloid.rs:86, gateway.rs:395).
THEOREM IdsAreFresh == Spec => []FreshIds
<1>1. TypeOK /\ IdInv => FreshIds
  <2> SUFFICES ASSUME TypeOK, IdInv PROVE FreshIds
    OBVIOUS
  <2>1. \A c \in Cloid : venue[c].state # "Unsent" => c \in Requested(journal)
    BY InFileRequested DEF IdInv
  <2> QED BY <2>1 DEF IdInv, FreshIds
<1> QED BY <1>1, StartsFresh, StepFresh, TypeCorrect, PTL DEF Spec

------------------------------------------------------------------------------
(***************************************************************************)
(* Quantities.  Lots folds the sizes of a list of trades in an order that  *)
(* is not specified; for trades that are all different it is the number of *)
(* units in their set, so that a part of a set of trades is less than the  *)
(* whole.                                                                  *)
(***************************************************************************)

\* The units that the trades of a set are made of, and how many there are.
Units(T)  == UNION {{t} \X (1 .. Size[t]) : t \in T}
Weight(T) == Cardinality(Units(T))

\* A trade has as many units as its size.
LEMMA TradeUnits ==
  ASSUME NEW t \in Trade
  PROVE  IsFiniteSet({t} \X (1 .. Size[t])) /\ Cardinality({t} \X (1 .. Size[t])) = Size[t]
<1>1. Size[t] \in Nat \ {0}
  BY QuantityAssumption
<1>2. IsFiniteSet(1 .. Size[t]) /\ Cardinality(1 .. Size[t]) = Size[t]
  <2>1. Size[t] \in Int /\ 1 \in Int
    BY <1>1
  <2> QED BY <1>1, <2>1, FS_Interval
<1>3. IsFiniteSet({t}) /\ Cardinality({t}) = 1
  BY FS_Singleton
<1>4. /\ IsFiniteSet({t} \X (1 .. Size[t]))
      /\ Cardinality({t} \X (1 .. Size[t])) = Cardinality({t}) * Cardinality(1 .. Size[t])
  BY <1>2, <1>3, FS_Product
<1> QED BY <1>1, <1>2, <1>3, <1>4

\* A set of trades has finitely many units.
LEMMA WeightType ==
  ASSUME NEW T \in SUBSET Trade
  PROVE  IsFiniteSet(Units(T)) /\ Weight(T) \in Nat
<1> DEFINE blocks == {{t} \X (1 .. Size[t]) : t \in T}
           f == [t \in T |-> {t} \X (1 .. Size[t])]
<1>1. IsFiniteSet(T)
  BY QuantityAssumption, FS_Subset
<1>2. f \in Surjection(T, blocks)
  BY DEF Surjection
<1>3. IsFiniteSet(blocks)
  BY <1>1, <1>2, FS_Surjection
<1>4. \A B \in blocks : IsFiniteSet(B)
  BY TradeUnits
<1> HIDE DEF blocks
<1>5. IsFiniteSet(UNION blocks)
  BY <1>3, <1>4, FS_UNION
<1> QED BY <1>5, FS_CardinalityType DEF Units, Weight, blocks

\* No trades, no units.
LEMMA WeightOfNone == Weight({}) = 0
<1>1. Units({}) = {}
  BY DEF Units
<1> QED BY <1>1, FS_EmptySet DEF Weight

\* A trade more adds its size.
LEMMA WeightAdd ==
  ASSUME NEW T \in SUBSET Trade, NEW t \in Trade \ T
  PROVE  Weight(T \cup {t}) = Weight(T) + Size[t]
<1> DEFINE B == {t} \X (1 .. Size[t])
<1>1. Units(T \cup {t}) = Units(T) \cup B
  BY DEF Units
<1>2. Units(T) \cap B = {}
  BY DEF Units
<1>3. IsFiniteSet(Units(T)) /\ Weight(T) \in Nat
  BY WeightType
<1>4. IsFiniteSet(B) /\ Cardinality(B) = Size[t]
  BY TradeUnits
<1> HIDE DEF B
<1>5. Cardinality(Units(T) \cup B)
        = Cardinality(Units(T)) + Cardinality(B) - Cardinality(Units(T) \cap B)
  BY <1>3, <1>4, FS_Union
<1>6. Size[t] \in Nat /\ Cardinality(Units(T) \cap B) = 0
  BY <1>2, FS_EmptySet, QuantityAssumption
<1>7. Weight(T \cup {t}) = Cardinality(Units(T) \cup B) /\ Weight(T) = Cardinality(Units(T))
  BY <1>1 DEF Weight
<1>8. Weight(T) \in Nat
  BY <1>3
<1> HIDE DEF Weight
<1> QED BY <1>4, <1>5, <1>6, <1>7, <1>8

\* More trades, more units.
LEMMA WeightGrows ==
  ASSUME NEW U \in SUBSET Trade, NEW T \in SUBSET U
  PROVE  Weight(T) <= Weight(U) /\ (T # U => Weight(T) < Weight(U))
<1>1. \A V \in SUBSET U : V \in SUBSET Trade /\ Weight(V) <= Weight(U) /\ Weight(V) \in Nat
  <2> SUFFICES ASSUME NEW V \in SUBSET U
               PROVE  V \in SUBSET Trade /\ Weight(V) <= Weight(U) /\ Weight(V) \in Nat
    OBVIOUS
  <2>1. Units(V) \in SUBSET Units(U) /\ V \in SUBSET Trade
    BY DEF Units
  <2>2. IsFiniteSet(Units(U)) /\ Weight(V) \in Nat
    BY <2>1, WeightType
  <2> QED BY <2>1, <2>2, FS_Subset DEF Weight
<1>2. ASSUME T # U PROVE Weight(T) < Weight(U)
  <2>1. PICK t \in U : t \notin T
    BY <1>2
  <2>2. T \cup {t} \in SUBSET U /\ t \in Trade \ T /\ T \in SUBSET Trade
    BY <2>1
  <2>3. Weight(T \cup {t}) = Weight(T) + Size[t]
    BY <2>2, WeightAdd
  <2>4. Weight(T \cup {t}) <= Weight(U) /\ Weight(T) \in Nat /\ Weight(U) \in Nat
    BY <1>1, <2>2
  <2>5. Size[t] \in Nat \ {0}
    BY <2>1, QuantityAssumption
  <2> QED BY <2>3, <2>4, <2>5
<1> QED BY <1>1, <1>2

\* The fold, of whatever order of the elements, by induction on the subsets of
\* the positions: a smallest set on which it were wrong would have a smaller one.
LEMMA LotsAreWeight ==
  ASSUME NEW s \in Seq(Trade), IsInjective(s)
  PROVE  Lots(s) = Weight(ToSet(s))
<1> DEFINE S == DOMAIN s
           part(D) == {s[i] : i \in D}
           body(g) == [D \in SUBSET S |->
                         IF D = {} THEN 0
                         ELSE LET x == CHOOSE y \in D : TRUE
                              IN  Size[s[x]] + g[D \ {x}]]
           z == [D \in SUBSET S |-> Weight(part(D))]
           iter == CHOOSE g : g = body(g)
<1>1. S = 1 .. Len(s) /\ Len(s) \in Nat /\ \A i \in S : s[i] \in Trade
  BY LenProperties, ElementOfSeq
<1>2. IsFiniteSet(S)
  <2>1. 1 \in Int /\ Len(s) \in Int
    BY <1>1
  <2> QED BY <1>1, <2>1, FS_Interval
<1>3. ASSUME NEW D \in SUBSET S, NEW x \in D
      PROVE  Weight(part(D)) = Size[s[x]] + Weight(part(D \ {x}))
  <2>1. part(D) = part(D \ {x}) \cup {s[x]} /\ s[x] \notin part(D \ {x})
    BY DEF IsInjective
  <2>2. part(D \ {x}) \in SUBSET Trade /\ s[x] \in Trade
    BY <1>1
  <2> HIDE DEF part
  <2>3. Weight(part(D)) = Weight(part(D \ {x})) + Size[s[x]] /\ Weight(part(D \ {x})) \in Nat
    BY <2>1, <2>2, WeightAdd, WeightType
  <2>4. Size[s[x]] \in Nat
    BY <2>2, QuantityAssumption
  <2> QED BY <2>3, <2>4
<1>4. Weight(part({})) = 0
  BY WeightOfNone
<1>5. z = body(z)
  <2>1. \A D \in SUBSET S : z[D] = body(z)[D]
    <3> SUFFICES ASSUME NEW D \in SUBSET S PROVE z[D] = body(z)[D]
      OBVIOUS
    <3>1. CASE D = {}
      BY <3>1, <1>4
    <3>2. CASE D # {}
      <4> DEFINE x == CHOOSE y \in D : TRUE
      <4>1. x \in D /\ D \ {x} \in SUBSET S
        BY <3>2
      <4>2. body(z)[D] = Size[s[x]] + z[D \ {x}]
        BY <3>2
      <4> HIDE DEF x, body, part
      <4> QED BY <4>1, <4>2, <1>3
    <3> QED BY <3>1, <3>2
  <2> HIDE DEF S, part
  <2> QED BY <2>1
<1>6. iter = body(iter)
  <2>1. \E g : g = body(g)
    BY <1>5
  <2> HIDE DEF body
  <2> QED BY <2>1
<1> DEFINE Bad == {D \in SUBSET S : iter[D] # Weight(part(D))}
<1>7. Bad = {}
  <2> SUFFICES ASSUME Bad # {} PROVE FALSE
    OBVIOUS
  <2>1. IsWellFoundedOn(StrictSubsetOrdering(S), SUBSET S)
    BY <1>2, FS_StrictSubsetOrderingWellFounded, FS_FiniteSubsetsOfFinite
  <2>2. Bad \subseteq SUBSET S
    OBVIOUS
  <2>3. PICK D \in Bad : \A E \in Bad : ~ (<<E, D>> \in StrictSubsetOrdering(S))
    <3> HIDE DEF Bad
    <3> QED BY <2>1, <2>2, WFMin
  <2>4. D \in SUBSET S /\ iter[D] # Weight(part(D))
    BY <2>3
  <2>5. iter[D] = body(iter)[D]
    <3> HIDE DEF body, iter
    <3> QED BY <1>6
  <2>6. D # {}
    <3>1. D = {} => body(iter)[D] = 0
      BY <2>4
    <3> HIDE DEF body, iter, part
    <3> QED BY <3>1, <2>4, <2>5, <1>4
  <2> DEFINE x == CHOOSE y \in D : TRUE
  <2>7. x \in D /\ D \ {x} \in SUBSET S
    BY <2>4, <2>6
  <2>8. body(iter)[D] = Size[s[x]] + iter[D \ {x}]
    <3> HIDE DEF iter
    <3> QED BY <2>4, <2>6
  <2>9. <<D \ {x}, D>> \in StrictSubsetOrdering(S)
    BY <2>4, <2>7 DEF StrictSubsetOrdering
  <2>10. iter[D \ {x}] = Weight(part(D \ {x}))
    <3> HIDE DEF iter, part, x
    <3> QED BY <2>3, <2>7, <2>9
  <2> HIDE DEF iter, part, x, body
  <2> QED BY <2>4, <2>5, <2>7, <2>8, <2>10, <1>3
<1>8. Lots(s) = iter[S]
  BY Zenon DEF Lots, FoldSeq, FoldFunction, FoldFunctionOnSet, MapThenFoldSet
<1>9. part(S) = ToSet(s)
  BY DEF ToSet
<1> HIDE DEF iter, part, S
<1> QED BY <1>7, <1>8, <1>9

------------------------------------------------------------------------------
(***************************************************************************)
(* The replay.  Replayed folds the entries from the left; an entry more is *)
(* one step of replay_journal more.                                        *)
(***************************************************************************)

\* Induction over the naturals, for a set: no number is the least one missing.
LEMMA NatSetInduction ==
  ASSUME NEW T, 0 \in T, \A n \in Nat : n \in T => n + 1 \in T
  PROVE  \A n \in Nat : n \in T
<1> SUFFICES ASSUME Nat \ T # {} PROVE FALSE
  OBVIOUS
<1>1. PICK m \in Nat \ T : \A k \in Nat \ T : ~ (<<k, m>> \in OpToRel(<, Nat))
  <2>1. IsWellFoundedOn(OpToRel(<, Nat), Nat) /\ Nat \ T \subseteq Nat
    BY NatLessThanWellFounded
  <2> QED BY <2>1, WFMin
<1>2. m # 0 /\ m - 1 \in Nat /\ m - 1 < m /\ (m - 1) + 1 = m
  <2>1. m \in Nat /\ m \notin T
    OBVIOUS
  <2> QED BY <2>1
<1>3. m - 1 \notin T
  BY <1>1, <1>2
<1>4. <<m - 1, m>> \in OpToRel(<, Nat)
  BY <1>2 DEF OpToRel
<1> QED BY <1>1, <1>2, <1>3, <1>4

\* The gateway before any entry is replayed.
NoOrders == [c \in Cloid |-> Absent]

\* g folds the entries at every set of the first n positions.
FoldBody(s, n, g) ==
  [D \in SUBSET (1 .. n) |->
     IF D = {} THEN NoOrders ELSE ReplayEntry(g[D \ {Max(D)}], s[Max(D)])]
FoldsTo(s, n, g) == g = FoldBody(s, n, g)

\* A set of the first n + 1 positions, with or without the last one.
LEMMA LastPosition ==
  ASSUME NEW n \in Nat, NEW D \in SUBSET (1 .. n + 1)
  PROVE  /\ n + 1 \in D => Max(D) = n + 1 /\ D \ {Max(D)} \in SUBSET (1 .. n)
         /\ n + 1 \notin D => D \in SUBSET (1 .. n)
<1>1. ASSUME n + 1 \in D PROVE Max(D) = n + 1 /\ D \ {Max(D)} \in SUBSET (1 .. n)
  <2>1. \A y \in D : y \in Int /\ n + 1 >= y
    OBVIOUS
  <2>2. \A x \in D : (\A y \in D : x >= y) => x = n + 1
    BY <1>1, <2>1
  <2>3. Max(D) = n + 1
    BY <1>1, <2>1, <2>2 DEF Max
  <2> QED BY <2>3
<1> QED BY <1>1

\* The largest position of a set is one of it.
LEMMA LargestIsIn ==
  ASSUME NEW n \in Nat, NEW D \in SUBSET (1 .. n), D # {}
  PROVE  Max(D) \in D
<1> DEFINE T == {k \in Nat : \A E \in SUBSET (1 .. k) : E = {} \/ \E x \in E : \A y \in E : x >= y}
<1>1. 0 \in T
  OBVIOUS
<1>2. ASSUME NEW k \in Nat, k \in T PROVE k + 1 \in T
  <2> SUFFICES ASSUME NEW E \in SUBSET (1 .. k + 1), E # {}
               PROVE  \E x \in E : \A y \in E : x >= y
    OBVIOUS
  <2>1. CASE k + 1 \in E
    <3>1. \A y \in E : k + 1 >= y
      OBVIOUS
    <3> QED BY <2>1, <3>1
  <2>2. CASE k + 1 \notin E
    <3>1. E \in SUBSET (1 .. k)
      BY <2>2
    <3> QED BY <1>2, <3>1
  <2> QED BY <2>1, <2>2
<1>3. n \in T
  <2> HIDE DEF T
  <2> QED BY <1>1, <1>2, NatSetInduction
<1>4. \E x \in D : \A y \in D : x >= y
  BY <1>3
<1> QED BY <1>4 DEF Max

\* What folds n + 1 entries folds the first n of them.
LEMMA FoldRestricts ==
  ASSUME NEW s, NEW r, NEW n \in Nat, NEW g, FoldsTo(s, n + 1, g),
         \A i \in 1 .. n : r[i] = s[i],
         NEW h, h = [D \in SUBSET (1 .. n) |-> g[D]]
  PROVE  FoldsTo(r, n, h)
<1>1. ASSUME NEW D \in SUBSET (1 .. n)
      PROVE  h[D] = FoldBody(r, n, h)[D]
  <2>1. D \in SUBSET (1 .. n + 1)
    OBVIOUS
  <2>2. g[D] = IF D = {} THEN NoOrders ELSE ReplayEntry(g[D \ {Max(D)}], s[Max(D)])
    BY <2>1 DEF FoldsTo, FoldBody
  <2>3. CASE D = {}
    BY <2>2, <2>3 DEF FoldBody
  <2>4. CASE D # {}
    <3>1. D \ {Max(D)} \in SUBSET (1 .. n)
      OBVIOUS
    <3>2. r[Max(D)] = s[Max(D)]
      BY <2>4, LargestIsIn
    <3>3. h[D] = ReplayEntry(h[D \ {Max(D)}], r[Max(D)])
      BY <2>2, <2>4, <3>1, <3>2
    <3> QED BY <2>4, <3>3 DEF FoldBody
  <2> QED BY <2>3, <2>4
<1>2. h = [D \in SUBSET (1 .. n) |-> h[D]]
  OBVIOUS
<1> QED BY <1>1, <1>2 DEF FoldsTo, FoldBody

\* The entries have exactly one fold.
LEMMA FoldExists ==
  ASSUME NEW s
  PROVE  \A n \in Nat : /\ \E g : FoldsTo(s, n, g)
                        /\ \A g, h : FoldsTo(s, n, g) /\ FoldsTo(s, n, h) => g = h
<1> DEFINE T == {n \in Nat : /\ \E g : FoldsTo(s, n, g)
                             /\ \A g, h : FoldsTo(s, n, g) /\ FoldsTo(s, n, h) => g = h}
<1>1. 0 \in T
  <2>1. \A D \in SUBSET (1 .. 0) : D = {}
    OBVIOUS
  <2>2. \A g : FoldsTo(s, 0, g) => g = [D \in SUBSET (1 .. 0) |-> NoOrders]
    BY <2>1 DEF FoldsTo, FoldBody
  <2>3. FoldsTo(s, 0, [D \in SUBSET (1 .. 0) |-> NoOrders])
    BY <2>1 DEF FoldsTo, FoldBody
  <2> QED BY <2>2, <2>3
<1>2. ASSUME NEW n \in Nat, n \in T PROVE n + 1 \in T
  <2>1. PICK g : FoldsTo(s, n, g)
    BY <1>2
  <2>2. \A h, k : FoldsTo(s, n, h) /\ FoldsTo(s, n, k) => h = k
    BY <1>2
  <2> DEFINE h == [D \in SUBSET (1 .. n + 1) |->
                     IF n + 1 \in D THEN ReplayEntry(g[D \ {n + 1}], s[n + 1]) ELSE g[D]]
  <2>3. FoldsTo(s, n + 1, h)
    <3>1. ASSUME NEW D \in SUBSET (1 .. n + 1)
          PROVE  h[D] = FoldBody(s, n + 1, h)[D]
      <4>1. CASE n + 1 \in D
        <5>1. Max(D) = n + 1 /\ D \ {n + 1} \in SUBSET (1 .. n) /\ D # {}
              /\ n + 1 \notin D \ {n + 1} /\ D \ {n + 1} \in SUBSET (1 .. n + 1)
          BY <4>1, LastPosition
        <5>2. h[D] = ReplayEntry(h[D \ {n + 1}], s[n + 1])
          BY <4>1, <5>1
        <5> HIDE DEF h
        <5> QED BY <5>1, <5>2 DEF FoldBody
      <4>2. CASE n + 1 \notin D
        <5>1. D \in SUBSET (1 .. n)
          BY <4>2, LastPosition
        <5>2. g[D] = IF D = {} THEN NoOrders ELSE ReplayEntry(g[D \ {Max(D)}], s[Max(D)])
          BY <2>1, <5>1 DEF FoldsTo, FoldBody
        <5>3. h[D] = g[D] /\ h[D \ {Max(D)}] = g[D \ {Max(D)}]
          BY <4>2
        <5> HIDE DEF h
        <5> QED BY <5>2, <5>3 DEF FoldBody
      <4> QED BY <4>1, <4>2
    <3>2. h = [D \in SUBSET (1 .. n + 1) |-> h[D]]
      OBVIOUS
    <3> HIDE DEF h
    <3> QED BY <3>1, <3>2 DEF FoldsTo, FoldBody
  <2>4. ASSUME NEW k, NEW l, FoldsTo(s, n + 1, k), FoldsTo(s, n + 1, l) PROVE k = l
    <3>1. \A D \in SUBSET (1 .. n) : k[D] = l[D]
      <4> DEFINE kk == [D \in SUBSET (1 .. n) |-> k[D]]
                 ll == [D \in SUBSET (1 .. n) |-> l[D]]
      <4>1. FoldsTo(s, n, kk) /\ FoldsTo(s, n, ll)
        <5>1. kk = [D \in SUBSET (1 .. n) |-> k[D]] /\ ll = [D \in SUBSET (1 .. n) |-> l[D]]
          OBVIOUS
        <5> HIDE DEF kk, ll
        <5> QED BY <2>4, <5>1, FoldRestricts
      <4>2. kk = ll
        <5> HIDE DEF kk, ll
        <5> QED BY <4>1, <2>2
      <4>3. \A D \in SUBSET (1 .. n) : kk[D] = ll[D]
        BY <4>2
      <4> QED BY <4>3
    <3>2. ASSUME NEW D \in SUBSET (1 .. n + 1) PROVE k[D] = l[D]
      <4>1. CASE n + 1 \in D
        <5>1. Max(D) = n + 1 /\ D \ {n + 1} \in SUBSET (1 .. n) /\ D # {}
          BY <4>1, LastPosition
        <5>2. k[D] = ReplayEntry(k[D \ {n + 1}], s[n + 1]) /\ l[D] = ReplayEntry(l[D \ {n + 1}], s[n + 1])
          BY <2>4, <5>1 DEF FoldsTo, FoldBody
        <5> QED BY <3>1, <5>1, <5>2
      <4>2. CASE n + 1 \notin D
        BY <4>2, <3>1, LastPosition
      <4> QED BY <4>1, <4>2
    <3>3. k = [D \in SUBSET (1 .. n + 1) |-> k[D]] /\ l = [D \in SUBSET (1 .. n + 1) |-> l[D]]
      BY <2>4 DEF FoldsTo, FoldBody
    <3> QED BY <3>2, <3>3
  <2> HIDE DEF h
  <2> QED BY <2>3, <2>4
<1> HIDE DEF T
<1>3. \A n \in Nat : n \in T
  BY <1>1, <1>2, NatSetInduction
<1> QED BY <1>3 DEF T

\* What Replayed is: the fold at all positions.
LEMMA ReplayedIsFold ==
  ASSUME NEW s \in Seq(JournalEntry), NEW g, FoldsTo(s, Len(s), g)
  PROVE  Replayed(s) = g[1 .. Len(s)]
<1> DEFINE S == DOMAIN s
           body(h) == [D \in SUBSET S |->
                         IF D = {} THEN NoOrders
                         ELSE LET x == Max(D)
                              IN  ReplayEntry(h[D \ {x}], s[x])]
           iter == CHOOSE h : h = body(h)
<1>1. S = 1 .. Len(s) /\ Len(s) \in Nat
  BY LenProperties
<1>2. Replayed(s) = iter[S]
  BY Zenon DEF Replayed, FoldLeft, MapThenFoldSet, NoOrders
<1>3. \A h : body(h) = FoldBody(s, Len(s), h)
  BY <1>1 DEF FoldBody
<1>4. iter = body(iter)
  <2>1. g = body(g)
    BY <1>3 DEF FoldsTo
  <2> HIDE DEF body
  <2> QED BY <2>1
<1> HIDE DEF body, iter
<1>5. FoldsTo(s, Len(s), iter)
  BY <1>3, <1>4 DEF FoldsTo
<1>6. iter = g
  BY <1>1, <1>5, FoldExists
<1> QED BY <1>1, <1>2, <1>6

\* Nothing recorded, no orders.
LEMMA ReplayedNothing == Replayed(<<>>) = NoOrders
<1>1. <<>> \in Seq(JournalEntry) /\ Len(<<>>) = 0
  BY EmptySeq
<1>2. PICK g : FoldsTo(<<>>, 0, g)
  BY FoldExists
<1>3. Replayed(<<>>) = g[1 .. 0]
  BY <1>1, <1>2, ReplayedIsFold
<1>4. g[{}] = NoOrders
  BY <1>2 DEF FoldsTo, FoldBody
<1>5. 1 .. 0 = {}
  OBVIOUS
<1> QED BY <1>3, <1>4, <1>5

\* An entry more is replayed last (gateway.rs:300).
LEMMA ReplayedAppend ==
  ASSUME NEW s \in Seq(JournalEntry), NEW e \in JournalEntry
  PROVE  Replayed(Append(s, e)) = ReplayEntry(Replayed(s), e)
<1> DEFINE r == Append(s, e)
           n == Len(s)
<1>1. /\ r \in Seq(JournalEntry) /\ Len(r) = n + 1 /\ n \in Nat
      /\ \A i \in 1 .. n : r[i] = s[i]
      /\ r[n + 1] = e
      /\ n + 1 \in Nat /\ \A i \in 1 .. n : s[i] = r[i]
  BY AppendProperties, LenProperties
<1> HIDE DEF r, n
<1>2. PICK g : FoldsTo(r, n + 1, g)
  BY <1>1, FoldExists
<1> DEFINE h == [D \in SUBSET (1 .. n) |-> g[D]]
<1>3. FoldsTo(s, n, h)
  <2>1. n \in Nat /\ \A i \in 1 .. n : s[i] = r[i]
    BY <1>1
  <2>2. h = [D \in SUBSET (1 .. n) |-> g[D]]
    OBVIOUS
  <2> HIDE DEF h
  <2> QED BY <1>2, <2>1, <2>2, FoldRestricts
<1>4. Replayed(r) = g[1 .. n + 1]
  BY <1>1, <1>2, ReplayedIsFold
<1>5. Replayed(s) = g[1 .. n]
  <2>1. Replayed(s) = h[1 .. n]
    <3> HIDE DEF h
    <3> QED BY <1>3, ReplayedIsFold DEF n
  <2> QED BY <2>1
<1>6. g[1 .. n + 1] = ReplayEntry(g[1 .. n], e)
  <2> DEFINE D == 1 .. n + 1
  <2>0. n \in Nat
    BY <1>1
  <2>1. D \in SUBSET (1 .. n + 1) /\ n + 1 \in D /\ D # {}
    <3>1. n + 1 \in 1 .. n + 1
      BY <2>0
    <3> QED BY <3>1
  <2>2. Max(D) = n + 1
    BY <1>1, <2>1, LastPosition
  <2>3. D \ {n + 1} = 1 .. n
    BY <1>1
  <2> HIDE DEF D
  <2>4. g[D] = ReplayEntry(g[D \ {Max(D)}], r[Max(D)])
    BY <1>2, <2>1 DEF FoldsTo, FoldBody
  <2> QED BY <1>1, <2>2, <2>3, <2>4 DEF D
<1> QED BY <1>4, <1>5, <1>6 DEF r

------------------------------------------------------------------------------
(***************************************************************************)
(* The journal.  Every prefix of it rebuilds orders that its entries       *)
(* describe, and every entry was legal when it was written.                *)
(***************************************************************************)

\* The orders that the first k entries of a journal rebuild, and the entries
\* about an order among them.
After(j, k)      == Replayed(SubSeq(j, 1, k))
Entries(j, c, k) == {j[i] : i \in {h \in 1 .. k : j[h].cloid = c}}

\* What the entries E about an order say it is.
Describes(E, o) ==
  /\ o.status = "Absent" <=> E = {}
  /\ o.status = "Pending" => \A b \in E : b.kind = "Requested"
  /\ o.status \in {"New", "PartiallyFilled"} => \E b \in E : b.kind = "Acknowledged"
  /\ IsOpen(o) => \A b \in E : ~History!Closes(b)
  /\ \A t \in Trade : t \in ToSet(o.fills) <=> \E b \in E : b.kind = "Filled" /\ b.trade = t
  /\ IsInjective(o.fills)

\* The entry may follow the entries E about its order.
LegalAfter(e, E) ==
  CASE e.kind = "Requested"    -> E = {}
    [] e.kind = "Acknowledged" -> E # {} /\ \A b \in E : b.kind = "Requested"
    [] e.kind = "Filled"       -> /\ \E b \in E : b.kind = "Acknowledged"
                                  /\ \A b \in E : /\ ~History!Closes(b)
                                                  /\ b.kind = "Filled" => b.trade # e.trade
    [] OTHER                   -> E # {} /\ \A b \in E : ~History!Closes(b)

\* The first k entries rebuild orders that they describe.
Rebuilds(j, k) ==
  /\ After(j, k) \in [Cloid -> PendingOrder]
  /\ \A c \in Cloid : Describes(Entries(j, c, k), After(j, k)[c])

\* Entry k was legal when it was written, and its order had been requested.
Lawful(j, k) ==
  /\ LegalAfter(j[k], Entries(j, j[k].cloid, k - 1))
  /\ \E i \in 1 .. k : j[i] = RequestOf(j[k].cloid)

\* All of this for every prefix and every entry.
LegalJournal(j) == /\ \A k \in 0 .. Len(j) : Rebuilds(j, k)
                   /\ \A k \in 1 .. Len(j) : Lawful(j, k)

\* What an order becomes by an entry about it.
Next1(o, e) == IF e.kind = "Requested" THEN NewPending
               ELSE IF IsOpen(o) THEN ReplayOpen(o, e) ELSE o

\* A list and one element more: its elements, and that they differ.
LEMMA AppendSet ==
  ASSUME NEW S, NEW s \in Seq(S), NEW x \in S
  PROVE  /\ ToSet(Append(s, x)) = ToSet(s) \cup {x}
         /\ IsInjective(s) /\ x \notin ToSet(s) => IsInjective(Append(s, x))
<1> DEFINE r == Append(s, x)
<1>1. /\ Len(s) \in Nat /\ DOMAIN s = 1 .. Len(s) /\ DOMAIN r = 1 .. Len(s) + 1
      /\ \A i \in 1 .. Len(s) : r[i] = s[i]
      /\ r[Len(s) + 1] = x
  BY AppendProperties, LenProperties
<1> HIDE DEF r
<1>2. ToSet(r) = ToSet(s) \cup {x}
  <2>1. Len(s) + 1 \in DOMAIN r /\ \A i \in DOMAIN s : i \in DOMAIN r
    BY <1>1
  <2>2. \A i \in DOMAIN r : i \in DOMAIN s \/ i = Len(s) + 1
    BY <1>1
  <2> QED BY <1>1, <2>1, <2>2 DEF ToSet
<1>3. ASSUME IsInjective(s), x \notin ToSet(s) PROVE IsInjective(r)
  <2>1. \A i \in DOMAIN s : s[i] # x
    BY <1>3 DEF ToSet
  <2>2. \A i \in DOMAIN r : i \in DOMAIN s \/ i = Len(s) + 1
    BY <1>1
  <2> QED BY <1>1, <1>3, <2>1, <2>2 DEF IsInjective
<1> QED BY <1>2, <1>3 DEF r

\* A list without elements.
LEMMA EmptySet == ToSet(<<>>) = {} /\ IsInjective(<<>>)
BY DEF ToSet, IsInjective

\* An order and the entry that changes it are of their types.
LEMMA EntryTyped ==
  ASSUME NEW o \in PendingOrder, NEW e \in JournalEntry
  PROVE  Next1(o, e) \in PendingOrder
<1>1. CASE e.kind = "Requested"
  BY <1>1, EmptySeq DEF Next1, NewPending, PendingOrder
<1>2. CASE e.kind = "Filled"
  <2>1. e.trade \in Trade
    BY <1>2 DEF JournalEntry
  <2>2. Append(o.fills, e.trade) \in Seq(Trade)
    BY <2>1, AppendProperties DEF PendingOrder
  <2>3. ReplayFill(o, e) \in PendingOrder
    BY <2>2 DEF ReplayFill, PendingOrder, Terminal
  <2> QED BY <1>2, <2>3 DEF Next1, ReplayOpen
<1>3. CASE e.kind \in {"Acknowledged", "Cancelled", "Rejected", "Expired"}
  BY <1>3 DEF Next1, ReplayOpen, PendingOrder, Terminal
<1> QED BY <1>1, <1>2, <1>3 DEF JournalEntry

\* One entry replayed (gateway.rs:300).
LEMMA ReplayOne ==
  ASSUME NEW os \in [Cloid -> PendingOrder], NEW e \in JournalEntry
  PROVE  /\ ReplayEntry(os, e) = [os EXCEPT ![e.cloid] = Next1(@, e)]
         /\ ReplayEntry(os, e) \in [Cloid -> PendingOrder]
         /\ e.cloid \in Cloid
<1>1. e.cloid \in Cloid
  BY DEF JournalEntry
<1>2. Next1(os[e.cloid], e) \in PendingOrder
  BY <1>1, EntryTyped
<1>3. ReplayEntry(os, e) = [os EXCEPT ![e.cloid] = Next1(@, e)]
  <2>1. CASE e.kind = "Requested"
    BY <2>1 DEF ReplayEntry, Next1
  <2>2. CASE e.kind # "Requested" /\ IsOpen(os[e.cloid])
    BY <2>2 DEF ReplayEntry, Next1
  <2>3. CASE e.kind # "Requested" /\ ~IsOpen(os[e.cloid])
    <3>1. ReplayEntry(os, e) = os /\ Next1(os[e.cloid], e) = os[e.cloid]
      BY <2>3 DEF ReplayEntry, Next1
    <3> QED BY <3>1, <1>1
  <2> QED BY <2>1, <2>2, <2>3
<1> QED BY <1>1, <1>2, <1>3

\* A legal entry leaves an order that the entries describe.
LEMMA DescribesNext ==
  ASSUME NEW o \in PendingOrder, NEW E, NEW e \in JournalEntry,
         Describes(E, o), LegalAfter(e, E), e.kind = "Requested" \/ IsOpen(o)
  PROVE  Describes(E \cup {e}, Next1(o, e))
<1> DEFINE n == Next1(o, e)
<1>0. o.fills \in Seq(Trade)
  BY DEF PendingOrder
<1>1. CASE e.kind = "Requested"
  <2>1. n = NewPending /\ E = {}
    BY <1>1 DEF Next1, LegalAfter
  <2>2. ToSet(n.fills) = {} /\ IsInjective(n.fills) /\ n.status = "Pending"
    BY <2>1, EmptySet DEF NewPending
  <2>3. ~History!Closes(e)
    BY <1>1 DEF History!Closes
  <2> HIDE DEF n
  <2> QED BY <1>1, <2>1, <2>2, <2>3 DEF Describes, n
<1>2. CASE e.kind = "Filled"
  <2>1. n = ReplayFill(o, e) /\ IsOpen(o)
    BY <1>2 DEF Next1, ReplayOpen
  <2>2. n.status = (IF e.final THEN "Filled" ELSE "PartiallyFilled") /\ n.fills = Append(o.fills, e.trade)
    BY <2>1 DEF ReplayFill
  <2>3. e.trade \in Trade /\ e.final \in BOOLEAN
    BY <1>2 DEF JournalEntry
  <2>4. /\ \E b \in E : b.kind = "Acknowledged"
        /\ \A b \in E : ~History!Closes(b) /\ (b.kind = "Filled" => b.trade # e.trade)
    BY <1>2 DEF LegalAfter
  <2>5. e.trade \notin ToSet(o.fills)
    BY <2>3, <2>4 DEF Describes
  <2>6. ToSet(n.fills) = ToSet(o.fills) \cup {e.trade} /\ IsInjective(n.fills)
    BY <1>0, <2>2, <2>3, <2>5, AppendSet DEF Describes
  <2>7. IsOpen(n) => ~History!Closes(e)
    BY <1>2, <2>2 DEF IsOpen, Terminal, History!Closes
  <2>8. \A t \in Trade : t \in ToSet(n.fills) <=> \E b \in E \cup {e} : b.kind = "Filled" /\ b.trade = t
    BY <1>2, <2>6 DEF Describes
  <2>9. n.status \in {"Filled", "PartiallyFilled"}
    BY <2>2
  <2> HIDE DEF n
  <2> QED BY <2>4, <2>6, <2>7, <2>8, <2>9 DEF Describes, n
<1>3. CASE e.kind \in {"Acknowledged", "Cancelled", "Rejected", "Expired"}
  <2>1. n.status = (IF e.kind = "Acknowledged" THEN "New" ELSE e.kind) /\ n.fills = o.fills
    BY <1>3 DEF Next1, ReplayOpen, PendingOrder
  <2>2. IsOpen(o)
    BY <1>3
  <2>3. IsOpen(n) => e.kind = "Acknowledged" /\ ~History!Closes(e)
    BY <1>3, <2>1 DEF IsOpen, Terminal, History!Closes
  <2>4. \A t \in Trade : t \in ToSet(n.fills) <=> \E b \in E \cup {e} : b.kind = "Filled" /\ b.trade = t
    BY <1>3, <2>1 DEF Describes
  <2>5. n.status \in {"New", "Cancelled", "Rejected", "Expired"}
        /\ (n.status = "New" => e.kind = "Acknowledged")
    BY <1>3, <2>1
  <2>6. IsInjective(n.fills)
    BY <2>1 DEF Describes
  <2> HIDE DEF n
  <2> QED BY <2>2, <2>3, <2>4, <2>5, <2>6 DEF Describes, n
<1> QED BY <1>1, <1>2, <1>3 DEF JournalEntry

\* A prefix of a journal, and a prefix one entry longer.
LEMMA Prefix ==
  ASSUME NEW j \in Seq(JournalEntry), NEW k \in 0 .. Len(j)
  PROVE  /\ SubSeq(j, 1, k) \in Seq(JournalEntry) /\ Len(SubSeq(j, 1, k)) = k
         /\ \A i \in 1 .. k : SubSeq(j, 1, k)[i] = j[i]
<1>1. Len(j) \in Nat /\ \A i \in 1 .. Len(j) : j[i] \in JournalEntry
  BY LenProperties, ElementOfSeq
<1>2. /\ k \in Int /\ 1 \in Int /\ \A i \in 1 .. k : j[i] \in JournalEntry
      /\ k - 1 + 1 = k /\ \A i \in Int : 1 + i - 1 = i
  BY <1>1
<1>3. /\ SubSeq(j, 1, k) \in Seq(JournalEntry)
      /\ Len(SubSeq(j, 1, k)) = IF 1 <= k THEN k - 1 + 1 ELSE 0
      /\ \A i \in 1 .. k - 1 + 1 : SubSeq(j, 1, k)[i] = j[1 + i - 1]
  BY <1>2, SubSeqProperties
<1> QED BY <1>2, <1>3

\* An entry more is one step of the replay more.
LEMMA AfterStep ==
  ASSUME NEW j \in Seq(JournalEntry), NEW k \in 0 .. Len(j), k < Len(j)
  PROVE  After(j, k + 1) = ReplayEntry(After(j, k), j[k + 1]) /\ j[k + 1] \in JournalEntry
<1> DEFINE s == SubSeq(j, 1, k)
           r == SubSeq(j, 1, k + 1)
           e == j[k + 1]
<1>1. k + 1 \in 1 .. Len(j) /\ k + 1 \in 0 .. Len(j) /\ k \in Nat
  BY LenProperties
<1>2. s \in Seq(JournalEntry) /\ Len(s) = k /\ \A i \in 1 .. k : s[i] = j[i]
  BY Prefix
<1>3. r \in Seq(JournalEntry) /\ Len(r) = k + 1 /\ \A i \in 1 .. k + 1 : r[i] = j[i]
  BY <1>1, Prefix
<1>4. e \in JournalEntry
  BY <1>1, ElementOfSeq
<1> HIDE DEF s, r, e
<1>5. /\ Append(s, e) \in Seq(JournalEntry) /\ Len(Append(s, e)) = k + 1
      /\ \A i \in 1 .. k : Append(s, e)[i] = s[i]
      /\ Append(s, e)[k + 1] = e
  BY <1>2, <1>4, AppendProperties
<1>6. \A i \in 1 .. k + 1 : r[i] = Append(s, e)[i]
  BY <1>1, <1>2, <1>3, <1>5 DEF e
<1>7. r = Append(s, e)
  BY <1>3, <1>5, <1>6, SeqEqual
<1> QED BY <1>2, <1>4, <1>7, ReplayedAppend DEF r, s, e, After

\* Nothing, and everything.
LEMMA AfterEnds ==
  ASSUME NEW j \in Seq(JournalEntry)
  PROVE  After(j, 0) = NoOrders /\ After(j, Len(j)) = Replayed(j)
<1>1. SubSeq(j, 1, Len(j)) = j
  BY SubSeqFull
<1>2. SubSeq(j, 1, 0) = <<>>
  <2>1. 0 \in Int /\ 1 \in Int /\ 0 < 1
    OBVIOUS
  <2> QED BY <2>1, SubSeqEmpty
<1> QED BY <1>1, <1>2, ReplayedNothing DEF After

\* Two journals with the same first entries say the same up to there.
LEMMA SamePrefix ==
  ASSUME NEW j \in Seq(JournalEntry), NEW r \in Seq(JournalEntry),
         NEW k \in 0 .. Len(j), k <= Len(r), \A i \in 1 .. k : r[i] = j[i]
  PROVE  After(r, k) = After(j, k) /\ \A c : Entries(r, c, k) = Entries(j, c, k)
<1>1. Len(j) \in Nat /\ Len(r) \in Nat /\ k \in 0 .. Len(r)
  BY LenProperties
<1> DEFINE s == SubSeq(j, 1, k)
           u == SubSeq(r, 1, k)
<1>2. s \in Seq(JournalEntry) /\ Len(s) = k /\ \A i \in 1 .. k : s[i] = j[i]
  BY Prefix
<1>3. u \in Seq(JournalEntry) /\ Len(u) = k /\ \A i \in 1 .. k : u[i] = r[i]
  BY <1>1, Prefix
<1> HIDE DEF s, u
<1>4. s = u
  BY <1>2, <1>3, SeqEqual
<1>5. After(r, k) = After(j, k)
  BY <1>4 DEF After, s, u
<1>6. \A c : Entries(r, c, k) = Entries(j, c, k)
  BY DEF Entries
<1> QED BY <1>5, <1>6

\* Their common part is legal in the one if it is in the other.
LEMMA PrefixLegal ==
  ASSUME NEW j \in Seq(JournalEntry), NEW r \in Seq(JournalEntry), LegalJournal(j),
         NEW n \in 0 .. Len(j), n <= Len(r), \A i \in 1 .. n : r[i] = j[i]
  PROVE  (\A k \in 0 .. n : Rebuilds(r, k)) /\ (\A k \in 1 .. n : Lawful(r, k))
<1>1. Len(j) \in Nat /\ Len(r) \in Nat /\ n \in Nat
  BY LenProperties
<1>2. ASSUME NEW k \in 0 .. n
      PROVE  k \in 0 .. Len(j) /\ After(r, k) = After(j, k) /\ \A c : Entries(r, c, k) = Entries(j, c, k)
  <2>1. k \in 0 .. Len(j) /\ k <= Len(r) /\ \A i \in 1 .. k : r[i] = j[i]
    BY <1>1
  <2> QED BY <2>1, SamePrefix
<1>3. \A k \in 0 .. n : Rebuilds(r, k)
  BY <1>2 DEF LegalJournal, Rebuilds
<1>4. ASSUME NEW k \in 1 .. n
      PROVE  Lawful(r, k)
  <2>1. k \in 1 .. Len(j) /\ k - 1 \in 0 .. n /\ \A i \in 1 .. k : i \in 1 .. n
    BY <1>1
  <2>2. Lawful(j, k) /\ \A c : Entries(r, c, k - 1) = Entries(j, c, k - 1)
    BY <1>2, <2>1 DEF LegalJournal
  <2> QED BY <2>1, <2>2 DEF Lawful
<1> QED BY <1>3, <1>4

\* What is left of a legal journal is legal.
LEMMA LegalCut ==
  ASSUME NEW j \in Seq(JournalEntry), NEW r \in Seq(JournalEntry), LegalJournal(j),
         Len(r) <= Len(j), \A i \in 1 .. Len(r) : r[i] = j[i]
  PROVE  LegalJournal(r)
<1>1. Len(j) \in Nat /\ Len(r) \in Nat /\ Len(r) \in 0 .. Len(j) /\ Len(r) <= Len(r)
  BY LenProperties
<1> QED BY <1>1, PrefixLegal DEF LegalJournal

\* An order that the journal rebuilds was requested in it.
LEMMA RebuiltRequested ==
  ASSUME NEW j \in Seq(JournalEntry), LegalJournal(j), NEW k \in 0 .. Len(j), NEW c \in Cloid,
         After(j, k)[c].status # "Absent"
  PROVE  \E i \in 1 .. k : j[i] = RequestOf(c)
<1>1. Entries(j, c, k) # {}
  BY DEF LegalJournal, Rebuilds, Describes
<1>2. PICK h \in 1 .. k : j[h].cloid = c
  BY <1>1 DEF Entries
<1>3. h \in 1 .. Len(j) /\ Len(j) \in Nat /\ \A i \in 1 .. h : i \in 1 .. k
  BY <1>2, LenProperties
<1> QED BY <1>2, <1>3 DEF LegalJournal, Lawful

\* The entry may be recorded.
Recordable(j, e) ==
  /\ e.kind = "Requested" => e = RequestOf(e.cloid)
  /\ e.kind # "Requested" => IsOpen(Replayed(j)[e.cloid])
  /\ LegalAfter(e, Entries(j, e.cloid, Len(j)))

\* The entries about an order, with one more.
LEMMA EntriesGrow ==
  ASSUME NEW j \in Seq(JournalEntry), NEW e \in JournalEntry, NEW c
  PROVE  Entries(Append(j, e), c, Len(j) + 1)
           = IF c = e.cloid THEN Entries(j, c, Len(j)) \cup {e} ELSE Entries(j, c, Len(j))
<1> DEFINE n == Len(j)
           r == Append(j, e)
<1>1. n \in Nat /\ (\A i \in 1 .. n : r[i] = j[i]) /\ r[n + 1] = e
  BY AppendProperties, LenProperties
<1>2. 1 .. n + 1 = (1 .. n) \cup {n + 1}
  BY <1>1
<1> HIDE DEF n, r
<1>3. Entries(r, c, n + 1) = Entries(j, c, n) \cup (IF c = e.cloid THEN {e} ELSE {})
  BY <1>1, <1>2 DEF Entries
<1> QED BY <1>3 DEF n, r

\* A recordable entry leaves the journal legal.
LEMMA LegalGrows ==
  ASSUME NEW j \in Seq(JournalEntry), LegalJournal(j), NEW e \in JournalEntry, Recordable(j, e)
  PROVE  LegalJournal(Append(j, e))
<1> DEFINE n == Len(j)
           r == Append(j, e)
<1>1. /\ n \in Nat /\ r \in Seq(JournalEntry) /\ Len(r) = n + 1
      /\ \A i \in 1 .. n : r[i] = j[i]
      /\ r[n + 1] = e
      /\ n \in 0 .. n /\ n <= n + 1
  BY AppendProperties, LenProperties
<1>2. (\A k \in 0 .. n : Rebuilds(r, k)) /\ (\A k \in 1 .. n : Lawful(r, k))
  <2>1. n \in 0 .. Len(j) /\ n <= Len(r) /\ r \in Seq(JournalEntry) /\ \A i \in 1 .. n : r[i] = j[i]
    BY <1>1
  <2> HIDE DEF n, r
  <2> QED BY <2>1, PrefixLegal
<1>3. /\ After(j, n) = Replayed(j) /\ After(j, n) \in [Cloid -> PendingOrder]
      /\ \A c \in Cloid : Describes(Entries(j, c, n), After(j, n)[c])
  BY <1>1, AfterEnds DEF LegalJournal, Rebuilds
<1>4. After(r, n + 1) = ReplayEntry(After(j, n), e)
  <2>1. After(r, n + 1) = Replayed(r)
    <3> HIDE DEF r
    <3> QED BY <1>1, AfterEnds
  <2> QED BY <1>3, <2>1, ReplayedAppend
<1>5. /\ e.cloid \in Cloid /\ ReplayEntry(After(j, n), e) = [After(j, n) EXCEPT ![e.cloid] = Next1(@, e)]
      /\ ReplayEntry(After(j, n), e) \in [Cloid -> PendingOrder]
  BY <1>3, ReplayOne
<1>6. \A c : Entries(r, c, n + 1) = IF c = e.cloid THEN Entries(j, c, n) \cup {e} ELSE Entries(j, c, n)
  BY EntriesGrow
<1> HIDE DEF n, r
<1>7. \A c \in Cloid : Describes(Entries(r, c, n + 1), After(r, n + 1)[c])
  <2> SUFFICES ASSUME NEW c \in Cloid
               PROVE  Describes(Entries(r, c, n + 1), After(r, n + 1)[c])
    OBVIOUS
  <2>1. CASE c = e.cloid
    <3>1. Entries(r, c, n + 1) = Entries(j, c, n) \cup {e} /\ After(r, n + 1)[c] = Next1(After(j, n)[c], e)
      BY <1>3, <1>4, <1>5, <1>6, <2>1
    <3>2. After(j, n)[c] \in PendingOrder /\ Describes(Entries(j, c, n), After(j, n)[c])
      BY <1>3
    <3>3. LegalAfter(e, Entries(j, c, n)) /\ (e.kind = "Requested" \/ IsOpen(After(j, n)[c]))
      BY <1>3, <2>1 DEF Recordable, n
    <3>4. Describes(Entries(j, c, n) \cup {e}, Next1(After(j, n)[c], e))
      BY <3>2, <3>3, DescribesNext
    <3> QED BY <3>1, <3>4
  <2>2. CASE c # e.cloid
    <3>1. Entries(r, c, n + 1) = Entries(j, c, n) /\ After(r, n + 1)[c] = After(j, n)[c]
      BY <1>3, <1>4, <1>5, <1>6, <2>2
    <3> QED BY <1>3, <3>1
  <2> QED BY <2>1, <2>2
<1>8. Lawful(r, n + 1)
  <2>1. n + 1 - 1 = n /\ r[n + 1] = e
    BY <1>1
  <2>2. Entries(r, e.cloid, n) = Entries(j, e.cloid, n)
    <3>1. n \in 0 .. Len(j) /\ n <= Len(r)
      BY <1>1 DEF n
    <3> QED BY <1>1, <3>1, SamePrefix
  <2>3. LegalAfter(e, Entries(j, e.cloid, n))
    BY DEF Recordable, n
  <2>4. \E i \in 1 .. n + 1 : r[i] = RequestOf(e.cloid)
    <3>1. CASE e.kind = "Requested"
      <4>1. e = RequestOf(e.cloid) /\ n + 1 \in 1 .. n + 1
        BY <1>1, <3>1 DEF Recordable
      <4> QED BY <2>1, <4>1
    <3>2. CASE e.kind # "Requested"
      <4>1. After(j, n)[e.cloid].status # "Absent"
        BY <1>3, <3>2 DEF Recordable, IsOpen
      <4>2. PICK i \in 1 .. n : j[i] = RequestOf(e.cloid)
        <5>1. n \in 0 .. Len(j)
          BY <1>1 DEF n
        <5> QED BY <1>5, <4>1, <5>1, RebuiltRequested
      <4>3. i \in 1 .. n + 1 /\ r[i] = RequestOf(e.cloid)
        BY <1>1, <4>2
      <4> QED BY <4>3
    <3> QED BY <3>1, <3>2
  <2> DEFINE m == n + 1
  <2>5. m - 1 = n /\ r[m] = e /\ \E i \in 1 .. m : r[i] = RequestOf(e.cloid)
    <3>1. m - 1 = n
      BY <1>1
    <3> QED BY <2>1, <2>4, <3>1
  <2> HIDE DEF m
  <2>6. LegalAfter(r[m], Entries(r, r[m].cloid, m - 1))
    BY <2>2, <2>3, <2>5
  <2>7. Lawful(r, m)
    BY <2>5, <2>6 DEF Lawful
  <2> QED BY <2>7 DEF m
<1>9. Rebuilds(r, n + 1)
  BY <1>4, <1>5, <1>7 DEF Rebuilds
<1>10. \A k \in 0 .. n + 1 : k \in 0 .. n \/ k = n + 1
  BY <1>1
<1>11. \A k \in 1 .. n + 1 : k \in 1 .. n \/ k = n + 1
  BY <1>1
<1>12. LegalJournal(r)
  BY <1>1, <1>2, <1>8, <1>9, <1>10, <1>11 DEF LegalJournal
<1> QED BY <1>12 DEF r

------------------------------------------------------------------------------
(***************************************************************************)
(* Lists of trades, what they make of an order, and the lists of actions   *)
(* made from them.                                                         *)
(***************************************************************************)

\* Two lists in a row: their elements, and when they all differ.
LEMMA ConcatSet ==
  ASSUME NEW S, NEW s \in Seq(S), NEW u \in Seq(S)
  PROVE  /\ s \o u \in Seq(S) /\ ToSet(s \o u) = ToSet(s) \cup ToSet(u)
         /\ IsInjective(s \o u) <=> /\ IsInjective(s) /\ IsInjective(u)
                                    /\ ToSet(s) \cap ToSet(u) = {}
<1> DEFINE r == s \o u
           m == Len(s)
           n == Len(u)
<1>1. /\ m \in Nat /\ n \in Nat /\ r \in Seq(S) /\ Len(r) = m + n
      /\ DOMAIN s = 1 .. m /\ DOMAIN u = 1 .. n /\ DOMAIN r = 1 .. m + n
      /\ \A i \in 1 .. m + n : r[i] = IF i <= m THEN s[i] ELSE u[i - m]
  BY ConcatProperties, LenProperties
<1> HIDE DEF r, m, n
<1>2. \A i \in 1 .. m : i \in DOMAIN r /\ r[i] = s[i]
  BY <1>1
<1>3. \A i \in 1 .. n : i + m \in DOMAIN r /\ r[i + m] = u[i]
  <2> SUFFICES ASSUME NEW i \in 1 .. n PROVE i + m \in DOMAIN r /\ r[i + m] = u[i]
    OBVIOUS
  <2>1. i + m \in 1 .. m + n /\ ~(i + m <= m) /\ i + m - m = i
    BY <1>1
  <2> QED BY <1>1, <2>1
<1>4. \A k \in DOMAIN r : k \in 1 .. m \/ \E i \in 1 .. n : k = i + m
  <2> SUFFICES ASSUME NEW k \in DOMAIN r, k \notin 1 .. m PROVE \E i \in 1 .. n : k = i + m
    OBVIOUS
  <2>1. k - m \in 1 .. n /\ k = (k - m) + m
    BY <1>1
  <2> QED BY <2>1
<1>5. ToSet(r) = ToSet(s) \cup ToSet(u)
  <2>1. ASSUME NEW x \in ToSet(r) PROVE x \in ToSet(s) \cup ToSet(u)
    <3>1. PICK k \in DOMAIN r : x = r[k]
      BY <2>1 DEF ToSet
    <3>2. CASE k \in 1 .. m
      BY <1>1, <1>2, <3>1, <3>2 DEF ToSet
    <3>3. ASSUME NEW i \in 1 .. n, k = i + m PROVE x \in ToSet(u)
      <4>1. x = u[i]
        BY <1>3, <3>1, <3>3
      <4> QED BY <1>1, <4>1 DEF ToSet
    <3> QED BY <1>4, <3>1, <3>2, <3>3
  <2>2. ASSUME NEW x \in ToSet(s) PROVE x \in ToSet(r)
    <3>1. PICK k \in DOMAIN s : x = s[k]
      BY <2>2 DEF ToSet
    <3> QED BY <1>1, <1>2, <3>1 DEF ToSet
  <2>3. ASSUME NEW x \in ToSet(u) PROVE x \in ToSet(r)
    <3>1. PICK k \in DOMAIN u : x = u[k]
      BY <2>3 DEF ToSet
    <3>2. k + m \in DOMAIN r /\ r[k + m] = x
      BY <1>1, <1>3, <3>1
    <3> QED BY <3>2 DEF ToSet
  <2> QED BY <2>1, <2>2, <2>3
<1>6. ASSUME IsInjective(r)
      PROVE  IsInjective(s) /\ IsInjective(u) /\ ToSet(s) \cap ToSet(u) = {}
  <2>1. IsInjective(s)
    BY <1>1, <1>2, <1>6 DEF IsInjective
  <2>2. IsInjective(u)
    <3> SUFFICES ASSUME NEW i \in 1 .. n, NEW j \in 1 .. n, u[i] = u[j] PROVE i = j
      BY <1>1 DEF IsInjective
    <3>1. i + m = j + m
      BY <1>3, <1>6 DEF IsInjective
    <3> QED BY <1>1, <3>1
  <2>3. ToSet(s) \cap ToSet(u) = {}
    <3> SUFFICES ASSUME NEW i \in 1 .. m, NEW j \in 1 .. n, s[i] = u[j] PROVE FALSE
      BY <1>1 DEF ToSet
    <3>1. i = j + m
      BY <1>2, <1>3, <1>6 DEF IsInjective
    <3> QED BY <1>1, <3>1
  <2> QED BY <2>1, <2>2, <2>3
<1>7. ASSUME IsInjective(s), IsInjective(u), ToSet(s) \cap ToSet(u) = {}
      PROVE  IsInjective(r)
  <2> SUFFICES ASSUME NEW i \in DOMAIN r, NEW j \in DOMAIN r, r[i] = r[j] PROVE i = j
    BY DEF IsInjective
  <2>1. CASE i \in 1 .. m /\ j \in 1 .. m
    BY <1>1, <1>2, <1>7, <2>1 DEF IsInjective
  <2>2. ASSUME NEW k \in 1 .. n, NEW l \in 1 .. n, i = k + m, j = l + m PROVE i = j
    <3>1. k = l
      BY <1>1, <1>3, <1>7, <2>2 DEF IsInjective
    <3> QED BY <2>2, <3>1
  <2>3. \A k \in 1 .. m, l \in 1 .. n : s[k] # u[l]
    BY <1>1, <1>7 DEF ToSet
  <2> QED BY <1>2, <1>3, <1>4, <2>1, <2>2, <2>3
<1> QED BY <1>1, <1>5, <1>6, <1>7 DEF r

\* A list with an element has one.
LEMMA NonEmpty ==
  ASSUME NEW S, NEW s \in Seq(S)
  PROVE  ToSet(s) \in SUBSET S /\ (s = <<>> <=> ToSet(s) = {})
<1>1. DOMAIN s = 1 .. Len(s) /\ Len(s) \in Nat /\ \A i \in 1 .. Len(s) : s[i] \in S
  BY LenProperties, ElementOfSeq
<1>2. ToSet(s) \in SUBSET S
  BY <1>1 DEF ToSet
<1>3. s # <<>> => ToSet(s) # {}
  <2>1. s # <<>> => Len(s) \in Nat \ {0}
    BY EmptySeq
  <2>2. s # <<>> => 1 \in DOMAIN s
    BY <1>1, <2>1
  <2> QED BY <2>2 DEF ToSet
<1> QED BY <1>2, <1>3, EmptySet

\* The listing of a set has its elements.
LEMMA ListingSet ==
  ASSUME NEW S, IsFiniteSet(S)
  PROVE  ToSet(SetToSeq(S)) = S
<1> DEFINE f == SetToSeq(S)
           n == Cardinality(S)
<1>1. f \in [1 .. n -> S] /\ IsInjective(f) /\ n \in Nat
  BY Listing, FS_CardinalityType
<1>2. f \in Injection(1 .. n, S)
  BY <1>1 DEF Injection, IsInjective
<1>3. Cardinality(1 .. n) = n
  <2>1. 1 \in Int /\ n \in Int
    BY <1>1
  <2> QED BY <1>1, <2>1, FS_Interval
<1>4. f \in Surjection(1 .. n, S)
  <2> HIDE DEF f
  <2> QED BY <1>2, <1>3, FS_Injection
<1> HIDE DEF f, n
<1>5. ToSet(f) = S
  BY <1>1, <1>4 DEF Surjection, ToSet
<1> QED BY <1>5 DEF f

\* The state of an order by its trades: none, some, enough.
LEMMA ProgressIs ==
  ASSUME NEW s \in Seq(Trade), IsInjective(s)
  PROVE  /\ Lots(s) = Weight(ToSet(s)) /\ Lots(s) \in Nat
         /\ Progress(s) = IF Lots(s) >= OrderQty THEN "Filled"
                          ELSE IF s = <<>> THEN "New" ELSE "PartiallyFilled"
         /\ s = <<>> => Lots(s) < OrderQty
<1>1. Lots(s) = Weight(ToSet(s))
  BY LotsAreWeight
<1>2. ToSet(s) \in SUBSET Trade /\ (s = <<>> <=> ToSet(s) = {})
  BY NonEmpty
<1>3. Weight(ToSet(s)) \in Nat
  BY <1>2, WeightType
<1>4. s = <<>> => Lots(s) = 0
  BY <1>1, <1>2, WeightOfNone
<1>5. s # <<>> => Lots(s) > 0
  <2>1. {} \in SUBSET ToSet(s)
    OBVIOUS
  <2>2. s # <<>> => Weight({}) < Weight(ToSet(s))
    BY <1>2, <2>1, WeightGrows
  <2> QED BY <1>1, <1>3, <2>2, WeightOfNone
<1>6. OrderQty \in Nat \ {0}
  BY QuantityAssumption
<1>7. Lots(s) \in Nat
  BY <1>1, <1>3
<1>8. Progress(s) = IF Lots(s) >= OrderQty THEN "Filled"
                    ELSE IF s = <<>> THEN "New" ELSE "PartiallyFilled"
  BY <1>4, <1>5, <1>6, <1>7 DEF Progress
<1> QED BY <1>1, <1>4, <1>6, <1>7, <1>8

\* What the exchange counts (an order's trades are a set).
LEMMA TradedIs ==
  ASSUME TypeOK, NEW c \in Cloid
  PROVE  Traded(c) = Weight(venue[c].trades) /\ venue[c].trades \in SUBSET Trade
<1>1. venue[c].trades \in SUBSET Trade
  BY DEF TypeOK, VenueOrder
<1>2. IsFiniteSet(venue[c].trades)
  BY <1>1, QuantityAssumption, FS_Subset
<1>3. SetToSeq(venue[c].trades) \in Seq(venue[c].trades) /\ IsInjective(SetToSeq(venue[c].trades))
      /\ ToSet(SetToSeq(venue[c].trades)) = venue[c].trades
  BY <1>2, Listing, ListingIsSeq, ListingSet
<1>4. SetToSeq(venue[c].trades) \in Seq(Trade)
  BY <1>1, <1>3, SeqMonotonic
<1> QED BY <1>1, <1>3, <1>4, LotsAreWeight DEF Traded

\* One action of a list.
Step(c, act) == [cloid |-> c, act |-> act]
Fill(t)      == [kind |-> "ApplyFill", trade |-> t]

\* The actions that hand on fills, one by one.
LEMMA FillSteps ==
  ASSUME NEW c \in Cloid, NEW p \in Seq(Trade)
  PROVE  /\ Acts(c, ApplyFills(p)) \in Seq(Todo) /\ Len(Acts(c, ApplyFills(p))) = Len(p)
         /\ \A i \in 1 .. Len(p) : Acts(c, ApplyFills(p))[i] = Step(c, Fill(p[i]))
<1>1. DOMAIN p = 1 .. Len(p) /\ Len(p) \in Nat /\ \A i \in 1 .. Len(p) : p[i] \in Trade
  BY LenProperties, ElementOfSeq
<1>2. DOMAIN ApplyFills(p) = 1 .. Len(p) /\ \A i \in 1 .. Len(p) : ApplyFills(p)[i] = Fill(p[i])
  BY <1>1 DEF ApplyFills, Fill
<1>3. Acts(c, ApplyFills(p)) = [i \in 1 .. Len(p) |-> Step(c, Fill(p[i]))]
  BY <1>2 DEF Acts, Step
<1>4. \A i \in 1 .. Len(p) : Step(c, Fill(p[i])) \in Todo
  BY <1>1 DEF Step, Fill, Todo, SmAction
<1>5. Acts(c, ApplyFills(p)) \in [1 .. Len(p) -> Todo]
  BY <1>3, <1>4
<1>6. Acts(c, ApplyFills(p)) \in Seq(Todo)
  BY <1>1, <1>5, SeqDef
<1>7. Len(Acts(c, ApplyFills(p))) = Len(p)
  BY <1>1, <1>5, <1>6, LenProperties
<1> QED BY <1>3, <1>6, <1>7

\* Handing on the first of them leaves the others.
LEMMA FillsTail ==
  ASSUME NEW c \in Cloid, NEW p \in Seq(Trade), p # <<>>
  PROVE  /\ Head(p) \in Trade /\ Tail(p) \in Seq(Trade) /\ p = <<Head(p)>> \o Tail(p)
         /\ Acts(c, ApplyFills(p))[1] = Step(c, Fill(Head(p)))
         /\ Tail(Acts(c, ApplyFills(p))) = Acts(c, ApplyFills(Tail(p)))
<1> DEFINE s == Acts(c, ApplyFills(p))
           q == Tail(p)
           u == Acts(c, ApplyFills(q))
<1>1. /\ Head(p) \in Trade /\ q \in Seq(Trade) /\ Len(q) = Len(p) - 1
      /\ \A i \in 1 .. Len(q) : q[i] = p[i + 1]
  BY HeadTailProperties
<1>2. Len(p) \in Nat \ {0} /\ Head(p) = p[1]
  <2>1. Len(p) \in Nat \ {0}
    BY EmptySeq
  <2> QED BY <2>1
<1>3. /\ s \in Seq(Todo) /\ Len(s) = Len(p)
      /\ \A i \in 1 .. Len(p) : s[i] = Step(c, Fill(p[i]))
  BY FillSteps
<1>4. /\ u \in Seq(Todo) /\ Len(u) = Len(q)
      /\ \A i \in 1 .. Len(q) : u[i] = Step(c, Fill(q[i]))
  BY <1>1, FillSteps
<1> HIDE DEF s, q, u
<1>5. s # <<>>
  BY <1>2, <1>3, EmptySeq
<1>6. Tail(s) \in Seq(Todo) /\ Len(Tail(s)) = Len(s) - 1 /\ \A i \in 1 .. Len(Tail(s)) : Tail(s)[i] = s[i + 1]
  BY <1>3, <1>5, HeadTailProperties
<1>7. \A i \in 1 .. Len(q) : Tail(s)[i] = u[i]
  BY <1>1, <1>2, <1>3, <1>4, <1>6
<1>8. Tail(s) = u
  BY <1>1, <1>3, <1>4, <1>6, <1>7, SeqEqual
<1>9. p = <<Head(p)>> \o q
  <2>1. p \in Seq(Trade) /\ <<Head(p)>> \in Seq(Trade) /\ Len(<<Head(p)>>) = 1 /\ <<Head(p)>>[1] = Head(p)
    BY <1>1
  <2> DEFINE h == <<Head(p)>>
  <2>2. /\ h \o q \in Seq(Trade) /\ Len(h \o q) = 1 + Len(q)
        /\ \A i \in 1 .. 1 + Len(q) : (h \o q)[i] = IF i <= 1 THEN h[i] ELSE q[i - 1]
    <3> HIDE DEF h
    <3> QED BY <1>1, <2>1, ConcatProperties DEF h
  <2>3. Len(h \o q) = Len(p)
    <3> HIDE DEF h
    <3> QED BY <1>1, <1>2, <2>2
  <2>4. \A i \in 1 .. Len(p) : p[i] = (h \o q)[i]
    <3> SUFFICES ASSUME NEW i \in 1 .. Len(p) PROVE p[i] = (h \o q)[i]
      OBVIOUS
    <3> HIDE DEF h
    <3>1. CASE i = 1
      BY <1>1, <1>2, <2>1, <2>2, <3>1 DEF h
    <3>2. CASE i # 1
      <4>1. i - 1 \in 1 .. Len(q) /\ ~(i <= 1) /\ (i - 1) + 1 = i /\ i \in 1 .. 1 + Len(q)
        BY <1>1, <1>2, <3>2
      <4> QED BY <1>1, <2>2, <4>1
    <3> QED BY <3>1, <3>2
  <2> HIDE DEF h
  <2>5. p = h \o q
    BY <2>1, <2>2, <2>3, <2>4, SeqEqual
  <2> QED BY <2>5 DEF h
<1>10. s[1] = Step(c, Fill(Head(p)))
  BY <1>2, <1>3
<1> QED BY <1>1, <1>8, <1>9, <1>10 DEF s, q, u

\* The acknowledgement comes before the fills.
LEMMA AckSteps ==
  ASSUME NEW c \in Cloid, NEW p \in Seq(Trade)
  PROVE  LET s == Acts(c, <<Do("ApplyAck")>> \o ApplyFills(p))
         IN  /\ s \in Seq(Todo) /\ Len(s) = Len(p) + 1
             /\ s[1] = Step(c, Do("ApplyAck"))
             /\ \A i \in 1 .. Len(p) : s[i + 1] = Step(c, Fill(p[i]))
             /\ Tail(s) = Acts(c, ApplyFills(p))
<1> DEFINE a == <<Do("ApplyAck")>>
           f == ApplyFills(p)
           l == a \o f
           s == Acts(c, l)
           u == Acts(c, f)
<1>1. a \in Seq(SmAction) /\ f \in Seq(SmAction) /\ Len(a) = 1 /\ a[1] = Do("ApplyAck")
  BY DoTyped, FillsTyped
<1>2. DOMAIN f = 1 .. Len(p) /\ Len(f) = Len(p) /\ Len(p) \in Nat
      /\ \A i \in 1 .. Len(p) : f[i] = Fill(p[i])
  <2>1. DOMAIN p = 1 .. Len(p) /\ Len(p) \in Nat
    BY LenProperties
  <2>2. DOMAIN f = 1 .. Len(p) /\ \A i \in 1 .. Len(p) : f[i] = Fill(p[i])
    BY <2>1 DEF ApplyFills, Fill
  <2>3. DOMAIN f = 1 .. Len(f) /\ Len(f) \in Nat
    <3> HIDE DEF f
    <3> QED BY <1>1, LenProperties
  <2> HIDE DEF f
  <2> QED BY <2>1, <2>2, <2>3
<1> HIDE DEF a, f
<1>3. /\ l \in Seq(SmAction) /\ Len(l) = Len(p) + 1
      /\ \A i \in 1 .. 1 + Len(p) : l[i] = IF i <= 1 THEN a[i] ELSE f[i - 1]
  <2>1. /\ l \in Seq(SmAction) /\ Len(l) = Len(a) + Len(f)
        /\ \A i \in 1 .. Len(a) + Len(f) : l[i] = IF i <= Len(a) THEN a[i] ELSE f[i - Len(a)]
    <3> HIDE DEF l
    <3> QED BY <1>1, ConcatProperties DEF l
  <2> HIDE DEF l
  <2> QED BY <1>1, <1>2, <2>1
<1> HIDE DEF l
<1>4. DOMAIN l = 1 .. Len(p) + 1 /\ \A i \in 1 .. Len(p) + 1 : l[i] \in SmAction
  BY <1>3, LenProperties, ElementOfSeq
<1>5. s = [i \in 1 .. Len(p) + 1 |-> Step(c, l[i])]
  BY <1>4 DEF Acts, Step
<1>6. s \in [1 .. Len(p) + 1 -> Todo] /\ Len(p) + 1 \in Nat
  BY <1>2, <1>4, <1>5 DEF Step, Todo
<1> HIDE DEF s, u
<1>7. s \in Seq(Todo)
  BY <1>6, SeqDef
<1>8. Len(s) = Len(p) + 1
  BY <1>6, <1>7, LenProperties
<1>9. s[1] = Step(c, Do("ApplyAck"))
  <2>1. 1 \in 1 .. Len(p) + 1 /\ 1 \in 1 .. 1 + Len(p)
    BY <1>2
  <2> QED BY <1>1, <1>3, <1>5, <2>1
<1>10. \A i \in 1 .. Len(p) : s[i + 1] = Step(c, Fill(p[i]))
  <2> SUFFICES ASSUME NEW i \in 1 .. Len(p) PROVE s[i + 1] = Step(c, Fill(p[i]))
    OBVIOUS
  <2>1. i + 1 \in 1 .. Len(p) + 1 /\ i + 1 \in 1 .. 1 + Len(p) /\ ~(i + 1 <= 1) /\ i + 1 - 1 = i
    BY <1>2
  <2> QED BY <1>2, <1>3, <1>5, <2>1
<1>11. /\ u \in Seq(Todo) /\ Len(u) = Len(p)
       /\ \A i \in 1 .. Len(p) : u[i] = Step(c, Fill(p[i]))
  BY FillSteps DEF u, f
<1>12. s # <<>>
  BY <1>2, <1>7, <1>8, EmptySeq
<1>13. Tail(s) \in Seq(Todo) /\ Len(Tail(s)) = Len(s) - 1 /\ \A i \in 1 .. Len(Tail(s)) : Tail(s)[i] = s[i + 1]
  BY <1>7, <1>12, HeadTailProperties
<1>14. Tail(s) = u
  <2>1. Len(Tail(s)) = Len(u) /\ \A i \in 1 .. Len(u) : Tail(s)[i] = u[i]
    BY <1>2, <1>8, <1>10, <1>11, <1>13
  <2> QED BY <1>11, <1>13, <2>1, SeqEqual
<1> QED BY <1>7, <1>8, <1>9, <1>10, <1>14 DEF s, u, l, a, f

\* A single action.
LEMMA OneStep ==
  ASSUME NEW c \in Cloid, NEW act \in SmAction
  PROVE  Acts(c, <<act>>) = <<Step(c, act)>> /\ Acts(c, <<>>) = <<>>
BY DEF Acts, Step

------------------------------------------------------------------------------
(***************************************************************************)
(* The invariant: the exchange's book, the checks, the journal, the orders *)
(* in memory, the machines, and how engine and gateway stand to each other *)
(* while a list of actions is under way.                                   *)
(***************************************************************************)

\* An order has at most the trades it asked for, and all of them once filled.
VenueInv ==
  \A c \in Cloid : /\ Weight(venue[c].trades) <= OrderQty
                   /\ venue[c].state = "Filled" => Weight(venue[c].trades) = OrderQty

\* An answer that the order is filled stays true.
ChecksInv ==
  \A c \in Cloid : checks[c].kind = "Filled" =>
     /\ venue[c].state = "Filled"
     /\ checks[c].trades \subseteq venue[c].trades
     /\ TradesQueried => checks[c].trades = venue[c].trades

\* Fills in the journal are trades of the exchange.
TrueFills ==
  \A k \in 1 .. Len(journal) :
     journal[k].kind = "Filled" => journal[k].trade \in venue[journal[k].cloid].trades

\* The orders in memory are what the journal rebuilds: all of it, or what has
\* been replayed.  An order whose request could not be written is not in memory.
OrdersInv ==
  /\ \A c \in Cloid : orders[c].status = "Absent" => orders[c] = Absent
  /\ up = "Running" => \A c \in Cloid : orders[c] # Absent => orders[c] = Replayed(journal)[c]
  /\ up # "Running" => /\ orders = After(journal, replayed) /\ todo = <<>>
                       /\ \A c \in Cloid : orders[c] # Absent => c \in restored

\* A machine has counted or buffered each trade it has seen, once.
SmInv(c) ==
  /\ sms[c].status \in {"Pending", "UnknownStatus"} => sms[c].counted = <<>>
  /\ sms[c].status \in {"New", "PartiallyFilled"} =>
        sms[c].buffered = <<>> /\ sms[c].status = Progress(sms[c].counted)
  /\ sms[c].status # "Untracked" =>
        /\ sms[c].seen = ToSet(sms[c].counted \o sms[c].buffered)
        /\ IsInjective(sms[c].counted \o sms[c].buffered)
        /\ sms[c].seen \subseteq venue[c].trades

\* Engine and gateway about an order for which no action is under way.
Rest(c) ==
  /\ sms[c].status \in {"Pending", "UnknownStatus"} => orders[c] = NewPending
  /\ sms[c].status \in {"New", "PartiallyFilled"} =>
        /\ orders[c].status \in {"New", "PartiallyFilled"}
        /\ ToSet(orders[c].fills) \subseteq ToSet(sms[c].counted)
        /\ c \notin dropped => Mirrored(c)
  /\ sms[c].status = "Untracked" /\ orders[c] # Absent /\ c \notin dropped \cup restored
       /\ TradesQueried => orders[c].status \in Terminal

\* The actions under way: the acknowledgement of a pending order, then fills p.
\* Applied, they make the order what its machine has counted.
Plan(c, p) ==
  /\ IsOpen(orders[c]) /\ todo # <<>>
  /\ todo = Acts(c, IF orders[c].status = "Pending" THEN <<Do("ApplyAck")>> \o ApplyFills(p)
                    ELSE ApplyFills(p))
  /\ IsInjective(orders[c].fills \o p) /\ ToSet(orders[c].fills \o p) \subseteq venue[c].trades
  /\ sms[c].status \in {"New", "PartiallyFilled", "Untracked"}
  /\ sms[c].status # "Untracked" =>
        /\ ToSet(orders[c].fills \o p) \subseteq ToSet(sms[c].counted)
        /\ c \notin dropped => orders[c].fills \o p = sms[c].counted
  /\ sms[c].status = "Untracked" /\ c \notin dropped \cup restored /\ TradesQueried
       => Lots(orders[c].fills \o p) >= OrderQty

\* Or the one that closes an order the engine has forgotten.
Closing(c) ==
  /\ IsOpen(orders[c]) /\ sms[c].status = "Untracked"
  /\ \E k \in {"ApplyCancel", "ApplyReject", "ApplyExpire"} : todo = Acts(c, <<Do(k)>>)

\* Or status checks, or nothing.
Quiet == /\ \A i \in DOMAIN todo : todo[i].act.kind = "ScheduleStatusCheck"
         /\ \A c \in Cloid : Rest(c)

\* One order's actions are under way, all others are at rest.
Acting(c) == /\ (\E p \in Seq(Trade) : Plan(c, p)) \/ Closing(c)
             /\ \A d \in Cloid \ {c} : Rest(d)

\* A running task has one order's actions under way at most.
EngineInv == up = "Running" => Quiet \/ \E c \in Cloid : Acting(c)

\* The inductive invariant.
Inv ==
  /\ TypeOK /\ IdInv
  /\ VenueInv /\ ChecksInv
  /\ LegalJournal(journal) /\ TrueFills /\ OrdersInv
  /\ \A c \in Cloid : SmInv(c)
  /\ EngineInv

\* The fills that the journal rebuilds are trades of the exchange, each once.
LEMMA RebuiltFills ==
  ASSUME TypeOK, LegalJournal(journal), TrueFills, NEW k \in 0 .. Len(journal), NEW c \in Cloid
  PROVE  /\ IsInjective(After(journal, k)[c].fills)
         /\ ToSet(After(journal, k)[c].fills) \subseteq venue[c].trades
         /\ After(journal, k)[c] \in PendingOrder
<1> DEFINE o == After(journal, k)[c]
<1>1. Describes(Entries(journal, c, k), o) /\ o \in PendingOrder
  BY DEF LegalJournal, Rebuilds
<1>2. ToSet(o.fills) \in SUBSET Trade
  BY <1>1, NonEmpty DEF PendingOrder
<1> HIDE DEF o
<1>3. ASSUME NEW t \in ToSet(o.fills) PROVE t \in venue[c].trades
  <2>1. PICK b \in Entries(journal, c, k) : b.kind = "Filled" /\ b.trade = t
    BY <1>1, <1>2, <1>3 DEF Describes
  <2>2. PICK i \in 1 .. k : journal[i].cloid = c /\ b = journal[i]
    BY <2>1 DEF Entries
  <2>3. i \in 1 .. Len(journal)
    BY <2>2, LenProperties DEF TypeOK
  <2> QED BY <2>1, <2>2, <2>3 DEF TrueFills
<1> QED BY <1>1, <1>3 DEF Describes, o

\* So are the fills in memory; a pending order has none.
LEMMA OrderFills ==
  ASSUME TypeOK, LegalJournal(journal), TrueFills, OrdersInv, NEW c \in Cloid
  PROVE  /\ orders[c] \in PendingOrder /\ orders[c].fills \in Seq(Trade)
         /\ IsInjective(orders[c].fills)
         /\ ToSet(orders[c].fills) \subseteq venue[c].trades
         /\ orders[c].status = "Pending" => orders[c].fills = <<>>
         /\ up = "Running" /\ orders[c].status # "Absent" =>
              Describes(Entries(journal, c, Len(journal)), orders[c])
<1>1. journal \in Seq(JournalEntry) /\ Len(journal) \in Nat /\ Len(journal) \in 0 .. Len(journal)
      /\ replayed \in 0 .. Len(journal)
  BY LenProperties DEF TypeOK
<1>2. orders[c] \in PendingOrder /\ orders[c].fills \in Seq(Trade)
  BY DEF TypeOK, PendingOrder
<1>3. CASE orders[c].status = "Absent"
  BY <1>2, <1>3, EmptySet DEF OrdersInv, Absent
<1>4. CASE orders[c].status # "Absent"
  <2>1. PICK k \in 0 .. Len(journal) : orders[c] = After(journal, k)[c] /\ (up = "Running" => k = Len(journal))
    <3>1. CASE up = "Running"
      <4>1. orders[c] = Replayed(journal)[c]
        BY <1>4, <3>1 DEF OrdersInv, Absent
      <4> QED BY <1>1, <4>1, AfterEnds
    <3>2. CASE up # "Running"
      BY <1>1, <3>2 DEF OrdersInv
    <3> QED BY <3>1, <3>2
  <2>2. Describes(Entries(journal, c, k), orders[c])
    BY <2>1 DEF LegalJournal, Rebuilds
  <2>3. orders[c].status = "Pending" => ToSet(orders[c].fills) = {}
    <3>1. ToSet(orders[c].fills) \in SUBSET Trade
      BY <1>2, NonEmpty
    <3> QED BY <2>2, <3>1 DEF Describes
  <2>4. orders[c].status = "Pending" => orders[c].fills = <<>>
    BY <1>2, <2>3, NonEmpty
  <2> QED BY <1>2, <2>1, <2>2, <2>4, RebuiltFills
<1> QED BY <1>3, <1>4

\* What a change of the gateway records, replayed, makes the same change.
LEMMA EntryReplays ==
  ASSUME NEW o \in PendingOrder, IsOpen(o), NEW c \in Cloid, NEW act \in SmAction,
         act.kind # "ScheduleStatusCheck"
  PROVE  /\ Next1(o, EntryOf(c, o, act)) = Applied(o, act)
         /\ EntryOf(c, o, act) \in JournalEntry
         /\ EntryOf(c, o, act).cloid = c
         /\ EntryOf(c, o, act).kind # "Requested"
         /\ Applied(o, act).status # "Absent"
<1>1. EntryOf(c, o, act) \in JournalEntry /\ EntryOf(c, o, act).kind # "Requested"
  BY AppliedTyped
<1>2. CASE act.kind = "ApplyFill"
  <2> DEFINE e == EntryOf(c, o, act)
             f == OnFill(o, act.trade)
  <2>1. e = [kind |-> "Filled", cloid |-> c, trade |-> act.trade, final |-> f.status = "Filled"]
        /\ Applied(o, act) = f
    BY <1>2 DEF EntryOf, Applied
  <2>2. f.status \in {"Filled", "PartiallyFilled"} /\ f.fills = Append(o.fills, act.trade)
        /\ f = [status |-> f.status, fills |-> f.fills]
    BY DEF OnFill
  <2>3. Next1(o, e) = ReplayFill(o, e)
    BY <2>1 DEF Next1, ReplayOpen
  <2> HIDE DEF f, e
  <2>4. ReplayFill(o, e) = f
    BY <2>1, <2>2 DEF ReplayFill
  <2> QED BY <1>1, <2>1, <2>2, <2>3, <2>4 DEF e
<1>3. CASE act.kind # "ApplyFill"
  <2>1. act.kind \in {"ApplyAck", "ApplyCancel", "ApplyReject", "ApplyExpire"}
    BY <1>3 DEF SmAction
  <2>2. EntryOf(c, o, act) = [kind |-> Records[act.kind], cloid |-> c]
        /\ Applied(o, act) = [o EXCEPT !.status = Settles[act.kind]]
    BY <1>3 DEF EntryOf, Applied
  <2>3. Records[act.kind] # "Filled" /\ Records[act.kind] # "Requested"
        /\ Settles[act.kind] = (IF Records[act.kind] = "Acknowledged" THEN "New" ELSE Records[act.kind])
        /\ Settles[act.kind] # "Absent"
    BY <2>1 DEF Records, Settles
  <2>4. Next1(o, EntryOf(c, o, act)) = [o EXCEPT !.status = Settles[act.kind]]
    BY <2>2, <2>3 DEF Next1, ReplayOpen
  <2>5. [o EXCEPT !.status = Settles[act.kind]].status = Settles[act.kind]
    BY DEF PendingOrder
  <2> QED BY <1>1, <2>2, <2>3, <2>4, <2>5
<1> QED BY <1>2, <1>3

\* A change that is legal for the journal keeps journal and memory in step.
LEMMA ChangeRecorded ==
  ASSUME TypeOK, LegalJournal(journal), TrueFills, OrdersInv, up = "Running", up' = "Running",
         NEW c \in Cloid, IsOpen(orders[c]), NEW act \in SmAction, act.kind # "ScheduleStatusCheck",
         LegalAfter(EntryOf(c, orders[c], act), Entries(journal, c, Len(journal))),
         act.kind = "ApplyFill" => act.trade \in venue[c].trades,
         journal' = Append(journal, EntryOf(c, orders[c], act)),
         orders' = [orders EXCEPT ![c] = Applied(@, act)], venue' = venue
  PROVE  LegalJournal(journal)' /\ TrueFills' /\ OrdersInv'
<1> DEFINE e == EntryOf(c, orders[c], act)
           R == Replayed(journal)
<1>1. journal \in Seq(JournalEntry) /\ orders \in [Cloid -> PendingOrder]
  BY DEF TypeOK
<1>2. orders[c] \in PendingOrder /\ orders[c] # Absent /\ orders[c] = R[c]
  BY <1>1 DEF OrdersInv, IsOpen, Absent
<1>3. /\ Next1(orders[c], e) = Applied(orders[c], act) /\ e \in JournalEntry /\ e.cloid = c
      /\ e.kind # "Requested" /\ Applied(orders[c], act).status # "Absent"
  BY <1>2, EntryReplays
<1>4. e.kind = "Filled" => e.trade \in venue[c].trades
  <2>1. act.kind \in {"ApplyFill", "ApplyAck", "ApplyCancel", "ApplyReject", "ApplyExpire"}
    BY DEF SmAction
  <2>2. act.kind # "ApplyFill" => Records[act.kind] # "Filled"
    BY <2>1 DEF Records
  <2> QED BY <2>2 DEF EntryOf
<1>5. R \in [Cloid -> PendingOrder]
  <2>1. Len(journal) \in 0 .. Len(journal)
    BY <1>1, LenProperties
  <2> QED BY <1>1, <2>1, AfterEnds DEF LegalJournal, Rebuilds
<1> HIDE DEF e
<1>6. Recordable(journal, e)
  BY <1>2, <1>3 DEF Recordable, e
<1>7. journal' = Append(journal, e)
  BY DEF e
<1>8. LegalJournal(Append(journal, e)) /\ Replayed(Append(journal, e)) = ReplayEntry(R, e)
  BY <1>1, <1>3, <1>6, LegalGrows, ReplayedAppend
<1>9. ReplayEntry(R, e) = [R EXCEPT ![c] = Applied(orders[c], act)]
  BY <1>2, <1>3, <1>5, ReplayOne
<1>10. Len(journal') = Len(journal) + 1 /\ journal'[Len(journal) + 1] = e /\ Len(journal) \in Nat
       /\ \A i \in 1 .. Len(journal) : journal'[i] = journal[i]
  BY <1>1, <1>3, <1>7, AppendProperties, LenProperties
<1>11. TrueFills'
  <2> SUFFICES ASSUME NEW k \in 1 .. Len(journal'), journal'[k].kind = "Filled"
               PROVE  journal'[k].trade \in venue[journal'[k].cloid].trades
    BY DEF TrueFills
  <2>1. k \in 1 .. Len(journal) \/ k = Len(journal) + 1
    BY <1>10
  <2> QED BY <1>3, <1>4, <1>10, <2>1 DEF TrueFills
<1>12. OrdersInv'
  <2>1. \A d \in Cloid : orders'[d] = IF d = c THEN Applied(orders[c], act) ELSE orders[d]
    BY <1>1
  <2>2. \A d \in Cloid : orders'[d].status = "Absent" => orders'[d] = Absent
    BY <1>3, <2>1 DEF OrdersInv
  <2>3. \A d \in Cloid : orders'[d] # Absent => orders'[d] = Replayed(journal')[d]
    BY <1>5, <1>7, <1>8, <1>9, <2>1 DEF OrdersInv
  <2> QED BY <2>2, <2>3 DEF OrdersInv
<1> QED BY <1>7, <1>8, <1>11, <1>12

------------------------------------------------------------------------------
(***************************************************************************)
(* Apply keeps the invariant.                                              *)
(***************************************************************************)

\* What is at rest stays so when nothing about it changes.
LEMMA RestStays ==
  ASSUME NEW d \in Cloid, Rest(d), orders'[d] = orders[d], sms'[d] = sms[d],
         d \in dropped => d \in dropped', restored' = restored
  PROVE  Rest(d)'
BY DEF Rest, Mirrored

\* A part of what the exchange has traded, and less than the order asked for
\* if more is to come.
LEMMA PartOfOrder ==
  ASSUME TypeOK, VenueInv, NEW c \in Cloid, NEW s \in Seq(Trade), NEW q \in Seq(Trade),
         IsInjective(s \o q), ToSet(s \o q) \subseteq venue[c].trades
  PROVE  /\ IsInjective(s) /\ Lots(s) \in Nat
         /\ q # <<>> => Lots(s) < OrderQty
<1>1. /\ s \o q \in Seq(Trade) /\ ToSet(s \o q) = ToSet(s) \cup ToSet(q)
      /\ IsInjective(s) /\ ToSet(s) \cap ToSet(q) = {}
  BY ConcatSet
<1>2. venue[c].trades \in SUBSET Trade
  BY DEF TypeOK, VenueOrder
<1>3. Weight(venue[c].trades) <= OrderQty /\ OrderQty \in Nat /\ Weight(venue[c].trades) \in Nat
  BY <1>2, WeightType, QuantityAssumption DEF VenueInv
<1>4. Lots(s) = Weight(ToSet(s)) /\ Lots(s) \in Nat
  BY <1>1, ProgressIs
<1>5. ASSUME q # <<>> PROVE Lots(s) < OrderQty
  <2>1. ToSet(q) # {}
    BY <1>5, NonEmpty
  <2>2. ToSet(s) \in SUBSET venue[c].trades /\ ToSet(s) # venue[c].trades
    BY <1>1, <2>1
  <2>3. Weight(ToSet(s)) < Weight(venue[c].trades)
    BY <1>2, <2>2, WeightGrows
  <2> QED BY <1>3, <1>4, <2>3
<1> QED BY <1>1, <1>4, <1>5

\* One element of a list moved to the end of the list before it.
LEMMA MoveOne ==
  ASSUME NEW S, NEW f \in Seq(S), NEW t \in S, NEW q \in Seq(S)
  PROVE  /\ Append(f, t) \in Seq(S) /\ Append(f, t) # <<>>
         /\ Append(f, t) \o q = f \o (<<t>> \o q)
         /\ IsInjective(f \o (<<t>> \o q)) => IsInjective(Append(f, t)) /\ t \notin ToSet(f)
         /\ t \in ToSet(f \o (<<t>> \o q))
<1>1. Append(f, t) \in Seq(S) /\ Append(f, t) # <<>> /\ Append(f, t) = f \o <<t>>
  BY AppendProperties, AppendIsConcat
<1>2. <<t>> \in Seq(S) /\ ToSet(<<t>>) = {t}
  BY DEF ToSet
<1> DEFINE h == <<t>>
<1>3. h \in Seq(S) /\ ToSet(h) = {t} /\ Append(f, t) = f \o h
  BY <1>1, <1>2
<1> HIDE DEF h
<1>4. (f \o h) \o q = f \o (h \o q)
  BY <1>3, ConcatAssociative
<1>5. f \o h \in Seq(S) /\ ToSet(f \o h) = ToSet(f) \cup ToSet(h)
      /\ (IsInjective(f \o h) => ToSet(f) \cap ToSet(h) = {})
  BY <1>3, ConcatSet
<1>6. ToSet((f \o h) \o q) = ToSet(f \o h) \cup ToSet(q)
      /\ (IsInjective((f \o h) \o q) => IsInjective(f \o h))
  BY <1>5, ConcatSet
<1>7. t \in ToSet((f \o h) \o q)
  BY <1>3, <1>5, <1>6
<1>8. IsInjective((f \o h) \o q) => IsInjective(Append(f, t)) /\ t \notin ToSet(f)
  BY <1>3, <1>5, <1>6
<1> QED BY <1>1, <1>3, <1>4, <1>7, <1>8 DEF h

\* The first action of a plan: what it makes of the order, and what is left.
LEMMA PlanStep ==
  ASSUME TypeOK, LegalJournal(journal), TrueFills, OrdersInv, up = "Running",
         NEW c \in Cloid, NEW p \in Seq(Trade), Plan(c, p)
  PROVE  \E act \in SmAction, q \in Seq(Trade) :
           /\ todo[1] = Step(c, act) /\ act.kind # "ScheduleStatusCheck"
           /\ ~IsRepeat(orders[c], act)
           /\ LegalAfter(EntryOf(c, orders[c], act), Entries(journal, c, Len(journal)))
           /\ act.kind = "ApplyFill" => act.trade \in venue[c].trades
           /\ Tail(todo) = Acts(c, ApplyFills(q)) /\ Len(todo) = Len(q) + 1
           /\ \A i \in 2 .. Len(todo) : todo[i].cloid = c
           /\ Applied(orders[c], act).fills \in Seq(Trade)
           /\ Applied(orders[c], act).fills \o q = orders[c].fills \o p
           /\ Applied(orders[c], act).status = Progress(Applied(orders[c], act).fills)
<1> DEFINE o == orders[c]
           E == Entries(journal, c, Len(journal))
<1>1. /\ o \in PendingOrder /\ o.fills \in Seq(Trade) /\ IsInjective(o.fills)
      /\ o.status = "Pending" => o.fills = <<>>
      /\ Describes(E, o)
  BY OrderFills DEF Plan, IsOpen
<1>2. IsOpen(o) /\ o.status \in {"Pending", "New", "PartiallyFilled"}
  BY <1>1 DEF Plan, IsOpen, PendingOrder
<1>3. CASE o.status = "Pending"
  <2> DEFINE act == Do("ApplyAck")
  <2>1. todo = Acts(c, <<act>> \o ApplyFills(p))
    BY <1>3 DEF Plan
  <2>2. /\ todo[1] = Step(c, act) /\ Tail(todo) = Acts(c, ApplyFills(p)) /\ Len(todo) = Len(p) + 1
        /\ \A i \in 1 .. Len(p) : todo[i + 1] = Step(c, Fill(p[i]))
    BY <2>1, AckSteps
  <2>3. \A i \in 2 .. Len(todo) : todo[i].cloid = c
    <3> SUFFICES ASSUME NEW i \in 2 .. Len(todo) PROVE todo[i].cloid = c
      OBVIOUS
    <3>1. i - 1 \in 1 .. Len(p) /\ (i - 1) + 1 = i
      BY <2>2, LenProperties
    <3>2. todo[i] = Step(c, Fill(p[i - 1]))
      BY <2>2, <3>1
    <3> QED BY <3>2 DEF Step
  <2>4. act \in SmAction /\ act.kind = "ApplyAck"
    BY DoTyped DEF Do
  <2>5. ~IsRepeat(o, act)
    BY <1>3, <2>4 DEF IsRepeat, Settles
  <2>6. EntryOf(c, o, act) = [kind |-> "Acknowledged", cloid |-> c]
    BY <2>4 DEF EntryOf, Records
  <2>7. LegalAfter(EntryOf(c, o, act), E)
    BY <1>1, <1>3, <2>6 DEF LegalAfter, Describes
  <2>8. Applied(o, act).status = "New" /\ Applied(o, act).fills = o.fills
    BY <1>1, <2>4 DEF Applied, Settles, PendingOrder
  <2>9. Progress(o.fills) = "New"
    <3>1. OrderQty \in Nat /\ Lots(o.fills) \in Nat /\ Lots(o.fills) < OrderQty
      BY <1>1, <1>3, ProgressIs, QuantityAssumption
    <3>2. ~(Lots(o.fills) >= OrderQty)
      BY <3>1
    <3> QED BY <1>1, <1>3, <3>2, ProgressIs
  <2> QED BY <1>1, <2>2, <2>3, <2>4, <2>5, <2>7, <2>8, <2>9
<1>4. CASE o.status \in {"New", "PartiallyFilled"}
  <2>1. todo = Acts(c, ApplyFills(p)) /\ todo # <<>>
    BY <1>4 DEF Plan
  <2>2. /\ todo \in Seq(Todo) /\ Len(todo) = Len(p)
        /\ \A i \in 1 .. Len(p) : todo[i] = Step(c, Fill(p[i]))
    BY <2>1, FillSteps
  <2>3. p # <<>>
    BY <2>1, OneStep DEF ApplyFills, Acts
  <2> DEFINE t == Head(p)
             q == Tail(p)
             act == Fill(t)
  <2>4. /\ t \in Trade /\ q \in Seq(Trade) /\ p = <<t>> \o q
        /\ todo[1] = Step(c, act) /\ Tail(todo) = Acts(c, ApplyFills(q))
    BY <2>1, <2>3, FillsTail
  <2>5. Len(todo) = Len(q) + 1 /\ \A i \in 2 .. Len(todo) : todo[i].cloid = c
    <3>1. Len(q) = Len(p) - 1 /\ Len(p) \in Nat
      BY <2>3, HeadTailProperties, LenProperties
    <3>2. \A i \in 2 .. Len(todo) : i \in 1 .. Len(p)
      BY <2>2, <3>1
    <3>3. ASSUME NEW i \in 2 .. Len(todo) PROVE todo[i].cloid = c
      <4>1. todo[i] = Step(c, Fill(p[i]))
        BY <2>2, <3>2
      <4> QED BY <4>1 DEF Step
    <3> QED BY <2>2, <3>1, <3>3
  <2> HIDE DEF t, q
  <2>6. act \in SmAction /\ act.kind = "ApplyFill" /\ act.trade = t
    BY <2>4 DEF Fill, SmAction
  <2>7. ~IsRepeat(o, act)
    BY <2>6 DEF IsRepeat
  <2>8. Applied(o, act) = OnFill(o, t) /\ EntryOf(c, o, act).kind = "Filled" /\ EntryOf(c, o, act).trade = t
    BY <2>6 DEF Applied, EntryOf
  <2>9. /\ IsInjective(o.fills \o p) /\ ToSet(o.fills \o p) \subseteq venue[c].trades
    BY DEF Plan
  <2>10. /\ Append(o.fills, t) \in Seq(Trade) /\ Append(o.fills, t) # <<>>
         /\ Append(o.fills, t) \o q = o.fills \o p
    <3> HIDE DEF o
    <3> DEFINE f == o.fills
    <3>2. f \in Seq(Trade)
      BY <1>1
    <3> HIDE DEF f
    <3>3. Append(f, t) \in Seq(Trade) /\ Append(f, t) # <<>>
      BY <2>4, <3>2, MoveOne
    <3>4. Append(f, t) \o q = f \o (<<t>> \o q)
      BY <2>4, <3>2, MoveOne
    <3>1. /\ Append(o.fills, t) \in Seq(Trade) /\ Append(o.fills, t) # <<>>
          /\ Append(o.fills, t) \o q = o.fills \o (<<t>> \o q)
      BY <3>3, <3>4 DEF f
    <3> QED BY <2>4, <3>1
  <2>11. t \notin ToSet(o.fills) /\ t \in venue[c].trades /\ IsInjective(Append(o.fills, t))
    <3> HIDE DEF o
    <3>1. IsInjective(o.fills \o (<<t>> \o q)) /\ ToSet(o.fills \o (<<t>> \o q)) \subseteq venue[c].trades
      BY <2>4, <2>9
    <3> QED BY <1>1, <2>4, <3>1, MoveOne
  <2>12. LegalAfter(EntryOf(c, o, act), E)
    <3>1. /\ \E b \in E : b.kind = "Acknowledged"
          /\ \A b \in E : ~History!Closes(b)
      BY <1>1, <1>2, <1>4 DEF Describes
    <3>2. \A b \in E : b.kind = "Filled" => b.trade # t
      BY <1>1, <2>4, <2>11 DEF Describes
    <3> HIDE DEF o, E, act
    <3> QED BY <2>8, <3>1, <3>2 DEF LegalAfter
  <2>13. Applied(o, act).fills = Append(o.fills, t)
         /\ Applied(o, act).status = IF Lots(Append(o.fills, t)) >= OrderQty THEN "Filled" ELSE "PartiallyFilled"
    BY <2>8 DEF OnFill
  <2>14. Progress(Append(o.fills, t)) = Applied(o, act).status
    BY <2>10, <2>11, <2>13, ProgressIs
  <2>15. \A i \in 2 .. Len(todo) : todo[i].cloid = c
    BY <2>5
  <2> HIDE DEF o, E, act
  <2> QED BY <2>4, <2>5, <2>6, <2>7, <2>10, <2>11, <2>12, <2>13, <2>14, <2>15 DEF o, E
<1> QED BY <1>2, <1>3, <1>4

\* An action handed over: what it does to the order, the journal and the list.
LEMMA ApplyRecords ==
  ASSUME TypeOK, LegalJournal(journal), TrueFills, OrdersInv, Apply,
         NEW c \in Cloid, NEW act \in SmAction, todo[1] = Step(c, act), IsOpen(orders[c]),
         LegalAfter(EntryOf(c, orders[c], act), Entries(journal, c, Len(journal))),
         act.kind = "ApplyFill" => act.trade \in venue[c].trades
  PROVE  /\ LegalJournal(journal)' /\ TrueFills' /\ OrdersInv'
         /\ orders'[c] = Applied(orders[c], act)
         /\ \A d \in Cloid \ {c} : orders'[d] = orders[d]
         /\ \/ todo' = Tail(todo) /\ dropped' = dropped
            \/ todo' = <<>> /\ dropped' = dropped \cup {todo[i].cloid : i \in 2 .. Len(todo)}
         /\ up = "Running" /\ UNCHANGED <<up, sms, venue, restored>>
<1>1. todo[1].cloid = c /\ todo[1].act = act
  BY DEF Step
<1>2. /\ orders' = [orders EXCEPT ![c] = Applied(@, act)]
      /\ journal' = Append(journal, EntryOf(c, orders[c], act))
      /\ \/ todo' = Tail(todo) /\ dropped' = dropped
         \/ todo' = <<>> /\ dropped' = dropped \cup {todo[i].cloid : i \in 2 .. Len(todo)}
  BY <1>1 DEF Apply, ApplyTo, Persist, PersistFails
<1>3. up = "Running" /\ UNCHANGED <<up, sms, venue, restored>> /\ act.kind # "ScheduleStatusCheck"
  BY <1>1 DEF Apply, engine
<1>4. LegalJournal(journal)' /\ TrueFills' /\ OrdersInv'
  BY <1>2, <1>3, ChangeRecorded
<1>5. orders \in [Cloid -> PendingOrder]
  BY DEF TypeOK
<1> QED BY <1>2, <1>3, <1>4, <1>5

\* With no action left, all orders are at rest.
LEMMA NothingLeft ==
  ASSUME todo' = <<>>, \A c \in Cloid : Rest(c)'
  PROVE  EngineInv'
<1>1. DOMAIN todo' = {}
  OBVIOUS
<1> QED BY <1>1 DEF EngineInv, Quiet

\* With the actions of a plan left, all orders but its own are at rest.
LEMMA PlanUnderWay ==
  ASSUME NEW c \in Cloid, NEW p \in Seq(Trade), Plan(c, p)', \A d \in Cloid \ {c} : Rest(d)'
  PROVE  EngineInv'
BY DEF EngineInv, Acting

\* A plan goes on, or ends: with the last action, or with a failed write.
LEMMA PlanGoesOn ==
  ASSUME TypeOK, VenueInv, LegalJournal(journal), TrueFills, OrdersInv, Apply,
         NEW c \in Cloid, SmInv(c), NEW p \in Seq(Trade), Plan(c, p), \A d \in Cloid \ {c} : Rest(d)
  PROVE  LegalJournal(journal)' /\ TrueFills' /\ OrdersInv' /\ EngineInv'
<1>1. up = "Running"
  BY DEF Apply
<1>2. PICK act \in SmAction, q \in Seq(Trade) :
           /\ todo[1] = Step(c, act) /\ act.kind # "ScheduleStatusCheck"
           /\ LegalAfter(EntryOf(c, orders[c], act), Entries(journal, c, Len(journal)))
           /\ act.kind = "ApplyFill" => act.trade \in venue[c].trades
           /\ Tail(todo) = Acts(c, ApplyFills(q)) /\ Len(todo) = Len(q) + 1
           /\ \A i \in 2 .. Len(todo) : todo[i].cloid = c
           /\ Applied(orders[c], act).fills \in Seq(Trade)
           /\ Applied(orders[c], act).fills \o q = orders[c].fills \o p
           /\ Applied(orders[c], act).status = Progress(Applied(orders[c], act).fills)
  BY <1>1, PlanStep
<1> DEFINE o == Applied(orders[c], act)
           s == o.fills
<1>3. /\ LegalJournal(journal)' /\ TrueFills' /\ OrdersInv'
      /\ orders'[c] = o
      /\ \A d \in Cloid \ {c} : orders'[d] = orders[d]
      /\ \/ todo' = Tail(todo) /\ dropped' = dropped
         \/ todo' = <<>> /\ dropped' = dropped \cup {todo[i].cloid : i \in 2 .. Len(todo)}
      /\ UNCHANGED <<up, sms, venue, restored>>
  <2>1. IsOpen(orders[c])
    BY DEF Plan
  <2> QED BY <1>2, <2>1, ApplyRecords
<1>4. /\ s \in Seq(Trade) /\ s \o q = orders[c].fills \o p
      /\ IsInjective(s \o q) /\ ToSet(s \o q) \subseteq venue[c].trades
  BY <1>2 DEF Plan
<1>5. o.status = Progress(s)
  BY <1>2
<1> HIDE DEF o, s
<1>6. IsInjective(s) /\ Lots(s) \in Nat /\ (q # <<>> => Lots(s) < OrderQty)
  BY <1>4, PartOfOrder
<1>7. /\ ToSet(s) \in SUBSET ToSet(s \o q) /\ ToSet(s) \in SUBSET Trade
      /\ q = <<>> => s \o q = s
  <2>1. ToSet(s \o q) = ToSet(s) \cup ToSet(q)
    <3>1. s \in Seq(Trade) /\ q \in Seq(Trade)
      BY <1>4
    <3> QED BY <3>1, ConcatSet
  <2>2. ToSet(s) \in SUBSET Trade
    BY <1>4, NonEmpty
  <2>3. q = <<>> => s \o q = s
    BY <1>4, ConcatEmptySeq
  <2> QED BY <2>1, <2>2, <2>3
<1>8. OrderQty \in Nat
  BY QuantityAssumption
<1>9. /\ Lots(s) < OrderQty => o.status \in {"New", "PartiallyFilled"}
      /\ Lots(s) >= OrderQty => o.status = "Filled"
  BY <1>4, <1>5, <1>6, <1>8, ProgressIs
<1>10. \A d \in Cloid \ {c} : Rest(d)'
  <2> SUFFICES ASSUME NEW d \in Cloid \ {c} PROVE Rest(d)'
    OBVIOUS
  <2>1. d \in dropped => d \in dropped'
    BY <1>3
  <2> QED BY <1>3, <2>1, RestStays
<1>11. c \notin dropped' => c \notin dropped /\ (todo' = <<>> => q = <<>>)
  <2>1. Len(q) \in Nat /\ (q # <<>> => Len(q) # 0)
    BY LenProperties, EmptySeq
  <2>2. ASSUME q # <<>>, todo' = <<>> PROVE c \in dropped'
    <3>1. 2 \in 2 .. Len(todo)
      BY <1>2, <2>1, <2>2
    <3>2. todo[2].cloid = c
      BY <1>2, <3>1
    <3>3. todo' # Tail(todo)
      <4>1. Len(Acts(c, ApplyFills(q))) = Len(q)
        BY FillSteps
      <4> QED BY <1>2, <2>1, <2>2, <4>1
    <3> QED BY <1>3, <3>1, <3>2, <3>3
  <2> QED BY <1>3, <2>2
<1>12. CASE todo' = <<>>
  <2>1. Rest(c)'
    <3>1. sms[c].status \notin {"Pending", "UnknownStatus"}
      BY DEF Plan
    <3>2. ASSUME sms[c].status \in {"New", "PartiallyFilled"}
          PROVE  /\ o.status \in {"New", "PartiallyFilled"}
                 /\ ToSet(s) \subseteq ToSet(sms[c].counted)
                 /\ c \notin dropped' => s = sms[c].counted /\ o.status = sms[c].status
      <4>1. /\ ToSet(s \o q) \subseteq ToSet(sms[c].counted)
            /\ c \notin dropped => s \o q = sms[c].counted
        BY <1>4, <3>2 DEF Plan
      <4>2. sms[c].counted \in Seq(Trade) /\ sms[c].buffered \in Seq(Trade)
        BY DEF TypeOK, Sm
      <4>3. IsInjective(sms[c].counted) /\ sms[c].status = Progress(sms[c].counted)
        BY <3>2, <4>2, ConcatSet DEF SmInv
      <4>4. Lots(sms[c].counted) \in Nat /\ Lots(sms[c].counted) < OrderQty
            /\ Lots(sms[c].counted) = Weight(ToSet(sms[c].counted))
        BY <1>8, <3>2, <4>2, <4>3, ProgressIs
      <4>5. ToSet(sms[c].counted) \in SUBSET Trade
        BY <4>2, NonEmpty
      <4>6. Lots(s) = Weight(ToSet(s))
        BY <1>4, <1>6, ProgressIs
      <4>7. Lots(s) <= Lots(sms[c].counted)
        BY <1>7, <4>1, <4>4, <4>5, <4>6, WeightGrows
      <4>8. Lots(s) < OrderQty
        BY <1>6, <1>8, <4>4, <4>7
      <4> QED BY <1>5, <1>7, <1>9, <1>11, <1>12, <4>1, <4>3, <4>8
    <3>3. ASSUME sms[c].status = "Untracked", c \notin dropped' \cup restored, TradesQueried
          PROVE  o.status = "Filled"
      BY <1>4, <1>7, <1>9, <1>11, <1>12, <3>3 DEF Plan
    <3> QED BY <1>3, <3>1, <3>2, <3>3 DEF Rest, Mirrored, s, Terminal
  <2>2. \A d \in Cloid : Rest(d)'
    BY <1>10, <2>1
  <2> QED BY <1>3, <1>12, <2>2, NothingLeft
<1>13. CASE todo' # <<>>
  <2>1. todo' = Acts(c, ApplyFills(q)) /\ dropped' = dropped
    BY <1>2, <1>3, <1>13
  <2>2. q # <<>>
    BY <1>13, <2>1 DEF Acts, ApplyFills
  <2>3. IsOpen(o) /\ o.status # "Pending"
    BY <1>6, <1>9, <2>2 DEF IsOpen, Terminal
  <2>4. Plan(c, q)'
    BY <1>3, <1>4, <1>13, <2>1, <2>3 DEF Plan, s
  <2> QED BY <1>3, <1>10, <2>4, PlanUnderWay
<1> QED BY <1>3, <1>12, <1>13

\* The one action that closes an order.
LEMMA ClosingStep ==
  ASSUME TypeOK, LegalJournal(journal), TrueFills, OrdersInv, Apply, NEW c \in Cloid, Closing(c)
  PROVE  \E act \in SmAction :
           /\ todo[1] = Step(c, act) /\ act.kind \notin {"ApplyFill", "ScheduleStatusCheck"}
           /\ LegalAfter(EntryOf(c, orders[c], act), Entries(journal, c, Len(journal)))
           /\ Applied(orders[c], act).status \in Terminal
           /\ Tail(todo) = <<>>
<1>1. PICK k \in {"ApplyCancel", "ApplyReject", "ApplyExpire"} : todo = Acts(c, <<Do(k)>>)
  BY DEF Closing
<1> DEFINE act == Do(k)
<1>2. act \in SmAction /\ act.kind = k
  BY DoTyped DEF Do
<1>3. todo = <<Step(c, act)>>
  BY <1>1, <1>2, OneStep
<1>4. IsOpen(orders[c]) /\ up = "Running"
  BY DEF Closing, Apply
<1>5. Describes(Entries(journal, c, Len(journal)), orders[c]) /\ orders[c] \in PendingOrder
  BY <1>4, OrderFills DEF IsOpen
<1>6. EntryOf(c, orders[c], act) = [kind |-> Records[k], cloid |-> c]
      /\ Records[k] \in {"Cancelled", "Rejected", "Expired"}
      /\ Applied(orders[c], act).status \in Terminal
  BY <1>2, <1>5 DEF EntryOf, Records, Applied, Settles, Terminal, PendingOrder
<1>7. LegalAfter(EntryOf(c, orders[c], act), Entries(journal, c, Len(journal)))
  BY <1>4, <1>5, <1>6 DEF LegalAfter, Describes, IsOpen
<1>8. todo[1] = Step(c, act) /\ Tail(todo) = <<>>
  BY <1>3
<1>9. act.kind \notin {"ApplyFill", "ScheduleStatusCheck"}
  BY <1>2
<1> QED BY <1>2, <1>6, <1>7, <1>8, <1>9

\* The order that the engine has forgotten is closed.
LEMMA ClosingEnds ==
  ASSUME TypeOK, LegalJournal(journal), TrueFills, OrdersInv, Apply,
         NEW c \in Cloid, Closing(c), \A d \in Cloid \ {c} : Rest(d)
  PROVE  LegalJournal(journal)' /\ TrueFills' /\ OrdersInv' /\ EngineInv'
<1>1. PICK act \in SmAction :
           /\ todo[1] = Step(c, act) /\ act.kind # "ApplyFill"
           /\ LegalAfter(EntryOf(c, orders[c], act), Entries(journal, c, Len(journal)))
           /\ Applied(orders[c], act).status \in Terminal
           /\ Tail(todo) = <<>>
  BY ClosingStep
<1>2. IsOpen(orders[c]) /\ sms[c].status = "Untracked"
  BY DEF Closing
<1>3. /\ LegalJournal(journal)' /\ TrueFills' /\ OrdersInv'
      /\ orders'[c] = Applied(orders[c], act)
      /\ \A d \in Cloid \ {c} : orders'[d] = orders[d]
      /\ \/ todo' = Tail(todo) /\ dropped' = dropped
         \/ todo' = <<>> /\ dropped' = dropped \cup {todo[i].cloid : i \in 2 .. Len(todo)}
      /\ UNCHANGED <<up, sms, venue, restored>>
  BY <1>1, <1>2, ApplyRecords
<1>4. \A d \in Cloid \ {c} : Rest(d)'
  <2> SUFFICES ASSUME NEW d \in Cloid \ {c} PROVE Rest(d)'
    OBVIOUS
  <2>1. d \in dropped => d \in dropped'
    BY <1>3
  <2> QED BY <1>3, <2>1, RestStays
<1>5. Rest(c)'
  <2>1. sms'[c].status = "Untracked" /\ orders'[c].status \in Terminal
    BY <1>1, <1>2, <1>3
  <2> QED BY <2>1 DEF Rest
<1>6. todo' = <<>>
  BY <1>1, <1>3
<1> QED BY <1>3, <1>4, <1>5, <1>6, NothingLeft

\* Apply keeps the invariant.
LEMMA ApplyKeeps ==
  ASSUME Inv, Apply
  PROVE  Inv'
<1>1. TypeOK' /\ IdInv'
  BY ApplyTyped, ApplyFresh DEF Inv
<1>2. UNCHANGED <<sms, checks, venue, restored>>
  BY DEF Apply, engine
<1>3. VenueInv' /\ ChecksInv' /\ \A c \in Cloid : SmInv(c)'
  BY <1>2 DEF Inv, VenueInv, ChecksInv, SmInv
<1>4. PICK c \in Cloid : Acting(c)
  <2>1. ~Quiet
    <3>1. 1 \in DOMAIN todo /\ todo[1].act.kind # "ScheduleStatusCheck"
      BY EmptySeq, LenProperties DEF Inv, TypeOK, Apply
    <3> QED BY <3>1 DEF Quiet
  <2> QED BY <2>1 DEF Inv, EngineInv, Apply
<1>5. LegalJournal(journal)' /\ TrueFills' /\ OrdersInv' /\ EngineInv'
  BY <1>4, PlanGoesOn, ClosingEnds DEF Inv, Acting
<1> QED BY <1>1, <1>3, <1>5 DEF Inv

------------------------------------------------------------------------------
(***************************************************************************)
(* Reports and answers keep the invariant.                                 *)
(***************************************************************************)

\* What an input may do to a tracked order (machine.rs:226-374).
LEMMA ProcessIs ==
  ASSUME NEW m \in Sm, m.status # "Untracked", NEW in \in SmInput
  PROVE  \/ Process(m, in) = Ignored(m)
         \/ m.status \in {"Pending", "UnknownStatus"} /\ Process(m, in) = Acknowledge(m)
         \/ /\ m.status \in {"Pending", "UnknownStatus"} /\ in.kind = "FillReceived"
            /\ Process(m, in) = BufferFill(m, in.trade)
         \/ /\ m.status \in {"New", "PartiallyFilled"} /\ in.kind = "FillReceived"
            /\ Process(m, in) = CountFill(m, in.trade)
         \/ \E status \in Terminal, k \in {"ApplyCancel", "ApplyReject", "ApplyExpire"} :
               Process(m, in) = Closed(m, status, k)
         \/ /\ m.status = "UnknownStatus" /\ in.kind = "StatusCheckResult"
            /\ in.outcome.kind = "Filled"
            /\ Process(m, in) = FilledByCheck(m, in.outcome.trades)
         \/ Process(m, in) = Result(m, <<Do("ScheduleStatusCheck")>>)
<1> DEFINE Ends(r) == \E status \in Terminal, k \in {"ApplyCancel", "ApplyReject", "ApplyExpire"} :
                         r = Closed(m, status, k)
<1>1. /\ Ends(Closed(m, "Rejected", "ApplyReject")) /\ Ends(Closed(m, "Cancelled", "ApplyCancel"))
      /\ Ends(Closed(m, "Expired", "ApplyExpire"))
  BY DEF Terminal
<1> HIDE DEF Ends
<1>2. m.status \in {"Pending", "New", "PartiallyFilled", "UnknownStatus"}
  BY DEF Sm, InPlay
<1>3. \/ ProcessPending(m, in) = Ignored(m) \/ ProcessPending(m, in) = Acknowledge(m)
      \/ Ends(ProcessPending(m, in))
      \/ in.kind = "FillReceived" /\ ProcessPending(m, in) = BufferFill(m, in.trade)
  BY <1>1 DEF ProcessPending
<1>4. \/ ProcessLive(m, in) = Ignored(m) \/ Ends(ProcessLive(m, in))
      \/ in.kind = "FillReceived" /\ ProcessLive(m, in) = CountFill(m, in.trade)
  BY <1>1 DEF ProcessLive
<1>5. \/ ProcessUnknown(m, in) = Ignored(m) \/ ProcessUnknown(m, in) = Acknowledge(m)
      \/ Ends(ProcessUnknown(m, in))
      \/ in.kind = "FillReceived" /\ ProcessUnknown(m, in) = BufferFill(m, in.trade)
      \/ in.kind = "StatusCheckResult" /\ ProcessUnknown(m, in) = ResolveFromCheck(m, in.outcome)
  BY <1>1 DEF ProcessUnknown
<1>6. ASSUME NEW outcome
      PROVE  \/ ResolveFromCheck(m, outcome) = Acknowledge(m) \/ Ends(ResolveFromCheck(m, outcome))
             \/ /\ outcome.kind = "Filled"
                /\ ResolveFromCheck(m, outcome) = FilledByCheck(m, outcome.trades)
             \/ ResolveFromCheck(m, outcome) = Result(m, <<Do("ScheduleStatusCheck")>>)
  BY <1>1 DEF ResolveFromCheck
<1>7. CASE m.status = "Pending"
  <2>1. Process(m, in) = ProcessPending(m, in)
    BY <1>7 DEF Process
  <2> QED BY <1>3, <1>7, <2>1 DEF Ends
<1>8. CASE m.status \in {"New", "PartiallyFilled"}
  <2>1. Process(m, in) = ProcessLive(m, in)
    BY <1>8 DEF Process
  <2> QED BY <1>4, <1>8, <2>1 DEF Ends
<1>9. CASE m.status = "UnknownStatus"
  <2>1. Process(m, in) = ProcessUnknown(m, in)
    BY <1>9 DEF Process
  <2> DEFINE outcome == in.outcome
  <2>2. \/ ResolveFromCheck(m, outcome) = Acknowledge(m) \/ Ends(ResolveFromCheck(m, outcome))
        \/ outcome.kind = "Filled" /\ ResolveFromCheck(m, outcome) = FilledByCheck(m, outcome.trades)
        \/ ResolveFromCheck(m, outcome) = Result(m, <<Do("ScheduleStatusCheck")>>)
    <3> HIDE DEF outcome
    <3> QED BY <1>6
  <2> QED BY <1>5, <1>9, <2>1, <2>2 DEF Ends
<1> QED BY <1>2, <1>7, <1>8, <1>9

\* The engine takes the result r of an input, and hands its actions over.
Fed(c, r) ==
  /\ up = "Running" /\ todo = <<>>
  /\ sms' = [sms EXCEPT ![c] = Kept(r.sm)] /\ todo' = Acts(c, r.actions)
  /\ UNCHANGED <<up, orders, journal, venue, dropped, restored>>

\* While no action is under way, every order is at rest.
LEMMA IdleRests ==
  ASSUME Inv, up = "Running", todo = <<>>
  PROVE  \A c \in Cloid : Rest(c)
<1>1. ASSUME NEW c \in Cloid, Acting(c) PROVE FALSE
  <2>1. \A k : Acts(c, <<Do(k)>>) # <<>>
    BY DEF Acts
  <2> QED BY <1>1, <2>1 DEF Acting, Plan, Closing
<1> QED BY <1>1 DEF Inv, EngineInv, Quiet

\* The other orders stay at rest.
LEMMA OthersRest ==
  ASSUME Inv, NEW c \in Cloid, NEW r, Fed(c, r)
  PROVE  /\ sms'[c] = Kept(r.sm) /\ Rest(c)
         /\ \A d \in Cloid \ {c} : Rest(d)' /\ SmInv(d)'
<1>1. sms \in [Cloid -> Sm]
  BY DEF Inv, TypeOK
<1>2. sms'[c] = Kept(r.sm) /\ \A d \in Cloid \ {c} : sms'[d] = sms[d]
  BY <1>1 DEF Fed
<1>3. \A d \in Cloid : Rest(d)
  BY IdleRests DEF Fed
<1>4. ASSUME NEW d \in Cloid \ {c} PROVE Rest(d)' /\ SmInv(d)'
  <2>1. sms'[d] = sms[d] /\ orders'[d] = orders[d] /\ restored' = restored
        /\ (d \in dropped => d \in dropped') /\ venue' = venue
    BY <1>2 DEF Fed
  <2>2. SmInv(d)'
    BY <2>1 DEF SmInv, Inv
  <2> QED BY <1>3, <2>1, <2>2, RestStays
<1> QED BY <1>2, <1>3, <1>4

\* An order in doubt: its fills are all buffered, and the gateway knows of none.
LEMMA WaitingIs ==
  ASSUME Inv, NEW c \in Cloid, sms[c].status \in {"Pending", "UnknownStatus"}, Rest(c)
  PROVE  /\ sms[c].counted = <<>> /\ sms[c].buffered \in Seq(Trade)
         /\ sms[c].seen = ToSet(sms[c].buffered) /\ IsInjective(sms[c].buffered)
         /\ sms[c].seen \subseteq venue[c].trades
         /\ orders[c] = NewPending /\ sms[c] \in Sm
<1>1. sms[c] \in Sm /\ sms[c].buffered \in Seq(Trade)
  BY DEF Inv, TypeOK, Sm
<1>2. SmInv(c)
  BY DEF Inv
<1>3. sms[c].counted = <<>>
  BY <1>2 DEF SmInv
<1>4. sms[c].counted \o sms[c].buffered = sms[c].buffered
  BY <1>1, <1>3, ConcatEmptySeq
<1> QED BY <1>1, <1>2, <1>3, <1>4 DEF SmInv, Rest

\* A live order: its fills are all counted.
LEMMA LiveIs ==
  ASSUME Inv, NEW c \in Cloid, sms[c].status \in {"New", "PartiallyFilled"}
  PROVE  /\ sms[c].buffered = <<>> /\ sms[c].counted \in Seq(Trade)
         /\ sms[c].seen = ToSet(sms[c].counted) /\ IsInjective(sms[c].counted)
         /\ sms[c].seen \subseteq venue[c].trades /\ sms[c] \in Sm
<1>1. sms[c] \in Sm /\ sms[c].counted \in Seq(Trade)
  BY DEF Inv, TypeOK, Sm
<1>2. SmInv(c)
  BY DEF Inv
<1>3. sms[c].buffered = <<>>
  BY <1>2 DEF SmInv
<1>4. sms[c].counted \o sms[c].buffered = sms[c].counted
  BY <1>1, <1>3, ConcatEmptySeq
<1> QED BY <1>1, <1>2, <1>3, <1>4 DEF SmInv

\* The machine of a live order, or none when it is filled.
LEMMA CountedSm ==
  ASSUME NEW c \in Cloid, NEW b \in Seq(Trade), IsInjective(b), ToSet(b) \subseteq venue'[c].trades,
         sms'[c] = Kept([status |-> Progress(b), counted |-> b, buffered |-> <<>>, seen |-> ToSet(b)])
  PROVE  /\ SmInv(c)' /\ sms'[c].status \in {"New", "PartiallyFilled", "Untracked"}
         /\ sms'[c].status # "Untracked" => sms'[c].counted = b
         /\ sms'[c].status = "Untracked" => Lots(b) >= OrderQty
<1>1. Progress(b) \in {"Filled", "PartiallyFilled", "New"} /\ (Progress(b) = "Filled" => Lots(b) >= OrderQty)
  BY ProgressIs
<1>2. b \o <<>> = b
  BY ConcatEmptySeq
<1>3. CASE Progress(b) = "Filled"
  <2>1. sms'[c].status = "Untracked"
    BY <1>3 DEF Kept, Terminal, Untracked, NewSm
  <2> QED BY <1>1, <1>3, <2>1 DEF SmInv
<1>4. CASE Progress(b) # "Filled"
  <2>1. sms'[c] = [status |-> Progress(b), counted |-> b, buffered |-> <<>>, seen |-> ToSet(b)]
    BY <1>1, <1>4 DEF Kept, Terminal
  <2>5. /\ sms'[c].status = Progress(b) /\ sms'[c].counted = b /\ sms'[c].buffered = <<>>
        /\ sms'[c].seen = ToSet(b)
    BY <2>1
  <2>2. /\ sms'[c].status = Progress(b) /\ sms'[c].counted = b /\ sms'[c].buffered = <<>>
        /\ sms'[c].seen = ToSet(b) /\ sms'[c].counted \o sms'[c].buffered = b
    BY <1>2, <2>5
  <2>3. sms'[c].status \in {"PartiallyFilled", "New"}
    BY <1>1, <1>4, <2>2
  <2>4. SmInv(c)'
    BY <2>2, <2>3 DEF SmInv
  <2> QED BY <2>2, <2>3, <2>4
<1> QED BY <1>3, <1>4

\* An acknowledgement: the gateway is to acknowledge, and to count what was buffered.
LEMMA AcknowledgeFed ==
  ASSUME Inv, NEW c \in Cloid, sms[c].status \in {"Pending", "UnknownStatus"},
         Fed(c, Acknowledge(sms[c]))
  PROVE  SmInv(c)' /\ EngineInv'
<1> DEFINE m == sms[c]
<1>1. /\ sms'[c] = Kept(Acknowledge(m).sm) /\ Rest(c)
      /\ \A d \in Cloid \ {c} : Rest(d)'
  BY OthersRest
<1>2. PICK b \in Seq(Trade) : b = m.buffered
  BY <1>1, WaitingIs
<1>3. /\ m.counted = <<>> /\ m.seen = ToSet(b) /\ IsInjective(b)
       /\ m.seen \subseteq venue[c].trades /\ orders[c] = NewPending /\ m \in Sm
  BY <1>1, <1>2, WaitingIs
<1>4. UNCHANGED <<orders, venue, dropped, restored>> /\ todo' = Acts(c, Acknowledge(m).actions)
  BY DEF Fed
<1> HIDE DEF m
<1>5. <<>> \o b = b
  BY <1>2, <1>3, ConcatEmptySeq
<1>6. Acknowledge(m).actions = <<Do("ApplyAck")>> \o ApplyFills(b)
  BY <1>2 DEF Acknowledge, Result
<1>7. Acknowledge(m).sm = [status |-> Progress(b), counted |-> b, buffered |-> <<>>, seen |-> ToSet(b)]
  BY <1>2, <1>3, <1>5 DEF Acknowledge, Result, Sm
<1>8. /\ SmInv(c)' /\ sms'[c].status \in {"New", "PartiallyFilled", "Untracked"}
      /\ sms'[c].status # "Untracked" => sms'[c].counted = b
      /\ sms'[c].status = "Untracked" => Lots(b) >= OrderQty
  <2>1. ToSet(b) \subseteq venue'[c].trades
    BY <1>2, <1>3, <1>4
  <2> QED BY <1>1, <1>2, <1>3, <1>7, <2>1, CountedSm
<1>9. todo' # <<>>
  <2>1. Len(todo') = Len(b) + 1 /\ Len(b) \in Nat
    BY <1>2, <1>3, <1>4, <1>6, AckSteps, LenProperties
  <2>2. Len(<<>>) = 0
    OBVIOUS
  <2> QED BY <2>1, <2>2
<1>10. /\ orders'[c] = NewPending /\ NewPending.status = "Pending" /\ NewPending.fills = <<>>
      /\ IsOpen(NewPending)
  BY <1>2, <1>3, <1>4 DEF NewPending, IsOpen, Terminal
<1>11. orders'[c].fills \o b = b /\ orders'[c].status = "Pending" /\ IsOpen(orders'[c])
  BY <1>5, <1>10
<1>12. todo' = Acts(c, <<Do("ApplyAck")>> \o ApplyFills(b))
  BY <1>4, <1>6
<1>13. b \in Seq(Trade) /\ IsInjective(b) /\ ToSet(b) \subseteq venue'[c].trades
  BY <1>2, <1>3, <1>4
<1>14. Plan(c, b)'
  BY <1>4, <1>8, <1>9, <1>11, <1>12, <1>13 DEF Plan
<1>15. EngineInv'
  BY <1>1, <1>13, <1>14, PlanUnderWay
<1> QED BY <1>8, <1>15

\* A fill of a live order that the machine has not seen.
LEMMA CountFed ==
  ASSUME Inv, NEW c \in Cloid, sms[c].status \in {"New", "PartiallyFilled"},
         NEW t \in Trade, t \in venue[c].trades, t \notin sms[c].seen, Fed(c, CountFill(sms[c], t))
  PROVE  SmInv(c)' /\ EngineInv'
<1> DEFINE m == sms[c]
           b == Append(m.counted, t)
           f == orders[c].fills
           p == <<t>>
<1>1. /\ sms'[c] = Kept(CountFill(m, t).sm) /\ Rest(c)
      /\ \A d \in Cloid \ {c} : Rest(d)'
  BY OthersRest
<1>2. /\ m.buffered = <<>> /\ m.counted \in Seq(Trade) /\ m.seen = ToSet(m.counted)
      /\ IsInjective(m.counted) /\ m.seen \subseteq venue[c].trades /\ m \in Sm
  BY LiveIs
<1>3. UNCHANGED <<orders, venue, dropped, restored>> /\ todo' = Acts(c, CountFill(m, t).actions)
  BY DEF Fed
<1>4. /\ orders[c].status \in {"New", "PartiallyFilled"}
      /\ ToSet(f) \subseteq ToSet(m.counted)
      /\ c \notin dropped => f = m.counted
  BY <1>1 DEF Rest, Mirrored
<1>5. f \in Seq(Trade) /\ IsInjective(f) /\ ToSet(f) \subseteq venue[c].trades
  BY OrderFills DEF Inv
<1> HIDE DEF m, f
<1>6. /\ b \in Seq(Trade) /\ ToSet(b) = ToSet(m.counted) \cup {t} /\ IsInjective(b)
  <2>1. t \notin ToSet(m.counted)
    BY <1>2 DEF m
  <2> QED BY <1>2, <2>1, AppendSet, AppendProperties
<1>7. /\ CountFill(m, t).actions = ApplyFills(p)
      /\ CountFill(m, t).sm = [status |-> Progress(b), counted |-> b, buffered |-> <<>>, seen |-> ToSet(b)]
  BY <1>2, <1>6 DEF CountFill, Result, Sm, m
<1>8. /\ Append(f, t) \in Seq(Trade) /\ ToSet(Append(f, t)) = ToSet(f) \cup {t}
      /\ IsInjective(Append(f, t)) /\ f \o p = Append(f, t) /\ p \in Seq(Trade)
  <2>1. t \notin ToSet(f)
    BY <1>2, <1>4 DEF m
  <2> QED BY <1>5, <2>1, AppendSet, AppendProperties, AppendIsConcat
<1>9. c \notin dropped => f \o p = b
  BY <1>4, <1>8
<1> HIDE DEF b
<1>10. /\ SmInv(c)' /\ sms'[c].status \in {"New", "PartiallyFilled", "Untracked"}
       /\ sms'[c].status # "Untracked" => sms'[c].counted = b
       /\ sms'[c].status = "Untracked" => Lots(b) >= OrderQty
  <2>1. ToSet(b) \subseteq venue'[c].trades
    BY <1>2, <1>3, <1>6
  <2> QED BY <1>1, <1>6, <1>7, <2>1, CountedSm
<1>11. todo' = Acts(c, ApplyFills(p)) /\ todo' # <<>>
  BY <1>3, <1>7 DEF Acts, ApplyFills
<1>12. orders'[c].fills = f /\ orders'[c].status # "Pending" /\ IsOpen(orders'[c])
  BY <1>3, <1>4 DEF IsOpen, Terminal, f
<1>13. ToSet(f \o p) \subseteq ToSet(b) /\ ToSet(f \o p) \subseteq venue'[c].trades
  BY <1>3, <1>4, <1>5, <1>6, <1>8
<1> HIDE DEF p
<1>14. Plan(c, p)'
  BY <1>3, <1>8, <1>9, <1>10, <1>11, <1>12, <1>13 DEF Plan
<1> QED BY <1>1, <1>8, <1>10, <1>14, PlanUnderWay

\* Nothing to hand over: the machine is as before, or has buffered a fill.
LEMMA NothingFed ==
  ASSUME Inv, NEW c \in Cloid, NEW r, Fed(c, r), r.actions = <<>>,
         Kept(r.sm).status = sms[c].status, Kept(r.sm).counted = sms[c].counted
  PROVE  EngineInv'
<1>1. /\ sms'[c] = Kept(r.sm) /\ Rest(c)
      /\ \A d \in Cloid \ {c} : Rest(d)'
  BY OthersRest
<1>2. UNCHANGED <<orders, dropped, restored>> /\ todo' = Acts(c, r.actions)
  BY DEF Fed
<1>3. todo' = <<>>
  BY <1>2 DEF Acts
<1>4. Rest(c)'
  BY <1>1, <1>2 DEF Rest, Mirrored
<1>5. \A d \in Cloid : Rest(d)'
  BY <1>1, <1>4
<1> QED BY <1>3, <1>5, NothingLeft

\* A machine in play that an input leaves as it is.
LEMMA SameSm ==
  ASSUME Inv, NEW c \in Cloid, sms[c].status # "Untracked", NEW r, Fed(c, r), r.sm = sms[c]
  PROVE  Kept(r.sm) = sms[c] /\ SmInv(c)'
<1>1. sms[c].status \notin Terminal
  BY DEF Inv, TypeOK, Sm, InPlay, Terminal
<1>2. Kept(r.sm) = sms[c]
  BY <1>1 DEF Kept
<1>3. sms'[c] = sms[c] /\ venue' = venue
  BY <1>2, OthersRest DEF Fed
<1> QED BY <1>2, <1>3 DEF SmInv, Inv

\* An input that is ignored.
LEMMA IgnoredFed ==
  ASSUME Inv, NEW c \in Cloid, sms[c].status # "Untracked", Fed(c, Ignored(sms[c]))
  PROVE  SmInv(c)' /\ EngineInv'
<1>1. Ignored(sms[c]).sm = sms[c] /\ Ignored(sms[c]).actions = <<>>
  BY DEF Ignored, Result
<1> DEFINE r == Ignored(sms[c])
<1>2. r.sm = sms[c] /\ r.actions = <<>> /\ Fed(c, r)
  BY <1>1
<1> HIDE DEF r
<1>3. Kept(r.sm) = sms[c] /\ SmInv(c)'
  BY <1>2, SameSm
<1>4. EngineInv'
  BY <1>2, <1>3, NothingFed
<1> QED BY <1>3, <1>4

\* A check that failed is asked again.
LEMMA RecheckFed ==
  ASSUME Inv, NEW c \in Cloid, sms[c].status # "Untracked",
         Fed(c, Result(sms[c], <<Do("ScheduleStatusCheck")>>))
  PROVE  SmInv(c)' /\ EngineInv'
<1> DEFINE act == Do("ScheduleStatusCheck")
           r == Result(sms[c], <<act>>)
<1>1. r.sm = sms[c] /\ r.actions = <<act>> /\ Fed(c, r)
  BY DEF Result
<1>2. act \in SmAction /\ act.kind = "ScheduleStatusCheck"
  BY DoTyped DEF Do
<1> HIDE DEF r, act
<1>3. Kept(r.sm) = sms[c] /\ SmInv(c)'
  BY <1>1, SameSm
<1>4. sms'[c] = Kept(r.sm) /\ Rest(c) /\ \A d \in Cloid \ {c} : Rest(d)'
  BY <1>1, OthersRest
<1>5. UNCHANGED <<up, orders, dropped, restored>> /\ todo' = Acts(c, r.actions)
  BY <1>1 DEF Fed
<1>6. todo' = <<Step(c, act)>>
  BY <1>1, <1>2, <1>5, OneStep
<1>7. \A i \in DOMAIN todo' : todo'[i].act.kind = "ScheduleStatusCheck"
  BY <1>2, <1>6 DEF Step
<1>8. Rest(c)'
  BY <1>3, <1>4, <1>5 DEF Rest, Mirrored
<1>9. \A d \in Cloid : Rest(d)'
  BY <1>4, <1>8
<1> QED BY <1>3, <1>7, <1>9 DEF EngineInv, Quiet

\* A fill of an order in doubt, buffered unless it was seen before.
LEMMA BufferFed ==
  ASSUME Inv, NEW c \in Cloid, sms[c].status \in {"Pending", "UnknownStatus"},
         NEW t \in Trade, t \in venue[c].trades, Fed(c, BufferFill(sms[c], t))
  PROVE  SmInv(c)' /\ EngineInv'
<1> DEFINE r == BufferFill(sms[c], t)
<1>1. sms'[c] = Kept(r.sm) /\ Rest(c)
  BY OthersRest
<1>2. PICK b \in Seq(Trade) : b = sms[c].buffered
  BY <1>1, WaitingIs
<1>3. /\ sms[c].counted = <<>> /\ sms[c].seen = ToSet(b) /\ IsInjective(b)
      /\ sms[c].seen \subseteq venue[c].trades /\ sms[c] \in Sm
  BY <1>1, <1>2, WaitingIs
<1>4. CASE t \in sms[c].seen
  <2>1. BufferFill(sms[c], t) = Ignored(sms[c])
    BY <1>4 DEF BufferFill
  <2>2. sms[c].status # "Untracked"
    OBVIOUS
  <2> QED BY <2>1, <2>2, IgnoredFed
<1>5. CASE t \notin sms[c].seen
  <2> DEFINE a == Append(b, t)
  <2>1. a \in Seq(Trade) /\ ToSet(a) = ToSet(b) \cup {t} /\ IsInjective(a) /\ <<>> \o a = a
    BY <1>2, <1>3, <1>5, AppendSet, AppendProperties, ConcatEmptySeq
  <2>2. r.sm = [status |-> sms[c].status, counted |-> <<>>, buffered |-> a, seen |-> ToSet(a)]
        /\ r.actions = <<>>
    BY <1>2, <1>3, <1>5, <2>1 DEF BufferFill, Result, Sm
  <2>3. Fed(c, r)
    OBVIOUS
  <2> HIDE DEF a, r
  <2>4. Kept(r.sm) = r.sm /\ r.sm.status = sms[c].status /\ r.sm.counted = <<>>
        /\ r.sm.buffered = a /\ r.sm.seen = ToSet(a)
    BY <2>2 DEF Kept, Terminal
  <2>5. EngineInv'
    BY <1>3, <2>2, <2>3, <2>4, NothingFed
  <2>6. /\ sms'[c].status \in {"Pending", "UnknownStatus"} /\ sms'[c].counted = <<>>
        /\ sms'[c].buffered = a /\ sms'[c].seen = ToSet(a)
    BY <1>1, <2>4
  <2>7. sms'[c].counted \o sms'[c].buffered = a
    BY <2>1, <2>6
  <2>8. ToSet(a) \subseteq venue'[c].trades
    BY <1>3, <2>1, <2>3 DEF Fed
  <2>9. SmInv(c)'
    BY <2>1, <2>6, <2>7, <2>8 DEF SmInv
  <2> QED BY <2>5, <2>9
<1> QED BY <1>4, <1>5

\* The end of an order: the engine forgets it, the gateway is to close it.
LEMMA ClosedFed ==
  ASSUME Inv, NEW c \in Cloid, sms[c].status # "Untracked",
         NEW status \in Terminal, NEW k \in {"ApplyCancel", "ApplyReject", "ApplyExpire"},
         Fed(c, Closed(sms[c], status, k))
  PROVE  SmInv(c)' /\ EngineInv'
<1> DEFINE r == Closed(sms[c], status, k)
<1>1. sms'[c] = Kept(r.sm) /\ Rest(c) /\ \A d \in Cloid \ {c} : Rest(d)'
  BY OthersRest
<1>2. sms[c] \in Sm
  BY DEF Inv, TypeOK
<1>3. r.sm.status = status /\ r.actions = <<Do(k)>>
  BY <1>2 DEF Closed, Result, Sm
<1>4. orders' = orders /\ todo' = Acts(c, r.actions)
  BY DEF Fed
<1> HIDE DEF r
<1>5. sms'[c].status = "Untracked"
  BY <1>1, <1>3 DEF Kept, Untracked, NewSm
<1>6. SmInv(c)'
  BY <1>5 DEF SmInv
<1>7. IsOpen(orders[c])
  <2>1. sms[c].status \in {"Pending", "UnknownStatus", "New", "PartiallyFilled"}
    BY <1>2 DEF Sm, InPlay
  <2>2. orders[c].status \in {"Pending", "New", "PartiallyFilled"}
    BY <1>1, <2>1 DEF Rest, NewPending
  <2> QED BY <2>2 DEF IsOpen, Terminal
<1>8. Closing(c)'
  BY <1>3, <1>4, <1>5, <1>7 DEF Closing
<1>9. EngineInv'
  BY <1>1, <1>8 DEF EngineInv, Acting
<1> QED BY <1>6, <1>9

\* A check found the order filled: the trades it lists are handed over, each once.
LEMMA FilledFed ==
  ASSUME Inv, NEW c \in Cloid, sms[c].status = "UnknownStatus", checks[c].kind = "Filled",
         Fed(c, FilledByCheck(sms[c], checks[c].trades))
  PROVE  SmInv(c)' /\ EngineInv'
<1>1. /\ sms'[c] = Kept(FilledByCheck(sms[c], checks[c].trades).sm) /\ Rest(c)
      /\ \A d \in Cloid \ {c} : Rest(d)'
  BY OthersRest
<1>2. PICK b \in Seq(Trade) : b = sms[c].buffered
  BY <1>1, WaitingIs
<1>3. /\ sms[c].counted = <<>> /\ sms[c].seen = ToSet(b) /\ IsInjective(b)
      /\ sms[c].seen \subseteq venue[c].trades /\ sms[c] \in Sm /\ orders[c] = NewPending
  BY <1>1, <1>2, WaitingIs
<1>4. PICK listed \in SUBSET Trade : listed = checks[c].trades
  BY DEF Inv, TypeOK, Check, Outcome, Do
<1>5. /\ listed \subseteq venue[c].trades
      /\ TradesQueried => listed = venue[c].trades
      /\ Weight(venue[c].trades) = OrderQty
  BY <1>4 DEF Inv, ChecksInv, VenueInv
<1>6. UNCHANGED <<orders, venue, dropped, restored>>
      /\ todo' = Acts(c, FilledByCheck(sms[c], listed).actions)
  BY <1>4 DEF Fed
<1>7. IsFiniteSet(listed \ ToSet(b))
  BY QuantityAssumption, FS_Subset
<1>8. PICK l \in Seq(Trade) : /\ l = SetToSeq(listed \ sms[c].seen) /\ IsInjective(l)
                              /\ ToSet(l) = listed \ ToSet(b)
  <2>1. SetToSeq(listed \ ToSet(b)) \in Seq(listed \ ToSet(b))
        /\ IsInjective(SetToSeq(listed \ ToSet(b)))
        /\ ToSet(SetToSeq(listed \ ToSet(b))) = listed \ ToSet(b)
    BY <1>7, Listing, ListingIsSeq, ListingSet
  <2>2. SetToSeq(listed \ ToSet(b)) \in Seq(Trade)
    BY <2>1, SeqMonotonic
  <2> QED BY <1>3, <2>1, <2>2
<1>9. PICK p \in Seq(Trade) : /\ p = l \o b /\ IsInjective(p) /\ ToSet(p) \subseteq venue[c].trades
                              /\ ToSet(p) = listed \cup ToSet(b)
  <2>1. /\ l \o b \in Seq(Trade) /\ ToSet(l \o b) = ToSet(l) \cup ToSet(b)
        /\ IsInjective(l \o b) <=> /\ IsInjective(l) /\ IsInjective(b)
                                   /\ ToSet(l) \cap ToSet(b) = {}
    BY ConcatSet
  <2> QED BY <1>3, <1>5, <1>8, <2>1
<1>10. FilledByCheck(sms[c], listed).actions = <<Do("ApplyAck")>> \o ApplyFills(p)
       /\ FilledByCheck(sms[c], listed).sm.status = "Filled"
  BY <1>2, <1>3, <1>8, <1>9 DEF FilledByCheck, Result, Sm
<1>11. sms'[c].status = "Untracked"
  BY <1>1, <1>4, <1>10 DEF Kept, Untracked, NewSm, Terminal
<1>12. SmInv(c)'
  BY <1>11 DEF SmInv
<1>13. TradesQueried => Lots(p) >= OrderQty
  <2>1. TradesQueried => ToSet(p) = venue[c].trades
    BY <1>3, <1>5, <1>9
  <2>2. Lots(p) = Weight(ToSet(p))
    BY <1>9, ProgressIs
  <2> QED BY <1>5, <2>1, <2>2, QuantityAssumption
<1>14. todo' = Acts(c, <<Do("ApplyAck")>> \o ApplyFills(p))
  BY <1>6, <1>10
<1>15. todo' # <<>>
  <2>1. Len(todo') = Len(p) + 1 /\ Len(p) \in Nat
    BY <1>14, AckSteps, LenProperties
  <2>2. Len(<<>>) = 0
    OBVIOUS
  <2> QED BY <2>1, <2>2
<1>16. /\ orders'[c].status = "Pending" /\ IsOpen(orders'[c]) /\ orders'[c].fills \o p = p
  <2>1. orders'[c].status = "Pending" /\ orders'[c].fills = <<>>
    BY <1>3, <1>6 DEF NewPending
  <2>2. <<>> \o p = p
    BY ConcatEmptySeq
  <2> QED BY <2>1, <2>2 DEF IsOpen, Terminal
<1>17. ToSet(p) \subseteq venue'[c].trades
  BY <1>6, <1>9
<1>18. Plan(c, p)'
  BY <1>9, <1>11, <1>13, <1>14, <1>15, <1>16, <1>17 DEF Plan
<1>19. EngineInv'
  BY <1>1, <1>18, PlanUnderWay
<1> QED BY <1>12, <1>19

\* An input fed to the engine, whatever it is.
LEMMA FeedKeeps ==
  ASSUME Inv, NEW c \in Cloid, NEW in \in SmInput, Feed(c, in),
         in.kind = "FillReceived" => in.trade \in venue[c].trades,
         in.kind = "StatusCheckResult" => in.outcome = checks[c]
  PROVE  /\ VenueInv' /\ LegalJournal(journal)' /\ TrueFills' /\ OrdersInv'
         /\ (\A d \in Cloid : SmInv(d)') /\ EngineInv' /\ venue' = venue
<1> DEFINE r == Process(sms[c], in)
<1>1. Fed(c, r)
  BY DEF Feed, Fed, Idle, gateway, file, history
<1>2. sms[c].status # "Untracked" /\ sms[c] \in Sm
  BY DEF Feed, Inv, TypeOK
<1>3. SmInv(c)' /\ EngineInv'
  <2>1. CASE r = Ignored(sms[c])
    BY <1>1, <1>2, <2>1, IgnoredFed
  <2>2. CASE sms[c].status \in {"Pending", "UnknownStatus"} /\ r = Acknowledge(sms[c])
    BY <1>1, <2>2, AcknowledgeFed
  <2>3. CASE /\ sms[c].status \in {"Pending", "UnknownStatus"} /\ in.kind = "FillReceived"
             /\ r = BufferFill(sms[c], in.trade)
    <3>1. in.trade \in Trade /\ in.trade \in venue[c].trades
      BY <2>3 DEF SmInput
    <3> QED BY <1>1, <2>3, <3>1, BufferFed
  <2>4. CASE /\ sms[c].status \in {"New", "PartiallyFilled"} /\ in.kind = "FillReceived"
             /\ r = CountFill(sms[c], in.trade)
    <3>1. in.trade \in Trade /\ in.trade \in venue[c].trades
      BY <2>4 DEF SmInput
    <3>2. CASE in.trade \in sms[c].seen
      <4>1. r = Ignored(sms[c])
        BY <2>4, <3>2 DEF CountFill
      <4> QED BY <2>1, <4>1
    <3>3. CASE in.trade \notin sms[c].seen
      BY <1>1, <2>4, <3>1, <3>3, CountFed
    <3> QED BY <3>2, <3>3
  <2>5. ASSUME NEW status \in Terminal, NEW k \in {"ApplyCancel", "ApplyReject", "ApplyExpire"},
               r = Closed(sms[c], status, k)
        PROVE  SmInv(c)' /\ EngineInv'
    BY <1>1, <1>2, <2>5, ClosedFed
  <2>6. CASE /\ sms[c].status = "UnknownStatus" /\ in.kind = "StatusCheckResult"
             /\ in.outcome.kind = "Filled" /\ r = FilledByCheck(sms[c], in.outcome.trades)
    BY <1>1, <2>6, FilledFed
  <2>7. CASE r = Result(sms[c], <<Do("ScheduleStatusCheck")>>)
    BY <1>1, <1>2, <2>7, RecheckFed
  <2> HIDE DEF r
  <2> QED BY <1>2, <2>1, <2>2, <2>3, <2>4, <2>5, <2>6, <2>7, ProcessIs DEF r
<1> HIDE DEF r
<1>4. \A d \in Cloid : SmInv(d)'
  <2>1. \A d \in Cloid \ {c} : SmInv(d)'
    BY <1>1, OthersRest
  <2> QED BY <1>3, <2>1
<1>5. UNCHANGED <<up, replayed, orders, journal, venue, restored>> /\ up = "Running"
  BY DEF Feed, Idle, gateway, file, history
<1>6. VenueInv' /\ LegalJournal(journal)' /\ TrueFills' /\ OrdersInv'
  BY <1>5 DEF Inv, VenueInv, TrueFills, OrdersInv
<1> QED BY <1>3, <1>4, <1>5, <1>6

\* A report of the exchange.
LEMMA ReceiveKeeps ==
  ASSUME Inv, NEW c \in Cloid, Receive(c)
  PROVE  Inv'
<1>1. TypeOK' /\ IdInv'
  BY ReceiveTyped, FeedFresh DEF Inv
<1>2. PICK report \in Reports(c) : Feed(c, report)
  BY DEF Receive
<1>3. venue[c].trades \in SUBSET Trade
  BY DEF Inv, TypeOK, VenueOrder
<1>4. /\ report \in SmInput /\ report.kind # "StatusCheckResult"
      /\ report.kind = "FillReceived" => report.trade \in venue[c].trades
  BY <1>3 DEF Reports, SmInput
<1>5. /\ VenueInv' /\ LegalJournal(journal)' /\ TrueFills' /\ OrdersInv'
      /\ (\A d \in Cloid : SmInv(d)') /\ EngineInv' /\ venue' = venue
  BY <1>2, <1>4, FeedKeeps
<1>6. ChecksInv'
  BY <1>5 DEF Receive, Inv, ChecksInv
<1> QED BY <1>1, <1>5, <1>6 DEF Inv

\* The answer of a status check.
LEMMA ResolveKeeps ==
  ASSUME Inv, NEW c \in Cloid, Resolve(c)
  PROVE  Inv'
<1>1. TypeOK' /\ IdInv'
  BY ResolveTyped, FeedFresh DEF Inv
<1> DEFINE in == [kind |-> "StatusCheckResult", outcome |-> checks[c]]
<1>2. Feed(c, in) /\ in \in SmInput /\ in.kind = "StatusCheckResult" /\ in.outcome = checks[c]
      /\ checks' = [checks EXCEPT ![c] = Do("None")]
  BY DEF Resolve, SmInput
<1> HIDE DEF in
<1>3. /\ VenueInv' /\ LegalJournal(journal)' /\ TrueFills' /\ OrdersInv'
      /\ (\A d \in Cloid : SmInv(d)') /\ EngineInv' /\ venue' = venue
  BY <1>2, FeedKeeps
<1>4. ChecksInv'
  <2>1. \A d \in Cloid : checks'[d] = IF d = c THEN Do("None") ELSE checks[d]
    BY <1>2 DEF Inv, TypeOK
  <2> QED BY <1>3, <2>1 DEF Inv, ChecksInv, Do
<1> QED BY <1>1, <1>3, <1>4 DEF Inv

------------------------------------------------------------------------------
(***************************************************************************)
(* The other steps of the task keep the invariant.                         *)
(***************************************************************************)

\* A timeout puts pending orders in doubt and asks for their status.
LEMMA TickKeeps ==
  ASSUME Inv, Tick
  PROVE  Inv'
<1>1. TypeOK' /\ IdInv'
  BY StepTyped, StepFresh DEF Inv, Next, TaskNext
<1>2. PICK latest \in Cloid :
        LET overdue == {c \in 0 .. latest : sms[c].status = "Pending"}
        IN  /\ overdue # {}
            /\ sms' = [c \in Cloid |-> IF c \in overdue
                          THEN [sms[c] EXCEPT !.status = "UnknownStatus"] ELSE sms[c]]
            /\ todo' = LET list == SetToSeq(overdue)
                       IN  [i \in DOMAIN list |->
                              [cloid |-> list[i], act |-> Do("ScheduleStatusCheck")]]
  BY DEF Tick
<1>3. up = "Running" /\ todo = <<>>
      /\ UNCHANGED <<up, replayed, orders, journal, checks, venue, dropped, restored>>
  BY DEF Tick, Idle, gateway, file, history
<1>4. VenueInv' /\ ChecksInv' /\ LegalJournal(journal)' /\ TrueFills' /\ OrdersInv'
  BY <1>3 DEF Inv, VenueInv, ChecksInv, TrueFills, OrdersInv
<1>5. ASSUME NEW c \in Cloid
      PROVE  \/ sms'[c] = sms[c]
             \/ /\ sms[c].status = "Pending" /\ sms'[c].status = "UnknownStatus"
                /\ sms'[c].counted = sms[c].counted /\ sms'[c].buffered = sms[c].buffered
                /\ sms'[c].seen = sms[c].seen
  <2>1. sms[c] \in Sm
    BY DEF Inv, TypeOK
  <2> QED BY <1>2, <2>1 DEF Sm
<1>6. \A c \in Cloid : SmInv(c)'
  BY <1>3, <1>5 DEF Inv, SmInv
<1>7. \A c \in Cloid : Rest(c)'
  <2>1. \A c \in Cloid : Rest(c)
    BY <1>3, IdleRests
  <2> QED BY <1>3, <1>5, <2>1 DEF Rest, Mirrored
<1>8. \A i \in DOMAIN todo' : todo'[i].act.kind = "ScheduleStatusCheck"
  BY <1>2 DEF Do
<1>9. EngineInv'
  BY <1>7, <1>8 DEF EngineInv, Quiet
<1> QED BY <1>1, <1>4, <1>6, <1>9 DEF Inv

\* A status check is asked for.
LEMMA ScheduleKeeps ==
  ASSUME Inv, Schedule
  PROVE  Inv'
<1>1. TypeOK' /\ IdInv'
  BY StepTyped, StepFresh DEF Inv, Next, TaskNext
<1>2. /\ up = "Running" /\ todo # <<>> /\ todo[1].act.kind = "ScheduleStatusCheck"
      /\ todo' = Tail(todo) /\ checks' = [checks EXCEPT ![todo[1].cloid] = Do("Asked")]
      /\ UNCHANGED <<up, replayed, orders, sms, journal, venue, dropped, restored>>
  BY DEF Schedule, gateway, file, history
<1>3. VenueInv' /\ LegalJournal(journal)' /\ TrueFills' /\ OrdersInv' /\ \A c \in Cloid : SmInv(c)'
  BY <1>2 DEF Inv, VenueInv, TrueFills, OrdersInv, SmInv
<1>4. ChecksInv'
  <2>1. \A d \in Cloid : checks'[d] = checks[d] \/ checks'[d].kind = "Asked"
    BY <1>2 DEF Inv, TypeOK, Do
  <2> QED BY <1>2, <2>1 DEF Inv, ChecksInv
<1>5. Quiet
  <2>1. ASSUME NEW c \in Cloid, NEW p \in Seq(Trade), Plan(c, p) PROVE FALSE
    <3>1. PICK act \in SmAction : todo[1] = Step(c, act) /\ act.kind # "ScheduleStatusCheck"
      BY <1>2, <2>1, PlanStep DEF Inv
    <3> QED BY <1>2, <3>1 DEF Step
  <2>2. ASSUME NEW c \in Cloid, Closing(c) PROVE FALSE
    <3>1. PICK k \in {"ApplyCancel", "ApplyReject", "ApplyExpire"} : todo = Acts(c, <<Do(k)>>)
      BY <2>2 DEF Closing
    <3>2. todo = <<Step(c, Do(k))>>
      BY <3>1, DoTyped, OneStep
    <3> QED BY <1>2, <3>2 DEF Step, Do
  <2> QED BY <1>2, <2>1, <2>2 DEF Inv, EngineInv, Acting
<1>6. \A i \in DOMAIN todo' : todo'[i].act.kind = "ScheduleStatusCheck"
  <2>1. todo \in Seq(Todo)
    BY DEF Inv, TypeOK, Todo
  <2>2. /\ Tail(todo) \in Seq(Todo) /\ Len(Tail(todo)) = Len(todo) - 1 /\ Len(todo) \in Nat
        /\ \A i \in 1 .. Len(Tail(todo)) : Tail(todo)[i] = todo[i + 1]
    BY <1>2, <2>1, HeadTailProperties, LenProperties
  <2>3. DOMAIN todo = 1 .. Len(todo) /\ DOMAIN todo' = 1 .. Len(todo) - 1
    BY <1>2, <2>1, <2>2, LenProperties
  <2> QED BY <1>2, <1>5, <2>2, <2>3 DEF Quiet
<1>7. \A c \in Cloid : Rest(c)'
  BY <1>2, <1>5 DEF Quiet, Rest, Mirrored
<1> QED BY <1>1, <1>3, <1>4, <1>6, <1>7 DEF Inv, EngineInv, Quiet

\* The next id is not in the journal.
LEMMA NextIsNew ==
  ASSUME Inv, Idle, next \in Cloid
  PROVE  Entries(journal, next, Len(journal)) = {} /\ orders[next] = Absent
<1>1. journal \in Seq(JournalEntry) /\ Len(journal) \in Nat /\ DOMAIN journal = 1 .. Len(journal)
  BY LenProperties DEF Inv, TypeOK
<1>2. \A i \in 1 .. Len(journal) : journal[i] # RequestOf(next)
  <2> SUFFICES ASSUME NEW i \in 1 .. Len(journal), journal[i] = RequestOf(next) PROVE FALSE
    OBVIOUS
  <2>1. next \in Requested(journal)
    BY <1>1 DEF Requested, RequestOf
  <2> QED BY <2>1 DEF Inv, IdInv, Idle, Cloid
<1>3. Entries(journal, next, Len(journal)) = {}
  <2>1. \A i \in 1 .. Len(journal) : journal[i].cloid # next
    <3> SUFFICES ASSUME NEW i \in 1 .. Len(journal), journal[i].cloid = next PROVE FALSE
      OBVIOUS
    <3>1. PICK k \in 1 .. i : journal[k] = RequestOf(next)
      BY DEF Inv, LegalJournal, Lawful
    <3>2. k \in 1 .. Len(journal)
      BY <1>1
    <3> QED BY <1>2, <3>1, <3>2
  <2> QED BY <2>1 DEF Entries
<1>4. ASSUME orders[next] # Absent PROVE FALSE
  <2>1. orders[next] = Replayed(journal)[next] /\ orders[next].status # "Absent"
    BY <1>4 DEF Inv, OrdersInv, Idle
  <2>2. Len(journal) \in 0 .. Len(journal) /\ After(journal, Len(journal)) = Replayed(journal)
    BY <1>1, AfterEnds
  <2>3. \E i \in 1 .. Len(journal) : journal[i] = RequestOf(next)
    BY <1>1, <2>1, <2>2, RebuiltRequested DEF Inv
  <2> QED BY <1>2, <2>3
<1> QED BY <1>3, <1>4

\* A request, with its entry, and tracked if that could be written.
LEMMA EnqueueKeeps ==
  ASSUME Inv, Enqueue \/ EnqueueFails
  PROVE  Inv'
<1>1. TypeOK' /\ IdInv'
  BY StepTyped, StepFresh DEF Inv, Next, TaskNext
<1> DEFINE R == Replayed(journal)
<1>2. /\ Idle /\ next \in Cloid /\ journal' = Append(journal, RequestOf(next))
      /\ UNCHANGED <<up, replayed, todo, checks, venue, dropped, restored>>
      /\ \/ /\ orders' = [orders EXCEPT ![next] = NewPending]
            /\ sms' = [sms EXCEPT ![next] = NewSm]
         \/ orders' = orders /\ sms' = sms
  BY DEF Enqueue, EnqueueFails, Persist, PersistFails, engine, history
<1>3. PICK c \in Cloid : c = next
  BY <1>2
<1> DEFINE e == RequestOf(c)
<1>4. e \in JournalEntry /\ e.kind = "Requested" /\ e.cloid = c /\ e = RequestOf(e.cloid)
  BY DEF RequestOf, JournalEntry
<1>5. Entries(journal, c, Len(journal)) = {} /\ orders[c] = Absent
  BY <1>2, <1>3, NextIsNew
<1>6. /\ journal \in Seq(JournalEntry) /\ LegalJournal(journal) /\ journal' = Append(journal, e)
      /\ orders \in [Cloid -> PendingOrder] /\ sms \in [Cloid -> Sm]
  BY <1>2, <1>3 DEF Inv, TypeOK
<1> HIDE DEF e
<1>7. Recordable(journal, e)
  BY <1>4, <1>5 DEF Recordable, LegalAfter
<1>8. LegalJournal(Append(journal, e)) /\ Replayed(Append(journal, e)) = ReplayEntry(R, e)
  BY <1>4, <1>6, <1>7, LegalGrows, ReplayedAppend
<1>9. R \in [Cloid -> PendingOrder]
  <2>1. Len(journal) \in 0 .. Len(journal)
    BY <1>6, LenProperties
  <2> QED BY <1>6, <2>1, AfterEnds DEF LegalJournal, Rebuilds
<1> HIDE DEF R
<1>10. ReplayEntry(R, e) = [R EXCEPT ![c] = NewPending]
  BY <1>4, <1>9, ReplayOne DEF Next1
<1>11. LegalJournal(journal)' /\ Replayed(journal') = [R EXCEPT ![c] = NewPending]
  BY <1>6, <1>8, <1>10
<1>12. TrueFills'
  <2>1. Len(journal') = Len(journal) + 1 /\ journal'[Len(journal) + 1] = e /\ Len(journal) \in Nat
         /\ \A i \in 1 .. Len(journal) : journal'[i] = journal[i]
    BY <1>4, <1>6, AppendProperties, LenProperties
  <2> SUFFICES ASSUME NEW k \in 1 .. Len(journal'), journal'[k].kind = "Filled"
               PROVE  journal'[k].trade \in venue'[journal'[k].cloid].trades
    BY DEF TrueFills
  <2>2. k \in 1 .. Len(journal)
    BY <1>4, <2>1
  <2> QED BY <1>2, <2>1, <2>2 DEF Inv, TrueFills
<1>13. \A d \in Cloid : \/ orders'[d] = orders[d] /\ sms'[d] = sms[d]
                        \/ d = c /\ orders'[d] = NewPending /\ sms'[d] = NewSm
  BY <1>2, <1>3, <1>6
<1>14. NewPending.status = "Pending" /\ Absent.status = "Absent"
  BY DEF NewPending, Absent
<1>15. OrdersInv'
  <2>1. up = "Running" /\ up' = "Running"
    BY <1>2 DEF Idle
  <2>2. \A d \in Cloid : orders'[d].status = "Absent" => orders'[d] = Absent
    BY <1>13, <1>14 DEF Inv, OrdersInv
  <2>3. \A d \in Cloid : orders'[d] # Absent => orders'[d] = Replayed(journal')[d]
    <3> SUFFICES ASSUME NEW d \in Cloid, orders'[d] # Absent
                 PROVE  orders'[d] = Replayed(journal')[d]
      OBVIOUS
    <3>1. CASE d = c
      BY <1>5, <1>9, <1>11, <1>13, <3>1
    <3>2. CASE d # c
      <4>1. orders'[d] = orders[d] /\ orders[d] = R[d]
        BY <1>13, <2>1, <3>2 DEF Inv, OrdersInv, R
      <4> QED BY <1>9, <1>11, <3>2, <4>1
    <3> QED BY <3>1, <3>2
  <2> QED BY <2>1, <2>2, <2>3 DEF OrdersInv
<1>16. ASSUME NEW d \in Cloid PROVE SmInv(d)' /\ Rest(d)'
  <2>1. SmInv(d) /\ Rest(d)
    BY <1>2, IdleRests DEF Inv, Idle
  <2>2. CASE orders'[d] = orders[d] /\ sms'[d] = sms[d]
    <3>1. SmInv(d)'
      BY <1>2, <2>1, <2>2 DEF SmInv
    <3>2. (d \in dropped => d \in dropped') /\ restored' = restored
      BY <1>2
    <3> QED BY <2>1, <2>2, <3>1, <3>2, RestStays
  <2>3. CASE orders'[d] = NewPending /\ sms'[d] = NewSm
    <3>1. /\ sms'[d].status = "Pending" /\ sms'[d].counted = <<>> /\ sms'[d].buffered = <<>>
          /\ sms'[d].seen = {}
      BY <2>3 DEF NewSm
    <3>2. sms'[d].counted \o sms'[d].buffered = <<>>
      BY <3>1
    <3> QED BY <2>3, <3>1, <3>2, EmptySet DEF SmInv, Rest
  <2> QED BY <1>13, <2>2, <2>3
<1>17. EngineInv'
  <2>1. todo' = <<>>
    BY <1>2 DEF Idle
  <2> QED BY <1>16, <2>1, NothingLeft
<1>18. VenueInv' /\ ChecksInv'
  BY <1>2 DEF Inv, VenueInv, ChecksInv
<1> QED BY <1>1, <1>11, <1>12, <1>15, <1>16, <1>17, <1>18 DEF Inv

------------------------------------------------------------------------------
(***************************************************************************)
(* What the exchange does keeps the invariant.                             *)
(***************************************************************************)

\* The exchange's record of an order only grows.
LEMMA TradesGrow ==
  ASSUME Inv, UNCHANGED <<up, replayed, orders, sms, todo, journal, dropped, restored>>,
         \A c \in Cloid : venue[c].trades \subseteq venue'[c].trades
  PROVE  LegalJournal(journal)' /\ TrueFills' /\ OrdersInv' /\ (\A c \in Cloid : SmInv(c)') /\ EngineInv'
<1>1. LegalJournal(journal)' /\ OrdersInv'
  BY DEF Inv, OrdersInv
<1>2. TrueFills'
  <2>1. journal \in Seq(JournalEntry)
    BY DEF Inv, TypeOK
  <2>2. \A k \in 1 .. Len(journal) : journal[k].cloid \in Cloid
    BY <2>1, ElementOfSeq DEF JournalEntry
  <2> QED BY <2>2 DEF Inv, TrueFills
<1>3. \A c \in Cloid : SmInv(c)'
  BY DEF Inv, SmInv
<1>4. \A c \in Cloid : Rest(c) => Rest(c)'
  BY RestStays
<1>5. Quiet => Quiet'
  BY <1>4 DEF Quiet
<1>6. ASSUME NEW c \in Cloid, Acting(c) PROVE Acting(c)'
  <2>1. \A p \in Seq(Trade) : Plan(c, p) => Plan(c, p)'
    BY DEF Plan
  <2>2. Closing(c) => Closing(c)'
    BY DEF Closing
  <2> QED BY <1>4, <1>6, <2>1, <2>2 DEF Acting
<1> QED BY <1>1, <1>2, <1>3, <1>5, <1>6 DEF Inv, EngineInv

\* An order's state changes at the exchange, its trades do not.
LEMMA StateChanges ==
  ASSUME Inv, NEW c \in Cloid, NEW state, state # "Filled", venue[c].state # "Filled",
         \/ venue' = [venue EXCEPT ![c].state = state]
         \/ venue' = [venue EXCEPT ![c].state = state, ![c].acked = TRUE],
         UNCHANGED <<up, replayed, gateway, engine, todo, failures, crashes, history>>
  PROVE  /\ VenueInv' /\ ChecksInv' /\ LegalJournal(journal)' /\ TrueFills' /\ OrdersInv'
         /\ (\A d \in Cloid : SmInv(d)') /\ EngineInv'
<1>1. venue \in [Cloid -> VenueOrder] /\ venue[c] \in VenueOrder
  BY DEF Inv, TypeOK
<1>2. \A d \in Cloid : /\ venue'[d].trades = venue[d].trades
                       /\ venue'[d].state = IF d = c THEN state ELSE venue[d].state
  BY <1>1 DEF VenueOrder
<1>3. VenueInv' /\ ChecksInv'
  BY <1>2 DEF Inv, VenueInv, ChecksInv, engine
<1>4. UNCHANGED <<up, replayed, orders, sms, todo, journal, dropped, restored>>
  BY DEF gateway, engine, history, file
<1> QED BY <1>2, <1>3, <1>4, TradesGrow

\* A trade: it is new, and no more than the order asks for.
LEMMA TradeKeeps ==
  ASSUME Inv, NEW c \in Cloid, NEW t \in Trade, VenueTrade(c, t)
  PROVE  /\ VenueInv' /\ ChecksInv' /\ LegalJournal(journal)' /\ TrueFills' /\ OrdersInv'
         /\ (\A d \in Cloid : SmInv(d)') /\ EngineInv'
<1> DEFINE T == venue[c].trades
           full == Traded(c) + Size[t] = OrderQty
<1>1. venue \in [Cloid -> VenueOrder] /\ venue[c] \in VenueOrder
  BY DEF Inv, TypeOK
<1>2. Traded(c) = Weight(T) /\ T \in SUBSET Trade
  BY TradedIs DEF Inv
<1>3. Weight(T \cup {t}) = Traded(c) + Size[t] /\ Weight(T \cup {t}) <= OrderQty
  <2>1. t \notin T /\ Traded(c) + Size[t] <= OrderQty
    BY DEF VenueTrade
  <2> QED BY <1>2, <2>1, WeightAdd
<1>4. /\ venue[c].state = "Open"
      /\ venue' = [venue EXCEPT ![c].trades = @ \cup {t}, ![c].state = IF full THEN "Filled" ELSE "Open"]
      /\ UNCHANGED <<up, replayed, orders, sms, checks, todo, journal, dropped, restored>>
  BY DEF VenueTrade, gateway, engine, history, file
<1> HIDE DEF full
<1>5. /\ venue'[c].trades = T \cup {t} /\ venue'[c].state = IF full THEN "Filled" ELSE "Open"
      /\ \A d \in Cloid \ {c} : venue'[d] = venue[d]
  BY <1>1, <1>4 DEF VenueOrder
<1>6. VenueInv'
  <2>1. full => Weight(T \cup {t}) = OrderQty
    BY <1>3 DEF full
  <2> QED BY <1>3, <1>5, <2>1 DEF Inv, VenueInv
<1>7. ChecksInv'
  BY <1>4, <1>5 DEF Inv, ChecksInv
<1>8. \A d \in Cloid : venue[d].trades \subseteq venue'[d].trades
  BY <1>5
<1> QED BY <1>4, <1>6, <1>7, <1>8, TradesGrow

\* An answer says what the exchange's record is when it is given.
LEMMA AnswerKeeps ==
  ASSUME Inv, NEW c \in Cloid, Answer(c) \/ AnswerFail(c)
  PROVE  /\ VenueInv' /\ ChecksInv' /\ LegalJournal(journal)' /\ TrueFills' /\ OrdersInv'
         /\ (\A d \in Cloid : SmInv(d)') /\ EngineInv'
<1>1. /\ UNCHANGED <<up, replayed, orders, sms, todo, journal, venue, dropped, restored>>
      /\ \/ checks' = [checks EXCEPT ![c] = OutcomeNow(c)]
         \/ checks' = [checks EXCEPT ![c] = Do("Error")]
  BY DEF Answer, AnswerFail, AnswerWith, gateway, file, history
<1>2. \A d \in Cloid : venue[d].trades \subseteq venue'[d].trades
  BY <1>1
<1>3. VenueInv'
  BY <1>1 DEF Inv, VenueInv
<1>4. OutcomeNow(c).kind = "Filled" =>
        /\ venue[c].state = "Filled"
        /\ OutcomeNow(c).trades = IF TradesQueried THEN venue[c].trades ELSE {}
  <2>1. venue[c].state \in {"Unsent", "Sent", "Open"} \cup Terminal
    BY DEF Inv, TypeOK, VenueOrder
  <2>2. venue[c].state # "Filled" => OutcomeNow(c).kind # "Filled"
    BY <2>1 DEF OutcomeNow, Do, Terminal
  <2>3. venue[c].state = "Filled" =>
          OutcomeNow(c) = [kind |-> "Filled", trades |-> IF TradesQueried THEN venue[c].trades ELSE {}]
    BY DEF OutcomeNow
  <2> QED BY <2>2, <2>3
<1>5. ChecksInv'
  <2>1. \A d \in Cloid : \/ checks'[d] = checks[d]
                         \/ d = c /\ checks'[d] = OutcomeNow(c)
                         \/ checks'[d].kind = "Error"
    <3>1. checks \in [Cloid -> Check]
      BY DEF Inv, TypeOK
    <3>2. Do("Error").kind = "Error"
      BY DEF Do
    <3>3. CASE checks' = [checks EXCEPT ![c] = OutcomeNow(c)]
      BY <3>1, <3>3
    <3>4. CASE checks' = [checks EXCEPT ![c] = Do("Error")]
      BY <3>1, <3>2, <3>4
    <3> QED BY <1>1, <3>3, <3>4
  <2> QED BY <1>1, <1>4, <2>1 DEF Inv, ChecksInv
<1> QED BY <1>1, <1>2, <1>3, <1>5, TradesGrow

\* Whatever the exchange does, and an order that is sent to it.
LEMMA VenueKeeps ==
  ASSUME Inv, NEW c \in Cloid, VenueNext(c) \/ Send(c)
  PROVE  Inv'
<1>1. TypeOK' /\ IdInv'
  BY StepTyped, StepFresh DEF Inv, Next, TaskNext
<1> SUFFICES /\ VenueInv' /\ ChecksInv' /\ LegalJournal(journal)' /\ TrueFills' /\ OrdersInv'
             /\ (\A d \in Cloid : SmInv(d)') /\ EngineInv'
  BY <1>1 DEF Inv
<1>2. CASE VenueAccept(c)
  BY <1>2, StateChanges DEF VenueAccept
<1>3. CASE VenueCancel(c) \/ VenueExpire(c)
  BY <1>3, StateChanges DEF VenueCancel, VenueExpire, Venue
<1>4. CASE VenueReject(c)
  BY <1>4, StateChanges DEF VenueReject, Venue
<1>5. CASE Send(c)
  BY <1>5, StateChanges DEF Send, Venue
<1>6. ASSUME NEW t \in Trade, VenueTrade(c, t)
      PROVE  /\ VenueInv' /\ ChecksInv' /\ LegalJournal(journal)' /\ TrueFills' /\ OrdersInv'
             /\ (\A d \in Cloid : SmInv(d)') /\ EngineInv'
  BY <1>6, TradeKeeps
<1>7. CASE Answer(c) \/ AnswerFail(c)
  BY <1>7, AnswerKeeps
<1> QED BY <1>2, <1>3, <1>4, <1>5, <1>6, <1>7 DEF VenueNext

------------------------------------------------------------------------------
(***************************************************************************)
(* A crash and the restart after it keep the invariant.                    *)
(***************************************************************************)

\* What a crash leaves of the journal is a legal journal.
LEMMA CrashKeeps ==
  ASSUME Inv, Crash
  PROVE  Inv'
<1>1. TypeOK' /\ IdInv'
  BY StepTyped, StepFresh DEF Inv, Next
<1>2. /\ up' = "Down" /\ replayed' = 0 /\ todo' = <<>> /\ venue' = venue
      /\ sms' = [c \in Cloid |-> Untracked] /\ checks' = [c \in Cloid |-> Do("None")]
      /\ orders' = NoOrders
  BY DEF Crash, NoOrders
<1>3. /\ journal \in Seq(JournalEntry) /\ written \in 0 .. Len(journal) /\ Len(journal) \in Nat
      /\ journal' \in Seq(JournalEntry) /\ Len(journal') = written
      /\ \A i \in 1 .. written : journal'[i] = journal[i]
  BY Truncated, LenProperties DEF Inv, TypeOK
<1>4. LegalJournal(journal)'
  BY <1>3, LegalCut DEF Inv
<1>5. TrueFills'
  <2>1. \A k \in 1 .. written : k \in 1 .. Len(journal)
    BY <1>3
  <2> QED BY <1>2, <1>3, <2>1 DEF Inv, TrueFills
<1>6. OrdersInv'
  <2>1. orders' = After(journal', replayed')
    BY <1>2, <1>3, AfterEnds
  <2>2. \A c \in Cloid : orders'[c] = Absent
    BY <1>2 DEF NoOrders
  <2> QED BY <1>2, <2>1, <2>2 DEF OrdersInv
<1>7. VenueInv' /\ ChecksInv'
  BY <1>2 DEF Inv, VenueInv, ChecksInv, Do
<1>8. \A c \in Cloid : SmInv(c)'
  BY <1>2 DEF SmInv, Untracked, NewSm
<1>9. EngineInv'
  BY <1>2 DEF EngineInv
<1> QED BY <1>1, <1>4, <1>5, <1>6, <1>7, <1>8, <1>9 DEF Inv

\* One entry replayed.
LEMMA ReplayKeeps ==
  ASSUME Inv, Replay
  PROVE  Inv'
<1>1. TypeOK' /\ IdInv'
  BY StepTyped, StepFresh DEF Inv, Next
<1> DEFINE k == replayed + 1
           e == journal[k]
<1>2. /\ up = "Replaying" /\ up' = "Replaying" /\ replayed < Len(journal) /\ replayed' = k
      /\ orders' = ReplayEntry(orders, e) /\ restored' = restored \cup {e.cloid}
      /\ UNCHANGED <<todo, sms, checks, venue, journal>>
  BY DEF Replay, Starting, file, engine
<1>3. journal \in Seq(JournalEntry) /\ replayed \in 0 .. Len(journal) /\ orders \in [Cloid -> PendingOrder]
  BY DEF Inv, TypeOK
<1>4. /\ orders = After(journal, replayed) /\ todo = <<>>
      /\ \A c \in Cloid : orders[c] # Absent => c \in restored
  BY <1>2 DEF Inv, OrdersInv
<1>5. After(journal, k) = ReplayEntry(orders, e) /\ e \in JournalEntry
  BY <1>2, <1>3, <1>4, AfterStep
<1> HIDE DEF e, k
<1>6. orders' = [orders EXCEPT ![e.cloid] = Next1(@, e)] /\ e.cloid \in Cloid
  BY <1>2, <1>3, <1>5, ReplayOne
<1>7. \A c \in Cloid : orders'[c] = IF c = e.cloid THEN Next1(orders[c], e) ELSE orders[c]
  BY <1>3, <1>6
<1>8. ASSUME NEW o \in PendingOrder, Next1(o, e).status = "Absent"
      PROVE  Next1(o, e) = o
  <2>1. IsOpen(o) => ReplayOpen(o, e).status # "Absent"
    <3>1. e.kind \in {"Filled", "Requested", "Acknowledged", "Cancelled", "Rejected", "Expired"}
      BY <1>5 DEF JournalEntry
    <3>2. ReplayFill(o, e).status # "Absent"
      BY DEF ReplayFill
    <3>3. \A s : [o EXCEPT !.status = s].status = s
      BY DEF PendingOrder
    <3> QED BY <3>1, <3>2, <3>3 DEF ReplayOpen
  <2>2. NewPending.status # "Absent"
    BY DEF NewPending
  <2> QED BY <1>8, <2>1, <2>2 DEF Next1
<1>9. \A c \in Cloid : orders'[c].status = "Absent" => orders'[c] = Absent
  <2> SUFFICES ASSUME NEW c \in Cloid, orders'[c].status = "Absent" PROVE orders'[c] = Absent
    OBVIOUS
  <2>1. orders'[c] = orders[c]
    BY <1>3, <1>7, <1>8
  <2> QED BY <2>1 DEF Inv, OrdersInv
<1>10. OrdersInv'
  <2>1. orders' = After(journal', replayed')
    BY <1>2, <1>5
  <2>2. \A c \in Cloid : orders'[c] # Absent => c \in restored'
    BY <1>2, <1>4, <1>7
  <2> QED BY <1>2, <1>4, <1>9, <2>1, <2>2 DEF OrdersInv
<1>11. /\ VenueInv' /\ ChecksInv' /\ LegalJournal(journal)' /\ TrueFills'
       /\ \A c \in Cloid : SmInv(c)'
  BY <1>2 DEF Inv, VenueInv, ChecksInv, TrueFills, SmInv
<1>12. EngineInv'
  BY <1>2 DEF EngineInv
<1> QED BY <1>1, <1>10, <1>11, <1>12 DEF Inv

\* The gateway opened, or its replay ended: no order is tracked yet.
LEMMA OpenKeeps ==
  ASSUME Inv, Open \/ Restarted
  PROVE  Inv'
<1>1. TypeOK' /\ IdInv'
  BY StepTyped, StepFresh DEF Inv, Next
<1>2. /\ up # "Running" /\ UNCHANGED <<replayed, orders, restored, journal, sms, checks, todo, venue, dropped>>
      /\ up' = "Running" => replayed = Len(journal)
  BY DEF Open, Restarted, Starting, file, engine
<1>3. /\ VenueInv' /\ ChecksInv' /\ LegalJournal(journal)' /\ TrueFills'
      /\ \A c \in Cloid : SmInv(c)'
  BY <1>2 DEF Inv, VenueInv, ChecksInv, TrueFills, SmInv
<1>4. /\ orders = After(journal, replayed) /\ todo = <<>>
      /\ \A c \in Cloid : orders[c] # Absent => c \in restored
      /\ \A c \in Cloid : orders[c].status = "Absent" => orders[c] = Absent
  BY <1>2 DEF Inv, OrdersInv
<1>5. OrdersInv'
  <2>1. up' = "Running" => orders = Replayed(journal)
    BY <1>2, <1>4, AfterEnds DEF Inv, TypeOK
  <2> QED BY <1>2, <1>4, <2>1 DEF OrdersInv
<1>6. EngineInv'
  <2>1. \A c \in Cloid : Rest(c)'
    BY <1>2, <1>4 DEF Inv, IdInv, Rest
  <2> QED BY <1>2, <1>4, <2>1, NothingLeft
<1> QED BY <1>1, <1>3, <1>5, <1>6 DEF Inv

\* The invariant holds at the start.
LEMMA StartsInv == Init => Inv
<1> SUFFICES ASSUME Init PROVE Inv
  OBVIOUS
<1>1. TypeOK /\ IdInv
  BY StartsTyped, StartsFresh
<1>2. /\ up = "Running" /\ todo = <<>> /\ journal = <<>>
      /\ \A c \in Cloid : /\ orders[c] = Absent /\ sms[c] = Untracked /\ checks[c] = Do("None")
                          /\ venue[c] = Unsent
  BY DEF Init
<1>3. VenueInv /\ ChecksInv
  <2>1. 0 <= OrderQty
    BY QuantityAssumption
  <2>2. Unsent.trades = {} /\ Unsent.state # "Filled" /\ Do("None").kind # "Filled"
    BY DEF Unsent, Do
  <2>3. VenueInv
    BY <1>2, <2>1, <2>2, WeightOfNone DEF VenueInv
  <2>4. ChecksInv
    BY <1>2, <2>2 DEF ChecksInv
  <2> QED BY <2>3, <2>4
<1>4. Len(journal) = 0 /\ journal \in Seq(JournalEntry)
  BY <1>2, EmptySeq
<1>5. TrueFills
  BY <1>4 DEF TrueFills
<1>6. LegalJournal(journal)
  <2>1. \A k \in 0 .. Len(journal) : Rebuilds(journal, k)
    <3>1. After(journal, 0) = NoOrders
      BY <1>4, AfterEnds
    <3>2. NoOrders \in [Cloid -> PendingOrder]
      BY EmptySeq DEF NoOrders, Absent, PendingOrder
    <3>3. \A c \in Cloid : Entries(journal, c, 0) = {}
      BY DEF Entries
    <3>4. \A c \in Cloid : Describes({}, NoOrders[c])
      BY EmptySet DEF Describes, NoOrders, Absent, IsOpen
    <3>5. Rebuilds(journal, 0)
      BY <3>1, <3>2, <3>3, <3>4 DEF Rebuilds
    <3>6. 0 .. Len(journal) = {0}
      BY <1>4
    <3> QED BY <3>5, <3>6
  <2>2. \A k \in 1 .. Len(journal) : Lawful(journal, k)
    BY <1>4
  <2> QED BY <2>1, <2>2 DEF LegalJournal
<1>7. OrdersInv
  BY <1>2 DEF OrdersInv
<1>8. \A c \in Cloid : SmInv(c) /\ Rest(c)
  BY <1>2 DEF SmInv, Rest, Untracked, NewSm
<1>9. EngineInv
  <2>1. DOMAIN todo = {}
    BY <1>2
  <2> QED BY <1>8, <2>1 DEF EngineInv, Quiet
<1> QED BY <1>1, <1>3, <1>5, <1>6, <1>7, <1>8, <1>9 DEF Inv

\* The invariant is inductive.
LEMMA StepInv == Inv /\ [Next]_vars => Inv'
<1> SUFFICES ASSUME Inv, [Next]_vars PROVE Inv'
  OBVIOUS
<1>1. CASE Enqueue \/ EnqueueFails
  BY <1>1, EnqueueKeeps
<1>2. CASE Tick
  BY <1>2, TickKeeps
<1>3. CASE Schedule
  BY <1>3, ScheduleKeeps
<1>4. CASE Apply
  BY <1>4, ApplyKeeps
<1>5. CASE \E c \in Cloid : VenueNext(c) \/ Send(c)
  BY <1>5, VenueKeeps
<1>6. CASE \E c \in Cloid : Receive(c)
  BY <1>6, ReceiveKeeps
<1>7. CASE \E c \in Cloid : Resolve(c)
  BY <1>7, ResolveKeeps
<1>8. CASE Crash
  BY <1>8, CrashKeeps
<1>9. CASE Replay
  BY <1>9, ReplayKeeps
<1>10. CASE Open \/ Restarted
  BY <1>10, OpenKeeps
<1>11. CASE UNCHANGED vars
  <2>1. TypeOK' /\ IdInv'
    BY <1>11, StepTyped, StepFresh DEF Inv
  <2>2. UNCHANGED <<up, replayed, orders, sms, todo, journal, dropped, restored, venue, checks>>
    BY <1>11 DEF vars, gateway, file, engine, history
  <2>3. VenueInv' /\ ChecksInv'
    BY <2>2 DEF Inv, VenueInv, ChecksInv
  <2> QED BY <2>1, <2>2, <2>3, TradesGrow DEF Inv
<1> QED BY <1>1, <1>2, <1>3, <1>4, <1>5, <1>6, <1>7, <1>8, <1>9, <1>10, <1>11 DEF Next, TaskNext

\* Engine, gateway, journal and exchange stand to each other as Inv says.
LEMMA InvHolds == Spec => []Inv
BY StartsInv, StepInv, PTL DEF Spec

------------------------------------------------------------------------------
(***************************************************************************)
(* What follows from the invariant.                                        *)
(***************************************************************************)

\* No trade is counted that the exchange did not make, and none twice: whatever
\* order reports arrive in, and after any crash, replay and failed write
\* (machine.rs:287, gateway.rs:300).
THEOREM FillsAreReal == Spec => []FillsAreTrades
<1>1. Inv => FillsAreTrades
  BY OrderFills DEF Inv, FillsAreTrades
<1> QED BY <1>1, InvHolds, PTL

\* The gateway refuses nothing that the engine asks for (gateway.rs:90-236).
THEOREM NothingIsRefused == Spec => []ActionsAreLegal
<1>1. ASSUME Inv PROVE ActionsAreLegal
  <2> SUFFICES ASSUME NEW i \in DOMAIN todo, todo[i].act.kind # "ScheduleStatusCheck"
               PROVE  IsOpen(orders[todo[i].cloid]) /\ ~IsRepeat(orders[todo[i].cloid], todo[i].act)
    BY DEF ActionsAreLegal
  <2>1. up = "Running"
    <3>1. todo # <<>>
      OBVIOUS
    <3> QED BY <1>1, <3>1 DEF Inv, OrdersInv
  <2>2. PICK c \in Cloid : Acting(c)
    BY <1>1, <2>1 DEF Inv, EngineInv, Quiet
  <2>3. CASE Closing(c)
    <3>1. PICK k \in {"ApplyCancel", "ApplyReject", "ApplyExpire"} : todo = Acts(c, <<Do(k)>>)
      BY <2>3 DEF Closing
    <3>2. todo = <<Step(c, Do(k))>>
      BY <3>1, DoTyped, OneStep
    <3>3. todo[i] = Step(c, Do(k))
      BY <3>2
    <3>4. IsOpen(orders[c]) /\ ~IsRepeat(orders[c], Do(k))
      BY <2>3 DEF Closing, IsOpen, IsRepeat, Terminal, Settles, Do
    <3> QED BY <3>3, <3>4 DEF Step
  <2>4. ASSUME NEW p \in Seq(Trade), Plan(c, p)
        PROVE  IsOpen(orders[todo[i].cloid]) /\ ~IsRepeat(orders[todo[i].cloid], todo[i].act)
    <3>1. IsOpen(orders[c])
      BY <2>4 DEF Plan
    <3>2. ASSUME NEW t PROVE ~IsRepeat(orders[c], Fill(t))
      BY DEF IsRepeat, Fill
    <3>3. CASE orders[c].status = "Pending"
      <4>1. todo = Acts(c, <<Do("ApplyAck")>> \o ApplyFills(p))
        BY <2>4, <3>3 DEF Plan
      <4>2. /\ todo \in Seq(Todo) /\ Len(todo) = Len(p) + 1 /\ todo[1] = Step(c, Do("ApplyAck"))
            /\ \A h \in 1 .. Len(p) : todo[h + 1] = Step(c, Fill(p[h]))
        BY <4>1, AckSteps
      <4>3. i \in 1 .. Len(p) + 1 /\ Len(p) \in Nat
        BY <4>2, LenProperties
      <4>4. CASE i = 1
        <5>1. ~IsRepeat(orders[c], Do("ApplyAck"))
          BY <3>3 DEF IsRepeat, Do, Settles
        <5> QED BY <3>1, <4>2, <4>4, <5>1 DEF Step
      <4>5. CASE i # 1
        <5>1. i - 1 \in 1 .. Len(p) /\ (i - 1) + 1 = i
          BY <4>3, <4>5
        <5>2. todo[i] = Step(c, Fill(p[i - 1]))
          BY <4>2, <5>1
        <5> QED BY <3>1, <3>2, <5>2 DEF Step
      <4> QED BY <4>4, <4>5
    <3>4. CASE orders[c].status # "Pending"
      <4>1. todo = Acts(c, ApplyFills(p))
        BY <2>4, <3>4 DEF Plan
      <4>2. /\ todo \in Seq(Todo) /\ Len(todo) = Len(p)
            /\ \A h \in 1 .. Len(p) : todo[h] = Step(c, Fill(p[h]))
        BY <4>1, FillSteps
      <4>3. todo[i] = Step(c, Fill(p[i]))
        BY <4>2, LenProperties
      <4> QED BY <3>1, <3>2, <4>3 DEF Step
    <3> QED BY <3>3, <3>4
  <2> QED BY <2>2, <2>3, <2>4 DEF Acting
<1> QED BY <1>1, InvHolds, PTL

\* Whenever no action is under way, engine and gateway agree on every order that
\* has lost none to an error (machine.rs:60).
THEOREM RecordsAgree == Spec => []Agree
<1>1. ASSUME Inv PROVE Agree
  <2> SUFFICES ASSUME todo = <<>>, NEW c \in Cloid, c \notin dropped, sms[c].status # "Untracked"
               PROVE  Mirrored(c)
    BY DEF Agree
  <2>1. Rest(c)
    BY <1>1, IdleRests DEF Inv, IdInv
  <2>2. sms[c].status \in {"Pending", "UnknownStatus", "New", "PartiallyFilled"}
    BY <1>1 DEF Inv, TypeOK, Sm, InPlay
  <2>3. CASE sms[c].status \in {"Pending", "UnknownStatus"}
    <3>1. orders[c] = NewPending /\ sms[c].counted = <<>>
      BY <1>1, <2>1, <2>3, WaitingIs
    <3> QED BY <2>3, <3>1 DEF Mirrored, NewPending
  <2>4. CASE sms[c].status \in {"New", "PartiallyFilled"}
    BY <2>1, <2>4 DEF Rest
  <2> QED BY <2>2, <2>3, <2>4
<1> QED BY <1>1, InvHolds, PTL

\* If a status check also asks for the trades, an order that the engine has
\* forgotten is closed at the gateway (machine.rs:577, reconciler.rs:300).
THEOREM ForgottenIsClosed == ASSUME TradesQueried PROVE Spec => []Settled
<1>1. ASSUME Inv PROVE Settled
  <2> SUFFICES ASSUME todo = <<>>, NEW c \in Cloid, c \notin dropped \cup restored,
                      orders[c].status # "Absent", sms[c].status = "Untracked"
               PROVE  orders[c].status \in Terminal
    BY DEF Settled
  <2>1. orders[c] # Absent
    BY DEF Absent
  <2>2. up = "Running"
    BY <1>1, <2>1 DEF Inv, OrdersInv
  <2>3. Rest(c)
    BY <1>1, <2>2, IdleRests
  <2> QED BY <2>1, <2>3 DEF Rest
<1> QED BY <1>1, InvHolds, PTL

\* The journal, with what its writer still holds, rebuilds the orders in memory
\* (gateway.rs:300).
THEOREM JournalRebuilds == Spec => []Recoverable
<1>1. ASSUME Inv PROVE Recoverable
  <2> SUFFICES ASSUME up = "Running", NEW c \in Cloid, orders[c].status # "Absent"
               PROVE  Replayed(journal)[c] = orders[c]
    BY DEF Recoverable
  <2>1. orders[c] # Absent
    BY DEF Absent
  <2> QED BY <1>1, <2>1 DEF Inv, OrdersInv
<1> QED BY <1>1, InvHolds, PTL

------------------------------------------------------------------------------
(***************************************************************************)
(* The journal implements OrderHistory.                                    *)
(***************************************************************************)

\* An entry that may follow, appended, is a record of the history.
LEMMA RecordStep ==
  ASSUME TypeOK, NEW e \in JournalEntry, LegalAfter(e, Entries(journal, e.cloid, Len(journal))),
         Persist(e) \/ PersistFails(e)
  PROVE  History!Next
<1>1. journal \in Seq(JournalEntry) /\ DOMAIN journal = 1 .. Len(journal)
  BY LenProperties DEF TypeOK
<1>2. \A c : History!Before(c) = Entries(journal, c, Len(journal))
  BY <1>1 DEF History!Before, Entries
<1>3. History!Legal(e)
  BY <1>2 DEF History!Legal, LegalAfter
<1>4. journal' = Append(journal, e) /\ written' \in written .. Len(journal')
  BY AppendsEntry DEF Appended
<1>5. e \in History!Entry
  BY DEF History!Entry, JournalEntry
<1>6. History!Record(e)
  BY <1>3, <1>4 DEF History!Record
<1> QED BY <1>5, <1>6 DEF History!Next

\* So every step of the gateway is a step of the history, or none.
LEMMA StepRecords == Inv /\ [Next]_vars => [History!Next]_<<journal, written>>
<1> SUFFICES ASSUME Inv, [Next]_vars, ~UNCHANGED <<journal, written>> PROVE History!Next
  OBVIOUS
<1>1. CASE Enqueue \/ EnqueueFails
  <2>1. /\ Idle /\ next \in Cloid
        /\ Persist(RequestOf(next)) \/ PersistFails(RequestOf(next))
    BY <1>1 DEF Enqueue, EnqueueFails
  <2>2. PICK e \in JournalEntry : e = RequestOf(next)
    BY <2>1 DEF RequestOf, JournalEntry
  <2>3. e.kind = "Requested" /\ e.cloid = next
    BY <2>2 DEF RequestOf
  <2>4. LegalAfter(e, Entries(journal, e.cloid, Len(journal)))
    BY <2>1, <2>3, NextIsNew DEF LegalAfter
  <2> QED BY <2>1, <2>2, <2>4, RecordStep DEF Inv
<1>2. CASE Apply
  <2>1. PICK c \in Cloid : Acting(c)
    <3>1. 1 \in DOMAIN todo /\ todo[1].act.kind # "ScheduleStatusCheck"
      BY <1>2, EmptySeq, LenProperties DEF Inv, TypeOK, Apply
    <3> QED BY <1>2, <3>1 DEF Inv, EngineInv, Apply, Quiet
  <2>2. IsOpen(orders[c]) /\ orders[c] \in PendingOrder
    BY <2>1 DEF Acting, Plan, Closing, Inv, TypeOK
  <2>3. \E act \in SmAction : /\ todo[1] = Step(c, act) /\ act.kind # "ScheduleStatusCheck"
                              /\ LegalAfter(EntryOf(c, orders[c], act), Entries(journal, c, Len(journal)))
    <3>1. CASE Closing(c)
      BY <1>2, <3>1, ClosingStep DEF Inv
    <3>2. ASSUME NEW p \in Seq(Trade), Plan(c, p)
          PROVE  \E act \in SmAction : /\ todo[1] = Step(c, act) /\ act.kind # "ScheduleStatusCheck"
                              /\ LegalAfter(EntryOf(c, orders[c], act), Entries(journal, c, Len(journal)))
      BY <1>2, <3>2, PlanStep DEF Inv, Apply
    <3> QED BY <2>1, <3>1, <3>2 DEF Acting
  <2>4. PICK act \in SmAction : /\ todo[1] = Step(c, act) /\ act.kind # "ScheduleStatusCheck"
                                /\ LegalAfter(EntryOf(c, orders[c], act), Entries(journal, c, Len(journal)))
    BY <2>3
  <2>5. PICK e \in JournalEntry : e = EntryOf(c, orders[c], act) /\ e.cloid = c
    BY <2>2, <2>4, EntryReplays
  <2>6. Persist(e) \/ PersistFails(e)
    BY <1>2, <2>4, <2>5 DEF Apply, ApplyTo, Step
  <2> QED BY <2>4, <2>5, <2>6, RecordStep DEF Inv
<1>3. CASE Crash
  BY <1>3 DEF Crash, History!Crash, History!Next
<1>4. CASE Tick \/ Schedule \/ Open \/ Replay \/ Restarted
  BY <1>4 DEF Tick, Schedule, Open, Replay, Restarted, Starting, gateway, file
<1>5. CASE \E c \in Cloid : Send(c) \/ Receive(c) \/ Resolve(c)
  BY <1>5 DEF Send, Venue, Receive, Resolve, Feed, gateway, file
<1>6. CASE \E c \in Cloid : VenueNext(c)
  BY <1>6 DEF VenueNext, VenueAccept, VenueCancel, VenueExpire, VenueReject, VenueTrade, Venue,
              Answer, AnswerFail, AnswerWith, gateway, file
<1>7. CASE UNCHANGED vars
  BY <1>7 DEF vars, gateway, file
<1> QED BY <1>1, <1>2, <1>3, <1>4, <1>5, <1>6, <1>7 DEF Next, TaskNext

\* The journal is a legal history of every order: requested once, acknowledged
\* before its fills, closed once, each trade once; a crash cuts off a suffix that
\* was not written (gateway.rs:60-236, journal.rs:500-560).
THEOREM JournalIsHistory == Spec => KeepsHistory
<1>1. Init => History!Init
  BY DEF Init, History!Init
<1> QED BY <1>1, StepRecords, InvHolds, PTL DEF Spec, KeepsHistory, History!Spec
==============================================================================
