-------------------------- MODULE ReconciliationProofs --------------------------
(***************************************************************************)
(* Proofs about the reconciliation, for any number of orders and losses of *)
(* the stream: a reconnect is followed by the reconciliation it asked for  *)
(* (ReconnectIsOwed), and once a list served after the last reconnect has  *)
(* been compared, no order at the exchange is unknown to the caller        *)
(* (OrphanIsReported), nor the end of any that it tracks (LossIsReported). *)
(*                                                                         *)
(* The second rests on the order state machine: an order that the exchange *)
(* has and has not closed is dropped by its machine on one way only, a     *)
(* status check that says NotFound.  No new orphan arises otherwise, so a  *)
(* list of open orders, however old, contains every orphan there is.       *)
(***************************************************************************)
EXTENDS Reconciliation, TLAPS

\* The machine of an order that has no trades.
Quiet == [status : InPlay \cup {"Untracked"}, counted : {<<>>}, buffered : {<<>>}, seen : {{}}]

Requested == {Idle, Asked} \cup {Answered(d) : d \in SUBSET Order}
Queried   == {Idle, Asked} \cup {Answered(d) : d \in Outcome}

Typed == /\ exchange \in [Order -> Status]
         /\ machine = [o \in Order |-> machine[o]]
         /\ stream \in Seq(Report)
         /\ request \in [Kind -> Requested]
         /\ query \in [Order -> Queried]

\* Reports and answers of an order's end come after it.
Truthful ==
    /\ \A i \in 1..Len(stream) :
         /\ stream[i].kind = "FillReceived" => exchange[stream[i].order] = "Filled"
         /\ stream[i].kind = "CancelConfirmed" => exchange[stream[i].order] = "Canceled"
    /\ \A o \in Order : query[o].phase = "answered" =>
         /\ query[o].data.kind = "Filled" => exchange[o] = "Filled"
         /\ query[o].data.kind = "Cancelled" => exchange[o] = "Canceled"

\* A machine has trades of filled orders only, and lets an order go that is on
\* its way to the exchange only if a query did not find it.
MachineInv == \A o \in Order :
    /\ exchange[o] # "Filled" => machine[o] \in Quiet
    /\ exchange[o] = "Sent" => o \in Tracked \cup given_up

Orphans == {o \in Open \ Tracked : o \notin given_up}

\* No list of open orders is without an orphan.
ListInv == /\ \A k \in Full : request[k].phase = "answered" => Orphans \subseteq request[k].data
           /\ synced => Orphans \subseteq unexpected

\* Until a list served after the last reconnect has been compared, a full
\* reconciliation is owed.
OwedInv == /\ overtaken \/ reconnect_pending \/ startup_pending \/ synced \/ ~connected
           /\ request["Reconnect"].phase = "answered" => "Reconnect" \in fresh \/ overtaken
           /\ request["Startup"].phase = "answered" =>
                "Startup" \in fresh \/ reconnect_pending \/ synced \/ overtaken \/ ~connected

Inv == Typed /\ Truthful /\ MachineInv /\ ListInv /\ OwedInv

-----------------------------------------------------------------------------
(* The state machine of an order without trades.                           *)

\* Folding over no trades is no recursion at all.
LEMMA NoTrades == Lots(<<>>) = 0
<1> DEFINE S == DOMAIN <<>>
           body(g) == [s \in SUBSET S |->
                         IF s = {} THEN 0
                         ELSE LET x == CHOOSE y \in s : TRUE
                              IN  [o \in Order |-> 1][<<>>[x]] + g[s \ {x}]]
           z == [s \in SUBSET S |-> 0]
           iter == CHOOSE g : g = body(g)
<1>1. S = {} /\ \A s \in SUBSET S : s = {}
  OBVIOUS
<1>2. z = body(z)
  BY <1>1
<1>3. iter = body(iter)
  <2>1. \E g : g = body(g)
    BY <1>2
  <2> HIDE DEF body
  <2> QED BY <2>1
<1>4. body(iter)[S] = 0
  BY <1>1
<1>5. Lots(<<>>) = iter[S]
  BY Zenon DEF Lots, FoldSeq, FoldFunction, FoldFunctionOnSet, MapThenFoldSet
<1> QED BY <1>3, <1>4, <1>5

\* An acknowledgement of an order without trades leaves it open.
LEMMA QuietAck ==
    ASSUME NEW sm \in Quiet
    PROVE  Acknowledge(sm).sm \in Quiet /\ Acknowledge(sm).sm.status = "New"
<1>1. sm.counted = <<>> /\ sm.buffered = <<>> /\ sm.seen = {} /\ <<>> \o <<>> = <<>>
  BY DEF Quiet
<1>2. Progress(<<>>) = "New"
  BY NoTrades DEF Progress
<1>3. Acknowledge(sm).sm = [sm EXCEPT !.status = "New", !.counted = <<>>, !.buffered = <<>>]
  BY <1>1, <1>2 DEF Acknowledge, Result
<1> QED BY <1>1, <1>3 DEF Quiet, InPlay

\* Without a fill it stays without trades, and it is forgotten only when it is
\* cancelled or, in doubt, not found.
LEMMA QuietStep ==
    ASSUME NEW sm \in Quiet, NEW in, sm.status # "Untracked",
           in.kind \in {"Acknowledged", "CancelConfirmed", "StatusCheckResult"},
           in.kind = "StatusCheckResult" => in.outcome.kind \in {"Live", "Cancelled", "NotFound", "Error"}
    PROVE  /\ Kept(Process(sm, in).sm) \in Quiet
           /\ Kept(Process(sm, in).sm).status = "Untracked" =>
                \/ in.kind = "CancelConfirmed"
                \/ in.kind = "StatusCheckResult" /\ in.outcome.kind = "Cancelled"
                \/ /\ in.kind = "StatusCheckResult" /\ in.outcome.kind = "NotFound"
                   /\ sm.status = "UnknownStatus"
<1> DEFINE r == Process(sm, in).sm
<1>1. \/ r = Acknowledge(sm).sm
      \/ r = sm
      \/ /\ r = [sm EXCEPT !.status = "Cancelled"]
         /\ \/ in.kind = "CancelConfirmed"
            \/ in.kind = "StatusCheckResult" /\ in.outcome.kind = "Cancelled"
      \/ /\ r = [sm EXCEPT !.status = "Rejected"]
         /\ in.kind = "StatusCheckResult" /\ in.outcome.kind = "NotFound"
         /\ sm.status = "UnknownStatus"
  <2>1. sm.status \in InPlay
    BY DEF Quiet
  <2>2. CASE sm.status = "Pending"
    BY <2>2 DEF Process, ProcessPending, Closed, Result, Ignored
  <2>3. CASE sm.status \in {"New", "PartiallyFilled"}
    BY <2>3 DEF Process, ProcessLive, Closed, Result, Ignored
  <2>4. CASE sm.status = "UnknownStatus"
    <3>1. Process(sm, in) = ProcessUnknown(sm, in)
      BY <2>4 DEF Process
    <3>2. CASE in.kind = "StatusCheckResult"
      BY <2>4, <3>1, <3>2 DEF ProcessUnknown, ResolveFromCheck, Closed, Result, Ignored
    <3>3. CASE in.kind # "StatusCheckResult"
      BY <2>4, <3>1, <3>3 DEF ProcessUnknown, Closed, Result, Ignored
    <3> QED BY <3>2, <3>3
  <2> QED BY <2>1, <2>2, <2>3, <2>4 DEF InPlay
<1>2. Untracked \in Quiet /\ Untracked.status = "Untracked"
  BY DEF Untracked, NewSm, Quiet
<1>3. Acknowledge(sm).sm \in Quiet /\ Acknowledge(sm).sm.status = "New"
  BY QuietAck
<1>4. sm.status \in InPlay /\ [sm EXCEPT !.status = "Cancelled"].status = "Cancelled"
      /\ [sm EXCEPT !.status = "Rejected"].status = "Rejected"
  BY DEF Quiet
<1> HIDE DEF r
<1>5. CASE r = Acknowledge(sm).sm
  BY <1>3, <1>5 DEF Kept, Terminal, r
<1>6. CASE r = sm
  BY <1>4, <1>6 DEF Kept, Terminal, InPlay, r
<1>7. CASE r.status \in {"Cancelled", "Rejected"}
  BY <1>1, <1>2, <1>3, <1>4, <1>7 DEF Kept, Terminal, InPlay, r
<1> QED BY <1>1, <1>4, <1>5, <1>6, <1>7

-----------------------------------------------------------------------------
(* The orders, the exchange and the stream.                                *)

\* What reports, inputs and queries are about.
reconciling == <<scheduler, request, unexpected, fresh, synced, overtaken>>

\* A step that changes no order, no report and no answer keeps what is said of
\* them.
LEMMA OrdersAlone ==
    ASSUME Inv, UNCHANGED <<exchange, machine, stream, query, given_up>>
    PROVE  Truthful' /\ MachineInv' /\ Orphans' = Orphans
BY DEF Inv, Truthful, MachineInv, Orphans, Open, Tracked

\* Orphans that are fewer are on every list they were on.
LEMMA FewerOrphans ==
    ASSUME Inv, Orphans' \subseteq Orphans, UNCHANGED <<request, unexpected, synced>>
    PROVE  ListInv'
BY DEF Inv, ListInv

\* The scheduler and its requests do not depend on orders.
LEMMA OwedAlone ==
    ASSUME Inv, UNCHANGED reconciling, connected' => connected
    PROVE  OwedInv'
BY DEF Inv, OwedInv, reconciling, scheduler

\* An order is sent to the exchange and tracked (StateMachineEngine::track).
LEMMA SubmitInv ==
    ASSUME Inv, NEW o \in Order, Submit(o)
    PROVE  Inv'
<1>1. /\ exchange[o] = "Unsent" /\ exchange' = [exchange EXCEPT ![o] = "Sent"]
      /\ machine' = [machine EXCEPT ![o] = NewSm]
      /\ UNCHANGED <<connected, stream, request, query, given_up>> /\ UNCHANGED reconciling
  BY DEF Submit, scheduler, history, reconciling
<1>2. /\ exchange \in [Order -> Status] /\ machine = [p \in Order |-> machine[p]]
  BY DEF Inv, Typed
<1>3. /\ exchange'[o] = "Sent" /\ machine'[o] = NewSm
      /\ \A p \in Order : p # o => exchange'[p] = exchange[p] /\ machine'[p] = machine[p]
  BY <1>1, <1>2
<1>4. NewSm \in Quiet /\ NewSm.status = "Pending"
  BY DEF NewSm, Quiet, InPlay
<1>5. Typed'
  BY <1>1, <1>2 DEF Inv, Typed, Status
<1>6. Truthful'
  <2>1. stream \in Seq(Report)
    BY DEF Inv, Typed
  <2>2. \A i \in 1..Len(stream) : stream[i] \in Report
    BY <2>1
  <2>3. \A i \in 1..Len(stream) : stream[i].order \in Order
    BY <2>2 DEF Report
  <2> QED BY <1>1, <1>3, <2>3 DEF Inv, Truthful
<1>7. MachineInv'
  BY <1>1, <1>3, <1>4 DEF Inv, MachineInv, Tracked
<1>8. Orphans' \subseteq Orphans
  BY <1>1, <1>3, <1>4 DEF Orphans, Open, Tracked
<1> QED BY <1>1, <1>5, <1>6, <1>7, <1>8, FewerOrphans, OwedAlone DEF Inv, reconciling

\* The exchange moves an order on, and reports it if there is a stream.
LEMMA HappensInv ==
    ASSUME Inv, NEW o \in Order, Arrives(o) \/ IsFilled(o) \/ IsCancelled(o)
    PROVE  Inv'
<1>1. PICK from \in Status, to \in Status, kind \in {"Acknowledged", "FillReceived", "CancelConfirmed"} :
        /\ Happens(o, from, to, kind)
        /\ \/ from = "Sent" /\ to = "Open" /\ kind = "Acknowledged"
           \/ from = "Open" /\ to = "Filled" /\ kind = "FillReceived"
           \/ from = "Open" /\ to = "Canceled" /\ kind = "CancelConfirmed"
  BY DEF Arrives, IsFilled, IsCancelled, Status
<1> DEFINE m == [order |-> o, kind |-> kind]
<1>2. /\ exchange[o] = from /\ exchange' = [exchange EXCEPT ![o] = to]
      /\ stream' = stream \/ stream' = Append(stream, m)
      /\ UNCHANGED <<machine, connected, request, query, given_up>> /\ UNCHANGED reconciling
  BY <1>1 DEF Happens, Emit, scheduler, history, reconciling
<1>3. exchange \in [Order -> Status] /\ stream \in Seq(Report) /\ m \in Report
  BY DEF Inv, Typed, Report
<1>4. exchange'[o] = to /\ \A p \in Order : p # o => exchange'[p] = exchange[p]
  BY <1>2, <1>3
<1>5. Len(stream) \in Nat /\ \A i \in 1..Len(stream) : stream[i] \in Report /\ stream[i].order \in Order
  <2>1. Len(stream) \in Nat /\ \A i \in 1..Len(stream) : stream[i] \in Report
    BY <1>3
  <2> QED BY <2>1 DEF Report
<1>6. Typed'
  BY <1>1, <1>2, <1>3 DEF Inv, Typed
<1>7. \A p \in Order : /\ exchange[p] = "Filled" => exchange'[p] = "Filled"
                       /\ exchange[p] = "Canceled" => exchange'[p] = "Canceled"
  BY <1>1, <1>2, <1>4
<1>8. Truthful'
  <2>1. ASSUME NEW i \in 1..Len(stream')
        PROVE  /\ stream'[i].kind = "FillReceived" => exchange'[stream'[i].order] = "Filled"
               /\ stream'[i].kind = "CancelConfirmed" => exchange'[stream'[i].order] = "Canceled"
    <3>1. CASE i \in 1..Len(stream) /\ stream'[i] = stream[i]
      BY <3>1, <1>5, <1>7 DEF Inv, Truthful
    <3>2. CASE stream'[i] = m
      BY <3>2, <1>1, <1>4
    <3>3. \/ i \in 1..Len(stream) /\ stream'[i] = stream[i]
          \/ stream'[i] = m
      <4> HIDE DEF m
      <4>1. CASE stream' = stream
        BY <4>1
      <4>2. CASE stream' = Append(stream, m)
        BY <4>2, <1>3, <1>5
      <4> QED BY <4>1, <4>2, <1>2
    <3> QED BY <3>1, <3>2, <3>3
  <2> QED BY <2>1, <1>2, <1>7 DEF Inv, Truthful
<1>9. MachineInv'
  BY <1>1, <1>2, <1>4, <1>7 DEF Inv, MachineInv, Tracked
<1>10. Orphans' \subseteq Orphans
  <2> SUFFICES ASSUME NEW p \in Orphans' PROVE p \in Orphans
    OBVIOUS
  <2>1. p \in Order /\ exchange'[p] = "Open" /\ p \notin Tracked /\ p \notin given_up
    BY <1>2 DEF Orphans, Open, Tracked
  <2>2. CASE p # o
    BY <2>1, <2>2, <1>4 DEF Orphans, Open
  <2>3. CASE p = o
    BY <2>1, <2>3, <1>1, <1>2, <1>4 DEF Inv, MachineInv
  <2> QED BY <2>2, <2>3
<1> QED BY <1>2, <1>6, <1>8, <1>9, <1>10, FewerOrphans, OwedAlone DEF Inv, reconciling

\* An input that is true of the order keeps its machine and makes no orphan,
\* unless a query did not find an order in doubt.
LEMMA InputKeeps ==
    ASSUME Inv, NEW o \in Order, NEW in, Input(o, in), UNCHANGED exchange,
           given_up \subseteq given_up',
           in.kind \in {"Acknowledged", "FillReceived", "CancelConfirmed", "StatusCheckResult"},
           in.kind = "StatusCheckResult" =>
             in.outcome.kind \in {"Live", "Filled", "Cancelled", "NotFound", "Error"},
           in.kind = "FillReceived" => exchange[o] = "Filled",
           in.kind = "CancelConfirmed" => exchange[o] = "Canceled",
           in.kind = "StatusCheckResult" /\ in.outcome.kind = "Filled" => exchange[o] = "Filled",
           in.kind = "StatusCheckResult" /\ in.outcome.kind = "Cancelled" => exchange[o] = "Canceled",
           in.kind = "StatusCheckResult" /\ in.outcome.kind = "NotFound"
             /\ machine[o].status = "UnknownStatus" => o \in given_up'
    PROVE  machine' = [p \in Order |-> machine'[p]] /\ MachineInv' /\ Orphans' \subseteq Orphans
<1>1. machine = [p \in Order |-> machine[p]]
  BY DEF Inv, Typed
<1>2. machine' = [machine EXCEPT ![o] = IF o \in Tracked THEN Kept(Process(machine[o], in).sm)
                                        ELSE machine[o]]
  BY DEF Input
<1>3. machine' = [p \in Order |-> machine'[p]]
      /\ machine'[o] = (IF o \in Tracked THEN Kept(Process(machine[o], in).sm) ELSE machine[o])
      /\ \A p \in Order : p # o => machine'[p] = machine[p]
  BY <1>1, <1>2
<1>4. exchange[o] # "Filled" =>
        /\ machine'[o] \in Quiet
        /\ (o \in Tracked /\ machine'[o].status = "Untracked") => exchange[o] = "Canceled" \/ o \in given_up'
  <2> SUFFICES ASSUME exchange[o] # "Filled"
               PROVE  /\ machine'[o] \in Quiet
                      /\ (o \in Tracked /\ machine'[o].status = "Untracked")
                           => exchange[o] = "Canceled" \/ o \in given_up'
    OBVIOUS
  <2>1. machine[o] \in Quiet
    BY DEF Inv, MachineInv
  <2>2. CASE o \notin Tracked
    BY <2>1, <2>2, <1>3
  <2>3. CASE o \in Tracked
    <3> DEFINE sm == machine[o]
    <3>1. sm \in Quiet /\ sm.status # "Untracked"
      BY <2>1, <2>3 DEF Tracked
    <3>2. in.kind \in {"Acknowledged", "CancelConfirmed", "StatusCheckResult"}
          /\ (in.kind = "StatusCheckResult" => in.outcome.kind \in {"Live", "Cancelled", "NotFound", "Error"})
      OBVIOUS
    <3> HIDE DEF sm
    <3>3. /\ Kept(Process(sm, in).sm) \in Quiet
          /\ Kept(Process(sm, in).sm).status = "Untracked" =>
                \/ in.kind = "CancelConfirmed"
                \/ in.kind = "StatusCheckResult" /\ in.outcome.kind = "Cancelled"
                \/ /\ in.kind = "StatusCheckResult" /\ in.outcome.kind = "NotFound"
                   /\ sm.status = "UnknownStatus"
      BY <3>1, <3>2, QuietStep
    <3>4. machine'[o] = Kept(Process(sm, in).sm)
      BY <2>3, <1>3 DEF sm
    <3> QED BY <3>3, <3>4 DEF sm
  <2> QED BY <2>2, <2>3
<1>5. MachineInv'
  <2> SUFFICES ASSUME NEW p \in Order
               PROVE  /\ exchange[p] # "Filled" => machine'[p] \in Quiet
                      /\ exchange[p] = "Sent" => machine'[p].status # "Untracked" \/ p \in given_up'
    BY DEF MachineInv, Tracked
  <2>1. /\ exchange[p] # "Filled" => machine[p] \in Quiet
        /\ exchange[p] = "Sent" => machine[p].status # "Untracked" \/ p \in given_up
    BY DEF Inv, MachineInv, Tracked
  <2>2. CASE p # o
    BY <2>1, <2>2, <1>3
  <2>3. CASE p = o
    BY <2>1, <2>3, <1>3, <1>4 DEF Tracked
  <2> QED BY <2>2, <2>3
<1>6. Orphans' \subseteq Orphans
  <2> SUFFICES ASSUME NEW p \in Orphans' PROVE p \in Orphans
    OBVIOUS
  <2>1. p \in Order /\ exchange[p] = "Open" /\ machine'[p].status = "Untracked" /\ p \notin given_up'
        /\ p \notin given_up
    BY DEF Orphans, Open, Tracked
  <2>2. machine[p].status = "Untracked"
    BY <2>1, <1>3, <1>4 DEF Tracked
  <2> QED BY <2>1, <2>2 DEF Orphans, Open, Tracked
<1> QED BY <1>3, <1>5, <1>6

\* A report is consumed by the order it is about (StateMachineEngine::process).
LEMMA DeliverInv ==
    ASSUME Inv, Deliver
    PROVE  Inv'
<1> DEFINE report == Head(stream)
           o == report.order
           in == [kind |-> report.kind, trade |-> o]
<1>1. /\ stream # <<>> /\ Input(o, in) /\ stream' = Tail(stream)
      /\ UNCHANGED <<exchange, connected, request, query, given_up>> /\ UNCHANGED reconciling
  BY DEF Deliver, scheduler, history, reconciling
<1>2. stream \in Seq(Report)
  BY DEF Inv, Typed
<1>3. report = stream[1] /\ 1 \in 1..Len(stream) /\ report \in Report
  BY <1>1, <1>2
<1>4. o \in Order /\ report.kind \in {"Acknowledged", "FillReceived", "CancelConfirmed"}
  BY <1>3 DEF Report
<1>5. /\ report.kind = "FillReceived" => exchange[o] = "Filled"
      /\ report.kind = "CancelConfirmed" => exchange[o] = "Canceled"
  BY <1>3 DEF Inv, Truthful
<1>6. in.kind = report.kind
  OBVIOUS
<1> HIDE DEF in, o
<1>7. /\ in.kind \in {"Acknowledged", "FillReceived", "CancelConfirmed"}
      /\ in.kind = "FillReceived" => exchange[o] = "Filled"
      /\ in.kind = "CancelConfirmed" => exchange[o] = "Canceled"
  BY <1>4, <1>5, <1>6
<1>8. UNCHANGED exchange /\ given_up \subseteq given_up'
  BY <1>1
<1>9. machine' = [p \in Order |-> machine'[p]] /\ MachineInv' /\ Orphans' \subseteq Orphans
  BY <1>1, <1>4, <1>7, <1>8, InputKeeps
<1>10. stream' \in Seq(Report) /\ \A i \in 1..Len(stream') : i + 1 \in 1..Len(stream) /\ stream'[i] = stream[i + 1]
  BY <1>1, <1>2
<1>11. Typed'
  BY <1>1, <1>9, <1>10 DEF Inv, Typed
<1>12. Truthful'
  <2>1. \A i \in 1..Len(stream') :
          /\ stream'[i].kind = "FillReceived" => exchange'[stream'[i].order] = "Filled"
          /\ stream'[i].kind = "CancelConfirmed" => exchange'[stream'[i].order] = "Canceled"
    BY <1>1, <1>10 DEF Inv, Truthful
  <2> QED BY <2>1, <1>1 DEF Inv, Truthful
<1> QED BY <1>1, <1>9, <1>11, <1>12, FewerOrphans, OwedAlone DEF Inv, reconciling

\* The reports under way are lost with the stream.
LEMMA StreamDropsInv ==
    ASSUME Inv, StreamDrops
    PROVE  Inv'
<1>1. /\ connected' = FALSE /\ stream' = <<>>
      /\ UNCHANGED <<exchange, machine, request, query, given_up>> /\ UNCHANGED reconciling
  BY DEF StreamDrops, scheduler, reconciling
<1>2. <<>> \in Seq(Report) /\ \A i \in 1..Len(<<>>) : FALSE
  OBVIOUS
<1>3. Typed'
  BY <1>1, <1>2 DEF Inv, Typed
<1>4. Truthful'
  BY <1>1, <1>2 DEF Inv, Truthful
<1>5. MachineInv' /\ Orphans' \subseteq Orphans
  BY <1>1 DEF Inv, MachineInv, Orphans, Open, Tracked
<1> QED BY <1>1, <1>3, <1>4, <1>5, FewerOrphans, OwedAlone DEF Inv, reconciling

\* The stream comes back, and a reconciliation is asked for (on_reconnect).
LEMMA StreamReconnectsInv ==
    ASSUME Inv, StreamReconnects
    PROVE  Inv'
<1>1. /\ connected' = TRUE /\ reconnect_pending' = TRUE /\ synced' = FALSE
      /\ overtaken' = (request["Reconnect"] # Idle)
      /\ UNCHANGED <<exchange, machine, stream, request, query, given_up, unexpected>>
  BY DEF StreamReconnects, OnReconnect
<1>2. Truthful' /\ MachineInv' /\ Orphans' = Orphans
  BY <1>1, OrdersAlone
<1>3. Typed'
  BY <1>1 DEF Inv, Typed
<1>4. ListInv'
  BY <1>1, <1>2 DEF Inv, ListInv
<1>5. Idle.phase # "answered"
  BY DEF Idle
<1>6. OwedInv'
  BY <1>1, <1>5 DEF OwedInv
<1> QED BY <1>2, <1>3, <1>4, <1>6 DEF Inv

\* An acknowledgement that does not come puts the order in doubt (tick).
LEMMA TimesOutInv ==
    ASSUME Inv, NEW o \in Order, TimesOut(o)
    PROVE  Inv'
<1>1. /\ machine[o].status = "Pending"
      /\ machine' = [machine EXCEPT ![o].status = "UnknownStatus"]
      /\ query' = [query EXCEPT ![o] = Asked]
      /\ UNCHANGED <<exchange, connected, stream, request, given_up>> /\ UNCHANGED reconciling
  BY DEF TimesOut, scheduler, history, reconciling
<1>2. /\ machine = [p \in Order |-> machine[p]] /\ query \in [Order -> Queried]
  BY DEF Inv, Typed
<1>3. /\ machine'[o] = [machine[o] EXCEPT !.status = "UnknownStatus"]
      /\ \A p \in Order : p # o => machine'[p] = machine[p]
      /\ machine' = [p \in Order |-> machine'[p]]
  BY <1>1, <1>2
<1>4. machine[o] \in Quiet => machine'[o] \in Quiet /\ machine'[o].status = "UnknownStatus"
  BY <1>3 DEF Quiet, InPlay
<1>5. Asked \in Queried /\ Asked.phase # "answered"
  BY DEF Asked, Queried
<1>6. /\ query'[o] = Asked /\ \A p \in Order : p # o => query'[p] = query[p]
      /\ query' \in [Order -> Queried]
  BY <1>1, <1>2, <1>5
<1>7. Typed'
  BY <1>1, <1>3, <1>6 DEF Inv, Typed
<1>8. Truthful'
  BY <1>1, <1>5, <1>6 DEF Inv, Truthful
<1>9. \A p \in Order : exchange[p] # "Filled" /\ p \in Tracked => p \in Tracked'
  BY <1>1, <1>3, <1>4 DEF Inv, MachineInv, Tracked
<1>10. \A p \in Order : exchange[p] # "Filled" /\ p \in Tracked' => p \in Tracked
  BY <1>1, <1>3, <1>4 DEF Inv, MachineInv, Tracked
<1>11. MachineInv'
  BY <1>1, <1>3, <1>4, <1>9 DEF Inv, MachineInv
<1>12. Orphans' \subseteq Orphans
  BY <1>1, <1>9 DEF Orphans, Open
<1> QED BY <1>1, <1>7, <1>8, <1>11, <1>12, FewerOrphans, OwedAlone DEF Inv, reconciling

-----------------------------------------------------------------------------
(* The scheduler, its requests and the queries.                            *)

\* An answer is read as it was given.
LEMMA Answers ==
    ASSUME NEW d
    PROVE  Answered(d).phase = "answered" /\ Answered(d).data = d /\ Answered(d) # Idle
           /\ Idle.phase # "answered" /\ Asked.phase # "answered"
BY DEF Answered, Idle, Asked

\* The periodic timer elapses, or a request goes out (periodic_due, next_request).
LEMMA DispatchInv ==
    ASSUME Inv, PeriodicElapses \/ \E k \in Kind : Dispatch(k)
    PROVE  Inv'
<1>1. UNCHANGED <<exchange, machine, stream, query, given_up, unexpected, synced, fresh,
                  overtaken, connected, startup_pending, reconnect_pending>>
  BY DEF PeriodicElapses, Dispatch, scheduler, history
<1>2. Truthful' /\ MachineInv' /\ Orphans' = Orphans
  BY <1>1, OrdersAlone
<1>3. request' = request \/ \E k \in Kind : request' = [request EXCEPT ![k] = Asked]
  BY DEF PeriodicElapses, Dispatch
<1>4. request' \in [Kind -> Requested]
      /\ \A k \in Kind : request'[k] = request[k] \/ request'[k] = Asked
  <2>1. Asked \in Requested /\ request \in [Kind -> Requested]
    BY DEF Requested, Inv, Typed
  <2> QED BY <2>1, <1>3
<1>5. Asked.phase # "answered" /\ {"Startup", "Reconnect"} \subseteq Kind /\ Full \subseteq Kind
  BY Answers DEF Kind, Full
<1>6. Typed'
  BY <1>1, <1>4 DEF Inv, Typed
<1>7. ListInv'
  BY <1>1, <1>2, <1>4, <1>5 DEF Inv, ListInv
<1>8. OwedInv'
  BY <1>1, <1>4, <1>5 DEF Inv, OwedInv
<1> QED BY <1>2, <1>6, <1>7, <1>8 DEF Inv

\* The exchange answers with the orders it has open now.
LEMMA ServedInv ==
    ASSUME Inv, NEW k \in Kind, Served(k)
    PROVE  Inv'
<1> DEFINE data == IF k \in Full THEN Open ELSE {}
<1>1. /\ request' = [request EXCEPT ![k] = Answered(data)] /\ fresh' = fresh \cup {k}
      /\ UNCHANGED <<exchange, machine, stream, query, given_up, unexpected, synced,
                     overtaken, connected, startup_pending, reconnect_pending>>
  BY DEF Served, scheduler
<1>2. Truthful' /\ MachineInv' /\ Orphans' = Orphans
  BY <1>1, OrdersAlone
<1>3. data \subseteq Order /\ (k \in Full => Orphans \subseteq data)
  BY DEF Open, Orphans
<1> HIDE DEF data
<1>4. request \in [Kind -> Requested] /\ Answered(data) \in Requested
  BY <1>3 DEF Inv, Typed, Requested
<1>5. request' \in [Kind -> Requested] /\ request'[k] = Answered(data)
      /\ \A j \in Kind : j # k => request'[j] = request[j]
  BY <1>1, <1>4
<1>6. Answered(data).data = data /\ {"Startup", "Reconnect"} \subseteq Kind /\ Full \subseteq Kind
  BY Answers DEF Kind, Full
<1>7. Typed'
  BY <1>1, <1>5 DEF Inv, Typed
<1>8. ListInv'
  <2>1. ASSUME NEW j \in Full, request'[j].phase = "answered"
        PROVE  Orphans \subseteq request'[j].data
    <3>1. CASE j = k
      BY <3>1, <1>3, <1>5, <1>6
    <3>2. CASE j # k
      BY <2>1, <3>2, <1>5, <1>6 DEF Inv, ListInv
    <3> QED BY <3>1, <3>2
  <2> QED BY <2>1, <1>1, <1>2 DEF Inv, ListInv
<1>9. OwedInv'
  BY <1>1, <1>5, <1>6 DEF Inv, OwedInv
<1> QED BY <1>2, <1>7, <1>8, <1>9 DEF Inv

\* A failed request is put back.
LEMMA RequestFailsInv ==
    ASSUME Inv, NEW k \in Kind, RequestFails(k)
    PROVE  Inv'
<1>1. /\ request' = [request EXCEPT ![k] = Idle]
      /\ UNCHANGED <<exchange, machine, stream, query, given_up, unexpected, synced, fresh,
                     overtaken, connected, startup_pending, reconnect_pending>>
  BY DEF RequestFails, scheduler, history
<1>2. Truthful' /\ MachineInv' /\ Orphans' = Orphans
  BY <1>1, OrdersAlone
<1>3. request \in [Kind -> Requested] /\ Idle \in Requested
  BY DEF Inv, Typed, Requested
<1>4. request' \in [Kind -> Requested]
      /\ \A j \in Kind : request'[j] = request[j] \/ request'[j] = Idle
  BY <1>1, <1>3
<1>5. Idle.phase # "answered" /\ {"Startup", "Reconnect"} \subseteq Kind /\ Full \subseteq Kind
  BY Answers DEF Kind, Full
<1>6. Typed'
  BY <1>1, <1>4 DEF Inv, Typed
<1>7. ListInv'
  BY <1>1, <1>2, <1>4, <1>5 DEF Inv, ListInv
<1>8. OwedInv'
  BY <1>1, <1>4, <1>5 DEF Inv, OwedInv
<1> QED BY <1>2, <1>6, <1>7, <1>8 DEF Inv

\* The list is compared with the tracked orders (reconcile_open_orders), and the
\* request is done with (on_completed).
LEMMA CompletesInv ==
    ASSUME Inv, NEW k \in Kind, Completes(k)
    PROVE  Inv'
<1> DEFINE data == request[k].data
<1>1. /\ request[k].phase = "answered" /\ request' = [request EXCEPT ![k] = Idle]
      /\ startup_pending' = (startup_pending /\ k # "Startup")
      /\ reconnect_pending' = (reconnect_pending /\ k # "Reconnect")
      /\ UNCHANGED <<exchange, machine, connected, stream, given_up, fresh, overtaken>>
  BY DEF Completes, OnCompleted
<1>2. IF k \in Full
      THEN /\ query' = [o \in Order |-> IF o \in Tracked \ data THEN Asked ELSE query[o]]
           /\ unexpected' = unexpected \cup (data \ Tracked)
           /\ synced' = (synced \/ k \in fresh)
      ELSE UNCHANGED <<query, unexpected, synced>>
  BY DEF Completes, ReconcileOpenOrders
<1>3. request \in [Kind -> Requested] /\ Idle \in Requested /\ query \in [Order -> Queried]
      /\ Asked \in Queried
  BY DEF Inv, Typed, Requested, Queried
<1>4. request' \in [Kind -> Requested] /\ request'[k] = Idle
      /\ \A j \in Kind : j # k => request'[j] = request[j]
  BY <1>1, <1>3
<1>5. query' \in [Order -> Queried] /\ \A o \in Order : query'[o] = query[o] \/ query'[o] = Asked
  BY <1>2, <1>3
<1>6. Idle.phase # "answered" /\ Asked.phase # "answered" /\ Full \subseteq Kind
      /\ {"Startup", "Reconnect"} = Full
  BY Answers DEF Kind, Full
<1>7. MachineInv' /\ Orphans' = Orphans
  BY <1>1 DEF Inv, MachineInv, Orphans, Open, Tracked
<1>8. Typed'
  BY <1>1, <1>4, <1>5 DEF Inv, Typed
<1>9. Truthful'
  BY <1>1, <1>5, <1>6 DEF Inv, Truthful
<1>10. ListInv'
  <2>1. \A j \in Full : request'[j].phase = "answered" => Orphans \subseteq request'[j].data
    BY <1>4, <1>6 DEF Inv, ListInv
  <2>2. synced' => Orphans \subseteq unexpected'
    <3>1. Orphans \cap Tracked = {}
      BY DEF Orphans
    <3>2. CASE k \in Full
      <4>1. Orphans \subseteq data
        BY <1>1, <3>2 DEF Inv, ListInv
      <4> HIDE DEF data
      <4> QED BY <4>1, <3>1, <3>2, <1>2
    <3>3. CASE k \notin Full
      BY <3>3, <1>2 DEF Inv, ListInv
    <3> QED BY <3>2, <3>3
  <2> QED BY <2>1, <2>2, <1>7 DEF ListInv
<1>11. OwedInv'
  <2>1. CASE k = "Reconnect"
    <3>1. /\ synced' = (synced \/ "Reconnect" \in fresh)
          /\ "Reconnect" \in fresh \/ overtaken
      BY <2>1, <1>1, <1>2, <1>6 DEF Inv, OwedInv
    <3> QED BY <2>1, <3>1, <1>1, <1>4, <1>6 DEF Inv, OwedInv
  <2>2. CASE k = "Startup"
    <3>1. /\ synced' = (synced \/ "Startup" \in fresh)
          /\ "Startup" \in fresh \/ reconnect_pending \/ synced \/ overtaken \/ ~connected
      BY <2>2, <1>1, <1>2, <1>6 DEF Inv, OwedInv
    <3> QED BY <2>2, <3>1, <1>1, <1>4, <1>6 DEF Inv, OwedInv
  <2>3. CASE k \notin Full
    BY <2>3, <1>1, <1>2, <1>4, <1>6 DEF Inv, OwedInv
  <2> QED BY <2>1, <2>2, <2>3, <1>6
<1> QED BY <1>7, <1>8, <1>9, <1>10, <1>11 DEF Inv

\* The exchange answers the query of one order, or the request fails.
LEMMA QueryServedInv ==
    ASSUME Inv, NEW o \in Order, QueryServed(o) \/ QueryFails(o)
    PROVE  Inv'
<1>1. PICK d \in Outcome :
        /\ query' = [query EXCEPT ![o] = Answered(d)]
        /\ d.kind = "Filled" => exchange[o] = "Filled"
        /\ d.kind = "Cancelled" => exchange[o] = "Canceled"
  <2>1. CASE QueryFails(o)
    <3> DEFINE d == [kind |-> "Error"]
    <3>1. d \in Outcome /\ d.kind = "Error"
      BY DEF Outcome
    <3>2. query' = [query EXCEPT ![o] = Answered(d)]
      BY <2>1 DEF QueryFails
    <3> HIDE DEF d
    <3> QED BY <3>1, <3>2
  <2>2. CASE QueryServed(o)
    <3> DEFINE d == ReconcileOrderStatus(exchange[o], o)
    <3>1. exchange[o] \in Status
      BY DEF Inv, Typed
    <3>2. d \in Outcome /\ (d.kind = "Filled" => exchange[o] = "Filled")
          /\ (d.kind = "Cancelled" => exchange[o] = "Canceled")
      BY <3>1 DEF ReconcileOrderStatus, Outcome, Status
    <3> QED BY <2>2, <3>2 DEF QueryServed
  <2> QED BY <2>1, <2>2
<1>2. /\ UNCHANGED <<exchange, machine, connected, stream, request, given_up>>
      /\ UNCHANGED reconciling
  BY DEF QueryServed, QueryFails, scheduler, history, reconciling
<1>3. query \in [Order -> Queried] /\ Answered(d) \in Queried /\ Answered(d).data = d
  BY Answers DEF Inv, Typed, Queried
<1>4. /\ query' \in [Order -> Queried] /\ query'[o].data = d
      /\ \A p \in Order : p # o => query'[p] = query[p]
  BY <1>1, <1>3
<1>5. Typed'
  BY <1>2, <1>4 DEF Inv, Typed
<1>6. Truthful'
  BY <1>1, <1>2, <1>4 DEF Inv, Truthful
<1>7. MachineInv' /\ Orphans' \subseteq Orphans
  BY <1>2 DEF Inv, MachineInv, Orphans, Open, Tracked
<1> QED BY <1>2, <1>5, <1>6, <1>7, FewerOrphans, OwedAlone DEF Inv, reconciling

\* The answer is an input of the order (StatusCheckResult).
LEMMA QueryAnsweredInv ==
    ASSUME Inv, NEW o \in Order, QueryAnswered(o)
    PROVE  Inv'
<1> DEFINE outcome == query[o].data
           in == [kind |-> "StatusCheckResult", outcome |-> outcome]
<1>1. /\ query[o].phase = "answered" /\ Input(o, in)
      /\ query' = [query EXCEPT ![o] = Asked] \/ query' = [query EXCEPT ![o] = Idle]
      /\ given_up' = IF outcome.kind = "NotFound" /\ machine[o].status = "UnknownStatus"
                     THEN given_up \cup {o} ELSE given_up
      /\ UNCHANGED <<exchange, connected, stream, request>> /\ UNCHANGED reconciling
  BY DEF QueryAnswered, scheduler, reconciling
<1>2. query \in [Order -> Queried] /\ Asked \in Queried /\ Idle \in Queried
  BY DEF Inv, Typed, Queried
<1>3. outcome \in Outcome
  <2>1. query[o] \in Queried
    BY <1>2
  <2>2. PICK d \in Outcome : query[o] = Answered(d)
    BY <1>1, <2>1, Answers DEF Queried
  <2> QED BY <2>2, Answers
<1>4. outcome.kind \in {"Live", "Filled", "Cancelled", "NotFound", "Error"}
  <2> HIDE DEF outcome
  <2> QED BY <1>3 DEF Outcome
<1>5. /\ outcome.kind = "Filled" => exchange[o] = "Filled"
      /\ outcome.kind = "Cancelled" => exchange[o] = "Canceled"
  BY <1>1 DEF Inv, Truthful
<1>6. given_up \subseteq given_up' /\ UNCHANGED exchange
      /\ (outcome.kind = "NotFound" /\ machine[o].status = "UnknownStatus" => o \in given_up')
  BY <1>1
<1>7. in.kind = "StatusCheckResult" /\ in.outcome = outcome
  OBVIOUS
<1> HIDE DEF in, outcome
<1>8. machine' = [p \in Order |-> machine'[p]] /\ MachineInv' /\ Orphans' \subseteq Orphans
  BY <1>1, <1>4, <1>5, <1>6, <1>7, InputKeeps
<1>9. /\ query' \in [Order -> Queried] /\ query'[o].phase # "answered"
      /\ \A p \in Order : p # o => query'[p] = query[p]
  BY <1>1, <1>2, Answers
<1>10. Typed'
  BY <1>1, <1>8, <1>9 DEF Inv, Typed
<1>11. Truthful'
  BY <1>1, <1>9 DEF Inv, Truthful
<1> QED BY <1>1, <1>8, <1>10, <1>11, FewerOrphans, OwedAlone DEF Inv, reconciling

-----------------------------------------------------------------------------
(* The specification.                                                      *)

\* At start nothing is under way and the startup reconciliation is due (new).
LEMMA InitInv == Init => Inv
<1> SUFFICES ASSUME Init PROVE Inv
  OBVIOUS
<1>1. NewSm \in Quiet /\ Untracked \in Quiet /\ NewSm.status = "Pending"
  BY DEF NewSm, Untracked, Quiet, InPlay
<1>2. Typed
  <2>1. machine \in [Order -> {NewSm, Untracked}] /\ exchange \in [Order -> Status]
    BY DEF Init, Status
  <2>2. request \in [Kind -> Requested] /\ query \in [Order -> Queried] /\ <<>> \in Seq(Report)
    BY DEF Init, Requested, Queried
  <2> QED BY <2>1, <2>2 DEF Init, Typed
<1>3. Idle.phase # "answered"
  BY Answers
<1>4. Truthful
  <2>1. \A i \in 1..Len(stream) : FALSE
    BY DEF Init
  <2> QED BY <2>1, <1>3 DEF Init, Truthful
<1>5. MachineInv
  BY <1>1 DEF Init, MachineInv
<1>6. ListInv /\ OwedInv
  <2>1. {"Startup", "Reconnect"} \subseteq Kind /\ Full \subseteq Kind
    BY DEF Kind, Full
  <2> QED BY <2>1, <1>3 DEF Init, ListInv, OwedInv
<1> QED BY <1>2, <1>4, <1>5, <1>6 DEF Inv

\* Every operation of the gateway, the exchange and the stream keeps it.
LEMMA NextInv == Inv /\ [Next]_vars => Inv'
<1> SUFFICES ASSUME Inv, [Next]_vars PROVE Inv'
  OBVIOUS
<1>1. ASSUME NEW o \in Order, Submit(o) PROVE Inv'
  BY <1>1, SubmitInv
<1>2. ASSUME NEW o \in Order, Arrives(o) \/ IsFilled(o) \/ IsCancelled(o) PROVE Inv'
  BY <1>2, HappensInv
<1>3. ASSUME NEW o \in Order, TimesOut(o) PROVE Inv'
  BY <1>3, TimesOutInv
<1>4. ASSUME NEW o \in Order, QueryServed(o) \/ QueryFails(o) PROVE Inv'
  BY <1>4, QueryServedInv
<1>5. ASSUME NEW o \in Order, QueryAnswered(o) PROVE Inv'
  BY <1>5, QueryAnsweredInv
<1>6. CASE PeriodicElapses \/ \E k \in Kind : Dispatch(k)
  BY <1>6, DispatchInv
<1>7. ASSUME NEW k \in Kind, Served(k) PROVE Inv'
  BY <1>7, ServedInv
<1>8. ASSUME NEW k \in Kind, RequestFails(k) PROVE Inv'
  BY <1>8, RequestFailsInv
<1>9. ASSUME NEW k \in Kind, Completes(k) PROVE Inv'
  BY <1>9, CompletesInv
<1>10. CASE StreamDrops
  BY <1>10, StreamDropsInv
<1>11. CASE StreamReconnects
  BY <1>11, StreamReconnectsInv
<1>12. CASE Deliver
  BY <1>12, DeliverInv
<1>13. CASE UNCHANGED vars
  BY <1>13 DEF vars, scheduler, history, Inv, Typed, Truthful, MachineInv, ListInv,
               OwedInv, Orphans, Open, Tracked
<1> QED BY <1>1, <1>2, <1>3, <1>4, <1>5, <1>6, <1>7, <1>8, <1>9, <1>10, <1>11, <1>12, <1>13 DEF Next

\* What is said of the machines, the lists and the scheduler holds at all
\* times, for any set of orders and any number of losses of the stream.
THEOREM InvHolds == Spec => []Inv
BY InitInv, NextInv, PTL DEF Spec

\* A reconnect is followed by a reconciliation served after it, unless it came
\* while the reconciliation of an earlier one was under way (on_reconnect,
\* on_completed).
THEOREM ReconnectsAreOwed == Spec => []ReconnectIsOwed
<1>1. Inv => ReconnectIsOwed
  BY DEF Inv, OwedInv, ReconnectIsOwed
<1> QED BY <1>1, InvHolds, PTL

\* Once a list served after the last reconnect has been compared, the caller was
\* told of every order it does not track, but for one it gave up because a query
\* did not find it (UnexpectedOrder, StatusCheckOutcome::NotFound).
THEOREM OrphansAreReported == Spec => []OrphanIsReported
<1>1. Inv => OrphanIsReported
  BY DEF Inv, ListInv, Orphans, OrphanIsReported
<1> QED BY <1>1, InvHolds, PTL

-----------------------------------------------------------------------------
(* The ends that were lost.  The caller learns of them from the first list *)
(* that was served after the reconnect, and nothing takes it back: a query *)
(* asked then is answered by the end of the order.                         *)

\* The machine of an order whose fill came before its acknowledgement.
Heard(o) == [status : {"Pending", "UnknownStatus"}, counted : {<<>>}, buffered : {<<o>>},
             seen : {{o}}]

HeardInv == \A o \in Order : machine[o] \in Quiet \cup Heard(o)

\* The tracked orders that have ended without a report, delivered or under way.
Unheard == {o \in Tracked : exchange[o] \in Closed_ /\ ~Reported(o) /\ machine[o].seen = {}}

\* As long as a report of a closed order is under way, so is that of its end.
ReportInv ==
    /\ ~connected => stream = <<>>
    /\ \A i \in 1..Len(stream) : exchange[stream[i].order] \in Closed_ =>
         \E j \in 1..Len(stream) : /\ j >= i /\ stream[j].order = stream[i].order
                                   /\ stream[j].kind # "Acknowledged"

\* A list served after the last reconnect has none of them.  When it has been
\* compared the caller knows them all, and no query under way will clear one.
LossInv == connected =>
    /\ \A k \in Full \cap fresh : request[k].phase = "answered" => Unheard \cap request[k].data = {}
    /\ synced => /\ Unheard \subseteq told
                 /\ \A o \in Unheard : query[o].phase = "answered" =>
                                         query[o].data.kind \notin {"Live", "NotFound"}

EndInv == HeardInv /\ ReportInv /\ LossInv

\* The one trade of an order fills it.
LEMMA OneTrade ==
    ASSUME NEW o \in Order
    PROVE  Lots(<<o>>) = 1 /\ Progress(<<o>>) = "Filled"
<1> DEFINE S == DOMAIN <<o>>
           body(g) == [s \in SUBSET S |->
                         IF s = {} THEN 0
                         ELSE LET x == CHOOSE y \in s : TRUE
                              IN  [p \in Order |-> 1][<<o>>[x]] + g[s \ {x}]]
           z == [s \in SUBSET S |-> IF s = {} THEN 0 ELSE 1]
           iter == CHOOSE g : g = body(g)
<1>1. S = {1} /\ <<o>>[1] = o /\ \A s \in SUBSET S : s = {} \/ s = {1}
  <2>1. S = {1} /\ <<o>>[1] = o
    OBVIOUS
  <2> HIDE DEF S
  <2> QED BY <2>1
<1>2. z = body(z)
  <2>1. \A s \in SUBSET S : z[s] = body(z)[s]
    <3> SUFFICES ASSUME NEW s \in SUBSET S PROVE z[s] = body(z)[s]
      OBVIOUS
    <3>1. CASE s = {}
      BY <3>1
    <3>2. CASE s = {1}
      <4>1. (CHOOSE y \in s : TRUE) = 1 /\ s \ {1} = {} /\ {} \in SUBSET S
        BY <3>2
      <4> QED BY <3>2, <4>1, <1>1
    <3> QED BY <3>1, <3>2, <1>1
  <2> HIDE DEF S
  <2> QED BY <2>1
<1>3. iter = body(iter)
  <2>1. \E g : g = body(g)
    BY <1>2
  <2> HIDE DEF body
  <2> QED BY <2>1
<1>4. body(iter)[S] = 1 + body(iter)[{}] /\ body(iter)[{}] = 0
  <2>1. (CHOOSE y \in S : TRUE) = 1 /\ S \ {1} = {} /\ S # {} /\ {} \in SUBSET S
    BY <1>1
  <2>2. body(iter)[S] = 1 + iter[{}] /\ body(iter)[{}] = 0
    <3> HIDE DEF iter
    <3> QED BY <2>1, <1>1
  <2> HIDE DEF body
  <2> QED BY <2>2, <1>3
<1>5. Lots(<<o>>) = iter[S]
  BY Zenon DEF Lots, FoldSeq, FoldFunction, FoldFunctionOnSet, MapThenFoldSet
<1>6. Lots(<<o>>) = 1
  <2> HIDE DEF body, iter
  <2> QED BY <1>3, <1>4, <1>5
<1> QED BY <1>6 DEF Progress

\* A machine stays one of the two, and after a report of its end it is not
\* without one.
LEMMA HeardStep ==
    ASSUME NEW o \in Order, NEW sm \in Quiet \cup Heard(o), NEW in, sm.status # "Untracked",
           in.kind \in {"Acknowledged", "FillReceived", "CancelConfirmed", "StatusCheckResult"},
           in.kind = "FillReceived" => in.trade = o,
           in.kind = "StatusCheckResult" =>
             in.outcome.kind \in {"Live", "Filled", "Cancelled", "NotFound", "Error"}
    PROVE  /\ Kept(Process(sm, in).sm) \in Quiet \cup Heard(o)
           /\ Kept(Process(sm, in).sm).status # "Untracked" /\ Kept(Process(sm, in).sm).seen = {} =>
                /\ sm.seen = {}
                /\ in.kind \notin {"FillReceived", "CancelConfirmed"}
<1> DEFINE r == Process(sm, in).sm
<1>1. Untracked \in Quiet /\ Untracked.status = "Untracked"
  BY DEF Untracked, NewSm, Quiet
<1>2. r.status \in Terminal => Kept(r) = Untracked
  BY DEF Kept
<1>3. CASE sm \in Heard(o)
  <2>1. /\ sm.status \in {"Pending", "UnknownStatus"} /\ sm.seen = {o}
        /\ sm.counted \o sm.buffered = <<o>>
    <3>1. <<>> \o <<o>> = <<o>>
      OBVIOUS
    <3> QED BY <1>3, <3>1 DEF Heard
  <2>2. Acknowledge(sm).sm = [sm EXCEPT !.status = "Filled", !.counted = <<o>>, !.buffered = <<>>]
    BY <2>1, OneTrade DEF Acknowledge, Result
  <2>3. Acknowledge(sm).sm.status = "Filled"
    <3>1. [sm EXCEPT !.status = "Filled", !.counted = <<o>>, !.buffered = <<>>].status = "Filled"
      BY <1>3 DEF Heard
    <3> QED BY <2>2, <3>1
  <2>4. r = sm \/ r.status \in Terminal
    <3>1. CASE sm.status = "Pending"
      BY <3>1, <1>3, <2>1, <2>3 DEF Process, ProcessPending, BufferFill, Closed, Result, Ignored, Terminal, Heard
    <3>2. CASE sm.status = "UnknownStatus"
      <4>1. Process(sm, in) = ProcessUnknown(sm, in)
        BY <3>2 DEF Process
      <4>2. CASE in.kind = "StatusCheckResult"
        BY <4>1, <4>2, <1>3, <2>3 DEF ProcessUnknown, ResolveFromCheck, FilledByCheck, Closed, Result,
                                      Terminal, Heard
      <4>3. CASE in.kind # "StatusCheckResult"
        BY <4>1, <4>3, <1>3, <2>1, <2>3 DEF ProcessUnknown, BufferFill, Closed, Result, Ignored,
                                            Terminal, Heard
      <4> QED BY <4>2, <4>3
    <3> QED BY <2>1, <3>1, <3>2
  <2>5. r = sm => Kept(r) = sm
    BY <2>1 DEF Kept, Terminal
  <2> HIDE DEF r
  <2> QED BY <1>1, <1>2, <1>3, <2>1, <2>4, <2>5 DEF r
<1>4. CASE sm \in Quiet
  <2>1. /\ sm.status \in InPlay /\ sm.seen = {} /\ sm.counted = <<>> /\ sm.buffered = <<>>
        /\ Append(<<>>, o) = <<o>> /\ {} \cup {o} = {o}
    BY <1>4 DEF Quiet
  <2>2. CASE in.kind = "FillReceived"
    <3>1. CASE sm.status \in {"Pending", "UnknownStatus"}
      <4>1. r = BufferFill(sm, o).sm
        BY <2>2, <3>1 DEF Process, ProcessPending, ProcessUnknown
      <4>2. r = [sm EXCEPT !.seen = {o}, !.buffered = <<o>>]
        BY <4>1, <2>1 DEF BufferFill, Result
      <4> HIDE DEF r
      <4>3. r \in Heard(o)
        BY <4>2, <3>1, <1>4 DEF Quiet, Heard
      <4>4. Kept(r) = r /\ r.seen # {}
        BY <4>3 DEF Kept, Terminal, Heard
      <4> QED BY <4>3, <4>4 DEF r
    <3>2. CASE sm.status \in {"New", "PartiallyFilled"}
      <4>1. r = CountFill(sm, o).sm
        BY <2>2, <3>2 DEF Process, ProcessLive
      <4>2. r = [sm EXCEPT !.seen = {o}, !.counted = <<o>>, !.status = "Filled"]
        BY <4>1, <2>1, OneTrade DEF CountFill, Result
      <4> HIDE DEF r
      <4>3. r.status \in Terminal
        BY <4>2, <1>4 DEF Quiet, Terminal
      <4> QED BY <4>3, <1>1, <1>2 DEF r
    <3> QED BY <2>1, <3>1, <3>2 DEF InPlay
  <2>3. CASE in.kind = "StatusCheckResult" /\ in.outcome.kind = "Filled"
    <3>1. CASE sm.status = "UnknownStatus"
      <4>1. r = FilledByCheck(sm, in.outcome.trades).sm
        BY <2>3, <3>1 DEF Process, ProcessUnknown, ResolveFromCheck
      <4>2. r.status \in Terminal
        BY <4>1, <1>4 DEF FilledByCheck, Result, Terminal, Quiet
      <4> HIDE DEF r
      <4> QED BY <4>2, <1>1, <1>2 DEF r
    <3>2. CASE sm.status # "UnknownStatus"
      <4>1. r = sm
        BY <2>1, <2>3, <3>2 DEF Process, ProcessPending, ProcessLive, Ignored, Result, InPlay
      <4>2. Kept(r) = sm
        BY <4>1, <2>1 DEF Kept, Terminal, InPlay
      <4> HIDE DEF r
      <4> QED BY <4>2, <1>4, <2>1, <2>3 DEF r
    <3> QED BY <3>1, <3>2
  <2>4. CASE /\ in.kind \in {"Acknowledged", "CancelConfirmed", "StatusCheckResult"}
             /\ in.kind = "StatusCheckResult" => in.outcome.kind # "Filled"
    <3>1. Kept(r) \in Quiet
      BY <1>4, <2>4, QuietStep
    <3>2. in.kind = "CancelConfirmed" => r.status \in Terminal
      <4> SUFFICES ASSUME in.kind = "CancelConfirmed" PROVE r.status \in Terminal
        OBVIOUS
      <4>1. r = [sm EXCEPT !.status = "Cancelled"]
        BY <2>1 DEF Process, ProcessPending, ProcessLive, ProcessUnknown, Closed, Result, InPlay
      <4> HIDE DEF r
      <4> QED BY <4>1, <1>4 DEF Quiet, Terminal
    <3> HIDE DEF r
    <3> QED BY <1>1, <1>2, <2>1, <2>4, <3>1, <3>2 DEF r
  <2> QED BY <2>2, <2>3, <2>4
<1> QED BY <1>3, <1>4

\* An input that is about the order keeps the machines so, and makes no order
\* that has not heard of its end.
LEMMA InputHeard ==
    ASSUME Inv, HeardInv, NEW o \in Order, NEW in, Input(o, in),
           in.kind \in {"Acknowledged", "FillReceived", "CancelConfirmed", "StatusCheckResult"},
           in.kind = "FillReceived" => in.trade = o,
           in.kind = "StatusCheckResult" =>
             in.outcome.kind \in {"Live", "Filled", "Cancelled", "NotFound", "Error"}
    PROVE  /\ HeardInv'
           /\ \A p \in Order : p \in Tracked' /\ machine'[p].seen = {} =>
                /\ p \in Tracked /\ machine[p].seen = {}
                /\ p = o => in.kind \notin {"FillReceived", "CancelConfirmed"}
<1>1. machine = [p \in Order |-> machine[p]]
  BY DEF Inv, Typed
<1>2. machine' = [machine EXCEPT ![o] = IF o \in Tracked THEN Kept(Process(machine[o], in).sm)
                                        ELSE machine[o]]
  BY DEF Input
<1>3. machine'[o] = (IF o \in Tracked THEN Kept(Process(machine[o], in).sm) ELSE machine[o])
      /\ \A p \in Order : p # o => machine'[p] = machine[p]
  BY <1>1, <1>2
<1>4. CASE o \in Tracked
  <2> DEFINE sm == machine[o]
  <2>1. sm \in Quiet \cup Heard(o) /\ sm.status # "Untracked"
    BY <1>4 DEF HeardInv, Tracked
  <2>2. machine'[o] = Kept(Process(sm, in).sm)
    BY <1>3, <1>4
  <2> HIDE DEF sm
  <2>3. /\ machine'[o] \in Quiet \cup Heard(o)
        /\ machine'[o].status # "Untracked" /\ machine'[o].seen = {} =>
             sm.seen = {} /\ in.kind \notin {"FillReceived", "CancelConfirmed"}
    BY <2>1, <2>2, HeardStep
  <2> QED BY <1>3, <1>4, <2>3 DEF HeardInv, Tracked, sm
<1>5. CASE o \notin Tracked
  BY <1>3, <1>5 DEF HeardInv, Tracked
<1> QED BY <1>4, <1>5

\* Fewer losses, and no new answer, leave the caller as well informed.
LEMMA FewerUnheard ==
    ASSUME LossInv, connected' => connected, Unheard' \subseteq Unheard, Unheard \subseteq Order,
           UNCHANGED <<request, fresh, synced>>, synced /\ connected => Unheard' \cap told \subseteq told',
           \A o \in Order : query'[o] = query[o] \/ query'[o].phase # "answered"
    PROVE  LossInv'
BY DEF LossInv

\* An order that is sent has not ended.
LEMMA SubmitEnd ==
    ASSUME Inv, EndInv, NEW o \in Order, Submit(o)
    PROVE  EndInv'
<1>1. /\ exchange[o] = "Unsent" /\ exchange' = [exchange EXCEPT ![o] = "Sent"]
      /\ machine' = [machine EXCEPT ![o] = NewSm]
      /\ UNCHANGED <<connected, stream, request, query, fresh, synced, told>>
  BY DEF Submit, history
<1>2. /\ exchange'[o] = "Sent" /\ machine'[o] = NewSm
      /\ \A p \in Order : p # o => exchange'[p] = exchange[p] /\ machine'[p] = machine[p]
  BY <1>1 DEF Inv, Typed
<1>3. HeardInv'
  BY <1>2 DEF EndInv, HeardInv, NewSm, Quiet, InPlay
<1>4. \A p \in Order : exchange'[p] \in Closed_ => exchange[p] \in Closed_ /\ p # o
  BY <1>2 DEF Closed_
<1>5. ReportInv'
  <2>1. \A i \in 1..Len(stream) : stream[i].order \in Order
    <3>1. \A i \in 1..Len(stream) : stream[i] \in Report
      BY DEF Inv, Typed
    <3> QED BY <3>1 DEF Report
  <2> QED BY <1>1, <1>4, <2>1 DEF EndInv, ReportInv
<1>6. Unheard' \subseteq Unheard /\ Unheard \subseteq Order
  BY <1>1, <1>2, <1>4 DEF Unheard, Tracked, Reported
<1> QED BY <1>1, <1>3, <1>5, <1>6, FewerUnheard DEF EndInv

\* An order that ends while the stream is up has its report under way.
LEMMA HappensEnd ==
    ASSUME Inv, EndInv, NEW o \in Order, Arrives(o) \/ IsFilled(o) \/ IsCancelled(o)
    PROVE  EndInv'
<1>1. PICK from \in Status, to \in Status, kind \in {"Acknowledged", "FillReceived", "CancelConfirmed"} :
        /\ Happens(o, from, to, kind)
        /\ to \in Closed_ => kind # "Acknowledged"
        /\ from \notin Closed_
  BY DEF Arrives, IsFilled, IsCancelled, Status, Closed_
<1> DEFINE m == [order |-> o, kind |-> kind]
<1>2. /\ exchange[o] = from /\ exchange' = [exchange EXCEPT ![o] = to]
      /\ stream' = IF connected THEN Append(stream, m) ELSE stream
      /\ UNCHANGED <<machine, connected, request, query, fresh, synced, told>>
  BY <1>1 DEF Happens, Emit, history
<1>3. exchange'[o] = to /\ \A p \in Order : p # o => exchange'[p] = exchange[p]
  BY <1>2 DEF Inv, Typed
<1>4. HeardInv'
  BY <1>2 DEF EndInv, HeardInv
<1>5. CASE ~connected
  <2>1. stream = <<>> /\ stream' = <<>> /\ ~connected'
    BY <1>2, <1>5 DEF EndInv, ReportInv
  <2> QED BY <1>4, <2>1 DEF EndInv, ReportInv, LossInv
<1>6. CASE connected
  <2> DEFINE n == Len(stream)
  <2>1. stream \in Seq(Report) /\ m \in Report /\ m.order = o /\ m.kind = kind
    BY DEF Inv, Typed, Report
  <2> HIDE DEF m
  <2>2. /\ n \in Nat /\ Len(stream') = n + 1 /\ stream'[n + 1] = m
        /\ DOMAIN stream = 1..n /\ DOMAIN stream' = 1..(n + 1)
        /\ \A i \in 1..n : stream'[i] = stream[i]
    BY <1>2, <1>6, <2>1
  <2> HIDE DEF n
  <2>3. ReportInv'
    <3>1. ASSUME NEW i \in 1..(n + 1), exchange'[stream'[i].order] \in Closed_
          PROVE  \E j \in 1..(n + 1) : /\ j >= i /\ stream'[j].order = stream'[i].order
                                       /\ stream'[j].kind # "Acknowledged"
      <4>1. CASE stream'[i].order = o
        BY <1>1, <1>3, <2>1, <2>2, <3>1, <4>1
      <4>2. CASE stream'[i].order # o
        <5>1. i \in 1..n /\ stream'[i] = stream[i]
          BY <2>1, <2>2, <4>2
        <5>2. stream[i].order \in Order
          <6>1. stream[i] \in Report
            BY <2>1, <5>1 DEF n
          <6> QED BY <6>1 DEF Report
        <5>3. exchange[stream[i].order] \in Closed_
          BY <1>3, <3>1, <4>2, <5>1, <5>2
        <5>4. PICK j \in 1..n : /\ j >= i /\ stream[j].order = stream[i].order
                                /\ stream[j].kind # "Acknowledged"
          BY <5>1, <5>3 DEF EndInv, ReportInv, n
        <5> QED BY <2>2, <5>1, <5>4
      <4> QED BY <4>1, <4>2
    <3>2. connected'
      BY <1>2, <1>6
    <3> QED BY <2>2, <3>1, <3>2 DEF ReportInv
  <2>4. \A p \in Order : Reported(p) => Reported(p)'
    BY <2>2 DEF Reported
  <2>5. Reported(o)'
    BY <2>1, <2>2 DEF Reported
  <2>6. Unheard' \subseteq Unheard /\ Unheard \subseteq Order
    BY <1>2, <1>3, <2>4, <2>5 DEF Unheard, Tracked
  <2> QED BY <1>2, <1>4, <2>3, <2>6, FewerUnheard DEF EndInv
<1> QED BY <1>5, <1>6

\* The last report of a closed order that is delivered is that of its end.
LEMMA DeliverEnd ==
    ASSUME Inv, EndInv, Deliver
    PROVE  EndInv'
<1> DEFINE report == Head(stream)
           o == report.order
           in == [kind |-> report.kind, trade |-> o]
           n == Len(stream)
<1>1. /\ stream # <<>> /\ Input(o, in) /\ stream' = Tail(stream)
      /\ UNCHANGED <<exchange, connected, request, query, fresh, synced, told>>
  BY DEF Deliver, history
<1>2. stream \in Seq(Report)
  BY DEF Inv, Typed
<1>3. report = stream[1] /\ report \in Report
  BY <1>1, <1>2
<1>4. o \in Order /\ report.kind \in {"Acknowledged", "FillReceived", "CancelConfirmed"}
  BY <1>3 DEF Report
<1>5. in.kind = report.kind /\ in.trade = o
  OBVIOUS
<1>6. /\ n \in Nat /\ n >= 1 /\ Len(stream') = n - 1
      /\ DOMAIN stream = 1..n /\ DOMAIN stream' = 1..(n - 1)
      /\ \A i \in 1..(n - 1) : stream'[i] = stream[i + 1]
  BY <1>1, <1>2
<1>7. stream[1].order = o /\ stream[1].kind = report.kind
  BY <1>3
<1> HIDE DEF in, o, n, report
<1>8. /\ HeardInv'
      /\ \A p \in Order : p \in Tracked' /\ machine'[p].seen = {} =>
           /\ p \in Tracked /\ machine[p].seen = {}
           /\ p = o => in.kind \notin {"FillReceived", "CancelConfirmed"}
  <2>1. in.kind \in {"Acknowledged", "FillReceived", "CancelConfirmed"}
    BY <1>4, <1>5
  <2> QED BY <1>1, <1>4, <1>5, <2>1, InputHeard DEF EndInv
<1>9. ReportInv'
  <2>1. ASSUME NEW i \in 1..(n - 1), exchange'[stream'[i].order] \in Closed_
        PROVE  \E j \in 1..(n - 1) : /\ j >= i /\ stream'[j].order = stream'[i].order
                                     /\ stream'[j].kind # "Acknowledged"
    <3>1. i + 1 \in 1..n /\ stream'[i] = stream[i + 1]
      BY <1>6
    <3>2. PICK j \in 1..n : /\ j >= i + 1 /\ stream[j].order = stream[i + 1].order
                            /\ stream[j].kind # "Acknowledged"
      BY <1>1, <2>1, <3>1 DEF EndInv, ReportInv, n
    <3>3. j - 1 \in 1..(n - 1) /\ j - 1 >= i /\ stream'[j - 1] = stream[j]
      BY <1>6, <3>1, <3>2
    <3> QED BY <3>1, <3>2, <3>3
  <2>2. connected
    BY <1>1 DEF EndInv, ReportInv
  <2> QED BY <1>1, <1>6, <2>1, <2>2 DEF ReportInv
<1>10. Unheard' \subseteq Unheard
  <2> SUFFICES ASSUME NEW p \in Unheard' PROVE p \in Unheard
    OBVIOUS
  <2>1. p \in Order /\ p \in Tracked' /\ exchange[p] \in Closed_ /\ ~Reported(p)' /\ machine'[p].seen = {}
    BY <1>1 DEF Unheard, Tracked
  <2>2. /\ p \in Tracked /\ machine[p].seen = {}
        /\ p = o => in.kind \notin {"FillReceived", "CancelConfirmed"}
    BY <1>8, <2>1
  <2>3. \A j \in 1..n : stream[j].order = p => j = 1
    <3> SUFFICES ASSUME NEW j \in 1..n, stream[j].order = p, j # 1 PROVE FALSE
      OBVIOUS
    <3>1. j - 1 \in 1..(n - 1) /\ stream'[j - 1] = stream[j]
      BY <1>6
    <3> QED BY <1>6, <2>1, <3>1 DEF Reported
  <2>4. ~Reported(p)
    <3> SUFFICES ASSUME NEW i \in 1..n, stream[i].order = p PROVE FALSE
      BY <1>6 DEF Reported
    <3>1. PICK j \in 1..n : stream[j].order = p /\ stream[j].kind # "Acknowledged"
      BY <2>1 DEF EndInv, ReportInv, n
    <3>2. p = o /\ in.kind # "Acknowledged"
      BY <1>5, <1>7, <2>3, <3>1
    <3> QED BY <1>4, <1>5, <2>2, <3>2
  <2> QED BY <2>1, <2>2, <2>4 DEF Unheard
<1>11. Unheard \subseteq Order
  BY DEF Unheard, Tracked
<1> QED BY <1>1, <1>8, <1>9, <1>10, <1>11, FewerUnheard DEF EndInv

\* The stream goes down, or comes back: no list is fresh then.
LEMMA StreamEnd ==
    ASSUME Inv, EndInv, StreamDrops \/ StreamReconnects
    PROVE  EndInv'
<1>1. UNCHANGED <<exchange, machine>>
  BY DEF StreamDrops, StreamReconnects
<1>2. HeardInv'
  BY <1>1 DEF EndInv, HeardInv
<1>3. CASE StreamDrops
  <2>1. connected' = FALSE /\ stream' = <<>>
    BY <1>3 DEF StreamDrops
  <2> QED BY <1>2, <2>1 DEF EndInv, ReportInv, LossInv
<1>4. CASE StreamReconnects
  <2>1. stream' = stream /\ connected' = TRUE /\ fresh' = {} /\ synced' = FALSE /\ ~connected
    BY <1>4 DEF StreamReconnects
  <2> QED BY <1>1, <1>2, <2>1 DEF EndInv, ReportInv, LossInv
<1> QED BY <1>3, <1>4

\* An order in doubt is asked about anew.
LEMMA TimesOutEnd ==
    ASSUME Inv, EndInv, NEW o \in Order, TimesOut(o)
    PROVE  EndInv'
<1>1. /\ machine[o].status = "Pending"
      /\ machine' = [machine EXCEPT ![o].status = "UnknownStatus"]
      /\ query' = [query EXCEPT ![o] = Asked]
      /\ UNCHANGED <<exchange, connected, stream, request, fresh, synced, told>>
  BY DEF TimesOut, history
<1>2. /\ machine'[o] = [machine[o] EXCEPT !.status = "UnknownStatus"]
      /\ \A p \in Order : p # o => machine'[p] = machine[p]
  BY <1>1 DEF Inv, Typed
<1>3. machine[o] \in Quiet \cup Heard(o)
  BY DEF EndInv, HeardInv
<1>4. machine'[o] \in Quiet \cup Heard(o) /\ machine'[o].seen = machine[o].seen
  BY <1>1, <1>2, <1>3 DEF Quiet, Heard, InPlay
<1>5. HeardInv'
  BY <1>2, <1>4 DEF EndInv, HeardInv
<1>6. Unheard' \subseteq Unheard /\ Unheard \subseteq Order
  <2>1. machine[o].status # "Untracked"
    BY <1>1
  <2> QED BY <1>1, <1>2, <1>4, <2>1 DEF Unheard, Tracked, Reported
<1>7. \A p \in Order : query'[p] = query[p] \/ query'[p].phase # "answered"
  BY <1>1, Answers DEF Inv, Typed
<1>8. ReportInv'
  BY <1>1 DEF EndInv, ReportInv
<1> QED BY <1>1, <1>5, <1>6, <1>7, <1>8, FewerUnheard DEF EndInv

\* What leaves orders and reports alone leaves the losses as they are.
LEMMA SameUnheard ==
    ASSUME EndInv, UNCHANGED <<exchange, machine, connected, stream>>
    PROVE  HeardInv' /\ ReportInv' /\ Unheard' = Unheard
BY DEF EndInv, HeardInv, ReportInv, Unheard, Tracked, Reported

\* A request that is sent out, or fails, has no answer.
LEMMA DispatchEnd ==
    ASSUME Inv, EndInv, PeriodicElapses \/ \E k \in Kind : Dispatch(k) \/ RequestFails(k)
    PROVE  EndInv'
<1>1. UNCHANGED <<exchange, machine, connected, stream, query, fresh, synced, told>>
  BY DEF PeriodicElapses, Dispatch, RequestFails, history
<1>2. HeardInv' /\ ReportInv' /\ Unheard' = Unheard
  BY <1>1, SameUnheard
<1>3. request' = request \/ \E k \in Kind : \/ request' = [request EXCEPT ![k] = Asked]
                                            \/ request' = [request EXCEPT ![k] = Idle]
  BY DEF PeriodicElapses, Dispatch, RequestFails
<1>4. \A k \in Kind : request'[k] = request[k] \/ request'[k].phase # "answered"
  BY <1>3, Answers DEF Inv, Typed
<1>5. Full \subseteq Kind
  BY DEF Full, Kind
<1>6. LossInv'
  BY <1>1, <1>2, <1>4, <1>5 DEF EndInv, LossInv
<1> QED BY <1>2, <1>6 DEF EndInv

\* The list has open orders only.
LEMMA ServedEnd ==
    ASSUME Inv, EndInv, NEW k \in Kind, Served(k)
    PROVE  EndInv'
<1> DEFINE data == IF k \in Full THEN Open ELSE {}
<1>1. /\ request' = [request EXCEPT ![k] = Answered(data)] /\ fresh' = fresh \cup {k}
      /\ UNCHANGED <<exchange, machine, connected, stream, query, synced, told>>
  BY DEF Served
<1>2. HeardInv' /\ ReportInv' /\ Unheard' = Unheard
  BY <1>1, SameUnheard
<1>3. Unheard \cap data = {}
  BY DEF Unheard, Open, Closed_
<1> HIDE DEF data
<1>4. request'[k].data = data /\ \A j \in Kind : j # k => request'[j] = request[j]
  BY <1>1, Answers DEF Inv, Typed
<1>5. Full \subseteq Kind
  BY DEF Full, Kind
<1>6. ASSUME connected', NEW j \in Full \cap fresh', request'[j].phase = "answered"
      PROVE  Unheard' \cap request'[j].data = {}
  <2>1. CASE j = k
    BY <1>2, <1>3, <1>4, <2>1
  <2>2. CASE j # k
    BY <1>1, <1>2, <1>4, <1>5, <1>6, <2>2 DEF EndInv, LossInv
  <2> QED BY <2>1, <2>2
<1>7. LossInv'
  BY <1>1, <1>2, <1>6 DEF EndInv, LossInv
<1> QED BY <1>2, <1>7 DEF EndInv

\* Every lost end is missing on the list, so the caller is told and asks.
LEMMA CompletesEnd ==
    ASSUME Inv, EndInv, NEW k \in Kind, Completes(k)
    PROVE  EndInv'
<1> DEFINE data == request[k].data
<1>1. /\ request[k].phase = "answered" /\ request' = [request EXCEPT ![k] = Idle]
      /\ UNCHANGED <<exchange, machine, connected, stream, fresh>>
  BY DEF Completes
<1>2. IF k \in Full
      THEN /\ query' = [o \in Order |-> IF o \in Tracked \ data THEN Asked ELSE query[o]]
           /\ told' = told \cup (Tracked \ data)
           /\ synced' = (synced \/ k \in fresh)
      ELSE UNCHANGED <<query, told, synced>>
  BY DEF Completes, ReconcileOpenOrders
<1>3. HeardInv' /\ ReportInv' /\ Unheard' = Unheard /\ Unheard \subseteq Tracked /\ Tracked \subseteq Order
  BY <1>1, SameUnheard DEF Unheard, Tracked
<1>4. request'[k].phase # "answered" /\ \A j \in Kind : j # k => request'[j] = request[j]
  BY <1>1, Answers DEF Inv, Typed
<1>5. Full \subseteq Kind
  BY DEF Full, Kind
<1>6. ASSUME connected', NEW j \in Full \cap fresh', request'[j].phase = "answered"
      PROVE  Unheard' \cap request'[j].data = {}
  BY <1>1, <1>3, <1>4, <1>5, <1>6 DEF EndInv, LossInv
<1>7. ASSUME connected', synced'
      PROVE  /\ Unheard' \subseteq told'
             /\ \A o \in Unheard' : query'[o].phase = "answered" =>
                                      query'[o].data.kind \notin {"Live", "NotFound"}
  <2>1. CASE k \in Full /\ k \in fresh
    <3>1. Unheard \subseteq Tracked \ data
      BY <1>1, <1>3, <1>7, <2>1 DEF EndInv, LossInv
    <3>2. \A o \in Unheard : query'[o] = Asked
      BY <1>2, <1>3, <2>1, <3>1
    <3> QED BY <1>2, <1>3, <2>1, <3>1, <3>2, Answers
  <2>2. CASE ~(k \in Full /\ k \in fresh)
    <3>1. synced /\ connected /\ told \subseteq told'
      BY <1>1, <1>2, <1>7, <2>2
    <3>2. \A o \in Order : query'[o] = query[o] \/ query'[o].phase # "answered"
      BY <1>2, Answers
    <3> QED BY <1>3, <3>1, <3>2 DEF EndInv, LossInv
  <2> QED BY <2>1, <2>2
<1>8. LossInv'
  BY <1>6, <1>7 DEF LossInv
<1> QED BY <1>3, <1>8 DEF EndInv

\* Asked about an order that has ended, the exchange answers with its end.
LEMMA QueryServedEnd ==
    ASSUME Inv, EndInv, NEW o \in Order, QueryServed(o) \/ QueryFails(o)
    PROVE  EndInv'
<1>1. PICK d : /\ query' = [query EXCEPT ![o] = Answered(d)]
               /\ exchange[o] \in Closed_ => d.kind \notin {"Live", "NotFound"}
  <2>1. CASE QueryFails(o)
    <3> DEFINE d == [kind |-> "Error"]
    <3>1. d.kind \notin {"Live", "NotFound"} /\ query' = [query EXCEPT ![o] = Answered(d)]
      BY <2>1 DEF QueryFails
    <3> HIDE DEF d
    <3> QED BY <3>1
  <2>2. CASE QueryServed(o)
    <3> DEFINE d == ReconcileOrderStatus(exchange[o], o)
    <3>1. exchange[o] \in Closed_ => d.kind \notin {"Live", "NotFound"}
      BY DEF ReconcileOrderStatus, Closed_
    <3> QED BY <2>2, <3>1 DEF QueryServed
  <2> QED BY <2>1, <2>2
<1>2. UNCHANGED <<exchange, machine, connected, stream, request, fresh, synced, told>>
  BY DEF QueryServed, QueryFails, history
<1>3. HeardInv' /\ ReportInv' /\ Unheard' = Unheard
  BY <1>2, SameUnheard
<1>4. query'[o].data = d /\ \A p \in Order : p # o => query'[p] = query[p]
  BY <1>1, Answers DEF Inv, Typed
<1>5. \A p \in Unheard : query'[p].phase = "answered" /\ (query[p].phase = "answered" =>
        query[p].data.kind \notin {"Live", "NotFound"}) => query'[p].data.kind \notin {"Live", "NotFound"}
  BY <1>1, <1>4 DEF Unheard, Tracked
<1>6. LossInv'
  BY <1>2, <1>3, <1>5 DEF EndInv, LossInv
<1> QED BY <1>3, <1>6 DEF EndInv

\* The caller takes an order for live again only if it has not ended.
LEMMA QueryAnsweredEnd ==
    ASSUME Inv, EndInv, NEW o \in Order, QueryAnswered(o)
    PROVE  EndInv'
<1> DEFINE outcome == query[o].data
           in == [kind |-> "StatusCheckResult", outcome |-> outcome]
<1>1. /\ query[o].phase = "answered" /\ Input(o, in)
      /\ query' = [query EXCEPT ![o] = Asked] \/ query' = [query EXCEPT ![o] = Idle]
      /\ told' = IF outcome.kind \in {"Live", "NotFound"} THEN told \ {o} ELSE told
      /\ UNCHANGED <<exchange, connected, stream, request, fresh, synced>>
  BY DEF QueryAnswered
<1>2. outcome.kind \in {"Live", "Filled", "Cancelled", "NotFound", "Error"}
  <2>1. query[o] \in Queried
    BY DEF Inv, Typed
  <2>2. PICK d \in Outcome : query[o] = Answered(d)
    BY <1>1, <2>1, Answers DEF Queried
  <2>3. outcome = d
    BY <2>2, Answers
  <2> HIDE DEF outcome
  <2> QED BY <2>3 DEF Outcome
<1>3. in.kind = "StatusCheckResult" /\ in.outcome = outcome
  OBVIOUS
<1>4. synced /\ connected /\ o \in Unheard => outcome.kind \notin {"Live", "NotFound"}
  BY <1>1 DEF EndInv, LossInv
<1> HIDE DEF in, outcome
<1>5. /\ HeardInv'
      /\ \A p \in Order : p \in Tracked' /\ machine'[p].seen = {} => p \in Tracked /\ machine[p].seen = {}
  BY <1>1, <1>2, <1>3, InputHeard DEF EndInv
<1>6. Unheard' \subseteq Unheard /\ Unheard \subseteq Order
  <2>1. Tracked' \subseteq Order
    BY DEF Tracked
  <2> QED BY <1>1, <1>5, <2>1 DEF Unheard, Tracked, Reported
<1>7. synced /\ connected => Unheard' \cap told \subseteq told'
  BY <1>1, <1>4, <1>6
<1>8. \A p \in Order : query'[p] = query[p] \/ query'[p].phase # "answered"
  BY <1>1, Answers DEF Inv, Typed
<1>9. ReportInv'
  BY <1>1 DEF EndInv, ReportInv
<1> QED BY <1>1, <1>5, <1>6, <1>7, <1>8, <1>9, FewerUnheard DEF EndInv

\* No list is fresh at start.
LEMMA InitEnd == Init => EndInv
<1> SUFFICES ASSUME Init PROVE EndInv
  OBVIOUS
<1>1. NewSm \in Quiet /\ Untracked \in Quiet
  BY DEF NewSm, Untracked, Quiet, InPlay
<1>2. HeardInv
  BY <1>1 DEF Init, HeardInv
<1>3. ReportInv
  <2>1. stream = <<>> /\ \A i \in 1..Len(<<>>) : FALSE
    BY DEF Init
  <2> QED BY <2>1 DEF ReportInv
<1>4. fresh = {} /\ synced = FALSE
  BY DEF Init
<1> QED BY <1>2, <1>3, <1>4 DEF EndInv, LossInv

\* Every operation of the gateway, the exchange and the stream keeps it.
LEMMA NextEnd == Inv /\ EndInv /\ [Next]_vars => EndInv'
<1> SUFFICES ASSUME Inv, EndInv, [Next]_vars PROVE EndInv'
  OBVIOUS
<1>1. ASSUME NEW o \in Order, Submit(o) PROVE EndInv'
  BY <1>1, SubmitEnd
<1>2. ASSUME NEW o \in Order, Arrives(o) \/ IsFilled(o) \/ IsCancelled(o) PROVE EndInv'
  BY <1>2, HappensEnd
<1>3. ASSUME NEW o \in Order, TimesOut(o) PROVE EndInv'
  BY <1>3, TimesOutEnd
<1>4. ASSUME NEW o \in Order, QueryServed(o) \/ QueryFails(o) PROVE EndInv'
  BY <1>4, QueryServedEnd
<1>5. ASSUME NEW o \in Order, QueryAnswered(o) PROVE EndInv'
  BY <1>5, QueryAnsweredEnd
<1>6. CASE PeriodicElapses \/ \E k \in Kind : Dispatch(k) \/ RequestFails(k)
  BY <1>6, DispatchEnd
<1>7. ASSUME NEW k \in Kind, Served(k) PROVE EndInv'
  BY <1>7, ServedEnd
<1>8. ASSUME NEW k \in Kind, Completes(k) PROVE EndInv'
  BY <1>8, CompletesEnd
<1>9. CASE StreamDrops \/ StreamReconnects
  BY <1>9, StreamEnd
<1>10. CASE Deliver
  BY <1>10, DeliverEnd
<1>11. CASE UNCHANGED vars
  BY <1>11 DEF vars, history, EndInv, HeardInv, ReportInv, LossInv, Unheard, Tracked, Reported
<1> QED BY <1>1, <1>2, <1>3, <1>4, <1>5, <1>6, <1>7, <1>8, <1>9, <1>10, <1>11 DEF Next

\* Once a list served after the last reconnect has been compared, the caller was
\* told of every working order whose end the stream lost while it was down, and
\* was not told otherwise since (reconcile_open_orders, OrderVanished).
THEOREM LossesAreReported == Spec => []LossIsReported
<1>1. EndInv => LossIsReported
  <2> SUFFICES ASSUME EndInv, connected, synced, NEW o \in Lost PROVE o \in told
    BY DEF LossIsReported
  <2>1. /\ o \in Tracked /\ exchange[o] \in Closed_ /\ ~Reported(o)
        /\ machine[o].status \in {"New", "PartiallyFilled"}
    BY DEF Lost
  <2>2. machine[o] \in Quiet \cup Heard(o)
    BY <2>1 DEF EndInv, HeardInv, Tracked
  <2>3. machine[o].seen = {}
    BY <2>1, <2>2 DEF Quiet, Heard
  <2>4. o \in Unheard
    BY <2>1, <2>3 DEF Unheard
  <2> QED BY <2>4 DEF EndInv, LossInv
<1> QED BY <1>1, InitEnd, NextEnd, InvHolds, PTL DEF Spec
==============================================================================
