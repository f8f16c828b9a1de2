--------------------------- MODULE Reconciliation ---------------------------
(***************************************************************************)
(* Reconciliation of the gateway's orders with the exchange                *)
(* (crates/order-gateway/src/reconciler.rs): the scheduler that decides    *)
(* when to ask, the comparison of the open orders with the tracked ones,   *)
(* and the query of one order.  The user data stream loses the reports of  *)
(* what happens while it is down, and every REST answer is as old as the   *)
(* moment it was served at, so the comparison may speak of a past that     *)
(* either side has left.                                                   *)
(*                                                                         *)
(* The orders are those of OrderMachine, each filled by one trade that has *)
(* the order's name.  The loop around the scheduler, the HTTP calls and    *)
(* the exchange are modelled from the usage the module documents.          *)
(***************************************************************************)
EXTENDS Integers, Sequences, FiniteSets, Functions

CONSTANTS Order,      \* client order ids
          MaxDrops    \* losses of the user data stream in a behaviour

ASSUME ReconciliationAssumption == IsFiniteSet(Order) /\ MaxDrops \in Nat

INSTANCE OrderMachine WITH Trade <- Order, Size <- [o \in Order |-> 1], OrderQty <- 1

VARIABLES exchange,   \* what the exchange knows of each order
          machine,    \* the state machine of each order (StateMachineEngine)
          connected,  \* the user data stream is up
          stream,     \* the reports under way on it
          startup_pending, reconnect_pending, periodic_due,  \* the scheduler
          request,    \* the reconciliation under way of each kind
          query,      \* the query under way of each order
          told,       \* tracked orders the caller was told have vanished
          given_up,   \* orders the exchange did not know when it was asked
          unexpected, \* orders the caller was told it does not track
          fresh,      \* kinds whose answer is younger than the last reconnect
          synced,     \* such an answer has been compared with the orders
          overtaken,  \* a reconnect came while the reconciliation of one was under way
          drops       \* losses of the stream so far

scheduler == <<startup_pending, reconnect_pending, periodic_due>>
history   == <<told, given_up, unexpected, fresh, synced, overtaken, drops>>
vars == <<exchange, machine, connected, stream, scheduler, request, query, history>>

Kind == {"Startup", "Reconnect", "Periodic"}
Full == {"Startup", "Reconnect"}

Status   == {"Unsent", "Sent", "Open", "Filled", "Canceled"}
Closed_  == {"Filled", "Canceled"}
Report   == [order : Order, kind : {"Acknowledged", "FillReceived", "CancelConfirmed"}]
Outcome  == [kind : {"Live", "Cancelled", "NotFound", "Error"}]
              \cup [kind : {"Filled"}, trades : SUBSET Order]
Idle     == [phase |-> "idle"]
Asked    == [phase |-> "asked"]
Answered(data) == [phase |-> "answered", data |-> data]

Tracked == {o \in Order : machine[o].status # "Untracked"}
Open    == {o \in Order : exchange[o] = "Open"}

(* At start an order is new, or the last run left it behind: tracked again *)
(* from the journal, or open at the exchange and forgotten.                *)
Init == /\ exchange \in [Order -> {"Unsent", "Open", "Filled"}]
        /\ machine \in [Order -> {NewSm, Untracked}]
        /\ \A o \in Order : (exchange[o] = "Unsent" => o \notin Tracked)
                         /\ (exchange[o] = "Filled" => o \in Tracked)
        /\ connected = TRUE /\ stream = <<>>
        /\ startup_pending = TRUE /\ reconnect_pending = FALSE /\ periodic_due = FALSE
        /\ request = [k \in Kind |-> Idle] /\ query = [o \in Order |-> Idle]
        /\ told = {} /\ given_up = {} /\ unexpected = {} /\ fresh = {} /\ synced = FALSE
        /\ overtaken = FALSE /\ drops = 0

-----------------------------------------------------------------------------
(* The exchange and its stream of reports.                                 *)

Emit(o, kind) ==
    stream' = IF connected THEN Append(stream, [order |-> o, kind |-> kind]) ELSE stream

Submit(o) ==
    /\ exchange[o] = "Unsent"
    /\ exchange' = [exchange EXCEPT ![o] = "Sent"]
    /\ machine' = [machine EXCEPT ![o] = NewSm]
    /\ UNCHANGED <<connected, stream, scheduler, request, query, history>>

Happens(o, from, to, kind) ==
    /\ exchange[o] = from
    /\ exchange' = [exchange EXCEPT ![o] = to]
    /\ Emit(o, kind)
    /\ UNCHANGED <<machine, connected, scheduler, request, query, history>>

Arrives(o)     == Happens(o, "Sent", "Open", "Acknowledged")
IsFilled(o)    == Happens(o, "Open", "Filled", "FillReceived")
IsCancelled(o) == Happens(o, "Open", "Canceled", "CancelConfirmed")

StreamDrops ==
    /\ connected /\ drops < MaxDrops
    /\ connected' = FALSE /\ stream' = <<>> /\ drops' = drops + 1
    /\ UNCHANGED <<exchange, machine, scheduler, request, query, told, given_up,
                   unexpected, fresh, synced, overtaken>>

(* Mutant: a reconnect asks for nothing while the startup one is pending. *)
OnReconnect_UnlessStartup ==
    reconnect_pending' = (reconnect_pending \/ ~startup_pending)

OnReconnect == reconnect_pending' = TRUE

StreamReconnects ==
    /\ ~connected
    /\ connected' = TRUE
    /\ OnReconnect
    /\ fresh' = {} /\ synced' = FALSE /\ overtaken' = (request["Reconnect"] # Idle)
    /\ UNCHANGED <<exchange, machine, stream, startup_pending, periodic_due, request,
                   query, told, given_up, unexpected, drops>>

(* An input of the state machine; an order that is done is forgotten. *)
Input(o, in) ==
    machine' = [machine EXCEPT ![o] = IF o \in Tracked THEN Kept(Process(@, in).sm) ELSE @]

Deliver ==
    /\ stream # <<>>
    /\ LET report == Head(stream)
       IN  Input(report.order, [kind |-> report.kind, trade |-> report.order])
    /\ stream' = Tail(stream)
    /\ UNCHANGED <<exchange, connected, scheduler, request, query, history>>

(* StateMachineEngine::tick: no answer within the timeout. *)
TimesOut(o) ==
    /\ machine[o].status = "Pending"
    /\ machine' = [machine EXCEPT ![o].status = "UnknownStatus"]
    /\ query' = [query EXCEPT ![o] = Asked]
    /\ UNCHANGED <<exchange, connected, stream, scheduler, request, history>>

-----------------------------------------------------------------------------
(* The scheduler and the loop around it.                                   *)

PeriodicElapses ==
    /\ ~periodic_due /\ periodic_due' = TRUE
    /\ UNCHANGED <<exchange, machine, connected, stream, startup_pending,
                   reconnect_pending, request, query, history>>

Requests == {k \in Kind : \/ k = "Startup" /\ startup_pending
                          \/ k = "Reconnect" /\ reconnect_pending
                          \/ k = "Periodic" /\ periodic_due}

Dispatch(k) ==
    /\ k \in Requests /\ request[k] = Idle
    /\ request' = [request EXCEPT ![k] = Asked]
    /\ UNCHANGED <<exchange, machine, connected, stream, scheduler, query, history>>

(* The exchange lists its open orders; the periodic request asks only for *)
(* the account.                                                           *)
Served(k) ==
    /\ request[k] = Asked
    /\ request' = [request EXCEPT ![k] = Answered(IF k \in Full THEN Open ELSE {})]
    /\ fresh' = fresh \cup {k}
    /\ UNCHANGED <<exchange, machine, connected, stream, scheduler, query, told,
                   given_up, unexpected, synced, overtaken, drops>>

(* A request that failed is tried again at the next tick. *)
RequestFails(k) ==
    /\ request[k] = Asked
    /\ request' = [request EXCEPT ![k] = Idle]
    /\ UNCHANGED <<exchange, machine, connected, stream, scheduler, query, history>>

(* Mutant: an empty list ends the comparison at once. *)
ReconcileOpenOrders_NothingListed(listed, tracked) ==
    [live |-> listed \cap tracked, unexpected |-> listed \ tracked,
     vanished |-> IF listed = {} THEN {} ELSE tracked \ listed]

(* Mutant: a listed order that is not tracked is passed over. *)
ReconcileOpenOrders_NoOrphans(listed, tracked) ==
    [live |-> listed \cap tracked, unexpected |-> {}, vanished |-> tracked \ listed]

ReconcileOpenOrders(listed, tracked) ==
    [live |-> listed \cap tracked, unexpected |-> listed \ tracked,
     vanished |-> tracked \ listed]

OnCompleted(k) ==
    /\ startup_pending'   = (startup_pending /\ k # "Startup")
    /\ reconnect_pending' = (reconnect_pending /\ k # "Reconnect")
    /\ periodic_due'      = (periodic_due /\ k # "Periodic")

Completes(k) ==
    /\ request[k].phase = "answered"
    /\ request' = [request EXCEPT ![k] = Idle]
    /\ IF k \in Full
       THEN LET found == ReconcileOpenOrders(request[k].data, Tracked)
            IN  /\ query' = [o \in Order |-> IF o \in found.vanished THEN Asked ELSE query[o]]
                /\ told' = told \cup found.vanished
                /\ unexpected' = unexpected \cup found.unexpected
                /\ synced' = (synced \/ k \in fresh)
       ELSE UNCHANGED <<query, told, unexpected, synced>>
    /\ OnCompleted(k)
    /\ UNCHANGED <<exchange, machine, connected, stream, given_up, fresh, overtaken,
                   drops>>

-----------------------------------------------------------------------------
(* The query of one order.                                                 *)

ReconcileOrderStatus(status, o) ==
    CASE status = "Open"     -> [kind |-> "Live"]
      [] status = "Filled"   -> [kind |-> "Filled", trades |-> {o}]
      [] status = "Canceled" -> [kind |-> "Cancelled"]
      [] OTHER               -> [kind |-> "NotFound"]

QueryServed(o) ==
    /\ query[o] = Asked
    /\ query' = [query EXCEPT ![o] = Answered(ReconcileOrderStatus(exchange[o], o))]
    /\ UNCHANGED <<exchange, machine, connected, stream, scheduler, request, history>>

QueryFails(o) ==
    /\ query[o] = Asked
    /\ query' = [query EXCEPT ![o] = Answered([kind |-> "Error"])]
    /\ UNCHANGED <<exchange, machine, connected, stream, scheduler, request, history>>

QueryAnswered(o) ==
    /\ query[o].phase = "answered"
    /\ LET outcome == query[o].data
           in      == [kind |-> "StatusCheckResult", outcome |-> outcome]
           again   == Do("ScheduleStatusCheck") \in Range(Process(machine[o], in).actions)
       IN  /\ Input(o, in)
           /\ query' = [query EXCEPT ![o] = IF again THEN Asked ELSE Idle]
           /\ told' = IF outcome.kind \in {"Live", "NotFound"} THEN told \ {o} ELSE told
           /\ given_up' = IF outcome.kind = "NotFound" /\ machine[o].status = "UnknownStatus"
                          THEN given_up \cup {o} ELSE given_up
    /\ UNCHANGED <<exchange, connected, stream, scheduler, request, unexpected, fresh,
                   synced, overtaken, drops>>

-----------------------------------------------------------------------------
Next == \/ \E o \in Order : \/ Submit(o) \/ Arrives(o) \/ IsFilled(o) \/ IsCancelled(o)
                            \/ TimesOut(o) \/ QueryServed(o) \/ QueryFails(o)
                            \/ QueryAnswered(o)
        \/ \E k \in Kind : Dispatch(k) \/ Served(k) \/ RequestFails(k) \/ Completes(k)
        \/ StreamDrops \/ StreamReconnects \/ Deliver \/ PeriodicElapses

Spec     == Init /\ [][Next]_vars

-----------------------------------------------------------------------------
(* The variables keep their types, and an order is queried or compared only *)
(* as the code can.                                                         *)
TypeOK == /\ exchange \in [Order -> Status]
          /\ \A o \in Order : /\ machine[o].status \in InPlay \cup {"Untracked"}
                              /\ machine[o].seen \subseteq {o}
                              /\ query[o] = Idle \/ query[o] = Asked
                                   \/ query[o].data \in Outcome
          /\ \A i \in DOMAIN stream : stream[i] \in Report
          /\ \A k \in Kind : request[k].phase = "answered" => request[k].data \subseteq Order
          /\ {connected, startup_pending, reconnect_pending, periodic_due, synced,
              overtaken} \subseteq BOOLEAN
          /\ told \subseteq Order /\ given_up \subseteq Order /\ unexpected \subseteq Order /\ fresh \subseteq Kind
          /\ drops \in 0 .. MaxDrops

Reported(o) == \E i \in DOMAIN stream : stream[i].order = o
Lost == {o \in Tracked : /\ exchange[o] \in Closed_ /\ ~Reported(o)
                         /\ machine[o].status \in {"New", "PartiallyFilled"}}

(* Once a list of open orders that was served after the last reconnect has  *)
(* been compared, the caller has been told of every working order whose end *)
(* the stream lost while it was down (reconcile_open_orders, OrderVanished).*)
LossIsReported == connected /\ synced => Lost \subseteq told

(* By then it has also been told of every order that the exchange works and *)
(* nobody tracks (UnexpectedOrder), but for one it gave up because the      *)
(* query overtook the order (StatusCheckOutcome::NotFound).                 *)
OrphanIsReported == synced => Open \ Tracked \subseteq unexpected \cup given_up

(* A reconnect is followed by a full reconciliation, served after it, unless *)
(* it came while the reconciliation of an earlier one was under way          *)
(* (on_reconnect, on_completed).                                             *)
ReconnectIsOwed ==
    connected /\ ~startup_pending /\ ~reconnect_pending => synced \/ overtaken

(* No reconnect goes without the full reconciliation ReconcileRequest       *)
(* promises after it.                                                       *)
ReconnectIsReconciled == ~startup_pending /\ ~reconnect_pending => synced

=============================================================================
