---------------------------- MODULE OrderGateway ----------------------------
(***************************************************************************)
(* The order path of crates/order-gateway: the state machine engine, the   *)
(* gateway with its journal and its client order ids, the exchange, and    *)
(* the one task that drives them as the head comment of machine.rs says:   *)
(* enqueue and track an order, send it, feed every report to the engine    *)
(* and hand each action it returns to the gateway, stopping at the first   *)
(* error.                                                                  *)
(*                                                                         *)
(* Failures: reports are delivered in any order, any number of times, or   *)
(* never; a REST status check fails, or is answered long before it is      *)
(* read; a journal write fails after any part of it has reached the file;  *)
(* the process crashes between any two steps and is started again.         *)
(***************************************************************************)
EXTENDS OrderJournal

CONSTANTS TradesQueried, \* does a status check also ask for the order's trades?
          MaxFailures,   \* bound: failing journal writes
          MaxCrashes     \* bound: crashes

ASSUME FailureAssumption == /\ TradesQueried \in BOOLEAN
                            /\ MaxFailures \in Nat
                            /\ MaxCrashes \in Nat

VARIABLES up,        \* "Running", "Down", "Replaying", or "Refused": cannot open the journal
          next,      \* ClientOrderIdGenerator::counter
          replayed,  \* entries replay_journal has gone through
          orders,    \* OrderGateway::orders
          sms,       \* StateMachineEngine::orders
          todo,      \* actions of the last input not yet handed to the gateway
          checks,    \* status checks: none, asked, or the exchange's answer
          journal,   \* entries appended to the journal, in order
          written,   \* how many of them are in the file; the BufWriter holds the rest
          torn,      \* a part of the next one is in the file too
          venue,     \* the exchange's own record of each order
          failures, crashes, \* how often each has happened
          dropped,   \* history: orders that lost an action to an error
          restored   \* history: orders the last restart found in the journal

file    == <<journal, written, torn>>
gateway == <<next, orders, file>>
engine  == <<sms, checks>>
history == <<dropped, restored>>
vars == <<up, replayed, gateway, engine, todo, venue, failures, crashes, history>>

(* The exchange's view: whether it acknowledged, its trades, its state. *)
VenueOrder == [state : {"Unsent", "Sent", "Open"} \cup Terminal,
               acked : BOOLEAN, trades : SUBSET Trade]
Unsent == [state |-> "Unsent", acked |-> FALSE, trades |-> {}]

Outcome == [kind : {"Filled"}, trades : SUBSET Trade]
             \cup [kind : {"Live", "Cancelled", "Rejected", "Expired", "NotFound", "Error"}]
Check == {[kind |-> "None"], [kind |-> "Asked"]} \cup Outcome

Init ==
    /\ up = "Running" /\ next = 0 /\ replayed = 0
    /\ orders = [c \in Cloid |-> Absent]
    /\ sms = [c \in Cloid |-> Untracked]
    /\ todo = <<>>
    /\ checks = [c \in Cloid |-> Do("None")]
    /\ journal = <<>> /\ written = 0 /\ torn = FALSE
    /\ venue = [c \in Cloid |-> Unsent]
    /\ failures = 0 /\ crashes = 0
    /\ dropped = {} /\ restored = {}
-----------------------------------------------------------------------------
(* The exchange. *)

Venue(c, state) ==
    /\ venue' = [venue EXCEPT ![c].state = state]
    /\ UNCHANGED <<up, replayed, gateway, engine, todo, failures, crashes, history>>

VenueAccept(c) ==
    /\ venue[c].state = "Sent"
    /\ venue' = [venue EXCEPT ![c].state = "Open", ![c].acked = TRUE]
    /\ UNCHANGED <<up, replayed, gateway, engine, todo, failures, crashes, history>>

Traded(c) == Lots(SetToSeq(venue[c].trades))

VenueTrade(c, t) ==
    /\ venue[c].state = "Open"
    /\ \A d \in Cloid : t \notin venue[d].trades
    /\ Traded(c) + Size[t] <= OrderQty
    /\ venue' = [venue EXCEPT ![c].trades = @ \cup {t},
                              ![c].state = IF Traded(c) + Size[t] = OrderQty
                                           THEN "Filled" ELSE "Open"]
    /\ UNCHANGED <<up, replayed, gateway, engine, todo, failures, crashes, history>>

VenueCancel(c) == venue[c].state = "Open" /\ Venue(c, "Cancelled")
VenueExpire(c) == venue[c].state = "Open" /\ Venue(c, "Expired")
VenueReject(c) ==
    /\ venue[c].state \in {"Sent", "Open"} /\ venue[c].trades = {}
    /\ Venue(c, "Rejected")

(* Everything the exchange has ever reported about an order. *)
Reports(c) ==
    {[kind |-> "Acknowledged"] : x \in {venue[c].acked} \cap {TRUE}}
      \cup {[kind |-> "FillReceived", trade |-> t] : t \in venue[c].trades}
      \cup {[kind |-> k] : k \in
              CASE venue[c].state = "Cancelled" -> {"CancelConfirmed"}
                [] venue[c].state \in {"Rejected", "Expired"} -> {venue[c].state}
                [] OTHER -> {}}

(* Reconciler::reconcile_order_status on what the exchange would answer. *)
OutcomeNow(c) ==
    CASE venue[c].state \in {"Unsent", "Sent"} -> Do("NotFound")
      [] venue[c].state = "Open"   -> Do("Live")
      [] venue[c].state = "Filled" ->
            [kind |-> "Filled",
             trades |-> IF TradesQueried THEN venue[c].trades ELSE {}]
      [] OTHER -> Do(venue[c].state)

AnswerWith(c, outcome) ==
    /\ checks[c].kind = "Asked"
    /\ checks' = [checks EXCEPT ![c] = outcome]
    /\ UNCHANGED <<up, replayed, gateway, sms, todo, venue, failures, crashes, history>>

Answer(c)     == AnswerWith(c, OutcomeNow(c))
AnswerFail(c) == AnswerWith(c, Do("Error"))
-----------------------------------------------------------------------------
(* Journal::append. *)

Persist(e) ==
    /\ journal' = Append(journal, e)
    /\ written' = Len(journal')
    /\ torn' = FALSE
    /\ UNCHANGED failures

(* Some whole entries more reach the file, the new one not, and perhaps a  *)
(* part of the next; the BufWriter keeps the rest and writes it first when *)
(* the next entry is appended.                                             *)
PersistFails(e) ==
    /\ failures < MaxFailures
    /\ failures' = failures + 1
    /\ journal' = Append(journal, e)
    /\ written' \in written .. Len(journal)
    /\ torn' \in (IF torn /\ written' = written THEN {TRUE} ELSE BOOLEAN)
-----------------------------------------------------------------------------
(* The task. *)

Idle == up = "Running" /\ todo = <<>>

RequestOf(c) == [kind |-> "Requested", cloid |-> c]

(* OrderGateway::enqueue, then StateMachineEngine::track. *)
Enqueue ==
    /\ Idle /\ next \in Cloid
    /\ next' = next + 1
    /\ Persist(RequestOf(next))
    /\ orders' = [orders EXCEPT ![next] = NewPending]
    /\ sms' = [sms EXCEPT ![next] = NewSm]
    /\ UNCHANGED <<up, replayed, todo, checks, venue, crashes, dropped, restored>>

EnqueueFails ==
    /\ Idle /\ next \in Cloid
    /\ next' = next + 1
    /\ PersistFails(RequestOf(next))
    /\ UNCHANGED <<up, replayed, orders, engine, todo, venue, crashes, history>>

(* The caller sends an order whose request is in the journal. *)
Send(c) ==
    /\ Idle
    /\ sms[c].status # "Untracked" /\ venue[c].state = "Unsent"
    /\ Venue(c, "Sent")

Acts(c, actions) == [i \in DOMAIN actions |-> [cloid |-> c, act |-> actions[i]]]

(* StateMachineEngine::process: an order that is not tracked is an error,  *)
(* which changes nothing.                                                  *)
Feed(c, in) ==
    LET result == Process(sms[c], in)
    IN  /\ Idle /\ sms[c].status # "Untracked"
        /\ sms' = [sms EXCEPT ![c] = Kept(result.sm)]
        /\ todo' = Acts(c, result.actions)
        /\ UNCHANGED <<up, replayed, gateway, venue, failures, crashes, history>>

Receive(c) ==
    /\ \E report \in Reports(c) : Feed(c, report)
    /\ UNCHANGED checks

Resolve(c) ==
    /\ checks[c] \in Outcome
    /\ Feed(c, [kind |-> "StatusCheckResult", outcome |-> checks[c]])
    /\ checks' = [checks EXCEPT ![c] = Do("None")]

(* StateMachineEngine::tick.  Orders are submitted in the order of their   *)
(* ids, so those that are overdue are the pending ones up to some id.      *)
Tick ==
    /\ Idle
    /\ \E latest \in Cloid :
          LET overdue == {c \in 0 .. latest : sms[c].status = "Pending"}
          IN  /\ overdue # {}
              /\ sms' = [c \in Cloid |-> IF c \in overdue
                            THEN [sms[c] EXCEPT !.status = "UnknownStatus"] ELSE sms[c]]
              /\ todo' = LET list == SetToSeq(overdue)
                         IN  [i \in DOMAIN list |->
                                [cloid |-> list[i], act |-> Do("ScheduleStatusCheck")]]
    /\ UNCHANGED <<up, replayed, gateway, checks, venue, failures, crashes, history>>

(* One action handed over. *)
Schedule ==
    /\ up = "Running" /\ todo # <<>> /\ todo[1].act.kind = "ScheduleStatusCheck"
    /\ checks' = [checks EXCEPT ![todo[1].cloid] = Do("Asked")]
    /\ todo' = Tail(todo)
    /\ UNCHANGED <<up, replayed, gateway, sms, venue, failures, crashes, history>>

(* on_ack, on_fill, on_cancel, on_reject, on_expire: memory first, then    *)
(* the journal, and on an error nothing of the rest.                       *)
ApplyTo(c, act) ==
    /\ IsOpen(orders[c]) /\ ~IsRepeat(orders[c], act)
    /\ orders' = [orders EXCEPT ![c] = Applied(@, act)]
    /\ \/ /\ Persist(EntryOf(c, orders[c], act))
          /\ todo' = Tail(todo)
          /\ UNCHANGED dropped
       \/ /\ PersistFails(EntryOf(c, orders[c], act))
          /\ todo' = <<>>
          /\ dropped' = dropped \cup {todo[i].cloid : i \in 2 .. Len(todo)}

Apply ==
    /\ up = "Running" /\ todo # <<>> /\ todo[1].act.kind # "ScheduleStatusCheck"
    /\ ApplyTo(todo[1].cloid, todo[1].act)
    /\ UNCHANGED <<up, replayed, next, engine, venue, crashes, restored>>

(* What is not in the file is lost. *)
Crash ==
    /\ up \in {"Running", "Replaying"} /\ crashes < MaxCrashes
    /\ crashes' = crashes + 1
    /\ up' = "Down" /\ replayed' = 0
    /\ journal' = SubSeq(journal, 1, written)
    /\ sms' = [c \in Cloid |-> Untracked] /\ todo' = <<>>
    /\ checks' = [c \in Cloid |-> Do("None")]
    /\ orders' = [c \in Cloid |-> Absent] /\ next' = 0
    /\ dropped' = {} /\ restored' = {}
    /\ UNCHANGED <<written, torn, venue, failures>>

Starting == <<file, engine, todo, venue, failures, crashes, dropped>>

(* OrderGateway::open: a torn record at the end makes decode_all fail. *)
Open ==
    /\ up = "Down"
    /\ up' = IF torn THEN "Refused" ELSE "Replaying"
    /\ UNCHANGED <<replayed, next, orders, restored, Starting>>

(* replay_journal, one entry. *)
Replay ==
    /\ up = "Replaying" /\ replayed < Len(journal)
    /\ replayed' = replayed + 1
    /\ orders' = ReplayEntry(orders, journal[replayed'])
    /\ restored' = restored \cup {journal[replayed'].cloid}
    /\ UNCHANGED <<up, next, Starting>>

(* Its end: the generator resumes above the highest counter it saw. *)
Restarted ==
    /\ up = "Replaying" /\ replayed = Len(journal)
    /\ up' = "Running"
    /\ ResumesAt(journal, next')
    /\ UNCHANGED <<replayed, orders, restored, Starting>>
-----------------------------------------------------------------------------
VenueNext(c) ==
    \/ VenueAccept(c) \/ VenueCancel(c) \/ VenueExpire(c) \/ VenueReject(c)
    \/ \E t \in Trade : VenueTrade(c, t)
    \/ Answer(c) \/ AnswerFail(c)

TaskNext ==
    \/ Enqueue \/ EnqueueFails \/ Tick \/ Schedule \/ Apply
    \/ \E c \in Cloid : Send(c) \/ Receive(c) \/ Resolve(c)

Next ==
    \/ TaskNext
    \/ \E c \in Cloid : VenueNext(c)
    \/ Crash \/ Open \/ Replay \/ Restarted

Spec == Init /\ [][Next]_vars
-----------------------------------------------------------------------------
(* Types: the engine keeps only orders in play, a terminal one is forgotten *)
(* (machine.rs:577), and nothing passes the end of the journal.            *)
TypeOK ==
    /\ up \in {"Running", "Down", "Replaying", "Refused"}
    /\ next \in 0 .. MaxCounter + 1
    /\ orders \in [Cloid -> PendingOrder]
    /\ sms \in [Cloid -> Sm]
    /\ todo \in Seq([cloid : Cloid, act : SmAction])
    /\ checks \in [Cloid -> Check]
    /\ journal \in Seq(JournalEntry) /\ written \in 0 .. Len(journal) /\ torn \in BOOLEAN
    /\ replayed \in 0 .. Len(journal)
    /\ venue \in [Cloid -> VenueOrder]
    /\ failures \in 0 .. MaxFailures /\ crashes \in 0 .. MaxCrashes
    /\ dropped \subseteq Cloid /\ restored \subseteq Cloid

(* The gateway never refuses what the engine asks for: it knows the order, *)
(* the order is open, and the change is new (gateway.rs:90-236, the early  *)
(* returns; Apply has no step for them).                                   *)
ActionsAreLegal ==
    \A i \in DOMAIN todo :
        LET act == todo[i].act
            order == orders[todo[i].cloid]
        IN  act.kind # "ScheduleStatusCheck" =>
                IsOpen(order) /\ ~IsRepeat(order, act)

(* Engine and gateway, which keep two records of an order, agree on what   *)
(* it is and what it has filled whenever no action is under way and none   *)
(* was lost to an error (SmStatus "mirrors OrderStatus", machine.rs:60).   *)
Mirrored(c) ==
    /\ orders[c].fills = sms[c].counted
    /\ orders[c].status = IF sms[c].status = "UnknownStatus" THEN "Pending"
                          ELSE sms[c].status
Agree == todo = <<>> => \A c \in Cloid \ dropped :
                            sms[c].status # "Untracked" => Mirrored(c)

(* The engine forgets an order only when the gateway knows its end: an     *)
(* order that this process accepted and does not track is closed.          *)
Settled ==
    todo = <<>> => \A c \in Cloid \ (dropped \cup restored) :
        orders[c].status # "Absent" /\ sms[c].status = "Untracked"
            => orders[c].status \in Terminal

(* No trade is counted that the exchange did not make, none twice, and so  *)
(* no order is overfilled: in memory, after any replay.                    *)
FillsAreTrades ==
    \A c \in Cloid : /\ ToSet(orders[c].fills) \subseteq venue[c].trades
                     /\ IsInjective(orders[c].fills)

(* The journal, with what its writer still holds, rebuilds the orders in   *)
(* memory, failed writes included (gateway.rs:300 replay_journal).         *)
Recoverable ==
    up = "Running" => \A c \in Cloid :
        orders[c].status # "Absent" => Replayed(journal)[c] = orders[c]

(* An id the exchange or the journal may have seen is never given again    *)
(* (cloid.rs:86), though ids of failed requests may be.                    *)
FreshIds ==
    up = "Running" => \A c \in Cloid :
        venue[c].state # "Unsent" \/ c \in Requested(journal) => c < next

History == INSTANCE OrderHistory
             WITH Order <- Cloid, log <- journal, synced <- written

(* The journal is a legal history of every order. *)
KeepsHistory == History!Spec

(* Buffered fills are applied: the engine does not forget an order while   *)
(* it holds fills that it hands to nobody (machine.rs:8, 16).              *)
NoFillForgotten ==
    [][\A c \in Cloid :
          up' = "Running" /\ sms[c].status # "Untracked" /\ sms'[c].status = "Untracked"
            => \A t \in ToSet(sms[c].buffered) :
                  \E i \in DOMAIN todo' : todo'[i].act = [kind |-> "ApplyFill", trade |-> t]
      ]_vars

(* The gateway opens with its journal after a crash (gateway.rs:32,        *)
(* journal.rs:533).                                                        *)
Reopens == up # "Refused"

(* A submitted order does not stay in doubt: the acknowledgement or, after *)
(* the timeout, a status check ends it.                                    *)
InDoubt(c) == sms[c].status \in {"Pending", "UnknownStatus"}
DoubtEnds == \A c \in Cloid : InDoubt(c) ~> ~InDoubt(c)

(* The caller hands every action on, calls tick periodically, and reads    *)
(* answers; of a status check repeated for ever some answer is no error.   *)
Fairness ==
    /\ WF_vars(Apply) /\ WF_vars(Schedule) /\ WF_vars(Tick)
    /\ \A c \in Cloid : WF_vars(Resolve(c)) /\ SF_vars(Answer(c))
FairSpec == Spec /\ Fairness
=============================================================================
