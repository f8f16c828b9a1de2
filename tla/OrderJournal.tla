---------------------------- MODULE OrderJournal ----------------------------
(***************************************************************************)
(* The order records of OrderGateway and the journal entries that rebuild  *)
(* them (crates/order-gateway/src/gateway.rs, journal.rs).  An entry is a  *)
(* record of the log, its byte encoding left out.                          *)
(***************************************************************************)
EXTENDS OrderMachine

CONSTANT MaxCounter   \* bound: the highest counter of a client order id

ASSUME CounterAssumption == MaxCounter \in Nat

Cloid == 0 .. MaxCounter

PendingOrder == [status : {"Absent", "Pending", "New", "PartiallyFilled"} \cup Terminal,
                 fills : Seq(Trade)]
Absent     == [status |-> "Absent", fills |-> <<>>]
NewPending == [status |-> "Pending", fills |-> <<>>]

JournalEntry == [kind : {"Filled"}, cloid : Cloid, trade : Trade, final : BOOLEAN]
                  \cup [kind : {"Requested", "Acknowledged", "Cancelled", "Rejected", "Expired"},
                        cloid : Cloid]

(* Each method of the gateway, by the action that calls it: the status it  *)
(* sets and the entry it writes.                                           *)
Settles == [ApplyAck |-> "New", ApplyCancel |-> "Cancelled",
            ApplyReject |-> "Rejected", ApplyExpire |-> "Expired"]
Records == [ApplyAck |-> "Acknowledged", ApplyCancel |-> "Cancelled",
            ApplyReject |-> "Rejected", ApplyExpire |-> "Expired"]

(* Nothing is done and no error returned: the change was made before. *)
IsRepeat(order, act) ==
    /\ act.kind \in {"ApplyAck", "ApplyCancel"}
    /\ order.status = Settles[act.kind]

(* Any other change is refused with an error unless the order is open. *)
IsOpen(order) == order.status \notin Terminal \cup {"Absent"}

OnFill(order, t) ==
    LET fills == Append(order.fills, t)
    IN  [status |-> IF Lots(fills) >= OrderQty THEN "Filled" ELSE "PartiallyFilled",
         fills  |-> fills]

Applied(order, act) ==
    IF act.kind = "ApplyFill" THEN OnFill(order, act.trade)
    ELSE [order EXCEPT !.status = Settles[act.kind]]

EntryOf(c, order, act) ==
    IF act.kind = "ApplyFill"
    THEN [kind |-> "Filled", cloid |-> c, trade |-> act.trade,
          final |-> OnFill(order, act.trade).status = "Filled"]
    ELSE [kind |-> Records[act.kind], cloid |-> c]

(* Mutant: a replayed order is never complete. *)
ReplayFill_NeverFinal(order, e) ==
    [status |-> "PartiallyFilled", fills |-> Append(order.fills, e.trade)]

(* OrderGateway::replay_journal, one entry. *)
ReplayFill(order, e) ==
    [status |-> IF e.final THEN "Filled" ELSE "PartiallyFilled",
     fills  |-> Append(order.fills, e.trade)]

ReplayOpen(order, e) ==
    IF e.kind = "Filled" THEN ReplayFill(order, e)
    ELSE [order EXCEPT !.status = IF e.kind = "Acknowledged" THEN "New" ELSE e.kind]

ReplayEntry(orders, e) ==
    CASE e.kind = "Requested"     -> [orders EXCEPT ![e.cloid] = NewPending]
      [] e.kind # "Requested" /\ IsOpen(orders[e.cloid])
                                  -> [orders EXCEPT ![e.cloid] = ReplayOpen(@, e)]
      [] OTHER -> orders

Replayed(entries) == FoldLeft(ReplayEntry, [c \in Cloid |-> Absent], entries)

Requested(entries) == {entries[i].cloid : i \in {j \in DOMAIN entries :
                                                   entries[j].kind = "Requested"}}
(* Mutant: the generator resumes at the highest counter. *)
ResumesAt_Highest(entries, n) ==
    /\ n \in 0 .. MaxCounter + 1
    /\ \A c \in Requested(entries) : c <= n
    /\ n = 0 \/ n \in Requested(entries)
(* The generator resumes above the highest counter requested in the log. *)
ResumesAt(entries, n) ==
    /\ n \in 0 .. MaxCounter + 1
    /\ \A c \in Requested(entries) : c < n
    /\ n = 0 \/ n - 1 \in Requested(entries)
=============================================================================
