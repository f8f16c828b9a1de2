---------------------------- MODULE OrderHistory ----------------------------
(***************************************************************************)
(* What the order journal promises, whatever is reported, repeated, lost,  *)
(* written in part or interrupted: it is a legal history of every order.   *)
(* An order is requested once, acknowledged at most once and before its    *)
(* fills, a trade counts once, and after the entry that closes an order    *)
(* there is no other.  A crash forgets what was not written yet, nothing   *)
(* else.                                                                   *)
(***************************************************************************)
EXTENDS Integers, Sequences

CONSTANTS Order, Trade

VARIABLES log,     \* entries recorded, written or not
          synced   \* how many of them are written

Entry == [kind : {"Filled"}, cloid : Order, trade : Trade, final : BOOLEAN]
           \cup [kind : {"Requested", "Acknowledged", "Cancelled", "Rejected", "Expired"},
                 cloid : Order]

Closes(e) == \/ e.kind \in {"Cancelled", "Rejected", "Expired"}
             \/ e.kind = "Filled" /\ e.final

Before(c) == {log[i] : i \in {j \in DOMAIN log : log[j].cloid = c}}

Legal(e) ==
    CASE e.kind = "Requested" -> Before(e.cloid) = {}
      [] e.kind = "Acknowledged" -> /\ Before(e.cloid) # {}
                                    /\ \A b \in Before(e.cloid) : b.kind = "Requested"
      [] e.kind = "Filled" -> /\ \E b \in Before(e.cloid) : b.kind = "Acknowledged"
                              /\ \A b \in Before(e.cloid) :
                                    /\ ~Closes(b)
                                    /\ b.kind = "Filled" => b.trade # e.trade
      [] OTHER -> /\ Before(e.cloid) # {}
                  /\ \A b \in Before(e.cloid) : ~Closes(b)

Init == log = <<>> /\ synced = 0

Record(e) == /\ Legal(e)
             /\ log' = Append(log, e)
             /\ synced' \in synced .. Len(log')

Crash == /\ log' = SubSeq(log, 1, synced)
         /\ synced' = synced

Next == (\E e \in Entry : Record(e)) \/ Crash

Spec == Init /\ [][Next]_<<log, synced>>
=============================================================================
