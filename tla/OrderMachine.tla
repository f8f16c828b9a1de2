---------------------------- MODULE OrderMachine ----------------------------
(***************************************************************************)
(* One order as OrderSm keeps it (crates/order-gateway/src/machine.rs): the *)
(* state machine between the exchange's reports, which arrive in any order *)
(* and more than once, and the gateway, which must be told of each change  *)
(* once and in a legal order.                                              *)
(*                                                                         *)
(* A quantity is represented by the list of the trades it sums up, so that *)
(* a trade counted twice shows; Lots is the number the code keeps.  Prices,*)
(* exchange ids, reasons and timestamps are left out.                      *)
(***************************************************************************)
EXTENDS Integers, SequencesExt

CONSTANTS Trade,     \* trade ids of the exchange
          Size,      \* quantity of each trade
          OrderQty   \* quantity every order asks for

ASSUME QuantityAssumption == /\ IsFiniteSet(Trade)
                             /\ Size \in [Trade -> Nat \ {0}]
                             /\ OrderQty \in Nat \ {0}

Lots(trades) == FoldSeq(LAMBDA t, sum : Size[t] + sum, 0, trades)

Terminal == {"Filled", "Cancelled", "Rejected", "Expired"}
InPlay   == {"Pending", "New", "PartiallyFilled", "UnknownStatus"}

Sm == [status : InPlay \cup {"Untracked"},
       counted : Seq(Trade), buffered : Seq(Trade), seen : SUBSET Trade]

NewSm     == [status |-> "Pending", counted |-> <<>>, buffered |-> <<>>, seen |-> {}]
Untracked == [NewSm EXCEPT !.status = "Untracked"]

(* What the machine asks of its caller. *)
SmAction == [kind : {"ApplyFill"}, trade : Trade]
              \cup [kind : {"ApplyAck", "ApplyCancel", "ApplyReject", "ApplyExpire",
                            "ScheduleStatusCheck"}]
Do(kind)          == [kind |-> kind]
ApplyFills(trades) ==
    [i \in DOMAIN trades |-> [kind |-> "ApplyFill", trade |-> trades[i]]]

(* The result of an input: the machine it leaves and the actions, in order. *)
Result(sm, actions) == [sm |-> sm, actions |-> actions]
Ignored(sm)         == Result(sm, <<>>)
Closed(sm, status, kind) == Result([sm EXCEPT !.status = status], <<Do(kind)>>)

Progress(trades) == CASE Lots(trades) >= OrderQty -> "Filled"
                      [] Lots(trades) \in 1 .. OrderQty - 1 -> "PartiallyFilled"
                      [] OTHER -> "New"

(* Mutant: the buffered fills are handed on but not counted. *)
Acknowledge_Uncounted(sm) ==
    Result([sm EXCEPT !.status = Progress(sm.counted \o sm.buffered), !.buffered = <<>>],
           <<Do("ApplyAck")>> \o ApplyFills(sm.buffered))

(* An acknowledgement, late or not, releases the buffered fills. *)
Acknowledge(sm) ==
    LET counted == sm.counted \o sm.buffered
    IN  Result([sm EXCEPT !.status = Progress(counted), !.counted = counted,
                          !.buffered = <<>>],
               <<Do("ApplyAck")>> \o ApplyFills(sm.buffered))

(* Mutant: the trade id is not remembered while the fill is buffered. *)
BufferFill_Unseen(sm, t) ==
    IF t \in sm.seen THEN Ignored(sm)
    ELSE Result([sm EXCEPT !.buffered = Append(@, t)], <<>>)

BufferFill(sm, t) ==
    IF t \in sm.seen THEN Ignored(sm)
    ELSE Result([sm EXCEPT !.seen = @ \cup {t}, !.buffered = Append(@, t)], <<>>)

(* Mutant: the trade id of a live order's fill is not remembered. *)
CountFill_Unseen(sm, t) ==
    LET counted == Append(sm.counted, t)
    IN  Result([sm EXCEPT !.counted = counted, !.status = Progress(counted)],
               ApplyFills(<<t>>))

CountFill(sm, t) ==
    IF t \in sm.seen THEN Ignored(sm)
    ELSE LET counted == Append(sm.counted, t)
         IN  Result([sm EXCEPT !.seen = @ \cup {t}, !.counted = counted,
                               !.status = Progress(counted)],
                    ApplyFills(<<t>>))

(* Mutant: the buffered fills are not flushed. *)
FilledByCheck_NoFlush(sm, listed) ==
    LET fresh == SetToSeq(listed \ sm.seen)
    IN  Result([sm EXCEPT !.status = "Filled"], <<Do("ApplyAck")>> \o ApplyFills(fresh))

(* The exchange found the order filled: first the trades it lists that the *)
(* machine has not seen, then the buffered ones.                           *)
FilledByCheck(sm, listed) ==
    LET fresh == SetToSeq(listed \ sm.seen) \o sm.buffered
    IN  Result([sm EXCEPT !.status = "Filled", !.counted = @ \o fresh,
                          !.buffered = <<>>, !.seen = @ \cup listed],
               <<Do("ApplyAck")>> \o ApplyFills(fresh))

(* Mutant: a failed check is not repeated. *)
ResolveFromCheck_NoRetry(sm, outcome) ==
    CASE outcome.kind = "Live"   -> Acknowledge(sm)
      [] outcome.kind = "Filled" -> FilledByCheck(sm, outcome.trades)
      [] outcome.kind \in {"Cancelled", "Expired"} -> Closed(sm, outcome.kind, "ApplyCancel")
      [] outcome.kind = "Error"  -> Ignored(sm)
      [] OTHER -> Closed(sm, "Rejected", "ApplyReject")

ResolveFromCheck(sm, outcome) ==
    CASE outcome.kind = "Live"      -> Acknowledge(sm)
      [] outcome.kind = "Filled"    -> FilledByCheck(sm, outcome.trades)
      [] outcome.kind = "Cancelled" -> Closed(sm, "Cancelled", "ApplyCancel")
      [] outcome.kind = "Rejected"  -> Closed(sm, "Rejected", "ApplyReject")
      [] outcome.kind = "Expired"   -> Closed(sm, "Expired", "ApplyExpire")
      [] outcome.kind = "NotFound"  -> Closed(sm, "Rejected", "ApplyReject")
      [] OTHER -> Result(sm, <<Do("ScheduleStatusCheck")>>)

ProcessPending(sm, in) ==
    CASE in.kind = "Acknowledged"    -> Acknowledge(sm)
      [] in.kind = "FillReceived"    -> BufferFill(sm, in.trade)
      [] in.kind = "Rejected"        -> Closed(sm, "Rejected", "ApplyReject")
      [] in.kind = "CancelConfirmed" -> Closed(sm, "Cancelled", "ApplyCancel")
      [] OTHER -> Ignored(sm)

(* Mutant: a repeated acknowledgement is processed again. *)
ProcessLive_AcksAgain(sm, in) ==
    CASE in.kind = "FillReceived"    -> CountFill(sm, in.trade)
      [] in.kind = "Acknowledged"    -> Acknowledge(sm)
      [] in.kind = "CancelConfirmed" -> Closed(sm, "Cancelled", "ApplyCancel")
      [] OTHER -> Ignored(sm)

ProcessLive(sm, in) ==
    CASE in.kind = "FillReceived"    -> CountFill(sm, in.trade)
      [] in.kind = "CancelConfirmed" -> Closed(sm, "Cancelled", "ApplyCancel")
      [] in.kind = "Expired"         -> Closed(sm, "Expired", "ApplyExpire")
      [] in.kind = "Rejected"        -> Closed(sm, "Rejected", "ApplyReject")
      [] OTHER -> Ignored(sm)

ProcessUnknown(sm, in) ==
    CASE in.kind = "Acknowledged"      -> Acknowledge(sm)
      [] in.kind = "FillReceived"      -> BufferFill(sm, in.trade)
      [] in.kind = "CancelConfirmed"   -> Closed(sm, "Cancelled", "ApplyCancel")
      [] in.kind = "StatusCheckResult" -> ResolveFromCheck(sm, in.outcome)
      [] OTHER -> Ignored(sm)

(* OrderSm::process_input, and StateMachineEngine::process around it, which *)
(* forgets an order as soon as it is terminal.                             *)
Process(sm, in) ==
    CASE sm.status = "Pending"                     -> ProcessPending(sm, in)
      [] sm.status \in {"New", "PartiallyFilled"}  -> ProcessLive(sm, in)
      [] sm.status = "UnknownStatus"               -> ProcessUnknown(sm, in)
      [] OTHER -> Ignored(sm)

(* Mutant: only filled orders are forgotten. *)
Kept_UnlessFilled(sm) == IF sm.status = "Filled" THEN Untracked ELSE sm

Kept(sm) == IF sm.status \in Terminal THEN Untracked ELSE sm
=============================================================================
