--------------------------- MODULE FuturesSequence ---------------------------
(***************************************************************************)
(* The Binance USDT-M Futures pu/u sequence validator                      *)
(* (crates/binance-futures-adapter/src/sequence.rs).  It differs from the  *)
(* Spot one once it is Active: a delta names the final id of the event     *)
(* before it (prev, the pu field), and that id must be the validator's.    *)
(*                                                                         *)
(* A validator is a record [st, id]; validate() is split into one          *)
(* predicate per verdict and the state each leaves.                        *)
(***************************************************************************)
EXTENDS Integers

Validator == [st : {"Awaiting", "Bridging", "Active", "Stale"}, id : Nat]

NewValidator == [st |-> "Awaiting", id |-> 0]

\* on_snapshot
OnSnapshot(id) == [st |-> "Bridging", id |-> id]

Before(v, d) == v.st = "Bridging" /\ d.final <= v.id
Bridges(v, d) == v.st = "Bridging" /\ d.final > v.id /\ d.first <= v.id + 1

\* The Spot rule kept for Futures: the ids of the two streams look alike.
Applies_SpotRule(v, d) == Bridges(v, d) \/ (v.st = "Active" /\ d.first >= v.id + 1)

\* A validator that takes any event after the snapshot for the bridge.
Applies_AnyBridge(v, d) ==
  \/ v.st = "Bridging" /\ d.final > v.id
  \/ v.st = "Active" /\ d.prev = v.id

Applies(v, d) == Bridges(v, d) \/ (v.st = "Active" /\ d.prev = v.id)

\* A validator that takes every event out of place for an old one.
Discards_OutOfPlace(v, d) == Before(v, d) \/ (v.st = "Active" /\ d.prev # v.id)

Discards(v, d) == Before(v, d) \/ (v.st = "Active" /\ d.prev < v.id)

Gaps(v, d) ==
  \/ v.st = "Bridging" /\ d.final > v.id /\ d.first > v.id + 1
  \/ v.st = "Active" /\ d.prev > v.id

Buffers(v) == v.st \in {"Awaiting", "Stale"}

\* The state after Apply and after Gap; the other verdicts leave it alone.
Advanced(d) == [st |-> "Active", id |-> d.final]
Broken(v)   == [v EXCEPT !.st = "Stale"]
==============================================================================
