----------------------------- MODULE SpotSequence -----------------------------
(***************************************************************************)
(* The Binance Spot U/u sequence validator                                 *)
(* (crates/binance-spot-adapter/src/sequence.rs).                          *)
(*                                                                         *)
(* A validator is a record [st, id]: the variant of ValidationState and    *)
(* the update id that variant carries (0 in AwaitingSnapshot).  validate() *)
(* is split into one predicate per verdict and the state each leaves.      *)
(***************************************************************************)
EXTENDS Integers

Validator == [st : {"Awaiting", "Bridging", "Active", "Stale"}, id : Nat]

NewValidator == [st |-> "Awaiting", id |-> 0]

\* on_snapshot
OnSnapshot(id) == [st |-> "Bridging", id |-> id]

\* A validator that dropped the check for a hole before the delta.
Applies_IgnoresGap(v, d) ==
  \/ v.st = "Bridging" /\ d.final > v.id
  \/ v.st = "Active"   /\ d.first >= v.id + 1

\* A validator that bridges with deltas the snapshot already contains.
Applies_OldEvents(v, d) ==
  \/ v.st = "Bridging" /\ d.first <= v.id + 1
  \/ v.st = "Active"   /\ d.first = v.id + 1

Applies(v, d) ==
  \/ v.st = "Bridging" /\ d.final > v.id /\ d.first <= v.id + 1
  \/ v.st = "Active"   /\ d.first = v.id + 1

\* A validator that treats everything out of place as a duplicate.
Discards_OutOfPlace(v, d) ==
  \/ v.st = "Bridging" /\ d.final <= v.id
  \/ v.st = "Active"   /\ d.first # v.id + 1

Discards(v, d) ==
  \/ v.st = "Bridging" /\ d.final <= v.id
  \/ v.st = "Active"   /\ d.first < v.id + 1

Gaps(v, d) ==
  \/ v.st = "Bridging" /\ d.final > v.id /\ d.first > v.id + 1
  \/ v.st = "Active"   /\ d.first > v.id + 1

Buffers(v) == v.st \in {"Awaiting", "Stale"}

\* The state after Apply and after Gap; the other verdicts leave it alone.
Advanced(d) == [st |-> "Active", id |-> d.final]
Broken(v)   == [v EXCEPT !.st = "Stale"]
==============================================================================
