------------------------------ MODULE OrderBook ------------------------------
(***************************************************************************)
(* The in-memory L2 book of crates/order-book/src/lib.rs and the venue     *)
(* whose book it mirrors.                                                  *)
(*                                                                         *)
(* A book is a function from price levels to quantities, 0 meaning that    *)
(* the level is absent (apply_levels removes a level whose quantity is 0). *)
(* The venue is outside the repository: its book after update n is         *)
(* VenueBook[n], any function whatever.  A depth delta is the pair of      *)
(* update ids it covers; the levels it carries follow from VenueBook.      *)
(***************************************************************************)
EXTENDS Integers

CONSTANTS
  MaxId,      \* bound: the last update id the venue generates
  Bids,       \* bid price levels
  Asks,       \* ask price levels
  VenueBook   \* VenueBook[n][l]: quantity of level l after update n

Levels == Bids \union Asks

ASSUME VenueAssumption ==
  /\ MaxId \in Nat
  /\ VenueBook \in [0..MaxId -> [Levels -> Nat]]

Delta == [first : 1..MaxId, final : 1..MaxId]

\* The levels a delta carries: those whose quantity at its last update differs
\* from their quantity at some point since the update before its first.
Changed(d) ==
  {l \in Levels : \E k \in (d.first - 1)..d.final :
                     VenueBook[k][l] # VenueBook[d.final][l]}

EmptyBook == [l \in Levels |-> 0]

\* OrderBook::apply_snapshot replaces every level.
SnapshotBook(id) == VenueBook[id]

\* OrderBook::apply_delta overwrites the levels the delta carries with their
\* quantities as of its last update, and checks nothing.
ApplyDelta(book, d) ==
  [l \in Levels |-> IF l \in Changed(d) THEN VenueBook[d.final][l] ELSE book[l]]

\* bid_depth() > 0 && ask_depth() > 0
HasBothSides(book) ==
  /\ \E l \in Bids : book[l] > 0
  /\ \E l \in Asks : book[l] > 0

\* The prices present on one side: all that count_price_mismatches compares.
Prices(book, side) == {l \in side : book[l] > 0}
==============================================================================
