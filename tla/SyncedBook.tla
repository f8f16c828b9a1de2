------------------------------ MODULE SyncedBook ------------------------------
(***************************************************************************)
(* What a mirrored book promises a reader who looks at it only while it is *)
(* marked good: its position follows the venue's update ids forward, never *)
(* ahead of the venue, and whenever it has to jump back it is first marked *)
(* bad.  While it is bad, its position means nothing.                      *)
(***************************************************************************)
EXTENDS Integers

CONSTANT MaxId

VARIABLES
  venue,   \* last update id of the venue
  pos,     \* update id the book stands at
  synced   \* whether the book is marked good

Init == venue = 0 /\ pos = 0 /\ synced = FALSE

Publish ==
  /\ venue < MaxId
  /\ venue' = venue + 1
  /\ UNCHANGED <<pos, synced>>

Follow ==
  /\ synced
  /\ pos' \in (pos + 1)..venue
  /\ UNCHANGED <<venue, synced>>

Lose ==
  /\ synced /\ ~synced'
  /\ UNCHANGED <<venue, pos>>

Rebuild ==
  /\ ~synced
  /\ pos' \in 0..venue
  /\ synced' \in BOOLEAN
  /\ UNCHANGED venue

Next == Publish \/ Follow \/ Lose \/ Rebuild

Spec == Init /\ [][Next]_<<venue, pos, synced>>
==============================================================================
