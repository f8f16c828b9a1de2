-------------------------------- MODULE Arbiter --------------------------------
(***************************************************************************)
(* The checksum arbiter (crates/redundancy) and the two instances that     *)
(* feed it, for one symbol.                                                *)
(*                                                                         *)
(* After a book update an instance offers the checksum of its book on the  *)
(* status stream (ChecksumPublisher::publish).  The streams of the two     *)
(* instances are read in any interleaving; an offer may fail, and an       *)
(* instance that recovers from a lagging REST snapshot, or restarts, goes  *)
(* back to an earlier update id.  A checksum is one of two values: what    *)
(* the book should be, or something else.                                  *)
(***************************************************************************)
EXTENDS Integers, Sequences, FiniteSets, SequencesExt

CONSTANTS
  Window,      \* the window of the arbiter
  MaxId,       \* bound: update ids
  WireCap,     \* bound: messages a stream holds
  MaxRewinds   \* bound: times an instance goes back

ASSUME ArbiterAssumption ==
  /\ Window \in Nat \ {0} /\ WireCap \in Nat \ {0}
  /\ MaxId \in Nat /\ MaxRewinds \in Nat

Roles == {"active", "passive"}
Other(role) == IF role = "active" THEN "passive" ELSE "active"
Ids == 1..MaxId
Sums == {0, 1}
None == -1
Sum == Sums \cup {None}

VARIABLES
  at,        \* per instance: last_update_id of its book
  wire,      \* per instance: checksum messages under way
  entries,   \* the queue of the symbol: [id, active, passive]
  verdict,   \* the last verdict, with its id and the checksums compared
  rewinds,   \* times an instance has gone back
  told,      \* history: per instance and id, the last checksum not dropped as stale
  age        \* history: per id, the entries pushed since its own (or None)

vars == <<at, wire, entries, verdict, rewinds, told, age>>

Entry == [id : Ids, active : Sum, passive : Sum]
Verdicts == [kind : {"None", "Matched", "Diverged", "Pending", "Stale"},
             id : 0..MaxId, active : Sum, passive : Sum]
NoVerdict == [kind |-> "None", id |-> 0, active |-> None, passive |-> None]

TypeOK ==
  /\ at \in [Roles -> 0..MaxId]
  /\ wire \in [Roles -> Seq([id : Ids, sum : Sums])]
  /\ \A r \in Roles : Len(wire[r]) <= WireCap
  /\ entries \in Seq(Entry) /\ Len(entries) <= Window
  /\ verdict \in Verdicts
  /\ rewinds \in 0..MaxRewinds
  /\ told \in [Roles -> [Ids -> Sum]]
  /\ age \in [Ids -> Nat \cup {None}]

Init ==
  /\ at = [r \in Roles |-> 0]
  /\ wire = [r \in Roles |-> <<>>]
  /\ entries = <<>>
  /\ verdict = NoVerdict
  /\ rewinds = 0
  /\ told = [r \in Roles |-> [u \in Ids |-> None]]
  /\ age = [u \in Ids |-> None]

------------------------------------------------------------------------------
\* The instances.  Updates that touch nothing of the symbol are skipped ids.

arbiter == <<entries, verdict, told, age>>

Publish(r, u, sum) ==
  /\ u > at[r] /\ Len(wire[r]) < WireCap
  /\ at' = [at EXCEPT ![r] = u]
  /\ wire' = [wire EXCEPT ![r] = Append(@, [id |-> u, sum |-> sum])]
  /\ UNCHANGED <<rewinds, arbiter>>

\* The publisher counts a failed offer and leaves it to its caller.
PublishFails(r, u) ==
  /\ u > at[r]
  /\ at' = [at EXCEPT ![r] = u]
  /\ UNCHANGED <<wire, rewinds, arbiter>>

Rewind(r, u) ==
  /\ rewinds < MaxRewinds /\ u < at[r]
  /\ rewinds' = rewinds + 1
  /\ at' = [at EXCEPT ![r] = u]
  /\ UNCHANGED <<wire, arbiter>>

------------------------------------------------------------------------------
\* ChecksumArbiter::ingest

\* Older than the newest entry.
IsStale_Newest(q, u) == q # <<>> /\ u < q[Len(q)].id

IsStale(q, u) == q # <<>> /\ u < q[1].id
Tracked(q, u) == \E k \in 1..Len(q) : q[k].id = u
PosOf(q, u)   == CHOOSE k \in 1..Len(q) : q[k].id = u

With(entry, role, sum) ==
  IF role = "active" THEN [entry EXCEPT !.active = sum]
  ELSE [entry EXCEPT !.passive = sum]

Trimmed(q) == IF Len(q) > Window THEN Tail(q) ELSE q

\* Both reports of an id in the slot of the active instance.
Recorded_OneSlot(q, role, u, sum) ==
  IF Tracked(q, u)
  THEN LET k == PosOf(q, u) IN [q EXCEPT ![k] = With(q[k], Other(role), sum)]
  ELSE Trimmed(Append(q, With([id |-> u, active |-> None, passive |-> None], role, sum)))

Recorded(q, role, u, sum) ==
  IF Tracked(q, u)
  THEN LET k == PosOf(q, u) IN [q EXCEPT ![k] = With(q[k], role, sum)]
  ELSE Trimmed(Append(q, With([id |-> u, active |-> None, passive |-> None], role, sum)))

Judged(e) ==
  [kind |-> IF None \in {e.active, e.passive} THEN "Pending"
            ELSE IF e.active = e.passive THEN "Matched" ELSE "Diverged",
   id |-> e.id, active |-> e.active, passive |-> e.passive]

\* process: the trigger of a divergence only logs.
Ingest(r) ==
  LET m   == Head(wire[r])
      new == Recorded(entries, r, m.id, m.sum) IN
  /\ wire[r] # <<>>
  /\ wire' = [wire EXCEPT ![r] = Tail(@)]
  /\ IF IsStale(entries, m.id)
     THEN /\ verdict' = [kind |-> "Stale", id |-> m.id, active |-> None, passive |-> None]
          /\ UNCHANGED <<entries, told, age>>
     ELSE /\ entries' = new
          /\ told' = [told EXCEPT ![r][m.id] = m.sum]
          /\ verdict' = Judged(new[PosOf(new, m.id)])
          /\ age' = [u \in Ids |->
               IF Tracked(entries, m.id) THEN age[u]
               ELSE IF u = m.id THEN 0 ELSE IF age[u] = None THEN None ELSE age[u] + 1]
  /\ UNCHANGED <<at, rewinds>>

\* reset_symbol, after a failover: the reports read so far are forgotten.
ResetSymbol ==
  /\ entries # <<>>
  /\ entries' = <<>> /\ verdict' = NoVerdict
  /\ told' = [r \in Roles |-> [u \in Ids |-> None]]
  /\ age' = [u \in Ids |-> None]
  /\ UNCHANGED <<at, wire, rewinds>>

Next ==
  \/ \E r \in Roles, u \in Ids, sum \in Sums : Publish(r, u, sum)
  \/ \E r \in Roles, u \in Ids : PublishFails(r, u) \/ Rewind(r, u)
  \/ \E r \in Roles : Ingest(r)
  \/ ResetSymbol

Spec == Init /\ [][Next]_vars

------------------------------------------------------------------------------
\* A divergence is never invented: the two checksums of a verdict are the last
\* ones that ingest has taken from the two instances for that very update id
\* (the slots it fills by role, in an entry found by id).  A report it calls
\* stale is not taken, even if its id still has an entry behind a higher one.
VerdictIsTrue ==
  verdict.kind \in {"Matched", "Diverged"} =>
    /\ verdict.active  = told["active"][verdict.id]
    /\ verdict.passive = told["passive"][verdict.id]

\* A divergence is never missed while the window reaches: if an instance reports
\* an id that the other one has reported too, and fewer than Window ids were
\* pushed since the first of the two reports, then the verdict compares them.
\* Holes, lost offers and any interleaving of the two streams are allowed, an
\* instance that goes back is not: the entry in front may then have a higher id.
WindowIsEnough ==
  [][\A r \in Roles :
       LET u == Head(wire[r]).id IN
       (/\ Ingest(r) /\ rewinds = 0
        /\ told[Other(r)][u] # None /\ age[u] # None /\ age[u] < Window)
       => verdict'.kind \in {"Matched", "Diverged"}]_vars

\* ArbiterVerdict::Stale: "The update_id has already been evicted from the
\* sliding window", so an id is stale if and only if it has been evicted.
StaleIsEvicted ==
  [][\A r \in Roles : Ingest(r) =>
       LET u == Head(wire[r]).id IN
       (verdict'.kind = "Stale") = (age[u] # None /\ age[u] >= Window)]_vars
==============================================================================
