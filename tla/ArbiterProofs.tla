----------------------------- MODULE ArbiterProofs -----------------------------
(***************************************************************************)
(* Proofs about the checksum arbiter, for every window, number of ids,     *)
(* depth of the two streams and number of steps back: a verdict compares   *)
(* what the two instances have last reported (VerdictIsTrue), and as long  *)
(* as neither instance has gone back the window misses nothing within its  *)
(* reach (WindowIsEnough).                                                 *)
(*                                                                         *)
(* The queue is not sorted: an id between the first and the newest one is  *)
(* pushed behind higher ids, which may then come to the front.  The        *)
(* second theorem therefore rests on who has reported what (Ascending,     *)
(* Ordered), the first one only on the slots (SlotsTrue).                  *)
(***************************************************************************)
EXTENDS Arbiter, TLAPS

\* The checksum of one instance in an entry (Entry::active, Entry::passive).
Slot(e, r) == IF r = "active" THEN e.active ELSE e.passive

\* An update id has one entry at most.
Distinct ==
  \A j, k \in 1..Len(entries) : entries[j].id = entries[k].id => j = k

\* An entry holds a report, and only reports that were the last of their kind.
SlotsTrue ==
  \A k \in 1..Len(entries) :
    /\ \E r \in Roles : Slot(entries[k], r) # None
    /\ \A r \in Roles :
         Slot(entries[k], r) # None => Slot(entries[k], r) = told[r][entries[k].id]

\* The age of an id is the place of its entry, counted from the end.
AgesArePlaces ==
  /\ \A k \in 1..Len(entries) : age[entries[k].id] = Len(entries) - k
  /\ \A u \in Ids : (age[u] # None /\ age[u] < Window) =>
       age[u] < Len(entries) /\ entries[Len(entries) - age[u]].id = u

\* An instance that has never gone back reports ever higher ids.
Ascending ==
  rewinds = 0 => \A r \in Roles :
    /\ \A i, j \in 1..Len(wire[r]) : i < j => wire[r][i].id < wire[r][j].id
    /\ \A i \in 1..Len(wire[r]) : wire[r][i].id <= at[r]
    /\ \A u \in Ids : told[r][u] # None =>
         u <= at[r] /\ \A i \in 1..Len(wire[r]) : u < wire[r][i].id

\* What one instance has not reported was pushed by the other, in its order.
Ordered ==
  rewinds = 0 => \A r \in Roles : \A j, k \in 1..Len(entries) :
    (j < k /\ Slot(entries[j], r) = None /\ Slot(entries[k], r) = None)
    => entries[j].id < entries[k].id

Inv ==
  /\ TypeOK /\ Distinct /\ SlotsTrue /\ AgesArePlaces
  /\ Ascending /\ Ordered /\ VerdictIsTrue

------------------------------------------------------------------------------
(***************************************************************************)
(* Recording one report.                                                   *)
(***************************************************************************)

\* The entry a report makes when its id has none (VecDeque::push_back).
New(r, u, sum) == With([id |-> u, active |-> None, passive |-> None], r, sum)

\* Setting one slot leaves the other and the id alone.
LEMMA WithSlot ==
  ASSUME NEW e \in Entry, NEW r \in Roles, NEW sum \in Sums
  PROVE  /\ With(e, r, sum) \in Entry
         /\ With(e, r, sum).id = e.id
         /\ Slot(With(e, r, sum), r) = sum
         /\ Slot(With(e, r, sum), Other(r)) = Slot(e, Other(r))
BY DEF With, Entry, Sum, Roles, Other, Slot

\* A new entry holds the report and nothing else.
LEMMA NewSlot ==
  ASSUME NEW r \in Roles, NEW u \in Ids, NEW sum \in Sums
  PROVE  /\ New(r, u, sum) \in Entry /\ New(r, u, sum).id = u
         /\ Slot(New(r, u, sum), r) = sum /\ Slot(New(r, u, sum), Other(r)) = None
<1> DEFINE e == [id |-> u, active |-> None, passive |-> None]
<1>1. e \in Entry /\ e.id = u /\ Slot(e, Other(r)) = None
  BY DEF Entry, Sum, Slot, Roles, Other
<1> QED BY <1>1, WithSlot DEF New

\* The two roles.
LEMMA TwoRoles ==
  ASSUME NEW r \in Roles
  PROVE  /\ Other(r) \in Roles /\ Other(r) # r /\ Other(Other(r)) = r
         /\ \A s \in Roles : s = r \/ s = Other(r)
BY DEF Roles, Other

\* A checksum is not None.
LEMMA SumIsSome ==
  ASSUME NEW sum \in Sums
  PROVE  sum # None
BY DEF Sums, None

\* An id that has an entry keeps its place.
LEMMA RecordedTracked ==
  ASSUME NEW q \in Seq(Entry), NEW r \in Roles, NEW u \in Ids, NEW sum \in Sums,
         Tracked(q, u)
  PROVE  LET k == PosOf(q, u)
             n == Recorded(q, r, u, sum) IN
         /\ k \in 1..Len(q) /\ q[k].id = u
         /\ n \in Seq(Entry) /\ Len(n) = Len(q)
         /\ n[k] = With(q[k], r, sum)
         /\ \A j \in 1..Len(q) : j # k => n[j] = q[j]
         /\ \A j \in 1..Len(q) : n[j].id = q[j].id
<1> DEFINE k == PosOf(q, u)
           n == Recorded(q, r, u, sum)
<1>1. k \in 1..Len(q) /\ q[k].id = u
  BY DEF Tracked, PosOf
<1>2. n = [q EXCEPT ![k] = With(q[k], r, sum)]
  BY DEF Recorded
<1>3. q[k] \in Entry
  BY <1>1
<1>4. With(q[k], r, sum) \in Entry /\ With(q[k], r, sum).id = q[k].id
  BY <1>3, WithSlot
<1> HIDE DEF k, n
<1>5. n \in Seq(Entry) /\ Len(n) = Len(q)
  BY <1>1, <1>2, <1>4
<1>6. n[k] = With(q[k], r, sum) /\ \A j \in 1..Len(q) : j # k => n[j] = q[j]
  BY <1>1, <1>2
<1>7. \A j \in 1..Len(q) : n[j].id = q[j].id
  BY <1>4, <1>6
<1> QED BY <1>1, <1>5, <1>6, <1>7 DEF k, n

\* An id that has none is pushed; all else keeps its distance from the end.
LEMMA RecordedPushed ==
  ASSUME NEW q \in Seq(Entry), NEW r \in Roles, NEW u \in Ids, NEW sum \in Sums,
         ~Tracked(q, u), Len(q) <= Window
  PROVE  LET n == Recorded(q, r, u, sum)
             d == Len(q) + 1 - Len(n) IN
         /\ n \in Seq(Entry) /\ Len(n) <= Window /\ Len(n) >= 1
         /\ d \in {0, 1} /\ (d = 1 => Len(n) = Window)
         /\ n[Len(n)] = New(r, u, sum)
         /\ \A j \in 1..(Len(n) - 1) : j + d \in 1..Len(q) /\ n[j] = q[j + d]
<1> DEFINE n == Recorded(q, r, u, sum)
           a == Append(q, New(r, u, sum))
<1>1. New(r, u, sum) \in Entry
  BY NewSlot
<1>2. n = IF Len(a) > Window THEN Tail(a) ELSE a
  BY DEF Recorded, Trimmed, New
<1>3. a \in Seq(Entry) /\ Len(a) = Len(q) + 1 /\ a[Len(q) + 1] = New(r, u, sum)
      /\ \A j \in 1..Len(q) : a[j] = q[j]
  BY <1>1
<1>4. Window \in Nat \ {0} /\ Len(q) \in Nat
  BY ArbiterAssumption
<1> HIDE DEF a, n
<1>5. CASE Len(a) > Window
  <2>1. n = Tail(a) /\ Len(q) = Window
    BY <1>2, <1>3, <1>4, <1>5
  <2>2. n \in Seq(Entry) /\ Len(n) = Len(q) /\ \A j \in 1..Len(q) : n[j] = a[j + 1]
    BY <2>1, <1>3, <1>4
  <2>3. n[Len(n)] = New(r, u, sum)
    BY <2>1, <2>2, <1>3, <1>4
  <2>4. \A j \in 1..(Len(n) - 1) : j + 1 \in 1..Len(q) /\ n[j] = q[j + 1]
    BY <2>2, <1>3, <1>4
  <2> QED BY <2>1, <2>2, <2>3, <2>4, <1>4 DEF n
<1>6. CASE Len(a) <= Window
  <2>1. n = a
    BY <1>2, <1>3, <1>4, <1>6
  <2>2. \A j \in 1..(Len(n) - 1) : j + 0 \in 1..Len(q) /\ n[j] = q[j + 0]
    BY <2>1, <1>3, <1>4
  <2> QED BY <2>1, <2>2, <1>3, <1>4, <1>6 DEF n
<1> QED BY <1>3, <1>4, <1>5, <1>6

------------------------------------------------------------------------------
(***************************************************************************)
(* The invariant holds initially and every action preserves it.            *)
(***************************************************************************)

\* Two instances that have published nothing and an arbiter that knows nothing.
LEMMA InitInv == Init => Inv
<1> SUFFICES ASSUME Init PROVE Inv
  OBVIOUS
<1>1. Len(entries) = 0 /\ Window \in Nat /\ WireCap \in Nat /\ MaxId \in Nat /\ MaxRewinds \in Nat
  BY ArbiterAssumption DEF Init
<1>2. \A r \in Roles : wire[r] = <<>> /\ Len(wire[r]) = 0
  BY DEF Init
<1>3. TypeOK
  <2>1. at \in [Roles -> 0..MaxId] /\ rewinds \in 0..MaxRewinds
    BY <1>1 DEF Init
  <2>2. wire \in [Roles -> Seq([id : Ids, sum : Sums])]
        /\ \A r \in Roles : Len(wire[r]) <= WireCap
    BY <1>1, <1>2 DEF Init
  <2>3. entries \in Seq(Entry) /\ Len(entries) <= Window
    BY <1>1 DEF Init
  <2>4. verdict \in Verdicts
    BY <1>1 DEF Init, NoVerdict, Verdicts, Sum
  <2>5. told \in [Roles -> [Ids -> Sum]] /\ age \in [Ids -> Nat \cup {None}]
    BY DEF Init, Sum
  <2> QED BY <2>1, <2>2, <2>3, <2>4, <2>5 DEF TypeOK
<1>4. Distinct /\ SlotsTrue /\ Ordered
  BY <1>1 DEF Distinct, SlotsTrue, Ordered
<1>5. AgesArePlaces
  BY <1>1 DEF AgesArePlaces, Init
<1>6. Ascending
  BY <1>2 DEF Ascending, Init
<1>7. VerdictIsTrue
  BY DEF VerdictIsTrue, Init, NoVerdict
<1> QED BY <1>3, <1>4, <1>5, <1>6, <1>7 DEF Inv

\* The types the proofs use, one by one.
LEMMA Types ==
  ASSUME TypeOK
  PROVE  /\ at \in [Roles -> 0..MaxId] /\ wire \in [Roles -> Seq([id : Ids, sum : Sums])]
         /\ MaxId \in Nat /\ Window \in Nat \ {0}
         /\ entries \in Seq(Entry) /\ Len(entries) \in Nat /\ Len(entries) <= Window
         /\ told \in [Roles -> [Ids -> Sum]] /\ age \in [Ids -> Nat \cup {None}]
<1>1. entries \in Seq(Entry) /\ Len(entries) <= Window
  BY DEF TypeOK
<1>2. Len(entries) \in Nat
  BY <1>1
<1> QED BY <1>1, <1>2, ArbiterAssumption DEF TypeOK

\* Update ids are numbers.
LEMMA IdsAreNumbers ==
  /\ \A u \in Ids : u \in Int /\ u \in 0..MaxId
  /\ \A w \in Seq([id : Ids, sum : Sums]) :
       Len(w) \in Nat /\ \A i \in 1..Len(w) : w[i].id \in Ids /\ w[i].id \in Int
<1>1. \A u \in Ids : u \in Int /\ u \in 0..MaxId
  BY ArbiterAssumption DEF Ids
<1> DEFINE M == [id : Ids, sum : Sums]
<1>2. ASSUME NEW w \in Seq(M)
      PROVE  Len(w) \in Nat /\ \A i \in 1..Len(w) : w[i].id \in Ids /\ w[i].id \in Int
  <2>1. \A m \in M : m.id \in Ids /\ m.id \in Int
    BY <1>1
  <2> HIDE DEF M
  <2>2. Len(w) \in Nat /\ \A i \in 1..Len(w) : w[i] \in M
    BY <1>2
  <2> QED BY <2>1, <2>2
<1> QED BY <1>1, <1>2

\* What the instances do leaves the arbiter's part of the invariant alone.
LEMMA ArbiterAlone ==
  ASSUME Inv, UNCHANGED arbiter, rewinds' = rewinds
  PROVE  Distinct' /\ SlotsTrue' /\ AgesArePlaces' /\ Ordered' /\ VerdictIsTrue'
BY DEF Inv, arbiter, Distinct, SlotsTrue, AgesArePlaces, Ordered, VerdictIsTrue

\* An instance publishes the checksum of a later update.
LEMMA PublishInv ==
  ASSUME Inv, NEW r \in Roles, NEW u \in Ids, NEW sum \in Sums, Publish(r, u, sum)
  PROVE  Inv'
<1> DEFINE m == [id |-> u, sum |-> sum]
           M == [id : Ids, sum : Sums]
<1>1. /\ at \in [Roles -> 0..MaxId] /\ wire \in [Roles -> Seq(M)]
      /\ \A s \in Roles : Len(wire[s]) <= WireCap
      /\ WireCap \in Nat /\ MaxId \in Nat /\ u \in 0..MaxId
  BY ArbiterAssumption, IdsAreNumbers, Types DEF Inv, TypeOK
<1>2. /\ u > at[r] /\ Len(wire[r]) < WireCap
      /\ at' = [at EXCEPT ![r] = u]
      /\ wire' = [wire EXCEPT ![r] = Append(wire[r], m)]
      /\ UNCHANGED rewinds /\ UNCHANGED arbiter
  BY DEF Publish
<1>3. wire' \in [Roles -> Seq(M)] /\ at' \in [Roles -> 0..MaxId]
  <2>1. m \in M /\ wire[r] \in Seq(M)
    BY <1>1
  <2>2. Append(wire[r], m) \in Seq(M)
    BY <2>1
  <2> QED BY <2>2, <1>1, <1>2
<1>4. \A s \in Roles : Len(wire'[s]) <= WireCap
  <2>1. Len(Append(wire[r], m)) = Len(wire[r]) + 1
    BY <1>1
  <2> QED BY <2>1, <1>1, <1>2
<1>5. TypeOK'
  BY <1>2, <1>3, <1>4 DEF Inv, TypeOK, arbiter
<1>6. Ascending'
  <2> SUFFICES ASSUME rewinds = 0, NEW s \in Roles
               PROVE  /\ \A i, j \in 1..Len(wire'[s]) : i < j => wire'[s][i].id < wire'[s][j].id
                      /\ \A i \in 1..Len(wire'[s]) : wire'[s][i].id <= at'[s]
                      /\ \A v \in Ids : told[s][v] # None =>
                           v <= at'[s] /\ \A i \in 1..Len(wire'[s]) : v < wire'[s][i].id
    BY <1>2 DEF Ascending, arbiter
  <2>1. /\ \A i, j \in 1..Len(wire[s]) : i < j => wire[s][i].id < wire[s][j].id
        /\ \A i \in 1..Len(wire[s]) : wire[s][i].id <= at[s]
        /\ \A v \in Ids : told[s][v] # None =>
             v <= at[s] /\ \A i \in 1..Len(wire[s]) : v < wire[s][i].id
    BY DEF Inv, Ascending
  <2>2. CASE s # r
    <3>1. wire'[s] = wire[s] /\ at'[s] = at[s]
      BY <1>1, <1>2, <2>2
    <3> QED BY <3>1, <2>1
  <2>3. CASE s = r
    <3>1. at'[s] = u /\ wire'[s] = Append(wire[s], m) /\ at[s] \in Int /\ u \in Int /\ at[s] < u
      BY <1>1, <1>2, <2>3
    <3>2. /\ Len(wire'[s]) = Len(wire[s]) + 1 /\ Len(wire[s]) \in Nat
          /\ wire'[s][Len(wire[s]) + 1] = m /\ m.id = u
          /\ \A i \in 1..Len(wire[s]) : wire'[s][i] = wire[s][i] /\ wire[s][i].id \in Int
      <4>1. wire[s] \in Seq(M) /\ m \in M /\ m.id = u
        BY <1>1
      <4>2. \A i \in 1..Len(wire[s]) : wire[s][i].id \in Int
        BY <4>1, IdsAreNumbers
      <4> QED BY <4>1, <4>2, <3>1
    <3>3. \A i \in 1..Len(wire'[s]) : i \in 1..Len(wire[s]) \/ i = Len(wire[s]) + 1
      BY <3>2
    <3>4. \A i \in 1..Len(wire'[s]) : wire'[s][i].id <= u
      BY <2>1, <3>1, <3>2, <3>3
    <3>5. \A i \in 1..Len(wire[s]) : wire'[s][i].id < u
      BY <2>1, <3>1, <3>2
    <3>6. ASSUME NEW i \in 1..Len(wire'[s]), NEW j \in 1..Len(wire'[s]), i < j
          PROVE  wire'[s][i].id < wire'[s][j].id
      <4>1. i \in 1..Len(wire[s])
        BY <3>2, <3>6
      <4>2. CASE j \in 1..Len(wire[s])
        BY <4>1, <4>2, <2>1, <3>2, <3>6
      <4>3. CASE j = Len(wire[s]) + 1
        BY <4>1, <4>3, <3>2, <3>5
      <4> QED BY <4>2, <4>3, <3>3
    <3>7. ASSUME NEW v \in Ids, told[s][v] # None
          PROVE  v <= u /\ \A i \in 1..Len(wire'[s]) : v < wire'[s][i].id
      <4>1. v <= at[s] /\ v \in Int
        BY <2>1, <3>7 DEF Ids
      <4>2. \A i \in 1..Len(wire[s]) : v < wire'[s][i].id
        BY <2>1, <3>2, <3>7
      <4> QED BY <4>1, <4>2, <3>1, <3>2, <3>3
    <3> QED BY <3>1, <3>4, <3>6, <3>7
  <2> QED BY <2>2, <2>3
<1> QED BY <1>2, <1>5, <1>6, ArbiterAlone DEF Inv

\* A publication that fails only moves the instance on.
LEMMA PublishFailsInv ==
  ASSUME Inv, NEW r \in Roles, NEW u \in Ids, PublishFails(r, u)
  PROVE  Inv'
<1>1. /\ at \in [Roles -> 0..MaxId] /\ MaxId \in Nat /\ u \in 0..MaxId
      /\ wire \in [Roles -> Seq([id : Ids, sum : Sums])]
  BY IdsAreNumbers, Types DEF Inv
<1>2. /\ u > at[r] /\ at' = [at EXCEPT ![r] = u]
      /\ UNCHANGED wire /\ UNCHANGED rewinds /\ UNCHANGED arbiter
  BY DEF PublishFails
<1>3. TypeOK'
  BY <1>1, <1>2 DEF Inv, TypeOK, arbiter
<1>4. \A s \in Roles : at'[s] \in Int /\ at[s] \in Int /\ at[s] <= at'[s]
  BY <1>1, <1>2
<1>5. \A s \in Roles : \A i \in 1..Len(wire[s]) : wire[s][i].id \in Int
  BY <1>1, IdsAreNumbers
<1>6. Ascending'
  BY <1>2, <1>4, <1>5 DEF Inv, Ascending, arbiter, Ids
<1> QED BY <1>2, <1>3, <1>6, ArbiterAlone DEF Inv

\* After a step back nothing is claimed of the order of the reports.
LEMMA RewindInv ==
  ASSUME Inv, NEW r \in Roles, NEW u \in Ids, Rewind(r, u)
  PROVE  Inv'
<1>1. /\ rewinds \in 0..MaxRewinds /\ rewinds' = rewinds + 1 /\ rewinds < MaxRewinds
      /\ MaxRewinds \in Nat /\ at' = [at EXCEPT ![r] = u] /\ u \in 0..MaxId
      /\ at \in [Roles -> 0..MaxId] /\ UNCHANGED wire /\ UNCHANGED arbiter
  BY ArbiterAssumption DEF Inv, TypeOK, Rewind, Ids
<1>2. rewinds' \in 0..MaxRewinds /\ rewinds' # 0
  BY <1>1
<1>3. TypeOK'
  BY <1>1, <1>2 DEF Inv, TypeOK, arbiter
<1>4. Ascending' /\ Ordered'
  BY <1>2 DEF Ascending, Ordered
<1>5. Distinct' /\ SlotsTrue' /\ AgesArePlaces' /\ VerdictIsTrue'
  BY <1>1 DEF Inv, arbiter, Distinct, SlotsTrue, AgesArePlaces, VerdictIsTrue
<1> QED BY <1>3, <1>4, <1>5 DEF Inv

\* After a failover nothing is known, and nothing is claimed.
LEMMA ResetInv ==
  ASSUME Inv, ResetSymbol
  PROVE  Inv'
<1>1. /\ entries' = <<>> /\ Len(entries') = 0 /\ verdict' = NoVerdict
      /\ told' = [r \in Roles |-> [u \in Ids |-> None]] /\ age' = [u \in Ids |-> None]
      /\ UNCHANGED <<at, wire, rewinds>> /\ Window \in Nat
  BY ArbiterAssumption DEF ResetSymbol
<1>2. TypeOK'
  <2>1. entries' \in Seq(Entry) /\ Len(entries') <= Window
    BY <1>1
  <2>2. verdict' \in Verdicts
    BY <1>1, ArbiterAssumption DEF NoVerdict, Verdicts, Sum
  <2>3. told' \in [Roles -> [Ids -> Sum]] /\ age' \in [Ids -> Nat \cup {None}]
    BY <1>1 DEF Sum
  <2> QED BY <1>1, <2>1, <2>2, <2>3 DEF Inv, TypeOK
<1>3. Distinct' /\ SlotsTrue' /\ Ordered'
  BY <1>1 DEF Distinct, SlotsTrue, Ordered
<1>4. AgesArePlaces' /\ VerdictIsTrue'
  BY <1>1 DEF AgesArePlaces, VerdictIsTrue, NoVerdict
<1>5. Ascending'
  BY <1>1 DEF Inv, Ascending
<1> QED BY <1>2, <1>3, <1>4, <1>5 DEF Inv

------------------------------------------------------------------------------
(***************************************************************************)
(* ChecksumArbiter::ingest                                                 *)
(***************************************************************************)

\* What is read off a stream, and what is left of it.
LEMMA ReadsHead ==
  ASSUME Inv, NEW r \in Roles, wire[r] # <<>>, wire' = [wire EXCEPT ![r] = Tail(@)]
  PROVE  /\ Head(wire[r]).id \in Ids /\ Head(wire[r]).sum \in Sums
         /\ Len(wire[r]) >= 1 /\ Head(wire[r]) = wire[r][1]
         /\ wire' \in [Roles -> Seq([id : Ids, sum : Sums])]
         /\ \A s \in Roles : s # r => wire'[s] = wire[s]
         /\ Len(wire'[r]) = Len(wire[r]) - 1
         /\ \A i \in 1..Len(wire'[r]) : i + 1 \in 1..Len(wire[r]) /\ wire'[r][i] = wire[r][i + 1]
         /\ \A s \in Roles : Len(wire'[s]) <= WireCap
<1> DEFINE M == [id : Ids, sum : Sums]
<1>1. wire \in [Roles -> Seq(M)] /\ wire[r] \in Seq(M) /\ wire[r] # <<>> /\ WireCap \in Nat
      /\ \A s \in Roles : Len(wire[s]) <= WireCap
  BY ArbiterAssumption DEF Inv, TypeOK
<1> HIDE DEF M
<1>2. Len(wire[r]) \in Nat /\ Len(wire[r]) >= 1 /\ Head(wire[r]) = wire[r][1] /\ Head(wire[r]) \in M
  BY <1>1
<1>3. Tail(wire[r]) \in Seq(M) /\ Len(Tail(wire[r])) = Len(wire[r]) - 1
      /\ \A i \in 1..(Len(wire[r]) - 1) : Tail(wire[r])[i] = wire[r][i + 1]
  BY <1>1, <1>2
<1>4. wire'[r] = Tail(wire[r]) /\ \A s \in Roles : s # r => wire'[s] = wire[s]
  BY <1>1
<1>5. wire' \in [Roles -> Seq(M)]
  BY <1>1, <1>3
<1>6. \A i \in 1..(Len(wire[r]) - 1) : i + 1 \in 1..Len(wire[r])
  BY <1>2
<1>7. \A s \in Roles : Len(wire'[s]) <= WireCap
  BY <1>1, <1>2, <1>3, <1>4
<1>8. Head(wire[r]).id \in Ids /\ Head(wire[r]).sum \in Sums
  BY <1>2 DEF M
<1> QED BY <1>2, <1>3, <1>4, <1>5, <1>6, <1>7, <1>8 DEF M

\* What is still under way on a stream ascends, and is above what was read.
LEMMA StillAscending ==
  ASSUME Inv, NEW r \in Roles, wire[r] # <<>>, wire' = [wire EXCEPT ![r] = Tail(@)],
         UNCHANGED <<at, rewinds>>, NEW sum \in Sums,
         told' = told \/ told' = [told EXCEPT ![r][Head(wire[r]).id] = sum]
  PROVE  Ascending'
<1> SUFFICES ASSUME rewinds = 0, NEW s \in Roles
             PROVE  /\ \A i, j \in 1..Len(wire'[s]) : i < j => wire'[s][i].id < wire'[s][j].id
                    /\ \A i \in 1..Len(wire'[s]) : wire'[s][i].id <= at[s]
                    /\ \A v \in Ids : told'[s][v] # None =>
                         v <= at[s] /\ \A i \in 1..Len(wire'[s]) : v < wire'[s][i].id
  BY DEF Ascending
<1> DEFINE u == Head(wire[r]).id
<1>1. /\ \A i, j \in 1..Len(wire[s]) : i < j => wire[s][i].id < wire[s][j].id
      /\ \A i \in 1..Len(wire[s]) : wire[s][i].id <= at[s]
      /\ \A v \in Ids : told[s][v] # None =>
           v <= at[s] /\ \A i \in 1..Len(wire[s]) : v < wire[s][i].id
  BY DEF Inv, Ascending
<1>2. told \in [Roles -> [Ids -> Sum]] /\ u \in Ids
  BY Types, ReadsHead DEF Inv
<1>3. \A v \in Ids : told'[s][v] # None => told[s][v] # None \/ (s = r /\ v = u)
  BY <1>2
<1>4. CASE s # r
  BY <1>1, <1>3, <1>4, ReadsHead
<1>5. CASE s = r
  <2>1. /\ Len(wire[s]) \in Nat /\ Len(wire'[s]) = Len(wire[s]) - 1 /\ Len(wire[s]) >= 1
        /\ \A i \in 1..Len(wire'[s]) : i + 1 \in 1..Len(wire[s]) /\ wire'[s][i] = wire[s][i + 1]
        /\ u = wire[s][1].id
    BY <1>5, ReadsHead, Types DEF Inv
  <2>2. \A i, j \in 1..Len(wire'[s]) : i < j => wire'[s][i].id < wire'[s][j].id
    <3> SUFFICES ASSUME NEW i \in 1..Len(wire'[s]), NEW j \in 1..Len(wire'[s]), i < j
                 PROVE  wire'[s][i].id < wire'[s][j].id
      OBVIOUS
    <3>1. i + 1 \in 1..Len(wire[s]) /\ j + 1 \in 1..Len(wire[s]) /\ i + 1 < j + 1
      BY <2>1
    <3>2. wire[s][i + 1].id < wire[s][j + 1].id
      BY <3>1, <1>1
    <3> QED BY <3>2, <2>1
  <2>3. \A i \in 1..Len(wire'[s]) : wire'[s][i].id <= at[s]
    BY <1>1, <2>1
  <2>4. u <= at[s] /\ \A i \in 1..Len(wire'[s]) : u < wire'[s][i].id
    <3>1. 1 \in 1..Len(wire[s]) /\ \A i \in 1..Len(wire'[s]) : 1 < i + 1
      BY <2>1
    <3> QED BY <1>1, <2>1, <3>1
  <2>5. \A v \in Ids : told[s][v] # None =>
          v <= at[s] /\ \A i \in 1..Len(wire'[s]) : v < wire'[s][i].id
    BY <1>1, <2>1
  <2> QED BY <1>3, <2>2, <2>3, <2>4, <2>5
<1> QED BY <1>4, <1>5

\* A report older than the entry in front is dropped.
LEMMA IngestStaleInv ==
  ASSUME Inv, NEW r \in Roles, Ingest(r), IsStale(entries, Head(wire[r]).id)
  PROVE  Inv'
<1>1. /\ wire[r] # <<>> /\ wire' = [wire EXCEPT ![r] = Tail(@)]
      /\ verdict' = [kind |-> "Stale", id |-> Head(wire[r]).id, active |-> None, passive |-> None]
      /\ UNCHANGED <<entries, told, age, at, rewinds>>
  BY DEF Ingest
<1>2. Head(wire[r]).id \in Ids /\ Head(wire[r]).sum \in Sums
      /\ wire' \in [Roles -> Seq([id : Ids, sum : Sums])]
      /\ \A s \in Roles : Len(wire'[s]) <= WireCap
  BY <1>1, ReadsHead
<1>3. verdict' \in Verdicts
  BY <1>1, <1>2, IdsAreNumbers DEF Verdicts, Sum
<1>4. TypeOK'
  BY <1>1, <1>2, <1>3 DEF Inv, TypeOK
<1>5. Distinct' /\ SlotsTrue' /\ AgesArePlaces' /\ Ordered'
  BY <1>1 DEF Inv, Distinct, SlotsTrue, AgesArePlaces, Ordered
<1>6. VerdictIsTrue'
  BY <1>1 DEF VerdictIsTrue
<1>7. Ascending'
  BY <1>1, <1>2, StillAscending
<1> QED BY <1>4, <1>5, <1>6, <1>7 DEF Inv

\* The verdict on an entry whose slots are true is true.
LEMMA Judgement ==
  ASSUME entries' \in Seq(Entry), SlotsTrue', NEW k \in 1..Len(entries'),
         verdict' = Judged(entries'[k])
  PROVE  VerdictIsTrue' /\ verdict' \in Verdicts
<1> DEFINE e == entries'[k]
<1>1. e \in Entry
  OBVIOUS
<1>2. /\ e.active # None => e.active = told'["active"][e.id]
      /\ e.passive # None => e.passive = told'["passive"][e.id]
  BY DEF SlotsTrue, Slot, Roles
<1>3. e.id \in 0..MaxId /\ e.active \in Sum /\ e.passive \in Sum
  BY <1>1, IdsAreNumbers DEF Entry
<1> HIDE DEF e
<1>4. verdict' \in Verdicts
  BY <1>3 DEF Judged, Verdicts, e
<1>5. VerdictIsTrue'
  BY <1>2 DEF VerdictIsTrue, Judged, e
<1> QED BY <1>4, <1>5

\* What a report that is not stale changes.
LEMMA Takes ==
  ASSUME Inv, NEW r \in Roles, Ingest(r), ~IsStale(entries, Head(wire[r]).id)
  PROVE  LET u == Head(wire[r]).id
             sum == Head(wire[r]).sum IN
         /\ u \in Ids /\ sum \in Sums /\ wire[r] # <<>>
         /\ wire' = [wire EXCEPT ![r] = Tail(@)]
         /\ wire' \in [Roles -> Seq([id : Ids, sum : Sums])]
         /\ \A s \in Roles : Len(wire'[s]) <= WireCap
         /\ UNCHANGED <<at, rewinds>>
         /\ entries' = Recorded(entries, r, u, sum)
         /\ told' = [told EXCEPT ![r][u] = sum]
         /\ told' \in [Roles -> [Ids -> Sum]]
         /\ told'[r][u] = sum
         /\ \A s \in Roles, v \in Ids : (s # r \/ v # u) => told'[s][v] = told[s][v]
         /\ verdict' = Judged(entries'[PosOf(entries', u)])
         /\ age' = [v \in Ids |->
               IF Tracked(entries, u) THEN age[v]
               ELSE IF v = u THEN 0 ELSE IF age[v] = None THEN None ELSE age[v] + 1]
<1> DEFINE u == Head(wire[r]).id
           sum == Head(wire[r]).sum
<1>1. /\ wire[r] # <<>> /\ wire' = [wire EXCEPT ![r] = Tail(@)]
      /\ UNCHANGED <<at, rewinds>>
      /\ entries' = Recorded(entries, r, u, sum)
      /\ told' = [told EXCEPT ![r][u] = sum]
      /\ verdict' = Judged(entries'[PosOf(entries', u)])
      /\ age' = [v \in Ids |->
            IF Tracked(entries, u) THEN age[v]
            ELSE IF v = u THEN 0 ELSE IF age[v] = None THEN None ELSE age[v] + 1]
  BY DEF Ingest
<1>2. u \in Ids /\ sum \in Sums
      /\ wire' \in [Roles -> Seq([id : Ids, sum : Sums])]
      /\ \A s \in Roles : Len(wire'[s]) <= WireCap
  BY <1>1, ReadsHead
<1>3. told \in [Roles -> [Ids -> Sum]] /\ sum \in Sum
  BY <1>2, Types DEF Inv, Sum
<1> HIDE DEF u, sum
<1>4. told' \in [Roles -> [Ids -> Sum]]
      /\ told'[r][u] = sum
      /\ \A s \in Roles, v \in Ids : (s # r \/ v # u) => told'[s][v] = told[s][v]
  BY <1>1, <1>2, <1>3
<1> QED BY <1>1, <1>2, <1>4 DEF u, sum

\* A report of an id that has an entry fills a slot of it.
LEMMA IngestTrackedInv ==
  ASSUME Inv, NEW r \in Roles, Ingest(r), ~IsStale(entries, Head(wire[r]).id),
         Tracked(entries, Head(wire[r]).id)
  PROVE  Inv'
<1> DEFINE u == Head(wire[r]).id
           sum == Head(wire[r]).sum
           k == PosOf(entries, u)
<1>1. /\ u \in Ids /\ sum \in Sums /\ sum # None /\ entries \in Seq(Entry)
      /\ Other(r) \in Roles /\ Other(r) # r /\ \A s \in Roles : s = r \/ s = Other(r)
  BY Takes, Types, SumIsSome, TwoRoles DEF Inv
<1>2. /\ k \in 1..Len(entries) /\ entries[k].id = u
      /\ entries' \in Seq(Entry) /\ Len(entries') = Len(entries)
      /\ entries'[k] = With(entries[k], r, sum)
      /\ \A j \in 1..Len(entries) : j # k => entries'[j] = entries[j]
      /\ \A j \in 1..Len(entries) : entries'[j].id = entries[j].id
  BY <1>1, Takes, RecordedTracked
<1>3. /\ told' \in [Roles -> [Ids -> Sum]] /\ told'[r][u] = sum
      /\ \A s \in Roles, v \in Ids : (s # r \/ v # u) => told'[s][v] = told[s][v]
      /\ verdict' = Judged(entries'[PosOf(entries', u)])
      /\ UNCHANGED <<at, rewinds>>
      /\ wire' \in [Roles -> Seq([id : Ids, sum : Sums])]
      /\ \A s \in Roles : Len(wire'[s]) <= WireCap
  BY Takes
<1>4. age' = age
  <2>1. age' = [v \in Ids |-> age[v]]
    BY Takes
  <2> QED BY <2>1, Types DEF Inv
<1>5. /\ Slot(entries'[k], r) = sum
      /\ Slot(entries'[k], Other(r)) = Slot(entries[k], Other(r))
  <2>1. entries[k] \in Entry
    BY <1>1, <1>2
  <2> QED BY <1>1, <1>2, <2>1, WithSlot
<1>6. Ascending'
  BY Takes, StillAscending
<1>7. \A j \in 1..Len(entries) : entries[j].id \in Ids /\ (j # k => entries[j].id # u)
  <2>1. \A j \in 1..Len(entries) : entries[j] \in Entry
    BY <1>1
  <2> QED BY <2>1, <1>2 DEF Inv, Distinct, Entry
<1> HIDE DEF u, sum, k
<1>8. Distinct'
  BY <1>2 DEF Inv, Distinct
<1>9. SlotsTrue'
  <2> SUFFICES ASSUME NEW j \in 1..Len(entries)
               PROVE  /\ \E s \in Roles : Slot(entries'[j], s) # None
                      /\ \A s \in Roles : Slot(entries'[j], s) # None =>
                           Slot(entries'[j], s) = told'[s][entries'[j].id]
    BY <1>2 DEF SlotsTrue
  <2>1. /\ \E s \in Roles : Slot(entries[j], s) # None
        /\ \A s \in Roles : Slot(entries[j], s) # None =>
             Slot(entries[j], s) = told[s][entries[j].id]
    BY DEF Inv, SlotsTrue
  <2>2. CASE j # k
    <3>1. entries'[j] = entries[j]
      BY <2>2, <1>2
    <3>2. \A s \in Roles : told'[s][entries[j].id] = told[s][entries[j].id]
      BY <2>2, <1>3, <1>7
    <3> QED BY <2>1, <3>1, <3>2
  <2>3. CASE j = k
    <3>1. entries'[j].id = u /\ entries[j].id = u
      BY <2>3, <1>2
    <3>2. Slot(entries'[j], r) = told'[r][u] /\ Slot(entries'[j], r) # None
      BY <2>3, <1>1, <1>3, <1>5
    <3>3. told'[Other(r)][u] = told[Other(r)][u]
      BY <1>1, <1>3
    <3>4. Slot(entries'[j], Other(r)) = Slot(entries[j], Other(r))
      BY <2>3, <1>5
    <3>5. ASSUME NEW s \in Roles, Slot(entries'[j], s) # None
          PROVE  Slot(entries'[j], s) = told'[s][u]
      <4>1. CASE s = r
        BY <4>1, <3>2
      <4>2. CASE s = Other(r)
        BY <4>2, <2>1, <3>1, <3>3, <3>4, <3>5
      <4> QED BY <4>1, <4>2, <1>1
    <3> QED BY <3>1, <3>2, <3>5
  <2> QED BY <2>2, <2>3
<1>10. AgesArePlaces'
  <2>1. \A j \in 1..Len(entries') : age'[entries'[j].id] = Len(entries') - j
    BY <1>2, <1>4 DEF Inv, AgesArePlaces
  <2>2. ASSUME NEW v \in Ids, age'[v] # None /\ age'[v] < Window
        PROVE  age'[v] < Len(entries') /\ entries'[Len(entries') - age'[v]].id = v
    <3>1. age[v] < Len(entries) /\ entries[Len(entries) - age[v]].id = v
      BY <2>2, <1>4 DEF Inv, AgesArePlaces
    <3>2. age[v] \in Nat /\ Len(entries) \in Nat
      BY <2>2, <1>4, Types DEF Inv
    <3>3. Len(entries) - age[v] \in 1..Len(entries)
      BY <3>1, <3>2
    <3> QED BY <3>1, <3>3, <1>2, <1>4
  <2> QED BY <2>1, <2>2 DEF AgesArePlaces
<1>11. Ordered'
  <2>1. \A j \in 1..Len(entries), s \in Roles :
          Slot(entries'[j], s) = None => Slot(entries[j], s) = None
    BY <1>1, <1>2, <1>5
  <2> QED BY <2>1, <1>2, <1>3 DEF Inv, Ordered
<1>12. PosOf(entries', u) \in 1..Len(entries')
  BY <1>2 DEF PosOf
<1>13. VerdictIsTrue' /\ verdict' \in Verdicts
  BY <1>2, <1>3, <1>9, <1>12, Judgement
<1>14. TypeOK'
  BY <1>2, <1>3, <1>4, <1>13 DEF Inv, TypeOK
<1> QED BY <1>6, <1>8, <1>9, <1>10, <1>11, <1>13, <1>14 DEF Inv

\* A report of an id that has no entry pushes one, and may push another out.
LEMMA IngestPushedInv ==
  ASSUME Inv, NEW r \in Roles, Ingest(r), ~IsStale(entries, Head(wire[r]).id),
         ~Tracked(entries, Head(wire[r]).id)
  PROVE  Inv'
<1> DEFINE u == Head(wire[r]).id
           sum == Head(wire[r]).sum
           n == Len(entries')
           d == Len(entries) + 1 - n
<1>1. /\ u \in Ids /\ sum \in Sums /\ sum # None /\ entries \in Seq(Entry)
      /\ Len(entries) \in Nat /\ Len(entries) <= Window /\ Window \in Nat \ {0}
      /\ Other(r) \in Roles /\ Other(r) # r /\ \A s \in Roles : s = r \/ s = Other(r)
      /\ told \in [Roles -> [Ids -> Sum]] /\ age \in [Ids -> Nat \cup {None}]
  BY Takes, Types, SumIsSome, TwoRoles DEF Inv
<1>2. /\ entries' \in Seq(Entry) /\ n <= Window /\ n >= 1
      /\ d \in {0, 1} /\ (d = 1 => n = Window)
      /\ entries'[n] = New(r, u, sum)
      /\ \A j \in 1..(n - 1) : j + d \in 1..Len(entries) /\ entries'[j] = entries[j + d]
  BY <1>1, Takes, RecordedPushed
<1>3. /\ told' \in [Roles -> [Ids -> Sum]] /\ told'[r][u] = sum
      /\ \A s \in Roles, v \in Ids : (s # r \/ v # u) => told'[s][v] = told[s][v]
      /\ verdict' = Judged(entries'[PosOf(entries', u)])
      /\ UNCHANGED <<at, rewinds>>
      /\ wire' \in [Roles -> Seq([id : Ids, sum : Sums])]
      /\ \A s \in Roles : Len(wire'[s]) <= WireCap
  BY Takes
<1>4. age' = [v \in Ids |-> IF v = u THEN 0 ELSE IF age[v] = None THEN None ELSE age[v] + 1]
  BY Takes
<1>5. /\ New(r, u, sum).id = u
      /\ Slot(New(r, u, sum), r) = sum /\ Slot(New(r, u, sum), Other(r)) = None
  BY <1>1, NewSlot
<1>6. Ascending'
  BY Takes, StillAscending
<1>7. \A j \in 1..Len(entries) : entries[j].id \in Ids /\ entries[j].id # u
  <2>1. \A j \in 1..Len(entries) : entries[j] \in Entry
    BY <1>1
  <2> QED BY <2>1 DEF Tracked, Entry
<1>8. rewinds = 0 => \A v \in Ids : told[r][v] # None => v < u
  <2>1. 1 \in 1..Len(wire[r]) /\ Head(wire[r]) = wire[r][1]
    <3>1. wire[r] # <<>> /\ wire' = [wire EXCEPT ![r] = Tail(@)]
      BY Takes
    <3>2. Len(wire[r]) >= 1 /\ Head(wire[r]) = wire[r][1]
      BY <3>1, ReadsHead
    <3>3. Len(wire[r]) \in Nat
      BY Types, IdsAreNumbers DEF Inv
    <3> QED BY <3>2, <3>3
  <2> QED BY <2>1 DEF Inv, Ascending
<1> HIDE DEF u, sum
<1>9. n \in Nat /\ \A j \in 1..n : j \in 1..(n - 1) \/ j = n
  BY <1>2
<1> HIDE DEF n
<1>10. Distinct'
  <2> SUFFICES ASSUME NEW j \in 1..n, NEW k \in 1..n, entries'[j].id = entries'[k].id
               PROVE  j = k
    BY DEF Distinct, n
  <2>1. CASE j = n /\ k = n
    BY <2>1
  <2>2. CASE j \in 1..(n - 1) /\ k \in 1..(n - 1)
    <3>1. j + d \in 1..Len(entries) /\ k + d \in 1..Len(entries)
          /\ entries[j + d].id = entries[k + d].id
      BY <2>2, <1>2
    <3>2. j + d = k + d
      BY <3>1 DEF Inv, Distinct
    <3> QED BY <3>2, <1>2, <1>9
  <2>3. CASE j = n /\ k \in 1..(n - 1)
    BY <2>3, <1>2, <1>5, <1>7
  <2>4. CASE k = n /\ j \in 1..(n - 1)
    BY <2>4, <1>2, <1>5, <1>7
  <2> QED BY <2>1, <2>2, <2>3, <2>4, <1>9
<1>11. SlotsTrue'
  <2> SUFFICES ASSUME NEW j \in 1..n
               PROVE  /\ \E s \in Roles : Slot(entries'[j], s) # None
                      /\ \A s \in Roles : Slot(entries'[j], s) # None =>
                           Slot(entries'[j], s) = told'[s][entries'[j].id]
    BY DEF SlotsTrue, n
  <2>1. CASE j = n
    BY <2>1, <1>1, <1>2, <1>3, <1>5
  <2>2. CASE j \in 1..(n - 1)
    <3>1. j + d \in 1..Len(entries) /\ entries'[j] = entries[j + d]
      BY <2>2, <1>2
    <3>2. /\ \E s \in Roles : Slot(entries[j + d], s) # None
          /\ \A s \in Roles : Slot(entries[j + d], s) # None =>
               Slot(entries[j + d], s) = told[s][entries[j + d].id]
      BY <3>1 DEF Inv, SlotsTrue
    <3>3. \A s \in Roles : told'[s][entries[j + d].id] = told[s][entries[j + d].id]
      BY <3>1, <1>3, <1>7
    <3> QED BY <3>1, <3>2, <3>3
  <2> QED BY <2>1, <2>2, <1>9
<1>12. AgesArePlaces'
  <2>1. ASSUME NEW j \in 1..n
        PROVE  age'[entries'[j].id] = n - j
    <3>1. CASE j = n
      BY <3>1, <1>1, <1>2, <1>4, <1>5, <1>9
    <3>2. CASE j \in 1..(n - 1)
      <4>1. j + d \in 1..Len(entries) /\ entries'[j] = entries[j + d]
        BY <3>2, <1>2
      <4>2. age[entries[j + d].id] = Len(entries) - (j + d)
        BY <4>1 DEF Inv, AgesArePlaces
      <4>3. entries[j + d].id \in Ids /\ entries[j + d].id # u
        BY <4>1, <1>7
      <4>4. age[entries[j + d].id] # None
        BY <4>1, <4>2, <1>1, <1>2 DEF None
      <4>5. age'[entries[j + d].id] = (Len(entries) - (j + d)) + 1
        BY <4>2, <4>3, <4>4, <1>4
      <4> QED BY <4>1, <4>5, <1>1, <1>2, <1>9
    <3> QED BY <3>1, <3>2, <1>9
  <2>2. ASSUME NEW v \in Ids, age'[v] # None, age'[v] < Window
        PROVE  age'[v] < n /\ entries'[n - age'[v]].id = v
    <3>1. CASE v = u
      BY <3>1, <1>1, <1>2, <1>4, <1>5, <1>9
    <3>2. CASE v # u
      <4>1. age[v] # None /\ age'[v] = age[v] + 1 /\ age[v] \in Nat
        BY <2>2, <3>2, <1>1, <1>4
      <4>2. age[v] < Len(entries) /\ entries[Len(entries) - age[v]].id = v
        BY <4>1, <2>2, <1>1 DEF Inv, AgesArePlaces
      <4>3. age'[v] < n
        BY <4>1, <4>2, <2>2, <1>1, <1>2, <1>9
      <4>4. n - age'[v] \in 1..(n - 1) /\ (n - age'[v]) + d = Len(entries) - age[v]
        <5>1. age'[v] \in Nat /\ age'[v] >= 1 /\ age[v] = age'[v] - 1
          BY <4>1
        <5>2. n - age'[v] \in 1..(n - 1)
          BY <5>1, <4>3, <1>9
        <5>3. (n - age'[v]) + (Len(entries) + 1 - n) = Len(entries) - (age'[v] - 1)
          BY <5>1, <1>1, <1>9
        <5> QED BY <5>1, <5>2, <5>3 DEF n
      <4>5. entries'[n - age'[v]] = entries[Len(entries) - age[v]]
        BY <4>4, <1>2
      <4> QED BY <4>2, <4>3, <4>5
    <3> QED BY <3>1, <3>2
  <2> QED BY <2>1, <2>2 DEF AgesArePlaces, n
<1>13. Ordered'
  <2> SUFFICES ASSUME rewinds = 0, NEW s \in Roles, NEW j \in 1..n, NEW k \in 1..n, j < k,
                      Slot(entries'[j], s) = None, Slot(entries'[k], s) = None
               PROVE  entries'[j].id < entries'[k].id
    BY <1>3 DEF Ordered, n
  <2>1. j \in 1..(n - 1) /\ j + d \in 1..Len(entries) /\ entries'[j] = entries[j + d]
    BY <1>2, <1>9
  <2>2. CASE k \in 1..(n - 1)
    <3>1. k + d \in 1..Len(entries) /\ entries'[k] = entries[k + d] /\ j + d < k + d
      BY <2>2, <1>2, <1>9
    <3> QED BY <2>1, <3>1 DEF Inv, Ordered
  <2>3. CASE k = n
    <3>1. s = Other(r)
      BY <2>3, <1>1, <1>2, <1>5
    <3>2. Slot(entries[j + d], r) # None
      BY <2>1, <3>1, <1>1 DEF Inv, SlotsTrue
    <3>3. told[r][entries[j + d].id] # None
      BY <2>1, <3>2 DEF Inv, SlotsTrue
    <3>4. entries[j + d].id < u
      BY <2>1, <3>3, <1>7, <1>8
    <3> QED BY <2>1, <2>3, <3>4, <1>2, <1>5
  <2> QED BY <2>2, <2>3, <1>9
<1>14. PosOf(entries', u) \in 1..Len(entries')
  <2>1. n \in 1..n /\ entries'[n].id = u
    BY <1>2, <1>5, <1>9
  <2> QED BY <2>1 DEF PosOf, n
<1>15. VerdictIsTrue' /\ verdict' \in Verdicts
  BY <1>2, <1>3, <1>11, <1>14, Judgement
<1>16. age' \in [Ids -> Nat \cup {None}]
  BY <1>1, <1>4
<1>17. TypeOK'
  BY <1>2, <1>3, <1>15, <1>16 DEF Inv, TypeOK, n
<1> QED BY <1>6, <1>10, <1>11, <1>12, <1>13, <1>15, <1>17 DEF Inv

\* Every step.
LEMMA NextInv == Inv /\ [Next]_vars => Inv'
<1> SUFFICES ASSUME Inv, [Next]_vars PROVE Inv'
  OBVIOUS
<1>1. ASSUME NEW r \in Roles, Ingest(r) PROVE Inv'
  BY <1>1, IngestStaleInv, IngestTrackedInv, IngestPushedInv
<1>2. CASE UNCHANGED vars
  BY <1>2 DEF vars, Inv, TypeOK, Distinct, SlotsTrue, AgesArePlaces, Ascending, Ordered,
              VerdictIsTrue
<1> QED BY <1>1, <1>2, PublishInv, PublishFailsInv, RewindInv, ResetInv DEF Next

\* The invariant of the arbiter and its two streams.
THEOREM InvHolds == Spec => []Inv
BY InitInv, NextInv, PTL DEF Spec

------------------------------------------------------------------------------
\* ChecksumArbiter::ingest never invents a divergence, nor an agreement.
THEOREM VerdictsAreTrue == Spec => []VerdictIsTrue
<1>1. Inv => VerdictIsTrue
  BY DEF Inv
<1> QED BY <1>1, InvHolds, PTL

\* One step of ingest on an id within the window compares both reports.
LEMMA WithinReach ==
  ASSUME Inv, NEW r \in Roles, Ingest(r), rewinds = 0,
         told[Other(r)][Head(wire[r]).id] # None,
         age[Head(wire[r]).id] # None, age[Head(wire[r]).id] < Window
  PROVE  verdict'.kind \in {"Matched", "Diverged"}
<1> DEFINE u == Head(wire[r]).id
           sum == Head(wire[r]).sum
           k == Len(entries) - age[u]
<1>1. wire[r] # <<>> /\ wire' = [wire EXCEPT ![r] = Tail(@)]
  BY DEF Ingest
<1>2. /\ u \in Ids /\ sum \in Sums /\ entries \in Seq(Entry) /\ Len(entries) \in Nat
      /\ age[u] \in Nat /\ Other(r) \in Roles /\ \A s \in Roles : s = r \/ s = Other(r)
  <2>1. u \in Ids /\ sum \in Sums
    BY <1>1, ReadsHead
  <2>2. age \in [Ids -> Nat \cup {None}] /\ age[u] # None
    BY Types DEF Inv
  <2>3. age[u] \in Nat
    BY <2>1, <2>2
  <2> QED BY <2>1, <2>3, Types, TwoRoles DEF Inv
<1>3. k \in 1..Len(entries) /\ entries[k].id = u
  <2>1. age[u] < Len(entries) /\ entries[k].id = u
    BY <1>2 DEF Inv, AgesArePlaces
  <2> QED BY <2>1, <1>2
<1>4. \A v \in Ids : told[r][v] # None => v < u
  <2>1. 1 \in 1..Len(wire[r]) /\ Head(wire[r]) = wire[r][1]
    <3>1. Len(wire[r]) \in Nat
      BY Types, IdsAreNumbers DEF Inv
    <3> QED BY <3>1, <1>1, ReadsHead
  <2> QED BY <2>1 DEF Inv, Ascending
<1>5. told[r][u] = None /\ told[Other(r)][u] # None
  BY <1>2, <1>4, IdsAreNumbers
<1>6. Slot(entries[k], r) = None /\ Slot(entries[k], Other(r)) # None
  BY <1>2, <1>3, <1>5 DEF Inv, SlotsTrue
<1> HIDE DEF u, sum, k
<1>7. ~IsStale(entries, u)
  <2>1. 1 \in 1..Len(entries) /\ entries[1] \in Entry /\ entries[1].id \in Ids
    <3>1. 1 \in 1..Len(entries)
      BY <1>2, <1>3
    <3>2. entries[1] \in Entry
      BY <3>1, <1>2
    <3> QED BY <3>1, <3>2 DEF Entry
  <2>2. entries[1].id \in Int /\ u \in Int
    BY <2>1, <1>2, IdsAreNumbers
  <2>3. CASE k = 1
    BY <2>2, <2>3, <1>3 DEF IsStale
  <2>4. CASE k > 1 /\ Slot(entries[1], r) # None
    <3>1. told[r][entries[1].id] # None
      BY <2>1, <2>4 DEF Inv, SlotsTrue
    <3> QED BY <2>1, <2>2, <3>1, <1>4 DEF IsStale
  <2>5. CASE k > 1 /\ Slot(entries[1], r) = None
    <3>1. entries[1].id < entries[k].id
      BY <2>1, <2>5, <1>3, <1>6 DEF Inv, Ordered
    <3> QED BY <2>2, <3>1, <1>3 DEF IsStale
  <2> QED BY <2>3, <2>4, <2>5, <1>2, <1>3
<1>8. Tracked(entries, u) /\ PosOf(entries, u) = k
  <2>1. Tracked(entries, u)
    BY <1>3 DEF Tracked
  <2>2. PosOf(entries, u) \in 1..Len(entries) /\ entries[PosOf(entries, u)].id = u
    BY <1>3 DEF PosOf
  <2> QED BY <2>1, <2>2, <1>3 DEF Inv, Distinct
<1>9. /\ entries' \in Seq(Entry) /\ Len(entries') = Len(entries)
      /\ entries'[k] = With(entries[k], r, sum)
      /\ \A j \in 1..Len(entries) : entries'[j].id = entries[j].id
      /\ verdict' = Judged(entries'[PosOf(entries', u)])
  BY <1>2, <1>7, <1>8, RecordedTracked, Takes DEF u, sum
<1>10. PosOf(entries', u) = k
  <2>1. PosOf(entries', u) \in 1..Len(entries) /\ entries'[PosOf(entries', u)].id = u
    BY <1>3, <1>9 DEF PosOf
  <2> QED BY <2>1, <1>3, <1>9 DEF Inv, Distinct
<1>11. \A s \in Roles : Slot(entries'[k], s) # None
  <2>1. entries[k] \in Entry /\ sum # None
    BY <1>2, <1>3, SumIsSome
  <2> QED BY <2>1, <1>2, <1>6, <1>9, WithSlot
<1>12. entries'[k].active # None /\ entries'[k].passive # None
  BY <1>11 DEF Slot, Roles
<1> QED BY <1>9, <1>10, <1>12 DEF Judged

\* As long as no instance goes back, ingest misses nothing within its window.
THEOREM WindowSuffices == Spec => WindowIsEnough
<1>1. Inv /\ [Next]_vars =>
        [\A r \in Roles :
           LET u == Head(wire[r]).id IN
           (/\ Ingest(r) /\ rewinds = 0
            /\ told[Other(r)][u] # None /\ age[u] # None /\ age[u] < Window)
           => verdict'.kind \in {"Matched", "Diverged"}]_vars
  BY WithinReach
<1> QED BY <1>1, InvHolds, PTL DEF Spec, WindowIsEnough
==============================================================================
