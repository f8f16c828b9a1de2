---------------------------- MODULE ConnectorProofs ----------------------------
(***************************************************************************)
(* Proofs about the connector process, for any number of connections,      *)
(* workers, frames and deaths of the media driver: every task's messages   *)
(* reach the stream in the order in which the task came to them (InOrder), *)
(* the null publisher of an interrupted start swallows nothing             *)
(* (NothingSwallowed), and what neither the normalizer nor the encoder     *)
(* lost is delivered, still to be offered, or counted (LossesCounted).     *)
(***************************************************************************)
EXTENDS Connector, FiniteSetTheorems, WellFoundedInduction, TLAPS

Ascending(s) == \A i, j \in 1..Len(s) : i < j => s[i] < s[j]
Below(s, n)  == \A i \in 1..Len(s) : s[i] < n

Waits  == {"unborn", "building", "retryWait"}
Places == Waits \cup {"running", "publishing", "reconnecting", "stopped"}
Pubs   == {"none", "open", "orphan", "closed", "null"}

\* The types the proofs need.
Typed ==
  /\ pc \in [All -> Places] /\ pub \in [All -> Pubs]
  /\ seq \in [Tasks -> Nat]
  /\ todo \in [All -> Seq(Nat)] /\ delivered \in [All -> Seq(Nat)]

\* What a task has delivered comes before what it has still to offer, and both
\* before the next message it comes to.
OrderInv ==
  \A t \in All :
    /\ Ascending(delivered[t]) /\ Ascending(todo[t])
    /\ Below(delivered[t], Made[t]) /\ Below(todo[t], Made[t])
    /\ \A i \in 1..Len(todo[t]) : Below(delivered[t], todo[t][i])

\* main starts the tasks and listens for the signal when its own publication is
\* over; a task that has no publisher yet has nothing to offer, main all.
StartInv ==
  /\ pc[Boot] # "stopped" => /\ pc[Boot] \in {"building", "retryWait", "publishing", "reconnecting"}
                             /\ main \in {"starting", "exited"} /\ ~shutdown
                             /\ \A t \in Tasks : pc[t] = "unborn"
  /\ \A t \in Tasks : pc[t] \in Waits => todo[t] = <<>>
  /\ pc[Boot] \in Waits => todo[Boot] # <<>>
  /\ \A t \in All : pc[t] = "publishing" => todo[t] # <<>>

\* A null publisher is had after the signal only, by a task that publishes
\* nothing any more.
NullInv ==
  \A t \in All :
    /\ pub[t] = "null" => shutdown /\ todo[t] = <<>> /\ pc[t] \in {"running", "stopped"}
    /\ pc[t] = "reconnecting" => pub[t] = "closed"

Inv == Typed /\ OrderInv /\ StartInv /\ NullInv

------------------------------------------------------------------------------
(***************************************************************************)
(* The messages of a task.                                                 *)
(***************************************************************************)

\* Main is not one of the tasks, and has something to publish.
LEMMA Cast ==
  /\ Boot \in All /\ Tasks \subseteq All /\ Boot \notin Tasks
  /\ \A t \in All : t \in Tasks \/ t = Boot
  /\ Definitions \in Nat /\ Definitions # 0
BY ConnectorAssumption DEF All, Tasks

\* The messages of the tasks are those they numbered, those of main the
\* definitions.
LEMMA MadeFacts ==
  ASSUME Typed
  PROVE  /\ Made \in [All -> Nat] /\ Made[Boot] = Definitions
         /\ \A t \in Tasks : Made[t] = seq[t] /\ seq[t] \in Nat
<1>1. \A t \in All : t # Boot => t \in Tasks
  BY Cast
<1> QED BY <1>1, Cast DEF Typed, Made

\* Offering the first message keeps the order of those behind it.
LEMMA TailKeeps ==
  ASSUME NEW s \in Seq(Nat), s # <<>>, Ascending(s)
  PROVE  /\ Tail(s) \in Seq(Nat) /\ Ascending(Tail(s)) /\ Head(s) \in Nat
         /\ Len(Tail(s)) = Len(s) - 1
         /\ \A n : Below(s, n) => Below(Tail(s), n) /\ Head(s) < n
         /\ \A i \in 1..Len(Tail(s)) : i + 1 \in 1..Len(s) /\ Tail(s)[i] = s[i + 1]
         /\ \A i \in 1..Len(Tail(s)) : Head(s) < Tail(s)[i]
<1> DEFINE t == Tail(s)
<1>1. Len(s) \in Nat /\ Len(s) >= 1 /\ Head(s) = s[1] /\ Head(s) \in Nat /\ 1 \in 1..Len(s)
  OBVIOUS
<1>2. t \in Seq(Nat) /\ Len(t) = Len(s) - 1 /\ \A i \in 1..(Len(s) - 1) : t[i] = s[i + 1]
  BY <1>1
<1> HIDE DEF t
<1>3. \A i \in 1..Len(t) : i + 1 \in 1..Len(s) /\ t[i] = s[i + 1]
  BY <1>1, <1>2
<1>4. Ascending(t)
  <2> SUFFICES ASSUME NEW i \in 1..Len(t), NEW j \in 1..Len(t), i < j PROVE t[i] < t[j]
    BY DEF Ascending
  <2>1. i + 1 \in 1..Len(s) /\ j + 1 \in 1..Len(s) /\ i + 1 < j + 1
    BY <1>3, <1>2
  <2>2. s[i + 1] < s[j + 1]
    BY <2>1 DEF Ascending
  <2> QED BY <2>2, <1>3
<1>5. \A i \in 1..Len(t) : Head(s) < t[i]
  <2> SUFFICES ASSUME NEW i \in 1..Len(t) PROVE s[1] < s[i + 1]
    BY <1>1, <1>3
  <2>1. i + 1 \in 1..Len(s) /\ 1 < i + 1
    BY <1>1, <1>3, <1>2
  <2> QED BY <2>1, <1>1 DEF Ascending
<1>6. \A n : Below(s, n) => Below(t, n) /\ Head(s) < n
  BY <1>1, <1>3 DEF Below
<1> QED BY <1>1, <1>2, <1>3, <1>4, <1>5, <1>6 DEF t

\* What is accepted after everything before it stands in order.
LEMMA AppendKeeps ==
  ASSUME NEW s \in Seq(Nat), NEW n \in Nat, Ascending(s), Below(s, n)
  PROVE  /\ Append(s, n) \in Seq(Nat) /\ Ascending(Append(s, n))
         /\ \A k \in Nat : n < k => Below(Append(s, n), k)
<1> DEFINE a == Append(s, n)
<1>1. /\ a \in Seq(Nat) /\ Len(s) \in Nat /\ Len(a) = Len(s) + 1 /\ a[Len(s) + 1] = n
      /\ \A i \in 1..Len(s) : a[i] = s[i] /\ s[i] \in Nat
  OBVIOUS
<1> HIDE DEF a
<1>2. \A i \in 1..Len(a) : i \in 1..Len(s) \/ i = Len(s) + 1
  BY <1>1
<1>3. \A i \in 1..Len(s) : a[i] < n
  BY <1>1 DEF Below
<1>4. ASSUME NEW i \in 1..Len(a), NEW j \in 1..Len(a), i < j PROVE a[i] < a[j]
  <2>1. i \in 1..Len(s)
    BY <1>1, <1>4
  <2>2. CASE j \in 1..Len(s)
    BY <2>1, <2>2, <1>1, <1>4 DEF Ascending
  <2>3. CASE j = Len(s) + 1
    BY <2>1, <2>3, <1>1, <1>3
  <2> QED BY <2>2, <2>3, <1>2
<1>5. ASSUME NEW k \in Nat, n < k PROVE Below(a, k)
  <2> SUFFICES ASSUME NEW i \in 1..Len(a) PROVE a[i] < k
    BY DEF Below
  <2> QED BY <1>1, <1>2, <1>3, <1>5
<1> QED BY <1>1, <1>4, <1>5 DEF Ascending, a

\* Numbers taken one after the other.
LEMMA NumbersKeep ==
  ASSUME NEW n \in Nat, NEW b \in Nat
  PROVE  LET s == [k \in 1..n |-> b + k - 1] IN
         /\ s \in Seq(Nat) /\ Len(s) = n /\ Ascending(s) /\ Below(s, b + n)
         /\ \A i \in 1..Len(s) : b <= s[i]
<1> DEFINE s == [k \in 1..n |-> b + k - 1]
<1>1. s \in Seq(Nat) /\ Len(s) = n /\ \A i \in 1..n : s[i] = b + i - 1
  OBVIOUS
<1> HIDE DEF s
<1>2. Ascending(s) /\ Below(s, b + n)
  BY <1>1 DEF Ascending, Below
<1>3. \A i \in 1..Len(s) : b <= s[i]
  BY <1>1
<1> QED BY <1>1, <1>2, <1>3 DEF s

------------------------------------------------------------------------------
(***************************************************************************)
(* Types and order.                                                        *)
(***************************************************************************)

messages == <<seq, todo, delivered>>

\* Steps that move no message.
Elsewhere(t) ==
  \/ Built(t) \/ BuildFailed(t) \/ RetryElapsed(t) \/ BuildInterrupted(t)
  \/ Reconnected(t) \/ ClientCloses(t) \/ TaskStops(t)

\* A step of a task that moves no message keeps types and order.
LEMMA ElsewhereOrder ==
  ASSUME Inv, NEW t \in All, Elsewhere(t)
  PROVE  Typed' /\ OrderInv'
<1>1. UNCHANGED messages
  BY DEF Elsewhere, messages, Built, BuildFailed, RetryElapsed, BuildInterrupted, Reconnected,
         ClientCloses, TaskStops
<1>2. pc \in [All -> Places] /\ pub \in [All -> Pubs]
  BY DEF Inv, Typed
<1>3. pub' = pub \/ \E q \in Pubs : pub' = [pub EXCEPT ![t] = q]
  BY DEF Elsewhere, Pubs, Built, BuildFailed, RetryElapsed, BuildInterrupted, Reconnected,
         ClientCloses, TaskStops
<1>4. \/ pc' = pc \/ \E where \in Places : pc' = [pc EXCEPT ![t] = where]
      \/ pc' = [u \in All |-> IF u = Boot THEN "stopped" ELSE "building"]
  BY DEF Elsewhere, Places, Waits, Goto, Built, BuildFailed, RetryElapsed, BuildInterrupted, Reconnected,
         ClientCloses, TaskStops
<1>5. pc' \in [All -> Places] /\ pub' \in [All -> Pubs]
  <2>1. "stopped" \in Places /\ "building" \in Places
    BY DEF Places, Waits
  <2> QED BY <1>2, <1>3, <1>4, <2>1
<1> QED BY <1>1, <1>5 DEF Inv, Typed, OrderInv, Made, messages

\* The driver, the signal and main move no message.
LEMMA WorldOrder ==
  ASSUME Inv, DriverDies \/ DriverRestarts \/ CtrlC \/ Stop
  PROVE  Typed' /\ OrderInv' /\ UNCHANGED <<pc, messages>>
<1>1. UNCHANGED <<pc, messages>>
  BY DEF DriverDies, DriverRestarts, CtrlC, Stop, SignalSeen, Drained, DrainTimeout, messages
<1>2. pub' \in [All -> Pubs]
  <2>1. pub' = pub \/ pub' = [t \in All |-> IF pub[t] = "open" THEN "orphan" ELSE pub[t]]
    BY DEF DriverDies, DriverRestarts, CtrlC, Stop, SignalSeen, Drained, DrainTimeout
  <2> QED BY <2>1 DEF Inv, Typed, Pubs
<1> QED BY <1>1, <1>2 DEF Inv, Typed, OrderInv, Made, messages

\* Numbers taken for a frame are above all that was delivered.
LEMMA FrameOrder ==
  ASSUME Inv, NEW t \in Tasks, NEW n \in 1..2, Frame(t, n)
  PROVE  Typed' /\ OrderInv' /\ todo'[t] # <<>>
<1> DEFINE s == [k \in 1..n |-> seq[t] + k - 1]
<1>1. /\ t \in All /\ n \in Nat /\ n >= 1 /\ seq[t] \in Nat
      /\ delivered[t] \in Seq(Nat) /\ Below(delivered[t], seq[t])
  BY Cast, MadeFacts DEF Inv, Typed, OrderInv
<1>2. /\ seq' = [seq EXCEPT ![t] = seq[t] + n] /\ todo' = [todo EXCEPT ![t] = s]
      /\ pc' = [pc EXCEPT ![t] = "publishing"] /\ UNCHANGED pub /\ UNCHANGED delivered
  BY DEF Frame, Goto
<1>3. s \in Seq(Nat) /\ Len(s) = n /\ Ascending(s) /\ Below(s, seq[t] + n)
      /\ \A i \in 1..Len(s) : seq[t] <= s[i] /\ s[i] \in Nat
  <2> DEFINE m == seq[t]
  <2>1. m \in Nat /\ n \in Nat /\ s = [k \in 1..n |-> m + k - 1]
    BY <1>1
  <2> HIDE DEF m, s
  <2>2. /\ s \in Seq(Nat) /\ Len(s) = n /\ Ascending(s) /\ Below(s, m + n)
        /\ \A i \in 1..Len(s) : m <= s[i]
    <3>1. LET q == [k \in 1..n |-> m + k - 1] IN
          /\ q \in Seq(Nat) /\ Len(q) = n /\ Ascending(q) /\ Below(q, m + n)
          /\ \A i \in 1..Len(q) : m <= q[i]
      BY <2>1, NumbersKeep, Zenon
    <3> QED BY <2>1, <3>1, Zenon
  <2>3. \A i \in 1..Len(s) : s[i] \in Nat
    BY <2>2
  <2> QED BY <2>2, <2>3 DEF m
<1> HIDE DEF s
<1>4. Typed'
  <2>1. "publishing" \in Places /\ seq[t] + n \in Nat
    BY <1>1 DEF Places
  <2> QED BY <1>1, <1>2, <1>3, <2>1 DEF Inv, Typed
<1>5. todo'[t] = s /\ Made'[t] = seq[t] + n
      /\ \A u \in All : u # t => todo'[u] = todo[u] /\ Made'[u] = Made[u]
  <2>1. todo'[t] = s /\ \A u \in All : u # t => todo'[u] = todo[u]
    BY <1>1, <1>2 DEF Inv, Typed
  <2>2. seq'[t] = seq[t] + n /\ \A u \in Tasks : u # t => seq'[u] = seq[u]
    BY <1>2 DEF Inv, Typed
  <2> QED BY <1>1, <2>1, <2>2, Cast DEF Made
<1>6. Below(delivered[t], seq[t] + n) /\ \A i \in 1..Len(s) : Below(delivered[t], s[i])
  <2>1. \A i \in 1..Len(delivered[t]) : delivered[t][i] \in Nat /\ delivered[t][i] < seq[t]
    BY <1>1 DEF Below
  <2>2. Below(delivered[t], seq[t] + n)
    <3>1. seq[t] \in Nat /\ n \in Nat
      BY <1>1
    <3> QED BY <2>1, <3>1 DEF Below
  <2>3. ASSUME NEW i \in 1..Len(s) PROVE Below(delivered[t], s[i])
    <3>1. seq[t] <= s[i] /\ s[i] \in Nat
      BY <1>3
    <3>2. seq[t] \in Nat
      BY <1>1
    <3> QED BY <2>1, <3>1, <3>2 DEF Below
  <2> QED BY <2>2, <2>3
<1>7. OrderInv'
  <2> SUFFICES ASSUME NEW u \in All
               PROVE  /\ Ascending(delivered[u]) /\ Ascending(todo'[u])
                      /\ Below(delivered[u], Made'[u]) /\ Below(todo'[u], Made'[u])
                      /\ \A i \in 1..Len(todo'[u]) : Below(delivered[u], todo'[u][i])
    BY <1>2 DEF OrderInv
  <2>1. CASE u = t
    BY <2>1, <1>3, <1>5, <1>6 DEF Inv, OrderInv
  <2>2. CASE u # t
    <3>1. todo'[u] = todo[u] /\ Made'[u] = Made[u]
      BY <2>2, <1>5
    <3> QED BY <3>1 DEF Inv, OrderInv
  <2> QED BY <2>1, <2>2
<1>8. s # <<>>
  BY <1>1, <1>3
<1> QED BY <1>4, <1>5, <1>7, <1>8

\* A number that is lost in the normalizer leaves a gap and no disorder.
LEMMA SpoiledOrder ==
  ASSUME Inv, NEW t \in Tasks, FrameSpoiled(t)
  PROVE  Typed' /\ OrderInv'
<1>1. /\ t \in All /\ seq[t] \in Nat /\ seq' = [seq EXCEPT ![t] = seq[t] + 1]
      /\ UNCHANGED <<pc, pub, todo, delivered>>
  BY Cast DEF Inv, Typed, FrameSpoiled
<1>2. Typed'
  BY <1>1 DEF Inv, Typed
<1>3. \A u \in All : Made'[u] \in Nat /\ Made[u] \in Nat /\ Made[u] <= Made'[u]
  <2>1. \A u \in Tasks : seq[u] \in Nat /\ seq'[u] \in Nat /\ seq[u] <= seq'[u]
    BY <1>1 DEF Inv, Typed
  <2>2. /\ Made[Boot] = Definitions /\ Made'[Boot] = Definitions
        /\ \A u \in Tasks : Made[u] = seq[u] /\ Made'[u] = seq'[u]
    BY Cast DEF Made
  <2> QED BY <2>1, <2>2, Cast
<1>4. ASSUME NEW u \in All, NEW w \in Seq(Nat), Below(w, Made[u]) PROVE Below(w, Made'[u])
  <2>1. \A i \in 1..Len(w) : w[i] \in Nat
    OBVIOUS
  <2> QED BY <2>1, <1>3, <1>4 DEF Below
<1>5. OrderInv'
  BY <1>1, <1>4 DEF Inv, Typed, OrderInv
<1> QED BY <1>2, <1>5

\* A message that is accepted goes behind those delivered, one that is refused
\* or finds the publication closed is given up; the rest keeps its order.
LEMMA PublishOrder ==
  ASSUME Inv, NEW t \in All, Publish(t)
  PROVE  /\ Typed' /\ OrderInv'
         /\ todo' = [todo EXCEPT ![t] = Tail(@)] /\ UNCHANGED <<pub, shutdown>>
         /\ \A u \in All : u # t => delivered'[u] = delivered[u]
<1> DEFINE h == Head(todo[t])
<1>1. /\ todo' = [todo EXCEPT ![t] = Tail(todo[t])] /\ UNCHANGED <<pub, seq, shutdown>>
      /\ delivered' = delivered \/ delivered' = [delivered EXCEPT ![t] = Append(delivered[t], h)]
  BY DEF Publish, Unencoded, Offered, Refused, OfferedClosed, Offering
<1>2. todo[t] # <<>> /\ todo[t] \in Seq(Nat) /\ Ascending(todo[t]) /\ delivered[t] \in Seq(Nat)
      /\ Made[t] \in Nat /\ Below(todo[t], Made[t])
  BY MadeFacts DEF Inv, Typed, OrderInv, StartInv, Publish, Unencoded, Offered, Refused, OfferedClosed, Offering
<1>3. /\ Tail(todo[t]) \in Seq(Nat) /\ Ascending(Tail(todo[t])) /\ h \in Nat /\ h < Made[t]
      /\ Below(Tail(todo[t]), Made[t])
      /\ \A i \in 1..Len(Tail(todo[t])) : i + 1 \in 1..Len(todo[t]) /\ Tail(todo[t])[i] = todo[t][i + 1]
      /\ \A i \in 1..Len(Tail(todo[t])) : h < Tail(todo[t])[i] /\ Tail(todo[t])[i] \in Nat
  BY <1>2, TailKeeps
<1>4. Below(delivered[t], h)
  <2>1. 1 \in 1..Len(todo[t]) /\ h = todo[t][1]
    BY <1>2
  <2> QED BY <2>1 DEF Inv, OrderInv
<1>5. /\ Append(delivered[t], h) \in Seq(Nat) /\ Ascending(Append(delivered[t], h))
      /\ \A k \in Nat : h < k => Below(Append(delivered[t], h), k)
  <2>1. Ascending(delivered[t])
    BY DEF Inv, OrderInv
  <2> QED BY <2>1, <1>2, <1>3, <1>4, AppendKeeps
<1> HIDE DEF h
<1>6. pc' \in [All -> Places]
  <2>1. \/ pc' = pc \/ \E where \in Places : pc' = [pc EXCEPT ![t] = where]
        \/ pc' = [u \in All |-> IF u = Boot THEN "stopped" ELSE "building"]
    BY DEF Publish, Unencoded, Offered, Refused, OfferedClosed, AfterOffer, Goto, Places, Waits
  <2>2. "stopped" \in Places /\ "building" \in Places /\ pc \in [All -> Places]
    BY DEF Inv, Typed, Places, Waits
  <2> QED BY <2>1, <2>2
<1>7. delivered' \in [All -> Seq(Nat)]
  BY <1>1, <1>5 DEF Inv, Typed
<1>8. Typed'
  BY <1>1, <1>3, <1>6, <1>7 DEF Inv, Typed
<1>9. todo'[t] = Tail(todo[t])
      /\ (delivered'[t] = delivered[t] \/ delivered'[t] = Append(delivered[t], h))
      /\ \A u \in All : u # t => todo'[u] = todo[u] /\ delivered'[u] = delivered[u]
  BY <1>1 DEF Inv, Typed
<1>10. /\ Ascending(delivered'[t]) /\ Below(delivered'[t], Made[t])
       /\ \A i \in 1..Len(todo'[t]) : Below(delivered'[t], todo'[t][i])
  <2>1. CASE delivered'[t] = delivered[t]
    BY <2>1, <1>3, <1>9 DEF Inv, OrderInv
  <2>2. CASE delivered'[t] = Append(delivered[t], h)
    BY <2>2, <1>2, <1>3, <1>5, <1>9
  <2> QED BY <2>1, <2>2, <1>9
<1>11. OrderInv'
  <2> SUFFICES ASSUME NEW u \in All
               PROVE  /\ Ascending(delivered'[u]) /\ Ascending(todo'[u])
                      /\ Below(delivered'[u], Made[u]) /\ Below(todo'[u], Made[u])
                      /\ \A i \in 1..Len(todo'[u]) : Below(delivered'[u], todo'[u][i])
    BY <1>1 DEF OrderInv, Made
  <2>1. CASE u = t
    BY <2>1, <1>3, <1>9, <1>10
  <2>2. CASE u # t
    BY <2>2, <1>9 DEF Inv, OrderInv
  <2> QED BY <2>1, <2>2
<1> QED BY <1>1, <1>8, <1>9, <1>11

------------------------------------------------------------------------------
(***************************************************************************)
(* The start, and the null publisher.                                      *)
(***************************************************************************)

\* A step of one task, as far as the start is concerned: the others stay where
\* they are, but for the end of main's publication, which starts them all.
LEMMA OneMoves ==
  ASSUME Inv, NEW t \in All, Elsewhere(t) \/ Publish(t)
  PROVE  /\ shutdown' = shutdown
         /\ pub' = [pub EXCEPT ![t] = pub'[t]]
         /\ \/ pc' = [pc EXCEPT ![t] = pc'[t]] /\ main' = main
            \/ /\ t = Boot /\ pc[Boot] \in {"publishing", "reconnecting"}
               /\ pc' = [u \in All |-> IF u = Boot THEN "stopped" ELSE "building"]
               /\ main' = "serving"
<1>1. pc \in [All -> Places] /\ pub \in [All -> Pubs]
  BY DEF Inv, Typed
<1>2. shutdown' = shutdown
  BY DEF Elsewhere, BuildFailed, RetryElapsed, BuildInterrupted, Reconnected, ClientCloses,
         TaskStops, Built, Publish, Unencoded, Offered, Refused, OfferedClosed, Offering, process
<1>3. pub' = pub \/ \E q \in Pubs : pub' = [pub EXCEPT ![t] = q]
  BY DEF Elsewhere, BuildFailed, RetryElapsed, BuildInterrupted, Reconnected, ClientCloses,
         TaskStops, Built, Publish, Unencoded, Offered, Refused, OfferedClosed, Offering, Pubs
<1>4. pub' = [pub EXCEPT ![t] = pub'[t]]
  BY <1>1, <1>3
<1>5. \/ main' = main /\ (pc' = pc \/ \E where \in Places : pc' = [pc EXCEPT ![t] = where])
      \/ /\ t = Boot /\ pc[Boot] \in {"publishing", "reconnecting"}
         /\ pc' = [u \in All |-> IF u = Boot THEN "stopped" ELSE "building"]
         /\ main' = "serving"
  BY DEF Elsewhere, BuildFailed, RetryElapsed, BuildInterrupted, Reconnected, ClientCloses, TaskStops,
         Built, Publish, Unencoded, Offered, Refused, OfferedClosed, Offering, AfterOffer, Goto, Places, Waits,
         process
<1>6. main' = main /\ (pc' = pc \/ \E where \in Places : pc' = [pc EXCEPT ![t] = where])
      => pc' = [pc EXCEPT ![t] = pc'[t]]
  BY <1>1
<1> QED BY <1>2, <1>4, <1>5, <1>6

\* A step of one task keeps what is said of the start and of null publishers.
LEMMA OneStart ==
  ASSUME Inv, NEW t \in All, Elsewhere(t) \/ Publish(t)
  PROVE  StartInv' /\ NullInv'
<1>1. pc \in [All -> Places] /\ pub \in [All -> Pubs] /\ todo \in [All -> Seq(Nat)]
      /\ delivered \in [All -> Seq(Nat)]
  BY DEF Inv, Typed
<1>2. /\ pc[t] \in Waits => IF t = Boot THEN todo[t] # <<>> /\ ~shutdown ELSE todo[t] = <<>>
      /\ pc[t] = "publishing" => todo[t] # <<>>
      /\ pub[t] = "null" => shutdown /\ todo[t] = <<>> /\ pc[t] \in {"running", "stopped"}
      /\ pc[t] = "reconnecting" => pub[t] = "closed"
  BY Cast DEF Inv, StartInv, NullInv, Waits
<1>3. /\ pc'[t] \in Waits => IF t = Boot THEN todo'[t] # <<>> ELSE todo'[t] = <<>>
      /\ pc'[t] = "publishing" => todo'[t] # <<>>
      /\ pub'[t] = "null" => shutdown /\ todo'[t] = <<>> /\ pc'[t] \in {"running", "stopped"}
      /\ pc'[t] = "reconnecting" => pub'[t] = "closed"
  <2>1. CASE BuildFailed(t)
    BY <1>1, <1>2, <2>1 DEF BuildFailed, Goto, Waits
  <2>2. CASE RetryElapsed(t)
    BY <1>1, <1>2, <2>2 DEF RetryElapsed, Goto, Waits
  <2>3. CASE BuildInterrupted(t)
    BY <1>1, <1>2, <2>3 DEF BuildInterrupted, Goto, Waits
  <2>4. CASE Reconnected(t)
    BY <1>1, <1>2, <2>4 DEF Reconnected, Goto, Waits
  <2>5. CASE ClientCloses(t)
    BY <1>1, <1>2, <2>5 DEF ClientCloses, Waits
  <2>6. CASE TaskStops(t)
    BY <1>1, <1>2, <2>6 DEF TaskStops, Goto, Waits
  <2>7. CASE Built(t)
    BY <1>1, <1>2, <2>7 DEF Built, Goto, Waits
  <2>8. CASE Publish(t)
    <3>1. pc[t] = "publishing" /\ pub[t] # "null" /\ pub'[t] = pub[t] /\ todo'[t] = Tail(todo[t])
      BY <1>1, <1>2, <2>8 DEF Publish, Unencoded, Offered, Refused, OfferedClosed, Offering
    <3>2. CASE OfferedClosed(t)
      BY <1>1, <3>1, <3>2 DEF OfferedClosed, Goto, Waits
    <3>3. CASE AfterOffer(t) /\ Len(todo[t]) > 1
      <4>1. todo'[t] # <<>>
        <5>1. todo[t] \in Seq(Nat) /\ Len(todo[t]) > 1
          BY <1>1, <3>3
        <5>2. Len(Tail(todo[t])) = Len(todo[t]) - 1 /\ Len(todo[t]) \in Nat
          BY <5>1
        <5>3. \A w : w = <<>> => Len(w) = 0
          OBVIOUS
        <5>4. Len(Tail(todo[t])) # 0
          <6>1. \A n \in Nat : n > 1 => n - 1 # 0
            OBVIOUS
          <6> QED BY <5>1, <5>2, <6>1, Zenon
        <5> QED BY <3>1, <5>3, <5>4
      <4> QED BY <3>1, <3>3, <4>1 DEF AfterOffer, Waits
    <3>4. CASE AfterOffer(t) /\ ~(Len(todo[t]) > 1)
      BY <1>1, <3>1, <3>4 DEF AfterOffer, Goto, Waits
    <3> QED BY <2>8, <3>2, <3>3, <3>4 DEF Publish, Unencoded, Offered, Refused
  <2> QED BY <2>1, <2>2, <2>3, <2>4, <2>5, <2>6, <2>7, <2>8 DEF Elsewhere
<1>4. \A u \in All : u # t => todo'[u] = todo[u] /\ delivered'[u] = delivered[u] /\ pub'[u] = pub[u]
  <2>1. \A u \in All : u # t => todo'[u] = todo[u] /\ delivered'[u] = delivered[u]
    BY <1>1 DEF Elsewhere, BuildFailed, RetryElapsed, BuildInterrupted, Reconnected, ClientCloses,
         TaskStops, Built, Publish, Unencoded, Offered, Refused, OfferedClosed, Offering
  <2> QED BY <1>1, <2>1, OneMoves
<1>5. CASE pc' = [pc EXCEPT ![t] = pc'[t]] /\ main' = main
  <2>1. \A u \in All : u # t => pc'[u] = pc[u]
    BY <1>1, <1>5
  <2>2. /\ \A u \in Tasks : pc'[u] \in Waits => todo'[u] = <<>>
        /\ pc'[Boot] \in Waits => todo'[Boot] # <<>>
        /\ \A u \in All : pc'[u] = "publishing" => todo'[u] # <<>>
    BY <1>3, <1>4, <2>1, Cast DEF Inv, StartInv
  <2>3. NullInv'
    BY <1>3, <1>4, <2>1, OneMoves DEF Inv, NullInv
  <2>4. ASSUME pc'[Boot] # "stopped"
        PROVE  /\ pc'[Boot] \in {"building", "retryWait", "publishing", "reconnecting"}
               /\ main' \in {"starting", "exited"} /\ ~shutdown'
               /\ \A u \in Tasks : pc'[u] = "unborn"
    <3>1. CASE t = Boot
      <4>1. pc[Boot] \in {"building", "retryWait", "publishing", "reconnecting"} => pc'[Boot] # "running"
        <5> SUFFICES ASSUME pc[Boot] \in {"building", "retryWait", "publishing", "reconnecting"},
                            pc'[Boot] = "running"
                     PROVE  FALSE
          OBVIOUS
        <5>1. ~shutdown
          BY DEF Inv, StartInv
        <5> QED BY <1>1, <3>1, <5>1, Cast DEF Elsewhere, BuildFailed, RetryElapsed, BuildInterrupted,
                   Reconnected, ClientCloses, TaskStops, Built, Publish, Unencoded, Offered, Refused, OfferedClosed,
                   Offering, AfterOffer, Goto
      <4>2. pc[Boot] # "stopped" /\ pc'[Boot] # "unborn"
        BY <1>1, <2>4, <3>1, Cast DEF Elsewhere, BuildFailed, RetryElapsed, BuildInterrupted,
                   Reconnected, ClientCloses, TaskStops, Built, Publish, Unencoded, Offered, Refused, OfferedClosed,
                   Offering, AfterOffer, Goto, Inv, StartInv
      <4>3. /\ pc[Boot] \in {"building", "retryWait", "publishing", "reconnecting"}
            /\ main \in {"starting", "exited"} /\ ~shutdown
            /\ \A u \in Tasks : pc[u] = "unborn"
        BY <4>2 DEF Inv, StartInv
      <4>4. pc'[Boot] \in Places
        BY <2>4, <4>1, <4>3, Cast, ElsewhereOrder, PublishOrder DEF Typed
      <4> QED BY <1>5, <2>1, <2>4, <3>1, <4>1, <4>2, <4>3, <4>4, Cast, OneMoves DEF Places, Waits
    <3>2. CASE t # Boot
      <4>1. pc'[Boot] = pc[Boot]
        BY <2>1, <3>2, Cast
      <4>2. /\ pc[Boot] \in {"building", "retryWait", "publishing", "reconnecting"}
            /\ main \in {"starting", "exited"} /\ ~shutdown
            /\ \A u \in Tasks : pc[u] = "unborn"
        BY <2>4, <4>1 DEF Inv, StartInv
      <4>3. pc[t] = "unborn" /\ pc'[t] = "unborn"
        <5>1. pc[t] = "unborn"
          BY <3>2, <4>2, Cast
        <5> QED BY <5>1, <1>1 DEF Elsewhere, BuildFailed, RetryElapsed, BuildInterrupted,
                   Reconnected, ClientCloses, TaskStops, Built, Publish, Unencoded, Offered, Refused, OfferedClosed,
                   Offering
      <4> QED BY <1>5, <2>1, <4>1, <4>2, <4>3, Cast, OneMoves
    <3> QED BY <3>1, <3>2
  <2> QED BY <2>2, <2>3, <2>4 DEF StartInv
<1>6. CASE /\ t = Boot /\ pc[Boot] \in {"publishing", "reconnecting"}
           /\ pc' = [u \in All |-> IF u = Boot THEN "stopped" ELSE "building"]
  <2>1. \A u \in Tasks : pc[u] = "unborn"
    BY <1>6 DEF Inv, StartInv
  <2>2. pc'[Boot] = "stopped" /\ \A u \in Tasks : pc'[u] = "building"
    BY <1>6, Cast
  <2>3. \A u \in Tasks : todo'[u] = <<>> /\ pub'[u] = pub[u] /\ pub[u] # "null"
    BY <2>1, <1>4, <1>6, Cast DEF Inv, StartInv, NullInv, Waits
  <2>4. StartInv'
    BY <2>2, <2>3, Cast DEF StartInv, Waits
  <2>5. shutdown' = shutdown
    BY OneMoves
  <2>6. NullInv'
    <3> SUFFICES ASSUME NEW u \in All
                 PROVE  /\ pub'[u] = "null" => shutdown /\ todo'[u] = <<>>
                                               /\ pc'[u] \in {"running", "stopped"}
                        /\ pc'[u] = "reconnecting" => pub'[u] = "closed"
      BY <2>5 DEF NullInv
    <3>1. CASE u = t
      BY <1>3, <3>1
    <3>2. CASE u \in Tasks
      BY <2>2, <2>3, <3>2
    <3> QED BY <1>6, <3>1, <3>2, Cast
  <2> QED BY <2>4, <2>6
<1> QED BY <1>5, <1>6, OneMoves

\* What tasks, the driver, the signal and main do otherwise.
LEMMA OthersStart ==
  ASSUME Inv,
         \/ \E t \in Tasks : \E n \in 1..2 : Frame(t, n)
         \/ \E t \in Tasks : FrameSpoiled(t)
         \/ DriverDies \/ DriverRestarts \/ CtrlC \/ Stop
  PROVE  StartInv' /\ NullInv'
<1>1. pc \in [All -> Places] /\ pub \in [All -> Pubs] /\ todo \in [All -> Seq(Nat)]
  BY DEF Inv, Typed
<1>2. ASSUME NEW t \in Tasks, NEW n \in 1..2, Frame(t, n)
      PROVE  StartInv' /\ NullInv'
  <2>1. /\ pc[t] = "running" /\ ~shutdown /\ pc' = [pc EXCEPT ![t] = "publishing"]
        /\ UNCHANGED pub /\ UNCHANGED <<main, shutdown>> /\ UNCHANGED delivered
        /\ t \in All /\ t # Boot
    BY <1>2, Cast DEF Frame, Goto, process
  <2>2. todo'[t] # <<>> /\ \A u \in All : u # t => todo'[u] = todo[u]
    <3>1. \A u \in All : u # t => todo'[u] = todo[u]
      BY <1>1, <1>2 DEF Frame
    <3> QED BY <1>2, <3>1, FrameOrder
  <2>3. pc'[t] = "publishing" /\ \A u \in All : u # t => pc'[u] = pc[u]
    BY <1>1, <2>1
  <2>4. pc[Boot] = "stopped" /\ pc'[Boot] = "stopped"
    BY <1>2, <2>1, <2>3, Cast DEF Inv, StartInv
  <2>5. pub[t] # "null"
    BY <2>1 DEF Inv, NullInv
  <2>6. StartInv'
    BY <2>2, <2>3, <2>4, Cast DEF Inv, StartInv, Waits
  <2>7. NullInv'
    BY <2>1, <2>2, <2>3, <2>5 DEF Inv, NullInv
  <2> QED BY <2>6, <2>7
<1>3. ASSUME NEW t \in Tasks, FrameSpoiled(t)
      PROVE  StartInv' /\ NullInv'
  BY <1>3 DEF FrameSpoiled, Inv, StartInv, NullInv, process
<1>4. CASE DriverDies
  <2>1. UNCHANGED <<pc, todo, delivered, main, shutdown>>
        /\ pub' = [t \in All |-> IF pub[t] = "open" THEN "orphan" ELSE pub[t]]
    BY <1>4 DEF DriverDies, process
  <2>2. \A t \in All : (pub'[t] = "null" <=> pub[t] = "null")
                       /\ (pub[t] = "closed" => pub'[t] = "closed")
    BY <1>1, <2>1
  <2> QED BY <2>1, <2>2 DEF Inv, StartInv, NullInv
<1>5. CASE DriverRestarts
  BY <1>5 DEF DriverRestarts, process, Inv, StartInv, NullInv
<1>6. CASE CtrlC
  BY <1>6 DEF CtrlC, Inv, StartInv, NullInv
<1>7. CASE Stop
  <2>1. UNCHANGED <<pc, pub, todo, delivered>> /\ (shutdown => shutdown')
        /\ main \in {"serving", "draining"}
    BY <1>7 DEF Stop, SignalSeen, Drained, DrainTimeout
  <2>2. pc[Boot] = "stopped"
    BY <2>1 DEF Inv, StartInv
  <2> QED BY <2>1, <2>2 DEF Inv, StartInv, NullInv
<1> QED BY <1>2, <1>3, <1>4, <1>5, <1>6, <1>7

------------------------------------------------------------------------------
\* main, with its publication still to make.
LEMMA InitInv == Init => Inv
<1> SUFFICES ASSUME Init PROVE Inv
  OBVIOUS
<1> DEFINE s == [k \in 1..Definitions |-> 0 + k - 1]
<1>1. /\ s \in Seq(Nat) /\ Len(s) = Definitions /\ Ascending(s) /\ Below(s, Definitions)
      /\ s = [k \in 1..Definitions |-> k - 1] /\ s # <<>>
  <2>1. Definitions \in Nat /\ Definitions # 0 /\ 0 \in Nat /\ 0 + Definitions = Definitions
    BY Cast
  <2>2. s = [k \in 1..Definitions |-> k - 1]
    BY <2>1
  <2>3. s \in Seq(Nat) /\ Len(s) = Definitions /\ Ascending(s) /\ Below(s, 0 + Definitions)
    BY <2>1, NumbersKeep
  <2> HIDE DEF s
  <2>4. \A w : w = <<>> => Len(w) = 0
    OBVIOUS
  <2> QED BY <2>1, <2>2, <2>3, <2>4
<1> HIDE DEF s
<1>2. todo = [t \in All |-> IF t = Boot THEN s ELSE <<>>]
  BY <1>1 DEF Init
<1>3. Typed
  <2>1. todo \in [All -> Seq(Nat)]
    <3>1. s \in Seq(Nat) /\ <<>> \in Seq(Nat)
      BY <1>1
    <3> QED BY <1>2, <3>1, Zenon
  <2> QED BY <2>1 DEF Init, Typed, Places, Waits, Pubs
<1>4. \A t \in All : delivered[t] = <<>> /\ pub[t] = "none" /\ Len(delivered[t]) = 0
  BY DEF Init
<1>5. OrderInv
  <2>1. \A t \in Tasks : todo[t] = <<>> /\ Len(todo[t]) = 0
    BY <1>2, Cast
  <2>2. todo[Boot] = s /\ Made[Boot] = Definitions
    BY <1>2, <1>3, Cast, MadeFacts
  <2> QED BY <1>1, <1>4, <2>1, <2>2, Cast DEF OrderInv, Ascending, Below
<1>6. pc[Boot] = "building" /\ (\A t \in Tasks : pc[t] = "unborn") /\ main = "starting" /\ ~shutdown
  BY Cast DEF Init
<1>7. StartInv /\ NullInv
  BY <1>1, <1>2, <1>4, <1>6, Cast DEF StartInv, NullInv, Waits
<1> QED BY <1>3, <1>5, <1>7 DEF Inv

\* Every step.
LEMMA NextInv == Inv /\ [Next]_vars => Inv'
<1> SUFFICES ASSUME Inv, [Next]_vars PROVE Inv'
  OBVIOUS
<1>1. ASSUME NEW t \in All, Elsewhere(t) \/ Publish(t) PROVE Inv'
  BY <1>1, ElsewhereOrder, PublishOrder, OneStart DEF Inv
<1>2. ASSUME NEW t \in Tasks, NEW n \in 1..2, Frame(t, n) PROVE Inv'
  BY <1>2, FrameOrder, OthersStart DEF Inv
<1>3. ASSUME NEW t \in Tasks, FrameSpoiled(t) PROVE Inv'
  BY <1>3, SpoiledOrder, OthersStart DEF Inv
<1>4. CASE DriverDies \/ DriverRestarts \/ CtrlC \/ Stop
  BY <1>4, WorldOrder, OthersStart DEF Inv
<1>5. CASE UNCHANGED vars
  BY <1>5 DEF vars, Inv, Typed, OrderInv, Made, StartInv, NullInv
<1>6. CASE Next
  <2>1. ASSUME NEW t \in All, Build(t) \/ Publish(t) \/ Reconnected(t) \/ ClientCloses(t)
        PROVE  Elsewhere(t) \/ Publish(t)
    BY <2>1 DEF Build, Elsewhere
  <2>2. ASSUME NEW t \in Tasks, TaskStops(t)
        PROVE  t \in All /\ Elsewhere(t)
    BY <2>2, Cast DEF Elsewhere
  <2> QED BY <1>1, <1>2, <1>3, <1>4, <1>6, <2>1, <2>2 DEF Next
<1> QED BY <1>5, <1>6

\* The invariant of the connector.
THEOREM InvHolds == Spec => []Inv
BY InitInv, NextInv, PTL DEF Spec

\* publish_one offers in the order in which the messages were made, once, and so
\* does the stream receive them, across refusals, closed publications and reconnects.
THEOREM StreamsAreInOrder == Spec => []InOrder
<1>1. Inv => InOrder
  BY DEF Inv, OrderInv, Ascending, InOrder
<1> QED BY <1>1, InvHolds, PTL

\* The null publisher build_aeron_with_retry gives when it is interrupted never
\* gets a message: the shutdown that interrupted it stops its task.
THEOREM NullGetsNothing == Spec => []NothingSwallowed
<1>1. Inv => NothingSwallowed
  BY DEF Inv, NullInv, NothingSwallowed
<1> QED BY <1>1, InvHolds, PTL

------------------------------------------------------------------------------
(***************************************************************************)
(* Sums over the tasks.                                                    *)
(***************************************************************************)

\* As many units of each task of D as its number says.
Units(f, D)  == {p \in D \X Nat : p[2] \in 1..f[p[1]]}
Weight(f, D) == Cardinality(Units(f, D))

\* The tasks are finitely many.
LEMMA AllFinite == IsFiniteSet(All)
<1>1. IsFiniteSet(Tasks)
  BY ConnectorAssumption, FS_AddElement DEF Tasks
<1> QED BY <1>1, FS_AddElement DEF All

\* The units of one task.
LEMMA UnitsOfOne ==
  ASSUME NEW f \in [All -> Nat], NEW t \in All
  PROVE  IsFiniteSet(Units(f, {t})) /\ Cardinality(Units(f, {t})) = f[t]
<1> DEFINE n == f[t]
           K == 1..n
           h == [k \in K |-> <<t, k>>]
<1>1. n \in Nat
  OBVIOUS
<1>2. IsFiniteSet(K) /\ Cardinality(K) = n
  <2>1. 1 \in Int /\ n \in Int
    BY <1>1
  <2> QED BY <1>1, <2>1, FS_Interval
<1>3. h \in Bijection(K, Units(f, {t}))
  <2>1. \A k \in K : h[k] \in Units(f, {t})
    BY <1>1 DEF Units
  <2>2. \A p \in Units(f, {t}) : p[2] \in K /\ h[p[2]] = p
    BY DEF Units
  <2>3. \A j, k \in K : h[j] = h[k] => j = k
    OBVIOUS
  <2> HIDE DEF K
  <2> QED BY <2>1, <2>2, <2>3 DEF Bijection, Injection, Surjection, IsInjective
<1> HIDE DEF K, h, n
<1> QED BY <1>2, <1>3, FS_Bijection, FS_CardinalityType DEF n, ExistsBijection

\* Units are finitely many, and every task adds its own.
LEMMA WeightType ==
  ASSUME NEW f \in [All -> Nat], NEW D \in SUBSET All
  PROVE  IsFiniteSet(Units(f, D)) /\ Weight(f, D) \in Nat
<1>1. IsFiniteSet(D)
  BY AllFinite, FS_Subset
<1> DEFINE F == {Units(f, {t}) : t \in D}
           h == [t \in D |-> Units(f, {t})]
<1>2. IsFiniteSet(F)
  <2>1. h \in Surjection(D, F)
    BY DEF Surjection
  <2> QED BY <1>1, <2>1, FS_Surjection
<1>3. \A S \in F : IsFiniteSet(S)
  BY UnitsOfOne
<1>4. Units(f, D) = UNION F
  BY DEF Units
<1> HIDE DEF F
<1>5. IsFiniteSet(Units(f, D))
  BY <1>2, <1>3, <1>4, FS_UNION
<1> QED BY <1>5, FS_CardinalityType DEF Weight

\* A task more.
LEMMA WeightAdd ==
  ASSUME NEW f \in [All -> Nat], NEW D \in SUBSET All, NEW t \in D
  PROVE  Weight(f, D) = f[t] + Weight(f, D \ {t})
<1> DEFINE A == Units(f, D \ {t})
           B == Units(f, {t})
<1>1. Units(f, D) = A \cup B /\ A \cap B = {}
  BY DEF Units
<1>2. IsFiniteSet(A) /\ Weight(f, D \ {t}) \in Nat
  <2>1. D \ {t} \in SUBSET All
    OBVIOUS
  <2> QED BY <2>1, WeightType
<1>3. IsFiniteSet(B) /\ Cardinality(B) = f[t] /\ f[t] \in Nat
  BY UnitsOfOne
<1>4. Weight(f, D \ {t}) = Cardinality(A) /\ Weight(f, D) = Cardinality(A \cup B)
  BY <1>1 DEF Weight
<1> HIDE DEF A, B, Weight
<1>5. Cardinality(A \cup B) = Cardinality(A) + Cardinality(B) - Cardinality(A \cap B)
  BY <1>2, <1>3, FS_Union
<1>6. Cardinality(A \cap B) = 0
  BY <1>1, FS_EmptySet
<1> QED BY <1>2, <1>3, <1>4, <1>5, <1>6

\* No tasks, no units.
LEMMA WeightOfNone == ASSUME NEW f PROVE Weight(f, {}) = 0
<1>1. Units(f, {}) = {}
  BY DEF Units
<1> QED BY <1>1, FS_EmptySet DEF Weight

\* SumOver folds the tasks in the order CHOOSE picks them; the units have no
\* order.  By induction on the sets of tasks: a smallest one on which the fold
\* were wrong would have a smaller one.
LEMMA SumIsWeight ==
  ASSUME NEW f \in [All -> Nat]
  PROVE  SumOver(f) = Weight(f, All)
<1> DEFINE body(g) == [D \in SUBSET All |->
                         IF D = {} THEN 0
                         ELSE LET x == CHOOSE y \in D : TRUE
                              IN  f[x] + g[D \ {x}]]
           z == [D \in SUBSET All |-> Weight(f, D)]
           iter == CHOOSE g : g = body(g)
<1>1. z = body(z)
  <2>1. \A D \in SUBSET All : z[D] = body(z)[D]
    <3> SUFFICES ASSUME NEW D \in SUBSET All PROVE z[D] = body(z)[D]
      OBVIOUS
    <3>1. CASE D = {}
      BY <3>1, WeightOfNone
    <3>2. CASE D # {}
      <4> DEFINE x == CHOOSE y \in D : TRUE
      <4>1. x \in D /\ D \ {x} \in SUBSET All
        BY <3>2
      <4>2. body(z)[D] = f[x] + z[D \ {x}]
        BY <3>2
      <4> HIDE DEF x, body
      <4> QED BY <4>1, <4>2, WeightAdd
    <3> QED BY <3>1, <3>2
  <2> QED BY <2>1
<1>2. iter = body(iter)
  <2>1. \E g : g = body(g)
    BY <1>1
  <2> HIDE DEF body
  <2> QED BY <2>1
<1> DEFINE Bad == {D \in SUBSET All : iter[D] # Weight(f, D)}
<1>3. Bad = {}
  <2> SUFFICES ASSUME Bad # {} PROVE FALSE
    OBVIOUS
  <2>1. IsWellFoundedOn(StrictSubsetOrdering(All), SUBSET All)
    BY AllFinite, FS_StrictSubsetOrderingWellFounded, FS_FiniteSubsetsOfFinite
  <2>2. Bad \subseteq SUBSET All
    OBVIOUS
  <2>3. PICK D \in Bad : \A E \in Bad : ~ (<<E, D>> \in StrictSubsetOrdering(All))
    <3> HIDE DEF Bad
    <3> QED BY <2>1, <2>2, WFMin
  <2>4. D \in SUBSET All /\ iter[D] # Weight(f, D)
    BY <2>3
  <2>5. iter[D] = body(iter)[D]
    <3> HIDE DEF body, iter
    <3> QED BY <1>2
  <2>6. D # {}
    <3>1. D = {} => body(iter)[D] = 0
      BY <2>4
    <3> HIDE DEF body, iter
    <3> QED BY <3>1, <2>4, <2>5, WeightOfNone
  <2> DEFINE x == CHOOSE y \in D : TRUE
  <2>7. x \in D /\ D \ {x} \in SUBSET All
    BY <2>4, <2>6
  <2>8. body(iter)[D] = f[x] + iter[D \ {x}]
    <3> HIDE DEF iter
    <3> QED BY <2>4, <2>6
  <2>9. <<D \ {x}, D>> \in StrictSubsetOrdering(All)
    BY <2>4, <2>7 DEF StrictSubsetOrdering
  <2>10. iter[D \ {x}] = Weight(f, D \ {x})
    <3> HIDE DEF iter, x
    <3> QED BY <2>3, <2>7, <2>9
  <2> HIDE DEF iter, x, body
  <2> QED BY <2>4, <2>5, <2>7, <2>8, <2>10, WeightAdd
<1>4. SumOver(f) = iter[All]
  BY Zenon DEF SumOver, MapThenSumSet, MapThenFoldSet
<1> HIDE DEF iter
<1> QED BY <1>3, <1>4

\* One task's number changes, and the sum by as much.
LEMMA SumMoves ==
  ASSUME NEW f \in [All -> Nat], NEW g \in [All -> Nat], NEW t \in All,
         \A u \in All : u # t => g[u] = f[u]
  PROVE  SumOver(g) + f[t] = SumOver(f) + g[t] /\ SumOver(f) \in Nat /\ SumOver(g) \in Nat
<1>1. Units(f, All \ {t}) = Units(g, All \ {t})
  BY DEF Units
<1>2. Weight(f, All \ {t}) = Weight(g, All \ {t})
  BY <1>1 DEF Weight
<1>3. All \in SUBSET All /\ All \ {t} \in SUBSET All
  OBVIOUS
<1>4. /\ SumOver(f) = f[t] + Weight(f, All \ {t})
      /\ SumOver(g) = g[t] + Weight(g, All \ {t})
  BY <1>3, SumIsWeight, WeightAdd
<1>5. Weight(f, All \ {t}) \in Nat
  BY <1>3, WeightType
<1> QED BY <1>2, <1>4, <1>5

------------------------------------------------------------------------------
(***************************************************************************)
(* Losses.                                                                 *)
(***************************************************************************)

\* What of a task's messages is on the stream or still to be offered.
Kept == [t \in All |-> Len(delivered[t]) + Len(todo[t])]

\* The books balance, and a task that is not publishing has nothing left to
\* offer.
CountInv ==
  /\ failures \in Nat /\ spoiled \in Nat
  /\ \A t \in All : pc[t] = "running" => todo[t] = <<>>
  /\ LossesCounted

\* A step of one task: the numbers it takes are kept or counted.
LEMMA KeptCounts ==
  ASSUME Made \in [All -> Nat], Made' \in [All -> Nat],
         Kept \in [All -> Nat], Kept' \in [All -> Nat],
         LossesCounted, NEW t \in All,
         failures \in Nat, spoiled \in Nat, failures' \in Nat, spoiled' \in Nat,
         \A u \in All : u # t => Made'[u] = Made[u] /\ Kept'[u] = Kept[u],
         Made'[t] + Kept[t] + failures + spoiled = Made[t] + Kept'[t] + failures' + spoiled'
  PROVE  LossesCounted'
<1>1. SumOver(Made') + Made[t] = SumOver(Made) + Made'[t]
      /\ SumOver(Made) \in Nat /\ SumOver(Made') \in Nat
  BY SumMoves
<1>2. SumOver(Kept') + Kept[t] = SumOver(Kept) + Kept'[t]
      /\ SumOver(Kept) \in Nat /\ SumOver(Kept') \in Nat
  BY SumMoves
<1>3. SumOver(Made) = SumOver(Kept) + failures + spoiled
  BY Zenon DEF LossesCounted, Kept
<1>4. Made[t] \in Nat /\ Made'[t] \in Nat /\ Kept[t] \in Nat /\ Kept'[t] \in Nat
  OBVIOUS
<1>5. SumOver(Made') = SumOver(Kept') + failures' + spoiled'
  <2>1. PICK k \in Nat, k1 \in Nat, s \in Nat, s1 \in Nat :
          k = SumOver(Kept) /\ k1 = SumOver(Kept') /\ s = SumOver(Made) /\ s1 = SumOver(Made')
    BY <1>1, <1>2, Zenon
  <2>2. s1 + Made[t] = s + Made'[t] /\ k1 + Kept[t] = k + Kept'[t] /\ s = k + failures + spoiled
        /\ s \in Nat /\ s1 \in Nat /\ k \in Nat /\ k1 \in Nat
    BY <1>1, <1>2, <1>3, <2>1, Zenon
  <2>3. s1 = k1 + failures' + spoiled'
    <3>1. PICK q \in Nat, q1 \in Nat, w \in Nat, w1 \in Nat :
            q = Made[t] /\ q1 = Made'[t] /\ w = Kept[t] /\ w1 = Kept'[t]
      BY <1>4, Zenon
    <3>2. /\ s1 + q = s + q1 /\ k1 + w = k + w1 /\ s = k + failures + spoiled
          /\ q1 + w + failures + spoiled = q + w1 + failures' + spoiled'
      BY <2>2, <3>1, Zenon
    <3>3. PICK f \in Nat, f1 \in Nat, p \in Nat, p1 \in Nat :
            f = failures /\ f1 = failures' /\ p = spoiled /\ p1 = spoiled'
      OBVIOUS
    <3>4. /\ s1 + q = s + q1 /\ k1 + w = k + w1 /\ s = k + f + p
          /\ q1 + w + f + p = q + w1 + f1 + p1
      BY <3>2, <3>3, Zenon
    <3>5. s1 = k1 + f1 + p1
      BY <3>4
    <3> QED BY <3>3, <3>5, Zenon
  <2> QED BY <2>1, <2>3, Zenon
<1> QED BY <1>5 DEF LossesCounted, Kept

\* The same, for what moves of its messages.
LEMMA OneCounts ==
  ASSUME Typed, Typed', LossesCounted, NEW t \in All,
         failures \in Nat, spoiled \in Nat, failures' \in Nat, spoiled' \in Nat,
         \A u \in All : u # t => /\ Made'[u] = Made[u] /\ todo'[u] = todo[u]
                                 /\ delivered'[u] = delivered[u],
         Made'[t] + (Len(delivered[t]) + Len(todo[t])) + failures + spoiled
           = Made[t] + (Len(delivered'[t]) + Len(todo'[t])) + failures' + spoiled'
  PROVE  LossesCounted'
<1>1. Made \in [All -> Nat] /\ Made' \in [All -> Nat]
  <2>1. Made \in [All -> Nat]
    BY MadeFacts
  <2>2. Made' \in [All -> Nat]
    BY Cast DEF Typed, Made
  <2> QED BY <2>1, <2>2
<1>2. \A u \in All : /\ Len(delivered[u]) \in Nat /\ Len(todo[u]) \in Nat
                     /\ Len(delivered'[u]) \in Nat /\ Len(todo'[u]) \in Nat
  <2>1. \A u \in All : /\ delivered[u] \in Seq(Nat) /\ todo[u] \in Seq(Nat)
                       /\ delivered'[u] \in Seq(Nat) /\ todo'[u] \in Seq(Nat)
    BY DEF Typed
  <2> QED BY <2>1
<1>3. Kept \in [All -> Nat] /\ Kept' \in [All -> Nat]
  <2>1. \A u \in All : /\ Len(delivered[u]) + Len(todo[u]) \in Nat
                       /\ Len(delivered'[u]) + Len(todo'[u]) \in Nat
    <3>1. \A x, y \in Nat : x + y \in Nat
      OBVIOUS
    <3> QED BY <1>2, <3>1, Zenon
  <2> QED BY <2>1, Zenon DEF Kept
<1>4. \A u \in All : u # t => Made'[u] = Made[u] /\ Kept'[u] = Kept[u]
  BY DEF Kept
<1>5. Kept[t] = Len(delivered[t]) + Len(todo[t]) /\ Kept'[t] = Len(delivered'[t]) + Len(todo'[t])
  BY DEF Kept
<1>6. Made'[t] + Kept[t] + failures + spoiled = Made[t] + Kept'[t] + failures' + spoiled'
  BY <1>5, Zenon
<1> QED BY <1>1, <1>3, <1>4, <1>6, KeptCounts

\* A publisher's step: one message less to offer, on the stream or counted.
LEMMA PublishCounts ==
  ASSUME Inv, CountInv, Typed', NEW t \in All, Publish(t)
  PROVE  CountInv'
<1>1. /\ pc \in [All -> Places] /\ Made \in [All -> Nat]
      /\ todo \in [All -> Seq(Nat)] /\ delivered \in [All -> Seq(Nat)]
      /\ failures \in Nat /\ spoiled \in Nat /\ LossesCounted /\ Typed
  BY MadeFacts DEF Inv, Typed, CountInv
<1>2. /\ pc[t] = "publishing" /\ todo' = [todo EXCEPT ![t] = Tail(todo[t])]
      /\ Made' = Made
  BY DEF Publish, Unencoded, Offered, Refused, OfferedClosed, Offering, Made
<1>3. todo[t] # <<>> /\ todo[t] \in Seq(Nat) /\ delivered[t] \in Seq(Nat)
  BY <1>1, <1>2 DEF Inv, StartInv
<1>4. Len(Tail(todo[t])) = Len(todo[t]) - 1 /\ Head(todo[t]) \in Nat /\ Len(todo[t]) \in Nat
      /\ Len(delivered[t]) \in Nat
  BY <1>3
<1>5. pub[t] # "null"
  BY <1>3 DEF Inv, NullInv
<1>6. \A u \in All : u # t => todo'[u] = todo[u]
  BY <1>1, <1>2
<1>7. todo'[t] = Tail(todo[t])
  BY <1>1, <1>2
<1>8. \/ /\ UNCHANGED <<failures, spoiled>>
         /\ delivered' = [delivered EXCEPT ![t] = Append(@, Head(todo[t]))]
      \/ failures' = failures + 1 /\ UNCHANGED <<delivered, spoiled>>
      \/ spoiled' = spoiled + 1 /\ UNCHANGED <<delivered, failures>>
  BY <1>5 DEF Publish, Unencoded, Offered, Refused, OfferedClosed
<1>9. LossesCounted' /\ failures' \in Nat /\ spoiled' \in Nat
  <2>1. /\ \A u \in All : u # t => delivered'[u] = delivered[u]
        /\ Len(delivered'[t]) + failures' + spoiled' = Len(delivered[t]) + failures + spoiled + 1
        /\ failures' \in Nat /\ spoiled' \in Nat /\ Len(delivered'[t]) \in Nat
    <3>1. CASE /\ UNCHANGED <<failures, spoiled>>
               /\ delivered' = [delivered EXCEPT ![t] = Append(@, Head(todo[t]))]
      <4>1. delivered'[t] = Append(delivered[t], Head(todo[t]))
            /\ \A u \in All : u # t => delivered'[u] = delivered[u]
        BY <1>1, <3>1
      <4>2. Len(delivered'[t]) = Len(delivered[t]) + 1
        BY <1>3, <1>4, <4>1
      <4> QED BY <1>1, <1>4, <3>1, <4>1, <4>2
    <3>2. CASE failures' = failures + 1 /\ UNCHANGED <<delivered, spoiled>>
      BY <1>1, <1>4, <3>2
    <3>3. CASE spoiled' = spoiled + 1 /\ UNCHANGED <<delivered, failures>>
      BY <1>1, <1>4, <3>3
    <3> QED BY <1>8, <3>1, <3>2, <3>3
  <2>2. Made'[t] + (Len(delivered[t]) + Len(todo[t])) + failures + spoiled
         = Made[t] + (Len(delivered'[t]) + Len(todo'[t])) + failures' + spoiled'
    <3>1. Made[t] \in Nat /\ Made'[t] = Made[t] /\ Len(todo'[t]) = Len(todo[t]) - 1
      BY <1>1, <1>2, <1>4, <1>7
    <3>2. PICK m \in Nat, d \in Nat, d1 \in Nat, l \in Nat :
            m = Made[t] /\ d = Len(delivered[t]) /\ d1 = Len(delivered'[t]) /\ l = Len(todo[t])
      BY <1>4, <2>1, <3>1, Zenon
    <3>3. PICK f \in Nat, f1 \in Nat, p \in Nat, p1 \in Nat :
            f = failures /\ f1 = failures' /\ p = spoiled /\ p1 = spoiled'
      BY <1>1, <2>1, Zenon
    <3>4. d1 + f1 + p1 = d + f + p + 1
      BY <2>1, <3>2, <3>3, Zenon
    <3>5. m + (d + l) + f + p = m + (d1 + (l - 1)) + f1 + p1
      BY <3>4
    <3> QED BY <3>1, <3>2, <3>3, <3>5, Zenon
  <2> QED BY <1>1, <1>2, <1>6, <2>1, <2>2, OneCounts
<1>10. ASSUME NEW u \in All, pc'[u] = "running" PROVE todo'[u] = <<>>
  <2>1. CASE u # t
    <3>1. pc'[u] = pc[u]
      BY <1>1, <1>10, <2>1 DEF Publish, Unencoded, Offered, Refused, OfferedClosed, AfterOffer, Goto
    <3> QED BY <1>6, <1>10, <2>1, <3>1 DEF CountInv
  <2>2. CASE u = t
    <3>1. ~(Len(todo[t]) > 1)
      BY <1>1, <1>2, <1>10, <2>2 DEF Publish, Unencoded, Offered, Refused, OfferedClosed, AfterOffer, Goto
    <3>2. Len(Tail(todo[t])) = 0 /\ Tail(todo[t]) \in Seq(Nat)
      <4>1. Len(todo[t]) # 0 /\ Tail(todo[t]) \in Seq(Nat)
        BY <1>3
      <4>2. Len(todo[t]) = 1
        <5>1. \A n \in Nat : ~(n > 1) /\ n # 0 => n = 1
          OBVIOUS
        <5> QED BY <1>4, <3>1, <4>1, <5>1, Zenon
      <4> QED BY <1>4, <4>1, <4>2
    <3>3. \A w \in Seq(Nat) : Len(w) = 0 => w = <<>>
      OBVIOUS
    <3> QED BY <1>7, <2>2, <3>2, <3>3, Zenon
  <2> QED BY <2>1, <2>2
<1> QED BY <1>9, <1>10 DEF CountInv

\* A frame's numbers are its messages.
LEMMA FrameCounts ==
  ASSUME Inv, CountInv, Typed', NEW t \in Tasks, NEW n \in 1..2, Frame(t, n)
  PROVE  CountInv'
<1>1. /\ pc \in [All -> Places] /\ seq \in [Tasks -> Nat]
      /\ todo \in [All -> Seq(Nat)] /\ delivered \in [All -> Seq(Nat)]
      /\ failures \in Nat /\ spoiled \in Nat /\ LossesCounted /\ Typed
      /\ t \in All /\ t # Boot
  BY Cast DEF Inv, Typed, CountInv
<1> DEFINE s == [k \in 1..n |-> seq[t] + k - 1]
<1>2. /\ pc[t] = "running" /\ pc' = [pc EXCEPT ![t] = "publishing"]
      /\ seq' = [seq EXCEPT ![t] = seq[t] + n] /\ todo' = [todo EXCEPT ![t] = s]
      /\ UNCHANGED <<delivered, failures, spoiled>>
  BY DEF Frame, Goto
<1>3. Len(s) = n /\ n \in Nat
  OBVIOUS
<1> HIDE DEF s
<1>4. Made'[t] = Made[t] + n /\ todo'[t] = s /\ pc'[t] = "publishing"
      /\ \A u \in All : u # t => todo'[u] = todo[u] /\ Made'[u] = Made[u] /\ pc'[u] = pc[u]
  <2>1. todo'[t] = s /\ pc'[t] = "publishing"
        /\ \A u \in All : u # t => todo'[u] = todo[u] /\ pc'[u] = pc[u]
    BY <1>1, <1>2
  <2>2. seq'[t] = seq[t] + n /\ \A u \in Tasks : u # t => seq'[u] = seq[u]
    BY <1>1, <1>2
  <2> QED BY <1>1, <2>1, <2>2, Cast DEF Made
<1>5. Len(todo[t]) = 0 /\ Len(delivered[t]) \in Nat /\ Made[t] \in Nat
  BY <1>1, <1>2, MadeFacts DEF CountInv
<1>6. LossesCounted'
  <2>1. Made'[t] + (Len(delivered[t]) + Len(todo[t])) + failures + spoiled
         = Made[t] + (Len(delivered'[t]) + Len(todo'[t])) + failures' + spoiled'
    <3>1. /\ Len(todo'[t]) = n /\ Len(delivered'[t]) = Len(delivered[t])
          /\ failures' = failures /\ spoiled' = spoiled
      BY <1>2, <1>3, <1>4
    <3>2. PICK m \in Nat, d \in Nat, f \in Nat, p \in Nat :
            m = Made[t] /\ d = Len(delivered[t]) /\ f = failures /\ p = spoiled
      BY <1>1, <1>5, Zenon
    <3>3. (m + n) + (d + 0) + f + p = m + (d + n) + f + p
      BY <1>3
    <3> QED BY <1>4, <1>5, <3>1, <3>2, <3>3, Zenon
  <2>2. failures' \in Nat /\ spoiled' \in Nat
    BY <1>1, <1>2
  <2> QED BY <1>1, <1>2, <1>4, <2>1, <2>2, OneCounts
<1>7. \A u \in All : pc'[u] = "running" => todo'[u] = <<>>
  BY <1>4 DEF CountInv
<1> QED BY <1>1, <1>2, <1>6, <1>7 DEF CountInv

\* A number lost in the normalizer is in the history of those.
LEMMA SpoiledCounts ==
  ASSUME Inv, CountInv, Typed', NEW t \in Tasks, FrameSpoiled(t)
  PROVE  CountInv'
<1>1. /\ seq \in [Tasks -> Nat] /\ todo \in [All -> Seq(Nat)] /\ delivered \in [All -> Seq(Nat)]
      /\ failures \in Nat /\ spoiled \in Nat /\ LossesCounted /\ Typed
      /\ t \in All /\ t # Boot
  BY Cast DEF Inv, Typed, CountInv
<1>2. /\ seq' = [seq EXCEPT ![t] = seq[t] + 1] /\ spoiled' = spoiled + 1
      /\ UNCHANGED <<pc, todo, delivered, failures>>
  BY DEF FrameSpoiled
<1>3. Made'[t] = Made[t] + 1 /\ \A u \in All : u # t => Made'[u] = Made[u]
  <2>1. seq'[t] = seq[t] + 1 /\ \A u \in Tasks : u # t => seq'[u] = seq[u]
    BY <1>1, <1>2
  <2> QED BY <1>1, <2>1, Cast DEF Made
<1>4. LossesCounted' /\ spoiled' \in Nat
  <2>1. Len(delivered[t]) \in Nat /\ Len(todo[t]) \in Nat /\ Made[t] \in Nat
    BY <1>1, MadeFacts
  <2>2. Made'[t] + (Len(delivered[t]) + Len(todo[t])) + failures + spoiled
         = Made[t] + (Len(delivered'[t]) + Len(todo'[t])) + failures' + spoiled'
    <3>1. Len(delivered'[t]) = Len(delivered[t]) /\ Len(todo'[t]) = Len(todo[t])
          /\ failures' = failures
      BY <1>2
    <3>3. (Made[t] + 1) + (Len(delivered[t]) + Len(todo[t])) + failures + spoiled
           = Made[t] + (Len(delivered[t]) + Len(todo[t])) + failures + (spoiled + 1)
      <4>1. failures \in Nat /\ spoiled \in Nat
        BY <1>1
      <4>2. PICK d \in Nat, l \in Nat : d = Len(delivered[t]) /\ l = Len(todo[t])
        BY <2>1, Zenon
      <4>3. (Made[t] + 1) + (d + l) + failures + spoiled
             = Made[t] + (d + l) + failures + (spoiled + 1)
        <5>1. d \in Nat /\ l \in Nat /\ Made[t] \in Nat
          BY <2>1, <4>2, Zenon
        <5> QED BY <4>1, <5>1
      <4> QED BY <4>2, <4>3, Zenon
    <3> QED BY <1>2, <1>3, <3>1, <3>3, Zenon
  <2>3. failures' \in Nat /\ spoiled' \in Nat
    BY <1>1, <1>2
  <2> QED BY <1>1, <1>2, <1>3, <2>2, <2>3, OneCounts
<1> QED BY <1>1, <1>2, <1>4 DEF CountInv

\* Steps that move no message change no book.
LEMMA ElsewhereCounts ==
  ASSUME Inv, CountInv, NEW t \in All, Elsewhere(t)
  PROVE  CountInv'
<1>1. UNCHANGED <<seq, todo, delivered, failures, spoiled>>
  BY DEF Elsewhere, Built, BuildFailed, RetryElapsed, BuildInterrupted, Reconnected, ClientCloses,
         TaskStops
<1>2. LossesCounted'
  BY <1>1 DEF CountInv, LossesCounted, Made
<1>3. pc \in [All -> Places]
  BY DEF Inv, Typed
<1>4. pc[Boot] \in Waits => ~shutdown
  BY DEF Inv, StartInv, Waits
<1>5. ASSUME NEW u \in All, pc'[u] = "running" PROVE todo'[u] = <<>>
  <2>1. \/ pc[u] = "running"
        \/ u = t /\ ((pc[t] \in Waits /\ t # Boot) \/ todo[t] = <<>>)
    BY <1>3, <1>4, <1>5, Cast DEF Elsewhere, Built, BuildFailed, RetryElapsed, BuildInterrupted,
         Reconnected, ClientCloses, TaskStops, Goto, Waits
  <2> QED BY <1>1, <2>1, Cast DEF CountInv, Inv, StartInv
<1> QED BY <1>1, <1>2, <1>5 DEF CountInv

\* At the start there are the definitions, all still to be offered.
LEMMA InitCounts == Init => CountInv
<1> SUFFICES ASSUME Init PROVE CountInv
  OBVIOUS
<1>1. Made \in [All -> Nat] /\ \A t \in Tasks : Made[t] = 0
  BY InitInv, MadeFacts DEF Init, Inv
<1>2. Len(todo[Boot]) = Definitions /\ \A t \in Tasks : todo[t] = <<>>
  <2>1. todo[Boot] = [k \in 1..Definitions |-> k - 1] /\ \A t \in Tasks : todo[t] = <<>>
    BY Cast DEF Init
  <2> QED BY <2>1, Cast
<1>3. \A t \in All : Len(delivered[t]) = 0
  BY DEF Init
<1>4. Made = Kept
  <2>1. \A t \in All : Kept[t] = 0 + Len(todo[t])
    BY <1>3 DEF Kept
  <2>2. Kept[Boot] = Made[Boot]
    <3>1. Made[Boot] = Definitions /\ 0 + Definitions = Definitions
      BY Cast DEF Made
    <3> QED BY <1>2, <2>1, <3>1, Cast, Zenon
  <2>3. \A t \in Tasks : Kept[t] = Made[t]
    <3>1. \A t \in Tasks : Len(todo[t]) = 0
      BY <1>2
    <3>2. 0 + 0 = 0
      OBVIOUS
    <3> QED BY <1>1, <2>1, <3>1, <3>2, Cast, Zenon
  <2>4. \A t \in All : Kept[t] = Made[t]
    BY <2>2, <2>3, Cast
  <2> QED BY <2>4, Zenon DEF Kept, Made
<1>5. failures = 0 /\ spoiled = 0
  BY DEF Init
<1>6. SumOver(Made) \in Nat
  BY <1>1, Cast, SumMoves
<1>7. SumOver(Made) = SumOver(Kept) + failures + spoiled
  BY <1>4, <1>5, <1>6
<1>8. LossesCounted
  BY <1>7, Zenon DEF LossesCounted, Kept
<1>9. \A t \in All : pc[t] # "running"
  BY DEF Init
<1> QED BY <1>5, <1>8, <1>9 DEF CountInv

\* Every step keeps the books.
LEMMA NextCounts == Inv /\ Inv' /\ CountInv /\ [Next]_vars => CountInv'
<1> SUFFICES ASSUME Inv, Inv', CountInv, [Next]_vars PROVE CountInv'
  OBVIOUS
<1>1. Typed'
  BY DEF Inv
<1>2. CASE UNCHANGED vars
  BY <1>2 DEF vars, CountInv, LossesCounted, Made
<1>3. CASE DriverDies \/ DriverRestarts \/ CtrlC \/ Stop
  <2>1. UNCHANGED <<pc, seq, todo, delivered, failures, spoiled>>
    BY <1>3 DEF DriverDies, DriverRestarts, CtrlC, Stop, SignalSeen, Drained, DrainTimeout
  <2> QED BY <2>1 DEF CountInv, LossesCounted, Made
<1>4. ASSUME NEW t \in All, Build(t) \/ Publish(t) \/ Reconnected(t) \/ ClientCloses(t)
      PROVE  CountInv'
  BY <1>1, <1>4, ElsewhereCounts, PublishCounts DEF Build, Elsewhere
<1>5. ASSUME NEW t \in Tasks, FrameSpoiled(t) \/ TaskStops(t)
      PROVE  CountInv'
  BY <1>1, <1>5, Cast, ElsewhereCounts, SpoiledCounts DEF Elsewhere
<1>6. ASSUME NEW t \in Tasks, NEW n \in 1..2, Frame(t, n)
      PROVE  CountInv'
  BY <1>1, <1>6, FrameCounts
<1> QED BY <1>2, <1>3, <1>4, <1>5, <1>6 DEF Next

\* Every message is on its stream, still to be offered, lost in the normalizer
\* or the encoder, or in the counter of failed offers (record_offer_failure),
\* over back pressure, closed publications and reconnects: no other loss goes
\* uncounted.
THEOREM LossesAreCounted == Spec => []LossesCounted
<1>1. CountInv => LossesCounted
  BY DEF CountInv
<1> QED BY <1>1, InitCounts, NextCounts, InvHolds, PTL DEF Spec
==============================================================================
