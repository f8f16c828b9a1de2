--------------------------- MODULE ConnectionProofs ---------------------------
(***************************************************************************)
(* Proofs about a connection, for channels and a socket of any size and    *)
(* any number of pings: the pings of the peer are answered once and in     *)
(* order (PongsInOrder), the flag that lets a tick drop the session tells  *)
(* the truth about the client's own ping (PingAccounted), and run keeps    *)
(* the safety half of ConnectionLife.                                      *)
(*                                                                         *)
(* A message goes from hand to hand: the read loop, the channel, the send  *)
(* task, the socket.  The proofs count the messages of a kind in each, and *)
(* a step takes from one what it puts into the next.                       *)
(***************************************************************************)
EXTENDS Connection, FiniteSetTheorems, SequenceTheorems, NaturalsInduction,
        WellFoundedInduction, TLAPS

\* A message of either side, whatever its number.
Kinds == {"ping", "pong", "data", "close"}
Msg   == [kind : Kinds, id : Nat]

\* Where the task is when there is no session.
Idle == {<<"check">>, <<"dial">>, <<"backoff">>, <<"stopped">>}

\* The types the proofs need.
Typed ==
  /\ task \in Idle \cup Running \cup Draining
  /\ pending \in Seq(Msg) /\ out \in Seq(Msg) /\ writing \in Seq(Msg)
  /\ toPeer \in Seq(Msg) /\ fromPeer \in Seq(Msg)
  /\ writer \in {"idle", "writing", "gone"} /\ peer \in {"up", "deaf", "gone"}
  /\ owes \in BOOLEAN /\ waiting \in BOOLEAN /\ shutdown \in BOOLEAN
  /\ pinged \in Nat /\ heard \in Nat /\ ponged \in Seq(Nat)

\* Who holds a message, and what is left when nobody does.
HandsInv ==
  /\ IF task = <<"sending">> THEN \E m \in Msg : pending = <<m>> ELSE pending = <<>>
  /\ IF writer = "writing" THEN \E m \in Msg : writing = <<m>> ELSE writing = <<>>
  /\ writer = "gone" => out = <<>>
  /\ task \in Idle => writer = "gone"

\* The messages of a kind carry the numbers that follow n.
Numbered(s, n, kind) ==
  \A i \in 1..Len(s) : s[i].kind = kind => s[i].id = n + SoFar(s, i, kind)

\* What is on its way to the socket, the oldest first.
Unsent == writing \o out \o pending

\* The pings on their way to the read loop carry the numbers after those it has
\* read, and the pongs on their way out those after the ones written.
AnswerInv ==
  /\ \A k \in 1..Len(ponged) : ponged[k] = k
  /\ Numbered(fromPeer, heard, "ping") /\ heard + Count(fromPeer, "ping") = pinged
  /\ writer # "gone" => /\ Numbered(Unsent, Len(ponged), "pong")
                        /\ Len(ponged) + Count(Unsent, "pong") = heard

\* One ping at most is under way, and the flag is set or about to be.
FlagInv ==
  task \in Running /\ writer # "gone" /\ peer # "gone" =>
    /\ Outstanding = (IF waiting \/ pending = <<Ping>> THEN 1 ELSE 0)
    /\ ~(waiting /\ pending = <<Ping>>)

\* A session that ends for a shutdown, and an end, were asked for.
HaltInv == task \in {<<"drain", "Shutdown">>, <<"stopped">>} => shutdown

------------------------------------------------------------------------------
(***************************************************************************)
(* Messages of a kind in a queue.                                          *)
(***************************************************************************)

\* Induction over the naturals, for a set: no number is the least one missing.
LEMMA NatSetInduction ==
  ASSUME NEW T, 0 \in T, \A n \in Nat : n \in T => n + 1 \in T
  PROVE  \A n \in Nat : n \in T
<1> SUFFICES ASSUME Nat \ T # {} PROVE FALSE
  OBVIOUS
<1>1. PICK m \in Nat \ T : \A k \in Nat \ T : ~ (<<k, m>> \in OpToRel(<, Nat))
  <2>1. IsWellFoundedOn(OpToRel(<, Nat), Nat) /\ Nat \ T \subseteq Nat
    BY NatLessThanWellFounded
  <2> QED BY <2>1, WFMin
<1>2. m # 0 /\ m - 1 \in Nat /\ m - 1 < m /\ (m - 1) + 1 = m
  <2>1. m \in Nat /\ m \notin T
    OBVIOUS
  <2> QED BY <2>1
<1>3. m - 1 \notin T
  BY <1>1, <1>2
<1>4. <<m - 1, m>> \in OpToRel(<, Nat)
  BY <1>2 DEF OpToRel
<1> QED BY <1>1, <1>2, <1>3, <1>4

\* A message counted.
One(m, kind) == IF m.kind = kind THEN 1 ELSE 0

\* Among none there is none.
LEMMA SoFarNone == \A s, kind : SoFar(s, 0, kind) = 0
<1> SUFFICES ASSUME NEW s, NEW kind PROVE SoFar(s, 0, kind) = 0
  OBVIOUS
<1>1. {i \in 1..0 : s[i].kind = kind} = {}
  OBVIOUS
<1> QED BY <1>1, FS_EmptySet DEF SoFar

\* One message more.
LEMMA SoFarNext ==
  ASSUME NEW s, NEW n \in Nat, NEW kind
  PROVE  /\ SoFar(s, n, kind) \in Nat
         /\ SoFar(s, n + 1, kind) = SoFar(s, n, kind) + One(s[n + 1], kind)
<1> DEFINE A == {i \in 1..n : s[i].kind = kind}
           B == {i \in 1..(n + 1) : s[i].kind = kind}
<1>1. IsFiniteSet(A) /\ Cardinality(A) \in Nat
  <2>1. IsFiniteSet(1..n)
    <3>1. 1 \in Int /\ n \in Int
      OBVIOUS
    <3> QED BY <3>1, FS_Interval
  <2> QED BY <2>1, FS_Subset, FS_CardinalityType
<1>2. B = (IF s[n + 1].kind = kind THEN A \cup {n + 1} ELSE A) /\ n + 1 \notin A
  OBVIOUS
<1>3. SoFar(s, n, kind) = Cardinality(A) /\ SoFar(s, n + 1, kind) = Cardinality(B)
  BY DEF SoFar
<1> HIDE DEF A, B
<1>4. Cardinality(A \cup {n + 1}) = Cardinality(A) + 1
  BY <1>1, <1>2, FS_AddElement
<1> QED BY <1>1, <1>2, <1>3, <1>4 DEF One

\* Only the first n messages matter.
LEMMA SoFarSame ==
  ASSUME NEW s, NEW t, NEW n \in Nat, NEW kind, \A i \in 1..n : s[i] = t[i]
  PROVE  SoFar(s, n, kind) = SoFar(t, n, kind)
<1>1. {i \in 1..n : s[i].kind = kind} = {i \in 1..n : t[i].kind = kind}
  OBVIOUS
<1> QED BY <1>1 DEF SoFar

\* A queue behind another.
LEMMA SoFarConcat ==
  ASSUME NEW s \in Seq(Msg), NEW t \in Seq(Msg), NEW kind
  PROVE  \A n \in Nat : n <= Len(t) =>
           SoFar(s \o t, Len(s) + n, kind) = Count(s, kind) + SoFar(t, n, kind)
<1> DEFINE c == s \o t
           l == Len(s)
           T == {n \in Nat : n <= Len(t) =>
                   SoFar(c, l + n, kind) = SoFar(s, l, kind) + SoFar(t, n, kind)}
<1>1. /\ l \in Nat /\ Len(t) \in Nat
      /\ \A i \in 1..l : c[i] = s[i]
      /\ \A i \in 1..Len(t) : c[l + i] = t[i]
  OBVIOUS
<1> HIDE DEF c, l
<1>2. SoFar(c, l, kind) = SoFar(s, l, kind) /\ SoFar(s, l, kind) \in Nat
  BY <1>1, SoFarSame, SoFarNext
<1>3. 0 \in T
  <2>1. l + 0 = l /\ SoFar(t, 0, kind) = 0
    BY <1>1, SoFarNone
  <2> QED BY <1>2, <2>1
<1>4. ASSUME NEW n \in Nat, n \in T PROVE n + 1 \in T
  <2> SUFFICES ASSUME n + 1 <= Len(t)
               PROVE  SoFar(c, l + (n + 1), kind) = SoFar(s, l, kind) + SoFar(t, n + 1, kind)
    OBVIOUS
  <2>1. SoFar(c, l + n, kind) = SoFar(s, l, kind) + SoFar(t, n, kind)
    BY <1>1, <1>4
  <2>2. l + n \in Nat /\ l + (n + 1) = (l + n) + 1 /\ n + 1 \in 1..Len(t)
    BY <1>1
  <2>3. SoFar(c, (l + n) + 1, kind) = SoFar(c, l + n, kind) + One(c[(l + n) + 1], kind)
    BY <2>2, SoFarNext
  <2>4. SoFar(t, n + 1, kind) = SoFar(t, n, kind) + One(t[n + 1], kind) /\ SoFar(t, n, kind) \in Nat
    BY SoFarNext
  <2>5. c[(l + n) + 1] = t[n + 1]
    BY <1>1, <2>2
  <2>6. One(t[n + 1], kind) \in Nat
    BY DEF One
  <2> QED BY <1>2, <2>1, <2>2, <2>3, <2>4, <2>5, <2>6
<1> HIDE DEF T
<1>5. \A n \in Nat : n \in T
  BY <1>3, <1>4, NatSetInduction
<1> QED BY <1>5 DEF T, c, l, Count

\* And so their counts add up.
LEMMA CountConcat ==
  ASSUME NEW s \in Seq(Msg), NEW t \in Seq(Msg), NEW kind
  PROVE  /\ Count(s \o t, kind) = Count(s, kind) + Count(t, kind)
         /\ Count(s, kind) \in Nat /\ Count(t, kind) \in Nat
<1>1. Len(s) \in Nat /\ Len(t) \in Nat /\ Len(s \o t) = Len(s) + Len(t)
  OBVIOUS
<1>2. Count(s, kind) \in Nat /\ Count(t, kind) \in Nat
  BY <1>1, SoFarNext DEF Count
<1>3. SoFar(s \o t, Len(s) + Len(t), kind) = Count(s, kind) + SoFar(t, Len(t), kind)
  BY <1>1, SoFarConcat
<1> QED BY <1>1, <1>2, <1>3 DEF Count

\* Queues of none and of one.
LEMMA CountSmall ==
  /\ \A kind : Count(<<>>, kind) = 0
  /\ \A m, kind : Count(<<m>>, kind) = One(m, kind) /\ One(m, kind) \in {0, 1}
<1>1. \A kind : Count(<<>>, kind) = 0
  <2>1. Len(<<>>) = 0
    OBVIOUS
  <2> QED BY <2>1, SoFarNone DEF Count
<1>2. ASSUME NEW m, NEW kind
      PROVE  Count(<<m>>, kind) = One(m, kind) /\ One(m, kind) \in {0, 1}
  <2>1. Len(<<m>>) = 1 /\ <<m>>[1] = m
    OBVIOUS
  <2>2. SoFar(<<m>>, 0 + 1, kind) = SoFar(<<m>>, 0, kind) + One(<<m>>[0 + 1], kind)
    BY SoFarNext
  <2>3. One(m, kind) \in {0, 1}
    BY DEF One
  <2> QED BY <2>1, <2>2, <2>3, SoFarNone DEF Count
<1> QED BY <1>1, <1>2

\* Taking the first message, and putting one behind the last.
LEMMA CountEnds ==
  ASSUME NEW s \in Seq(Msg), NEW kind
  PROVE  /\ s # <<>> => /\ Count(s, kind) = One(Head(s), kind) + Count(Tail(s), kind)
                        /\ Count(Tail(s), kind) \in Nat
         /\ \A m \in Msg : Count(Append(s, m), kind) = Count(s, kind) + One(m, kind)
         /\ Count(s, kind) \in Nat
<1>1. ASSUME s # <<>>
      PROVE  /\ Count(s, kind) = One(Head(s), kind) + Count(Tail(s), kind)
             /\ Count(Tail(s), kind) \in Nat
  <2>1. Tail(s) \in Seq(Msg) /\ Head(s) \in Msg /\ <<Head(s)>> \in Seq(Msg)
        /\ s = <<Head(s)>> \o Tail(s)
    BY <1>1
  <2> DEFINE h == <<Head(s)>>
             t == Tail(s)
  <2>2. Count(h, kind) = One(Head(s), kind)
    BY CountSmall
  <2> HIDE DEF h, t
  <2>3. h \in Seq(Msg) /\ t \in Seq(Msg) /\ s = h \o t
    BY <2>1 DEF h, t
  <2>4. Count(h \o t, kind) = Count(h, kind) + Count(t, kind) /\ Count(t, kind) \in Nat
    BY <2>3, CountConcat
  <2> QED BY <2>2, <2>3, <2>4 DEF t
<1>2. ASSUME NEW m \in Msg PROVE Count(Append(s, m), kind) = Count(s, kind) + One(m, kind)
  <2>1. <<m>> \in Seq(Msg) /\ Append(s, m) = s \o <<m>>
    OBVIOUS
  <2> DEFINE h == <<m>>
  <2>2. Count(h, kind) = One(m, kind)
    BY CountSmall
  <2> HIDE DEF h
  <2>3. h \in Seq(Msg) /\ Append(s, m) = s \o h
    BY <2>1 DEF h
  <2>4. Count(s \o h, kind) = Count(s, kind) + Count(h, kind)
    BY <2>3, CountConcat
  <2> QED BY <2>2, <2>3, <2>4
<1>3. Count(s, kind) \in Nat
  BY CountConcat
<1> QED BY <1>1, <1>2, <1>3

\* The first message of a numbered queue is the next, and leaves the rest so.
LEMMA NumberedTail ==
  ASSUME NEW s \in Seq(Msg), s # <<>>, NEW n \in Nat, NEW kind, Numbered(s, n, kind)
  PROVE  /\ Head(s).kind = kind => Head(s).id = n + 1
         /\ Numbered(Tail(s), n + One(Head(s), kind), kind)
<1> DEFINE t == Tail(s)
           h == <<Head(s)>>
           o == One(Head(s), kind)
<1>1. /\ t \in Seq(Msg) /\ h \in Seq(Msg) /\ s = h \o t /\ Len(h) = 1 /\ 1 \in 1..Len(s)
      /\ s[1] = Head(s) /\ Len(t) \in Nat
      /\ \A i \in 1..Len(t) : i + 1 \in 1..Len(s) /\ s[i + 1] = t[i]
  OBVIOUS
<1>2. o \in {0, 1} /\ Count(h, kind) = o
  BY CountSmall
<1>3. SoFar(s, 1, kind) = o
  <2>1. SoFar(s, 0 + 1, kind) = SoFar(s, 0, kind) + One(s[0 + 1], kind)
    BY SoFarNext
  <2> QED BY <1>1, <1>2, <2>1, SoFarNone
<1> HIDE DEF t, h
<1>4. Head(s).kind = kind => Head(s).id = n + 1
  BY <1>1, <1>3 DEF Numbered, One
<1>5. Numbered(t, n + o, kind)
  <2> SUFFICES ASSUME NEW i \in 1..Len(t), t[i].kind = kind
               PROVE  t[i].id = (n + o) + SoFar(t, i, kind)
    BY DEF Numbered
  <2>1. i \in Nat /\ i <= Len(t) /\ 1 + i = i + 1
    BY <1>1
  <2>2. SoFar(h \o t, Len(h) + i, kind) = Count(h, kind) + SoFar(t, i, kind)
    <3>1. h \in Seq(Msg) /\ t \in Seq(Msg)
      BY <1>1
    <3> QED BY <2>1, <3>1, SoFarConcat
  <2>3. SoFar(s, i + 1, kind) = o + SoFar(t, i, kind) /\ SoFar(t, i, kind) \in Nat
    BY <1>1, <1>2, <2>1, <2>2, SoFarNext
  <2>4. t[i].id = n + SoFar(s, i + 1, kind)
    BY <1>1 DEF Numbered
  <2> HIDE DEF o
  <2> QED BY <1>2, <2>3, <2>4
<1> QED BY <1>4, <1>5 DEF t

\* The next message goes behind a numbered queue.
LEMMA NumberedAppend ==
  ASSUME NEW s \in Seq(Msg), NEW m \in Msg, NEW n \in Nat, NEW kind, Numbered(s, n, kind),
         m.kind = kind => m.id = n + Count(s, kind) + 1
  PROVE  Numbered(Append(s, m), n, kind)
<1> DEFINE a == Append(s, m)
           l == Len(s)
<1>1. /\ a \in Seq(Msg) /\ l \in Nat /\ Len(a) = l + 1 /\ a[l + 1] = m
      /\ \A i \in 1..l : a[i] = s[i]
      /\ \A i \in 1..Len(a) : i \in 1..l \/ i = l + 1
  OBVIOUS
<1> HIDE DEF a
<1> SUFFICES ASSUME NEW i \in 1..Len(a), a[i].kind = kind
             PROVE  a[i].id = n + SoFar(a, i, kind)
  BY DEF Numbered, a
<1>2. CASE i \in 1..l
  <2>1. SoFar(a, i, kind) = SoFar(s, i, kind)
    <3>1. i \in Nat /\ \A j \in 1..i : a[j] = s[j]
      BY <1>1, <1>2
    <3> QED BY <3>1, SoFarSame
  <2> QED BY <1>1, <1>2, <2>1 DEF Numbered
<1>3. CASE i = l + 1
  <2>1. SoFar(a, l, kind) = SoFar(s, l, kind) /\ SoFar(s, l, kind) \in Nat
    <3>1. l \in Nat /\ \A j \in 1..l : a[j] = s[j]
      BY <1>1
    <3> HIDE DEF l
    <3> QED BY <3>1, SoFarSame, SoFarNext
  <2>2. SoFar(a, l + 1, kind) = SoFar(a, l, kind) + One(m, kind)
    BY <1>1, SoFarNext
  <2>3. m.kind = kind
    BY <1>1, <1>3
  <2>4. m.id = n + SoFar(s, l, kind) + 1
    BY <2>3 DEF Count
  <2>5. One(m, kind) = 1
    BY <2>3 DEF One
  <2> QED BY <1>1, <1>3, <2>1, <2>2, <2>4, <2>5
<1> QED BY <1>1, <1>2, <1>3

\* Where a task is.
LEMMA Places ==
  /\ <<"select">> \in Running /\ <<"sending">> \in Running
  /\ <<"select">> # <<"sending">>
  /\ \A p \in Idle : p \notin Running /\ p \notin Draining
  /\ \A p \in Draining : p \notin Running
  /\ \A r \in Reasons : <<"drain", r>> \in Draining
  /\ \A p \in Running : p = <<"select">> \/ p = <<"sending">>
<1>1. \A p \in Idle \cup Running : Len(p) = 1
  BY DEF Idle, Running
<1>2. \A p \in Draining : Len(p) = 2
  BY DEF Draining
<1>3. \A p \in Idle : p \notin Running
  BY DEF Idle, Running
<1> QED BY <1>1, <1>2, <1>3 DEF Running, Draining

\* The ends of a queue, and messages put into one.
LEMMA Ends ==
  /\ \A s \in Seq(Msg) : s # <<>> => Head(s) \in Msg /\ Tail(s) \in Seq(Msg)
  /\ \A s, t \in Seq(Msg) : s \o t \in Seq(Msg)
  /\ \A s \in Seq(Msg) : \A m \in Msg : Append(s, m) \in Seq(Msg)
  /\ \A m \in Msg : <<m>> \in Seq(Msg)
  /\ <<>> \in Seq(Msg)
  /\ Ping \in Msg /\ \A i \in Nat : Pong(i) \in Msg
  /\ \A kind \in Kinds : \A i \in Nat : [kind |-> kind, id |-> i] \in Msg
<1>1. \A s \in Seq(Msg) : s # <<>> => Head(s) \in Msg /\ Tail(s) \in Seq(Msg)
  OBVIOUS
<1>2. \A s, t \in Seq(Msg) : s \o t \in Seq(Msg)
  OBVIOUS
<1>3. \A s \in Seq(Msg) : \A m \in Msg : Append(s, m) \in Seq(Msg)
  OBVIOUS
<1>4. \A m \in Msg : <<m>> \in Seq(Msg)
  OBVIOUS
<1>5. <<>> \in Seq(Msg)
  OBVIOUS
<1>6. \A kind \in Kinds : \A i \in Nat : [kind |-> kind, id |-> i] \in Msg
  BY DEF Msg
<1>7. Ping \in Msg /\ \A i \in Nat : Pong(i) \in Msg
  BY <1>6 DEF Ping, Pong, Kinds
<1> QED BY <1>1, <1>2, <1>3, <1>4, <1>5, <1>6, <1>7

\* What the environment and run do with a session's own state.
Outer ==
  \/ CheckShutdown \/ Interrupted \/ BackoffElapsed \/ DialFailed \/ SessionOver
  \/ TickDue \/ RotationDue \/ ShutdownSent

\* The types, and who holds a message.
Base == Typed /\ HandsInv

\* Steps that leave the session's messages alone.
LEMMA BaseOuter == ASSUME Base, Outer PROVE Base'
<1>1. UNCHANGED <<session, toPeer, fromPeer, peer, owes, pinged, heard, ponged>>
  BY DEF Outer, CheckShutdown, Interrupted, BackoffElapsed, DialFailed, SessionOver, TickDue,
         RotationDue, ShutdownSent, wire
<1>2. shutdown' \in BOOLEAN
  BY DEF Base, Typed, Outer, CheckShutdown, Interrupted, BackoffElapsed, DialFailed, SessionOver,
         TickDue, RotationDue, ShutdownSent
<1>3. task' = task \/ (task' \in Idle /\ task # <<"sending">> /\ writer = "gone")
  <2>1. CASE CheckShutdown \/ Interrupted \/ BackoffElapsed \/ DialFailed
    BY <2>1, Places DEF CheckShutdown, Interrupted, BackoffElapsed, DialFailed, Idle, Base, HandsInv
  <2>2. CASE SessionOver
    BY <2>2, Places DEF SessionOver, Idle, Draining, Reasons
  <2>3. CASE TickDue \/ RotationDue \/ ShutdownSent
    BY <2>3 DEF TickDue, RotationDue, ShutdownSent
  <2> QED BY <2>1, <2>2, <2>3 DEF Outer
<1>4. Typed'
  BY <1>1, <1>2, <1>3 DEF Base, Typed, session
<1>5. task' \in Idle => task' # <<"sending">>
  BY Places
<1>6. HandsInv'
  BY <1>1, <1>3, <1>5 DEF Base, HandsInv, session
<1> QED BY <1>4, <1>6 DEF Base

\* A session starts empty-handed.
LEMMA BaseDialled == ASSUME Base, Dialled PROVE Base'
<1>1. /\ task = <<"dial">> /\ task' = <<"select">> /\ out' = <<>> /\ writer' = "idle"
      /\ waiting' = FALSE /\ toPeer' = <<>> /\ fromPeer' = <<>> /\ peer' = "up" /\ owes' = FALSE
      /\ pinged' = 0 /\ heard' = 0 /\ ponged' = <<>> /\ UNCHANGED <<pending, writing, shutdown>>
  BY DEF Dialled
<1>2. task \in Idle /\ task # <<"sending">> /\ task' \notin Idle /\ task' # <<"sending">>
      /\ task' \in Running
  BY <1>1, Places DEF Idle
<1>3. writer = "gone" /\ pending = <<>> /\ writing = <<>>
  BY <1>2 DEF Base, HandsInv
<1>4. ponged' \in Seq(Nat)
  BY <1>1
<1>5. Typed'
  BY <1>1, <1>2, <1>4, Ends DEF Base, Typed
<1>6. HandsInv'
  BY <1>1, <1>2, <1>3 DEF HandsInv
<1> QED BY <1>5, <1>6 DEF Base

\* The read loop.
LEMMA BaseLoop == ASSUME Base, LoopStep PROVE Base'
<1> USE DEF Base
<1>1. CASE SendOut
  <2>1. /\ task = <<"sending">> /\ task' = <<"select">> /\ pending' = <<>>
        /\ out' = (IF writer = "gone" THEN out ELSE out \o pending)
        /\ waiting' = (waiting \/ pending = <<Ping>>)
        /\ UNCHANGED <<writer, writing, toPeer, fromPeer, peer, owes, pinged, shutdown, heard, ponged>>
    BY <1>1 DEF SendOut, wire
  <2>2. out' \in Seq(Msg) /\ (writer = "gone" => out' = <<>>)
    BY <2>1, Ends DEF Typed, HandsInv
  <2>3. task' \in Running /\ task' \notin Idle /\ task' # <<"sending">>
    BY <2>1, Places
  <2>4. Typed'
    BY <2>1, <2>2, <2>3, Ends DEF Typed
  <2>5. HandsInv'
    BY <2>1, <2>2, <2>3 DEF HandsInv
  <2> QED BY <2>4, <2>5
<1>2. CASE ~SendOut
  <2>1. task = <<"select">> /\ task \in Running /\ task # <<"sending">> /\ task \notin Idle
    BY <1>2, Places DEF LoopStep, ShutdownBranch, RotationBranch, PingTick, ReadData, ReadPing, ReadPong,
       ReadClose, ReadEnd, Received, ReadTurn
  <2>2. UNCHANGED <<out, writer, writing, toPeer, peer, owes, pinged, shutdown, ponged>>
    BY <1>2 DEF LoopStep, ShutdownBranch, RotationBranch, PingTick, ReadData, ReadPing, ReadPong,
       ReadClose, ReadEnd, Received, Break, session, wire
  <2>3. waiting' \in BOOLEAN
    BY <1>2 DEF Typed, LoopStep, ShutdownBranch, RotationBranch, PingTick, ReadData, ReadPing, ReadPong,
       ReadClose, ReadEnd, Received, Break, session, wire
  <2>4. fromPeer' = fromPeer \/ (fromPeer # <<>> /\ fromPeer' = Tail(fromPeer))
    BY <1>2 DEF LoopStep, ShutdownBranch, RotationBranch, PingTick, ReadData, ReadPing, ReadPong,
       ReadClose, ReadEnd, Received, Break, session, wire
  <2>5. fromPeer' \in Seq(Msg)
    BY <2>4, Ends DEF Typed
  <2>6. heard' = heard \/ (fromPeer # <<>> /\ heard' = Head(fromPeer).id)
    BY <1>2 DEF LoopStep, ShutdownBranch, RotationBranch, PingTick, ReadData, ReadPing, ReadPong,
       ReadClose, ReadEnd, Received, Break, session, wire
  <2>7. heard' \in Nat
    BY <2>6, Ends DEF Typed, Msg
  <2>8. \/ UNCHANGED <<task, pending>>
        \/ UNCHANGED pending /\ \E r \in Reasons : task' = <<"drain", r>>
        \/ /\ task' = <<"sending">>
           /\ pending' = <<Ping>> \/ (fromPeer # <<>> /\ pending' = <<Pong(Head(fromPeer).id)>>)
    BY <1>2 DEF LoopStep, ShutdownBranch, RotationBranch, PingTick, ReadData, ReadPing, ReadPong,
       ReadClose, ReadEnd, Received, Break, session, wire, Reasons
  <2>9. pending = <<>>
    BY <2>1 DEF HandsInv
  <2>10. \/ task' = task /\ pending' = <<>>
         \/ task' \in Draining /\ pending' = <<>>
         \/ task' = <<"sending">> /\ \E m \in Msg : pending' = <<m>>
    <3>1. fromPeer # <<>> => Pong(Head(fromPeer).id) \in Msg
      <4>1. fromPeer # <<>> => Head(fromPeer) \in Msg
        BY Ends DEF Typed
      <4> QED BY <4>1, Ends DEF Msg
    <3>2. Ping \in Msg
      BY Ends
    <3> QED BY <2>8, <2>9, <3>1, <3>2, Places
  <2>11. task' \in Running \cup Draining /\ task' \notin Idle
    BY <2>1, <2>10, Places
  <2>12. Typed'
    <3>1. pending' \in Seq(Msg)
      BY <2>10, Ends
    <3> QED BY <2>2, <2>3, <2>5, <2>7, <2>11, <3>1 DEF Typed
  <2>13. task' \in Draining => task' # <<"sending">>
    BY Places
  <2>14. HandsInv'
    BY <2>1, <2>2, <2>10, <2>11, <2>13 DEF HandsInv
  <2> QED BY <2>12, <2>14
<1> QED BY <1>1, <1>2

\* The send task.
LEMMA BaseWriter == ASSUME Base, WriterStep PROVE Base'
<1> USE DEF Base
<1>1. UNCHANGED <<task, pending, waiting, fromPeer, peer, owes, pinged, shutdown, heard>>
  BY DEF WriterStep, WriterTakes, WriterWrites, WriterFails, WriterEnds, wire
<1>2. CASE WriterTakes
  <2>1. /\ out # <<>> /\ writer = "idle" /\ writer' = "writing" /\ writing' = <<Head(out)>>
        /\ out' = Tail(out) /\ UNCHANGED <<toPeer, ponged>>
    BY <1>2 DEF WriterTakes, wire
  <2>2. Head(out) \in Msg /\ Tail(out) \in Seq(Msg) /\ <<Head(out)>> \in Seq(Msg)
    BY <2>1, Ends DEF Typed
  <2>3. task \notin Idle
    BY <2>1 DEF HandsInv
  <2>4. Typed'
    BY <1>1, <2>1, <2>2 DEF Typed
  <2> QED BY <1>1, <2>1, <2>2, <2>3, <2>4 DEF HandsInv
<1>3. CASE WriterWrites
  <2>1. /\ writer = "writing" /\ writer' = "idle" /\ writing' = <<>> /\ toPeer' = toPeer \o writing
        /\ ponged' = (IF writing[1].kind = "pong" THEN Append(ponged, writing[1].id) ELSE ponged)
        /\ UNCHANGED out
    BY <1>3 DEF WriterWrites
  <2>2. PICK m \in Msg : writing = <<m>>
    BY <2>1 DEF HandsInv
  <2>3. writing[1] = m /\ m.id \in Nat
    BY <2>2 DEF Msg
  <2>4. ponged' \in Seq(Nat)
    BY <2>1, <2>3 DEF Typed
  <2>5. toPeer' \in Seq(Msg)
    BY <2>1, Ends DEF Typed
  <2>6. Typed'
    BY <1>1, <2>1, <2>4, <2>5, Ends DEF Typed
  <2>7. task \notin Idle
    BY <2>1 DEF HandsInv
  <2> QED BY <1>1, <2>1, <2>6, <2>7 DEF HandsInv
<1>4. CASE WriterFails
  BY <1>1, <1>4, Ends DEF WriterFails, wire, Typed, HandsInv
<1>5. CASE WriterEnds
  BY <1>1, <1>5, Ends DEF WriterEnds, wire, Typed, HandsInv
<1> QED BY <1>2, <1>3, <1>4, <1>5 DEF WriterStep

\* The peer.
LEMMA BasePeer == ASSUME Base, PeerStep PROVE Base'
<1> USE DEF Base
<1>1. UNCHANGED <<task, session, shutdown, heard, ponged>>
  BY DEF PeerStep, PeerPings, PeerData, PeerCloses, PeerPongs, PeerSends, PeerReads, PeerTurnsDeaf,
         SocketBreaks
<1>2. peer' \in {"up", "deaf", "gone"} /\ owes' \in BOOLEAN /\ pinged' \in Nat
  <2>1. peer' \in {"up", "deaf", "gone"} /\ pinged' \in Nat
    BY DEF Typed, PeerStep, PeerPings, PeerData, PeerCloses, PeerPongs, PeerSends, PeerReads,
           PeerTurnsDeaf, SocketBreaks
  <2>2. \/ owes' = owes \/ owes' = FALSE
        \/ owes' = (owes \/ Head(toPeer).kind = "ping")
    BY Zenon DEF PeerStep, PeerPings, PeerData, PeerCloses, PeerPongs, PeerSends, PeerReads,
           PeerTurnsDeaf, SocketBreaks
  <2>3. owes' \in BOOLEAN
    BY <2>2, Zenon DEF Typed
  <2> QED BY <2>1, <2>3
<1>3. \/ fromPeer' = fromPeer
      \/ \E kind \in Kinds : \E i \in Nat : fromPeer' = Append(fromPeer, [kind |-> kind, id |-> i])
  <2>1. CASE PeerPings
    BY <2>1 DEF PeerPings, PeerSends, Typed, Kinds
  <2>2. CASE PeerData
    BY <2>2 DEF PeerData, PeerSends, Kinds
  <2>3. CASE PeerCloses
    BY <2>3 DEF PeerCloses, PeerSends, Kinds
  <2>4. CASE PeerPongs
    BY <2>4 DEF PeerPongs, PeerSends, Kinds, Pong
  <2>5. CASE PeerReads \/ PeerTurnsDeaf \/ SocketBreaks
    BY <2>5 DEF PeerReads, PeerTurnsDeaf, SocketBreaks
  <2> QED BY <2>1, <2>2, <2>3, <2>4, <2>5 DEF PeerStep
<1>4. fromPeer' \in Seq(Msg)
  BY <1>3, Ends DEF Typed
<1>5. toPeer' = toPeer \/ (toPeer # <<>> /\ toPeer' = Tail(toPeer))
  BY DEF PeerStep, PeerPings, PeerData, PeerCloses, PeerPongs, PeerSends, PeerReads, PeerTurnsDeaf,
         SocketBreaks
<1>6. toPeer' \in Seq(Msg)
  BY <1>5, Ends DEF Typed
<1>7. Typed'
  BY <1>1, <1>2, <1>4, <1>6 DEF Typed, session
<1>8. HandsInv'
  BY <1>1 DEF HandsInv, session
<1> QED BY <1>7, <1>8

\* The start.
LEMMA InitBase == Init => Base
<1> SUFFICES ASSUME Init PROVE Base
  OBVIOUS
<1>1. task \in Idle /\ task # <<"sending">>
  BY Places DEF Init, Idle
<1>2. ponged \in Seq(Nat)
  BY DEF Init
<1> QED BY <1>1, <1>2, Ends DEF Init, Base, Typed, HandsInv

\* Every step.
LEMMA NextBase == Base /\ [Next]_vars => Base'
<1> SUFFICES ASSUME Base, [Next]_vars PROVE Base'
  OBVIOUS
<1>1. CASE UNCHANGED vars \/ Stopped
  BY <1>1 DEF Stopped, vars, session, wire, timers, Base, Typed, HandsInv
<1> QED BY <1>1, BaseOuter, BaseDialled, BaseLoop, BaseWriter, BasePeer DEF Next, RunStep, Outer

------------------------------------------------------------------------------
(***************************************************************************)
(* The numbers of pings and pongs.                                         *)
(***************************************************************************)

\* How a message goes from hand to hand without changing the queue they form.
LEMMA Hands ==
  ASSUME NEW w \in Seq(Msg), NEW o \in Seq(Msg), NEW p \in Seq(Msg), NEW m \in Msg
  PROVE  /\ w \o o \o <<m>> = Append(w \o o \o <<>>, m)
         /\ w \o (o \o p) \o <<>> = w \o o \o p
         /\ o # <<>> => <<Head(o)>> \o Tail(o) \o p = <<>> \o o \o p
         /\ <<m>> \o o \o p # <<>>
         /\ Head(<<m>> \o o \o p) = m /\ Tail(<<m>> \o o \o p) = <<>> \o o \o p
<1>1. w \o o \o <<m>> = Append(w \o o \o <<>>, m)
  OBVIOUS
<1>2. w \o (o \o p) \o <<>> = w \o o \o p
  OBVIOUS
<1>3. ASSUME o # <<>> PROVE <<Head(o)>> \o Tail(o) \o p = <<>> \o o \o p
  <2>1. <<Head(o)>> \o Tail(o) = o /\ <<>> \o o = o
    BY <1>3
  <2> QED BY <2>1
<1>4. /\ <<m>> \o o \o p # <<>>
      /\ Head(<<m>> \o o \o p) = m /\ Tail(<<m>> \o o \o p) = <<>> \o o \o p
  <2> DEFINE q == o \o p
  <2>1. q \in Seq(Msg) /\ <<m>> \o o \o p = <<m>> \o q /\ <<>> \o o \o p = q
    OBVIOUS
  <2> HIDE DEF q
  <2>2. <<m>> \o q # <<>> /\ Head(<<m>> \o q) = m /\ Tail(<<m>> \o q) = q
    BY <2>1
  <2> QED BY <2>1, <2>2
<1> QED BY <1>1, <1>2, <1>3, <1>4

\* The pings that come, and the pongs that go.
Arriving == Numbered(fromPeer, heard, "ping") /\ heard + Count(fromPeer, "ping") = pinged
Leaving  == /\ \A k \in 1..Len(ponged) : ponged[k] = k
            /\ writer # "gone" => /\ Numbered(Unsent, Len(ponged), "pong")
                                  /\ Len(ponged) + Count(Unsent, "pong") = heard

\* The two halves of AnswerInv.
LEMMA Halves == (AnswerInv <=> Arriving /\ Leaving) /\ (AnswerInv' <=> Arriving' /\ Leaving')
BY DEF AnswerInv, Arriving, Leaving

\* An empty queue is numbered.
LEMMA NumberedNone == \A n, kind : Numbered(<<>>, n, kind) /\ Count(<<>>, kind) = 0
<1>1. Len(<<>>) = 0
  OBVIOUS
<1> QED BY <1>1, CountSmall DEF Numbered

\* The read loop reads the first message: a ping is the next one.
LEMMA ArrivingReads ==
  ASSUME Base, Arriving, fromPeer # <<>>, fromPeer' = Tail(fromPeer), UNCHANGED pinged,
         heard' = IF Head(fromPeer).kind = "ping" THEN Head(fromPeer).id ELSE heard
  PROVE  Arriving' /\ heard' = heard + One(Head(fromPeer), "ping")
<1> DEFINE s == fromPeer
           o == One(Head(s), "ping")
<1>1. s \in Seq(Msg) /\ heard \in Nat /\ pinged \in Nat
  BY DEF Base, Typed
<1>2. Numbered(s, heard, "ping") /\ heard + Count(s, "ping") = pinged
  BY DEF Arriving
<1>3. /\ Head(s).kind = "ping" => Head(s).id = heard + 1
      /\ Numbered(Tail(s), heard + o, "ping")
  BY <1>1, <1>2, NumberedTail
<1>4. Count(s, "ping") = o + Count(Tail(s), "ping") /\ Count(Tail(s), "ping") \in Nat
  BY <1>1, CountEnds
<1>5. heard' = heard + o /\ o \in {0, 1}
  BY <1>1, <1>3 DEF One
<1> HIDE DEF o
<1>6. (heard + o) + Count(Tail(s), "ping") = pinged
  BY <1>1, <1>2, <1>4, <1>5
<1>7. Arriving'
  BY <1>3, <1>5, <1>6 DEF Arriving
<1> QED BY <1>5, <1>7 DEF o

\* The peer sends a message: a ping is the next one.
LEMMA ArrivingSent ==
  ASSUME Base, Arriving, NEW m \in Msg, fromPeer' = Append(fromPeer, m), UNCHANGED heard,
         pinged' = pinged + One(m, "ping"), m.kind = "ping" => m.id = pinged + 1
  PROVE  Arriving'
<1> DEFINE s == fromPeer
<1>1. s \in Seq(Msg) /\ heard \in Nat /\ pinged \in Nat
  BY DEF Base, Typed
<1>2. Numbered(s, heard, "ping") /\ heard + Count(s, "ping") = pinged
  BY DEF Arriving
<1>3. Count(Append(s, m), "ping") = Count(s, "ping") + One(m, "ping") /\ Count(s, "ping") \in Nat
  BY <1>1, CountEnds
<1>4. One(m, "ping") \in {0, 1}
  BY DEF One
<1>5. m.kind = "ping" => m.id = heard + Count(s, "ping") + 1
  BY <1>2
<1>6. Numbered(Append(s, m), heard, "ping")
  BY <1>1, <1>2, <1>5, NumberedAppend
<1>7. heard + Count(Append(s, m), "ping") = pinged + One(m, "ping")
  BY <1>1, <1>2, <1>3, <1>4
<1> QED BY <1>6, <1>7 DEF Arriving

\* The queue of the unsent, before a step.
LEMMA UnsentType ==
  ASSUME Base
  PROVE  /\ writing \in Seq(Msg) /\ out \in Seq(Msg) /\ pending \in Seq(Msg)
         /\ writing \o out \in Seq(Msg) /\ Unsent \in Seq(Msg)
         /\ Len(ponged) \in Nat /\ ponged \in Seq(Nat) /\ heard \in Nat
<1>1. writing \in Seq(Msg) /\ out \in Seq(Msg) /\ pending \in Seq(Msg) /\ ponged \in Seq(Nat)
      /\ heard \in Nat
  BY DEF Base, Typed
<1>2. writing \o out \in Seq(Msg) /\ Unsent \in Seq(Msg)
  BY <1>1, Ends DEF Unsent
<1>3. Len(ponged) \in Nat
  BY <1>1
<1> QED BY <1>1, <1>2, <1>3

\* The read loop has a message to send: a pong is that of the ping just read.
LEMMA LeavingQueued ==
  ASSUME Base, Leaving, NEW m \in Msg, pending = <<>>, pending' = <<m>>,
         UNCHANGED <<writing, out, writer, ponged>>,
         heard' = heard + One(m, "pong"), m.kind = "pong" => m.id = heard + 1
  PROVE  Leaving'
<1> SUFFICES ASSUME writer # "gone"
             PROVE  Numbered(Unsent', Len(ponged), "pong")
                    /\ Len(ponged) + Count(Unsent', "pong") = heard'
  BY DEF Leaving
<1>1. /\ Unsent \in Seq(Msg) /\ Len(ponged) \in Nat /\ heard \in Nat
      /\ Numbered(Unsent, Len(ponged), "pong") /\ Len(ponged) + Count(Unsent, "pong") = heard
  BY UnsentType DEF Leaving
<1>2. Unsent' = Append(Unsent, m)
  BY UnsentType, Hands DEF Unsent
<1>3. m.kind = "pong" => m.id = Len(ponged) + Count(Unsent, "pong") + 1
  BY <1>1
<1>4. Numbered(Append(Unsent, m), Len(ponged), "pong")
  BY <1>1, <1>3, NumberedAppend
<1>5. Count(Append(Unsent, m), "pong") = Count(Unsent, "pong") + One(m, "pong")
      /\ Count(Unsent, "pong") \in Nat
  BY <1>1, CountEnds
<1>6. One(m, "pong") \in {0, 1}
  BY DEF One
<1> DEFINE n == Len(ponged)
<1>7. n \in Nat /\ n + Count(Unsent, "pong") = heard
  BY <1>1
<1> HIDE DEF n
<1>8. n + Count(Append(Unsent, m), "pong") = heard'
  BY <1>1, <1>5, <1>6, <1>7
<1> QED BY <1>2, <1>4, <1>8 DEF n

\* The queue moves on, or stands.
LEMMA LeavingKept ==
  ASSUME Leaving, UNCHANGED <<ponged, heard>>,
         writer' = "gone" \/ (writer # "gone" /\ Unsent' = Unsent)
  PROVE  Leaving'
BY DEF Leaving

\* The send task has written a message.
LEMMA LeavingWritten ==
  ASSUME Base, Leaving, WriterWrites
  PROVE  Leaving'
<1>1. /\ writer = "writing" /\ writer' = "idle" /\ writing' = <<>> /\ UNCHANGED <<out, pending, heard>>
      /\ ponged' = (IF writing[1].kind = "pong" THEN Append(ponged, writing[1].id) ELSE ponged)
  BY DEF WriterWrites
<1>2. PICK m \in Msg : writing = <<m>>
  BY <1>1 DEF Base, HandsInv
<1>3. writing[1] = m
  BY <1>2
<1>4. /\ Unsent # <<>> /\ Head(Unsent) = m /\ Tail(Unsent) = Unsent'
  BY <1>1, <1>2, UnsentType, Hands DEF Unsent
<1>5. /\ Unsent \in Seq(Msg) /\ Len(ponged) \in Nat /\ heard \in Nat /\ ponged \in Seq(Nat)
      /\ Numbered(Unsent, Len(ponged), "pong") /\ Len(ponged) + Count(Unsent, "pong") = heard
      /\ \A k \in 1..Len(ponged) : ponged[k] = k
  BY <1>1, UnsentType DEF Leaving
<1>6. /\ m.kind = "pong" => m.id = Len(ponged) + 1
      /\ Numbered(Unsent', Len(ponged) + One(m, "pong"), "pong")
  BY <1>4, <1>5, NumberedTail
<1>7. Count(Unsent, "pong") = One(m, "pong") + Count(Unsent', "pong") /\ Count(Unsent', "pong") \in Nat
  BY <1>4, <1>5, CountEnds
<1>8. m.id \in Nat
  BY DEF Msg
<1>9. Len(ponged') = Len(ponged) + One(m, "pong") /\ \A k \in 1..Len(ponged') : ponged'[k] = k
  <2>1. CASE m.kind = "pong"
    <3>1. ponged' = Append(ponged, m.id) /\ m.id = Len(ponged) + 1 /\ One(m, "pong") = 1
      BY <1>1, <1>3, <1>6, <2>1 DEF One
    <3> DEFINE n == Len(ponged)
               i == m.id
    <3>2. /\ n \in Nat /\ Len(Append(ponged, i)) = n + 1 /\ Append(ponged, i)[n + 1] = i
          /\ \A k \in 1..n : Append(ponged, i)[k] = ponged[k]
      BY <1>5, <1>8
    <3>3. i = n + 1 /\ \A k \in 1..n : ponged[k] = k
      BY <1>5, <3>1
    <3>4. ponged' = Append(ponged, i)
      BY <3>1
    <3> HIDE DEF n, i
    <3>5. \A k \in 1..(n + 1) : k \in 1..n \/ k = n + 1
      BY <3>2
    <3>6. \A k \in 1..(n + 1) : Append(ponged, i)[k] = k
      BY <3>2, <3>3, <3>5
    <3> QED BY <3>1, <3>2, <3>4, <3>6 DEF n
  <2>2. CASE m.kind # "pong"
    <3>1. ponged' = ponged /\ One(m, "pong") = 0
      BY <1>1, <1>3, <2>2 DEF One
    <3> QED BY <1>5, <3>1
  <2> QED BY <2>1, <2>2
<1>10. One(m, "pong") \in {0, 1}
  BY DEF One
<1> DEFINE n == Len(ponged)
<1>11. n \in Nat /\ n + Count(Unsent, "pong") = heard
  BY <1>5
<1> HIDE DEF n
<1>12. (n + One(m, "pong")) + Count(Unsent', "pong") = heard
  BY <1>7, <1>10, <1>11
<1> QED BY <1>1, <1>6, <1>9, <1>12 DEF Leaving, n

\* Every step.
LEMMA NextAnswer == Base /\ AnswerInv /\ [Next]_vars => AnswerInv'
<1> SUFFICES ASSUME Base, AnswerInv, [Next]_vars PROVE AnswerInv'
  OBVIOUS
<1>1. Arriving /\ Leaving
  BY Halves
<1>2. CASE /\ UNCHANGED <<pending, out, writing, fromPeer, pinged, heard, ponged>>
           /\ writer' = writer \/ writer' = "gone"
  BY <1>2 DEF AnswerInv, Unsent
<1>3. CASE Outer \/ Stopped \/ UNCHANGED vars
  BY <1>2, <1>3 DEF Outer, CheckShutdown, Interrupted, BackoffElapsed, DialFailed, SessionOver,
       TickDue, RotationDue, ShutdownSent, Stopped, vars, session, wire
<1>4. CASE Dialled
  <2>1. /\ out' = <<>> /\ fromPeer' = <<>> /\ pinged' = 0 /\ heard' = 0 /\ ponged' = <<>>
        /\ UNCHANGED <<pending, writing>> /\ task = <<"dial">>
    BY <1>4 DEF Dialled
  <2>2. pending = <<>> /\ writing = <<>>
    <3>1. task \in Idle /\ task # <<"sending">>
      BY <2>1, Places DEF Idle
    <3> QED BY <3>1 DEF Base, HandsInv
  <2>3. Unsent' = <<>> /\ Len(ponged') = 0
    BY <2>1, <2>2 DEF Unsent
  <2> QED BY <2>1, <2>3, NumberedNone DEF AnswerInv
<1>5. CASE ShutdownBranch \/ RotationBranch \/ ReadEnd
  BY <1>2, <1>5 DEF ShutdownBranch, RotationBranch, ReadEnd, Break, session, wire
<1>6. CASE PingTick
  <2>1. UNCHANGED <<fromPeer, pinged, heard, ponged, writing, out, writer>>
    BY <1>6 DEF PingTick, Break, session, wire
  <2>2. CASE pending' = pending
    BY <1>2, <2>1, <2>2
  <2>3. CASE pending' # pending
    <3>1. pending' = <<Ping>> /\ task = <<"select">>
      BY <1>6, <2>3 DEF PingTick, Break, session
    <3>2. pending = <<>>
      BY <3>1, Places DEF Base, HandsInv
    <3>3. Ping \in Msg /\ One(Ping, "pong") = 0 /\ Ping.kind # "pong"
      BY Ends DEF One, Ping
    <3>4. heard' = heard + One(Ping, "pong")
      BY <2>1, <3>3 DEF Base, Typed
    <3>5. Leaving'
      BY <1>1, <2>1, <3>1, <3>2, <3>3, <3>4, LeavingQueued
    <3>6. Arriving'
      BY <1>1, <2>1 DEF Arriving
    <3> QED BY <3>5, <3>6, Halves
  <2> QED BY <2>2, <2>3
<1>7. CASE ReadData \/ ReadPong \/ ReadClose
  <2>1. /\ fromPeer # <<>> /\ fromPeer' = Tail(fromPeer) /\ Head(fromPeer).kind # "ping"
        /\ UNCHANGED <<pinged, heard, ponged, writer, writing, out, pending>>
    BY <1>7 DEF ReadData, ReadPong, ReadClose, Received, Break, session
  <2>2. Arriving'
    BY <1>1, <2>1, ArrivingReads
  <2>3. Leaving'
    BY <1>1, <2>1 DEF Leaving, Unsent
  <2> QED BY <2>2, <2>3, Halves
<1>8. CASE ReadPing
  <2> DEFINE m == Head(fromPeer)
             p == Pong(m.id)
  <2>1. /\ fromPeer # <<>> /\ fromPeer' = Tail(fromPeer) /\ m.kind = "ping"
        /\ heard' = m.id /\ pending' = <<p>> /\ task = <<"select">>
        /\ UNCHANGED <<pinged, ponged, writer, writing, out>>
    BY <1>8 DEF ReadPing, Received, ReadTurn
  <2>2. Arriving' /\ heard' = heard + One(m, "ping")
    BY <1>1, <2>1, ArrivingReads
  <2>3. m.id \in Nat
    <3>1. m \in Msg
      BY <2>1, Ends DEF Base, Typed
    <3> QED BY <3>1 DEF Msg
  <2>4. p \in Msg /\ p.kind = "pong" /\ p.id = m.id
    BY <2>3, Ends DEF Pong
  <2>5. One(m, "ping") = 1 /\ One(p, "pong") = 1
    BY <2>1, <2>4 DEF One
  <2>6. pending = <<>>
    BY <2>1, Places DEF Base, HandsInv
  <2>7. heard' = heard + One(p, "pong") /\ p.id = heard + 1
    BY <2>1, <2>2, <2>4, <2>5
  <2> HIDE DEF p, m
  <2>8. Leaving'
    BY <1>1, <2>1, <2>4, <2>6, <2>7, LeavingQueued
  <2> QED BY <2>2, <2>8, Halves
<1>9. CASE SendOut
  <2>1. /\ out' = (IF writer = "gone" THEN out ELSE out \o pending) /\ pending' = <<>>
        /\ UNCHANGED <<writer, writing, fromPeer, pinged, heard, ponged>>
    BY <1>9 DEF SendOut, wire
  <2>2. Arriving'
    BY <1>1, <2>1 DEF Arriving
  <2>3. writer # "gone" => Unsent' = Unsent
    BY <2>1, UnsentType, Ends, Hands DEF Unsent
  <2>4. Leaving'
    BY <1>1, <2>1, <2>3, LeavingKept
  <2> QED BY <2>2, <2>4, Halves
<1>10. CASE WriterTakes
  <2>1. /\ writer = "idle" /\ out # <<>> /\ writing' = <<Head(out)>> /\ out' = Tail(out)
        /\ UNCHANGED <<pending, fromPeer, pinged, heard, ponged>>
    BY <1>10 DEF WriterTakes, wire
  <2>2. writing = <<>>
    BY <2>1 DEF Base, HandsInv
  <2>3. Unsent' = Unsent
    BY <2>1, <2>2, UnsentType, Ends, Hands DEF Unsent
  <2>4. Arriving' /\ Leaving'
    BY <1>1, <2>1, <2>3, LeavingKept DEF Arriving
  <2> QED BY <2>4, Halves
<1>11. CASE WriterWrites
  <2>1. Arriving'
    BY <1>1, <1>11 DEF WriterWrites, Arriving
  <2> QED BY <1>1, <1>11, <2>1, LeavingWritten, Halves
<1>12. CASE WriterFails \/ WriterEnds
  <2>1. writer' = "gone" /\ UNCHANGED <<fromPeer, pinged, heard, ponged>>
    BY <1>12 DEF WriterFails, WriterEnds, wire
  <2> QED BY <1>1, <2>1, LeavingKept, Halves DEF Arriving
<1>13. CASE PeerReads \/ PeerTurnsDeaf \/ SocketBreaks
  BY <1>2, <1>13 DEF PeerReads, PeerTurnsDeaf, SocketBreaks, session
<1>14. CASE PeerPings \/ PeerData \/ PeerCloses \/ PeerPongs
  <2>1. UNCHANGED <<pending, out, writing, writer, heard, ponged>>
    BY <1>14 DEF PeerPings, PeerData, PeerCloses, PeerPongs, PeerSends, session
  <2>2. Leaving'
    BY <1>1, <2>1 DEF Leaving, Unsent
  <2>3. PICK m \in Msg : /\ fromPeer' = Append(fromPeer, m)
                         /\ pinged' = pinged + One(m, "ping") /\ (m.kind = "ping" => m.id = pinged + 1)
    <3>1. pinged \in Nat
      BY DEF Base, Typed
    <3>2. CASE PeerPings
      <4> DEFINE m == [kind |-> "ping", id |-> pinged + 1]
      <4>1. m \in Msg /\ m.kind = "ping" /\ m.id = pinged + 1
        BY <3>1, Ends DEF Kinds
      <4>2. fromPeer' = Append(fromPeer, m) /\ pinged' = pinged + 1
        BY <3>2 DEF PeerPings, PeerSends
      <4>3. One(m, "ping") = 1
        BY <4>1 DEF One
      <4> HIDE DEF m
      <4> QED BY <4>1, <4>2, <4>3
    <3>3. CASE ~PeerPings
      <4>1. PICK kind \in {"data", "close", "pong"} : fromPeer' = Append(fromPeer, [kind |-> kind, id |-> 0])
        BY <1>14, <3>3 DEF PeerData, PeerCloses, PeerPongs, PeerSends, Pong
      <4> DEFINE m == [kind |-> kind, id |-> 0]
      <4>2. m \in Msg /\ m.kind # "ping"
        BY Ends DEF Kinds
      <4>3. pinged' = pinged
        BY <1>14, <3>3 DEF PeerData, PeerCloses, PeerPongs
      <4>4. One(m, "ping") = 0
        BY <4>2 DEF One
      <4>5. fromPeer' = Append(fromPeer, m)
        BY <4>1
      <4> HIDE DEF m
      <4> QED BY <3>1, <4>2, <4>3, <4>4, <4>5
    <3> QED BY <3>2, <3>3
  <2>4. Arriving'
    BY <1>1, <2>1, <2>3, ArrivingSent
  <2> QED BY <2>2, <2>4, Halves
<1> QED BY <1>3, <1>4, <1>5, <1>6, <1>7, <1>8, <1>9, <1>10, <1>11, <1>12, <1>13, <1>14
        DEF Next, RunStep, LoopStep, WriterStep, PeerStep, Outer

\* The start.
LEMMA InitAnswer == Init => AnswerInv
<1> SUFFICES ASSUME Init PROVE AnswerInv
  OBVIOUS
<1>1. fromPeer = <<>> /\ heard = 0 /\ pinged = 0 /\ writer = "gone" /\ Len(ponged) = 0
  BY DEF Init
<1> QED BY <1>1, NumberedNone DEF AnswerInv

\* Every ping of the peer is answered once and in order.
THEOREM AnsweredInOrder == Spec => []PongsInOrder
<1>1. AnswerInv => PongsInOrder
  BY DEF AnswerInv, PongsInOrder, Numbered, Unsent
<1> QED BY <1>1, InitBase, NextBase, InitAnswer, NextAnswer, PTL DEF Spec

------------------------------------------------------------------------------
(***************************************************************************)
(* The ping under way.                                                     *)
(***************************************************************************)

\* The pings of a queue, the pongs that come back, the answer owed.
Pings(s) == Count(s, "ping")
Pongs    == Count(fromPeer, "pong")
Owed     == IF owes THEN 1 ELSE 0

\* The pings of four queues.
LEMMA PingsOfFour ==
  ASSUME NEW a \in Seq(Msg), NEW b \in Seq(Msg), NEW c \in Seq(Msg), NEW d \in Seq(Msg)
  PROVE  /\ Pings(a \o b \o c \o d) = Pings(a) + Pings(b) + Pings(c) + Pings(d)
         /\ Pings(a) \in Nat /\ Pings(b) \in Nat /\ Pings(c) \in Nat /\ Pings(d) \in Nat
<1> DEFINE x == a \o b
           y == x \o c
<1>1. x \in Seq(Msg) /\ y \in Seq(Msg)
  OBVIOUS
<1>2. Pings(x) = Pings(a) + Pings(b) /\ Pings(a) \in Nat /\ Pings(b) \in Nat
  BY CountConcat DEF Pings
<1> HIDE DEF x
<1>3. Pings(y) = Pings(x) + Pings(c) /\ Pings(c) \in Nat
  BY <1>1, CountConcat DEF Pings
<1> HIDE DEF y
<1>4. Pings(y \o d) = Pings(y) + Pings(d) /\ Pings(d) \in Nat
  BY <1>1, CountConcat DEF Pings
<1>5. Pings(y \o d) = Pings(a) + Pings(b) + Pings(c) + Pings(d)
  BY <1>2, <1>3, <1>4
<1> QED BY <1>2, <1>3, <1>4, <1>5 DEF x, y

\* The ping, or its pong, wherever it is.
LEMMA WhereItIs ==
  ASSUME Base
  PROVE  /\ Outstanding = Pings(pending) + Pings(out) + Pings(writing) + Pings(toPeer) + Owed + Pongs
         /\ Pings(pending) \in Nat /\ Pings(out) \in Nat /\ Pings(writing) \in Nat
         /\ Pings(toPeer) \in Nat /\ Owed \in {0, 1} /\ Pongs \in Nat
<1>1. /\ pending \in Seq(Msg) /\ out \in Seq(Msg) /\ writing \in Seq(Msg) /\ toPeer \in Seq(Msg)
      /\ fromPeer \in Seq(Msg)
  BY DEF Base, Typed
<1>2. /\ Pings(pending \o out \o writing \o toPeer)
           = Pings(pending) + Pings(out) + Pings(writing) + Pings(toPeer)
      /\ Pings(pending) \in Nat /\ Pings(out) \in Nat /\ Pings(writing) \in Nat
      /\ Pings(toPeer) \in Nat
  BY <1>1, PingsOfFour
<1>3. Pongs \in Nat
  BY <1>1, CountEnds DEF Pongs
<1>4. Owed \in {0, 1}
  BY DEF Owed
<1>5. Outstanding = Pings(pending \o out \o writing \o toPeer) + Owed + Pongs
  BY DEF Outstanding, Pings, Owed, Pongs
<1> QED BY <1>2, <1>3, <1>4, <1>5

\* The same after a step.
LEMMA WhereItIsNext ==
  ASSUME Base'
  PROVE  /\ Outstanding' = Pings(pending') + Pings(out') + Pings(writing') + Pings(toPeer') + Owed' + Pongs'
         /\ Pings(pending') \in Nat /\ Pings(out') \in Nat /\ Pings(writing') \in Nat
         /\ Pings(toPeer') \in Nat /\ Owed' \in {0, 1} /\ Pongs' \in Nat
<1>1. /\ pending' \in Seq(Msg) /\ out' \in Seq(Msg) /\ writing' \in Seq(Msg) /\ toPeer' \in Seq(Msg)
      /\ fromPeer' \in Seq(Msg)
  BY DEF Base, Typed
<1>2. /\ Pings(pending' \o out' \o writing' \o toPeer')
           = Pings(pending') + Pings(out') + Pings(writing') + Pings(toPeer')
      /\ Pings(pending') \in Nat /\ Pings(out') \in Nat /\ Pings(writing') \in Nat
      /\ Pings(toPeer') \in Nat
  BY <1>1, PingsOfFour
<1>3. Pongs' \in Nat
  BY <1>1, CountEnds DEF Pongs
<1>4. Owed' \in {0, 1}
  BY DEF Owed
<1>5. Outstanding' = Pings(pending' \o out' \o writing' \o toPeer') + Owed' + Pongs'
  BY DEF Outstanding, Pings, Owed, Pongs
<1> QED BY <1>2, <1>3, <1>4, <1>5

\* A session in which nothing has failed, and what must be under way in it.
Live == task \in Running /\ writer # "gone" /\ peer # "gone"
Due  == IF waiting \/ pending = <<Ping>> THEN 1 ELSE 0

\* FlagInv in these terms.
LEMMA FlagIs ==
  /\ FlagInv <=> (Live => Outstanding = Due /\ ~(waiting /\ pending = <<Ping>>))
  /\ FlagInv' <=> (Live' => Outstanding' = Due' /\ ~(waiting' /\ pending' = <<Ping>>))
BY DEF FlagInv, Live, Due

\* Nothing of what counts is touched.
LEMMA FlagStands ==
  ASSUME FlagInv, UNCHANGED <<pending, out, writing, toPeer, owes, fromPeer, waiting>>, Live' => Live
  PROVE  FlagInv'
<1>1. Outstanding' = Outstanding /\ Due' = Due
  BY DEF Outstanding, Due
<1> QED BY <1>1, FlagIs

\* Ping is a ping, and a pong is not.
LEMMA OneOfThem ==
  /\ Pings(<<>>) = 0 /\ Pings(<<Ping>>) = 1
  /\ \A i : Pings(<<Pong(i)>>) = 0 /\ <<Pong(i)>> # <<Ping>>
  /\ \A m : Pings(<<m>>) = One(m, "ping") /\ One(m, "ping") \in {0, 1} /\ One(m, "pong") \in {0, 1}
  /\ <<>> # <<Ping>>
<1>1. Pings(<<>>) = 0 /\ \A m : Pings(<<m>>) = One(m, "ping")
  BY CountSmall DEF Pings
<1>2. One(Ping, "ping") = 1
  BY DEF One, Ping
<1>3. \A i : One(Pong(i), "ping") = 0
  BY DEF One, Pong
<1>4. \A i : <<Pong(i)>> # <<Ping>>
  <2>1. \A i : Pong(i).kind = "pong" /\ Ping.kind = "ping"
    BY DEF Pong, Ping
  <2>2. \A x, y : <<x>> = <<y>> => x = y
    OBVIOUS
  <2> QED BY <2>1, <2>2, Zenon
<1>5. \A m : One(m, "ping") \in {0, 1} /\ One(m, "pong") \in {0, 1}
  BY DEF One
<1>6. <<>> # <<Ping>>
  OBVIOUS
<1> QED BY <1>1, <1>2, <1>3, <1>4, <1>5, <1>6

\* The read loop.
LEMMA FlagLoop == ASSUME Base, Base', FlagInv, LoopStep PROVE FlagInv'
<1> SUFFICES ASSUME Live'
             PROVE  Outstanding' = Due' /\ ~(waiting' /\ pending' = <<Ping>>)
  BY FlagIs
<1>1. task \in Running /\ UNCHANGED <<writer, peer>>
  BY Places DEF LoopStep, ShutdownBranch, RotationBranch, PingTick, ReadData, ReadPing, ReadPong,
       ReadClose, ReadEnd, Received, ReadTurn, SendOut, Break, session, wire
<1>2. Live /\ Outstanding = Due /\ ~(waiting /\ pending = <<Ping>>)
  BY <1>1, FlagIs DEF Live
<1>3. Due \in {0, 1} /\ Due' \in {0, 1}
  BY DEF Due
<1>4. /\ Outstanding = Pings(pending) + Pings(out) + Pings(writing) + Pings(toPeer) + Owed + Pongs
      /\ Pings(pending) \in Nat /\ Pings(out) \in Nat /\ Pings(writing) \in Nat
      /\ Pings(toPeer) \in Nat /\ Owed \in {0, 1} /\ Pongs \in Nat
  BY WhereItIs
<1>5. /\ Outstanding' = Pings(pending') + Pings(out') + Pings(writing') + Pings(toPeer') + Owed' + Pongs'
      /\ Pings(pending') \in Nat /\ Pings(out') \in Nat /\ Pings(writing') \in Nat
      /\ Pings(toPeer') \in Nat /\ Owed' \in {0, 1} /\ Pongs' \in Nat
  BY WhereItIsNext
<1>6. UNCHANGED <<writing, toPeer, owes>> /\ Owed' = Owed
  BY DEF LoopStep, ShutdownBranch, RotationBranch, PingTick, ReadData, ReadPing, ReadPong,
       ReadClose, ReadEnd, Received, ReadTurn, SendOut, Break, session, wire, Owed
<1>7. Outstanding = Due
  BY <1>2
<1>8. Pings(writing') = Pings(writing) /\ Pings(toPeer') = Pings(toPeer) /\ Owed' = Owed
  BY <1>6
<1>9. CASE ShutdownBranch \/ RotationBranch \/ ReadClose \/ ReadEnd
  <2>1. task' \in Draining
    BY <1>9, Places DEF ShutdownBranch, RotationBranch, ReadClose, ReadEnd, Break, Reasons
  <2> QED BY <2>1, Places DEF Live
<1>10. CASE PingTick
  <2>1. task = <<"select">> /\ UNCHANGED <<out, fromPeer>>
    BY <1>10 DEF PingTick, Break, session, wire
  <2>2. pending = <<>> /\ task \in Running
    BY <2>1, Places DEF Base, HandsInv
  <2>3. ~waiting
    <3>1. waiting => task' \in Draining
      BY <1>10, Places DEF PingTick, Break, Reasons
    <3> QED BY <3>1, Places DEF Live
  <2>4. pending' = <<Ping>> /\ UNCHANGED waiting
    BY <1>10, <2>3 DEF PingTick
  <2>5. Pongs' = Pongs
    BY <2>1 DEF Pongs
  <2>6. Due = 0 /\ Due' = 1
    BY <2>2, <2>3, <2>4, OneOfThem DEF Due
  <2>7. Pings(pending) = 0 /\ Pings(pending') = 1
    BY <2>2, <2>4, OneOfThem
  <2>8. Pings(out') = Pings(out)
    BY <2>1
  <2>9. Outstanding' = Due'
    <3>1. Pings(pending) + Pings(out) + Pings(writing) + Pings(toPeer) + Owed + Pongs = 0
      BY <1>7, <1>4, <2>6
    <3>2. Pings(pending') + Pings(out') + Pings(writing') + Pings(toPeer') + Owed' + Pongs' = 1
      BY <3>1, <1>4, <1>5, <1>8, <2>5, <2>7, <2>8
    <3> QED BY <1>5, <2>6, <3>2
  <2>10. ~(waiting' /\ pending' = <<Ping>>)
    BY <2>3, <2>4, Zenon
  <2> QED BY <2>9, <2>10
<1>11. CASE ReadData
  <2>1. /\ fromPeer # <<>> /\ fromPeer' = Tail(fromPeer) /\ Head(fromPeer).kind = "data"
        /\ UNCHANGED <<pending, out, waiting>>
    BY <1>11 DEF ReadData, Received, session
  <2>2. Pongs = One(Head(fromPeer), "pong") + Pongs'
    BY <2>1, CountEnds DEF Base, Typed, Pongs
  <2>3. One(Head(fromPeer), "pong") = 0
    BY <2>1 DEF One
  <2>4. Pongs' \in Nat /\ Due' = Due
    BY <2>1, WhereItIsNext DEF Due
  <2>5. Outstanding' = Due'
    <3>1. Pings(out') = Pings(out) /\ Pings(pending') = Pings(pending)
      BY <2>1
    <3>2. Pings(pending') + Pings(out') + Pings(writing') + Pings(toPeer') + Owed' + Pongs'
        = Pings(pending) + Pings(out) + Pings(writing) + Pings(toPeer) + Owed + Pongs
      BY <1>4, <1>5, <1>8, <2>2, <2>3, <3>1
    <3>3. Outstanding' = Outstanding
      BY <1>4, <1>5, <3>2
    <3> QED BY <3>3, <1>7, <2>4
  <2>6. ~(waiting' /\ pending' = <<Ping>>)
    BY <1>2, <2>1, Zenon
  <2> QED BY <2>5, <2>6
<1>12. CASE ReadPing
  <2>1. /\ fromPeer # <<>> /\ fromPeer' = Tail(fromPeer) /\ Head(fromPeer).kind = "ping"
        /\ pending' = <<Pong(Head(fromPeer).id)>> /\ task = <<"select">>
        /\ UNCHANGED <<out, waiting>>
    BY <1>12 DEF ReadPing, Received, ReadTurn
  <2>2. Pongs = One(Head(fromPeer), "pong") + Pongs'
    BY <2>1, CountEnds DEF Base, Typed, Pongs
  <2>3. One(Head(fromPeer), "pong") = 0
    BY <2>1 DEF One
  <2>4. pending = <<>>
    BY <2>1, Places DEF Base, HandsInv
  <2>5. Pongs' \in Nat
    BY WhereItIsNext
  <2>6. Due' = Due /\ Pings(pending) = 0 /\ Pings(pending') = 0 /\ pending' # <<Ping>>
    BY <2>1, <2>4, OneOfThem DEF Due
  <2>7. Outstanding' = Due'
    <3>1. Pings(out') = Pings(out)
      BY <2>1
    <3>2. Due' = Due /\ Pings(pending) = 0 /\ Pings(pending') = 0
      BY <2>6
    <3>3. Pings(pending') + Pings(out') + Pings(writing') + Pings(toPeer') + Owed' + Pongs'
        = Pings(pending) + Pings(out) + Pings(writing) + Pings(toPeer) + Owed + Pongs
      BY <1>4, <1>5, <1>8, <2>2, <2>3, <3>1, <3>2
    <3>4. Outstanding' = Outstanding
      BY <1>4, <1>5, <3>3
    <3> QED BY <3>4, <1>7, <3>2
  <2>8. ~(waiting' /\ pending' = <<Ping>>)
    BY <2>6, Zenon
  <2> QED BY <2>7, <2>8
<1>13. CASE ReadPong
  <2>1. /\ fromPeer # <<>> /\ fromPeer' = Tail(fromPeer) /\ Head(fromPeer).kind = "pong"
        /\ task = <<"select">> /\ waiting' = FALSE /\ UNCHANGED <<pending, out>>
    BY <1>13 DEF ReadPong, Received, ReadTurn
  <2>2. Pongs = One(Head(fromPeer), "pong") + Pongs'
    BY <2>1, CountEnds DEF Base, Typed, Pongs
  <2>3. One(Head(fromPeer), "pong") = 1
    BY <2>1 DEF One
  <2>4. pending = <<>>
    BY <2>1, Places DEF Base, HandsInv
  <2>5. Due \in {0, 1} /\ Due' = 0
    BY <2>1, <2>4, OneOfThem DEF Due
  <2>6. Pongs' \in Nat
    BY WhereItIsNext
  <2> QED BY <1>2, <1>4, <1>5, <1>6, <2>1, <2>2, <2>3, <2>4, <2>5, <2>6
<1>14. CASE SendOut
  <2>1. /\ out' = out \o pending /\ pending' = <<>> /\ UNCHANGED fromPeer
        /\ waiting' = (waiting \/ pending = <<Ping>>)
    BY <1>2, <1>14 DEF SendOut, wire, Live
  <2>2. Pings(out') = Pings(out) + Pings(pending)
    BY <2>1, CountConcat DEF Pings, Base, Typed
  <2>3. Pings(pending') = 0 /\ Pongs' = Pongs
    BY <2>1, OneOfThem DEF Pongs
  <2>4. Due' = Due
    BY <2>1, OneOfThem DEF Due
  <2>5. pending' # <<Ping>>
    BY <2>1, OneOfThem
  <2>6. Outstanding' = Due'
    <3>1. Pings(pending') + Pings(out') + Pings(writing') + Pings(toPeer') + Owed' + Pongs'
        = Pings(pending) + Pings(out) + Pings(writing) + Pings(toPeer) + Owed + Pongs
      BY <1>4, <1>5, <1>8, <2>2, <2>3
    <3>2. Outstanding' = Outstanding
      BY <1>4, <1>5, <3>1
    <3> QED BY <3>2, <1>7, <2>4
  <2>7. ~(waiting' /\ pending' = <<Ping>>)
    BY <2>5, Zenon
  <2> QED BY <2>6, <2>7
<1> QED BY <1>9, <1>10, <1>11, <1>12, <1>13, <1>14 DEF LoopStep

\* The send task.
LEMMA FlagWriter == ASSUME Base, Base', FlagInv, WriterStep PROVE FlagInv'
<1> SUFFICES ASSUME Live'
             PROVE  Outstanding' = Due' /\ ~(waiting' /\ pending' = <<Ping>>)
  BY FlagIs
<1>1. UNCHANGED <<task, peer, pending, waiting, owes, fromPeer>>
  BY DEF WriterStep, WriterTakes, WriterWrites, WriterFails, WriterEnds, wire
<1>2. writer # "gone"
  BY DEF Live, WriterStep, WriterTakes, WriterWrites, WriterFails, WriterEnds
<1>3. Live /\ Outstanding = Due /\ ~(waiting /\ pending = <<Ping>>)
  BY <1>1, <1>2, FlagIs DEF Live
<1>4. /\ Outstanding = Pings(pending) + Pings(out) + Pings(writing) + Pings(toPeer) + Owed + Pongs
      /\ Pings(pending) \in Nat /\ Pings(out) \in Nat /\ Pings(writing) \in Nat
      /\ Pings(toPeer) \in Nat /\ Owed \in {0, 1} /\ Pongs \in Nat
  BY WhereItIs
<1>5. /\ Outstanding' = Pings(pending') + Pings(out') + Pings(writing') + Pings(toPeer') + Owed' + Pongs'
      /\ Pings(pending') \in Nat /\ Pings(out') \in Nat /\ Pings(writing') \in Nat
      /\ Pings(toPeer') \in Nat /\ Owed' \in {0, 1} /\ Pongs' \in Nat
  BY WhereItIsNext
<1>6. Owed' = Owed /\ Pongs' = Pongs /\ Due' = Due /\ Due \in {0, 1}
  BY <1>1 DEF Owed, Pongs, Due
<1>7. Outstanding = Due
  BY <1>3
<1>8. CASE WriterTakes
  <2>1. /\ writer = "idle" /\ out # <<>> /\ writing' = <<Head(out)>> /\ out' = Tail(out)
        /\ UNCHANGED toPeer
    BY <1>8 DEF WriterTakes, wire
  <2>2. writing = <<>>
    BY <2>1 DEF Base, HandsInv
  <2>3. Pings(writing) = 0 /\ Pings(writing') = One(Head(out), "ping")
    BY <2>1, <2>2, OneOfThem
  <2>4. Pings(out) = One(Head(out), "ping") + Pings(out')
    BY <2>1, CountEnds DEF Pings, Base, Typed
  <2>5. Pings(out') \in Nat /\ Pings(writing') \in Nat
    BY WhereItIsNext
  <2>6. Outstanding' = Due'
    <3>1. Pings(toPeer') = Pings(toPeer) /\ Pings(pending') = Pings(pending)
      BY <1>1, <2>1
    <3>2. Pings(pending') + Pings(out') + Pings(writing') + Pings(toPeer') + Owed' + Pongs'
        = Pings(pending) + Pings(out) + Pings(writing) + Pings(toPeer) + Owed + Pongs
      BY <1>4, <1>5, <1>6, <2>3, <2>4, <2>5, <3>1
    <3>3. Outstanding' = Outstanding
      BY <1>4, <1>5, <3>2
    <3> QED BY <3>3, <1>7, <1>6
  <2>7. ~(waiting' /\ pending' = <<Ping>>)
    BY <1>1, <1>3, Zenon
  <2> QED BY <2>6, <2>7
<1>9. CASE WriterWrites
  <2>1. writing' = <<>> /\ toPeer' = toPeer \o writing /\ UNCHANGED out
    BY <1>9 DEF WriterWrites
  <2>2. Pings(toPeer') = Pings(toPeer) + Pings(writing)
    BY <2>1, CountConcat DEF Pings, Base, Typed
  <2>3. Pings(writing') = 0
    BY <2>1, OneOfThem
  <2>4. Outstanding' = Due'
    <3>1. Pings(out') = Pings(out) /\ Pings(pending') = Pings(pending)
      BY <1>1, <2>1
    <3>2. Pings(pending') + Pings(out') + Pings(writing') + Pings(toPeer') + Owed' + Pongs'
        = Pings(pending) + Pings(out) + Pings(writing) + Pings(toPeer) + Owed + Pongs
      BY <1>4, <1>5, <1>6, <2>2, <2>3, <3>1
    <3>3. Outstanding' = Outstanding
      BY <1>4, <1>5, <3>2
    <3> QED BY <3>3, <1>7, <1>6
  <2>5. ~(waiting' /\ pending' = <<Ping>>)
    BY <1>1, <1>3, Zenon
  <2> QED BY <2>4, <2>5
<1>10. CASE WriterFails \/ WriterEnds
  BY <1>10 DEF WriterFails, WriterEnds, Live
<1> QED BY <1>8, <1>9, <1>10 DEF WriterStep

\* The peer.
LEMMA FlagPeer == ASSUME Base, Base', FlagInv, PeerStep PROVE FlagInv'
<1>1. UNCHANGED <<task, writer, pending, out, writing, waiting>>
  BY DEF PeerStep, PeerPings, PeerData, PeerCloses, PeerPongs, PeerSends, PeerReads, PeerTurnsDeaf,
         SocketBreaks, session
<1>2. Live' => Live
  BY <1>1 DEF Live, PeerStep, PeerPings, PeerData, PeerCloses, PeerPongs, PeerSends, PeerReads,
         PeerTurnsDeaf, SocketBreaks
<1>3. CASE PeerTurnsDeaf \/ SocketBreaks
  BY <1>1, <1>2, <1>3, FlagStands DEF PeerTurnsDeaf, SocketBreaks
<1> SUFFICES ASSUME Live', ~(PeerTurnsDeaf \/ SocketBreaks)
             PROVE  Outstanding' = Due' /\ ~(waiting' /\ pending' = <<Ping>>)
  BY <1>3, FlagIs
<1>4. Live /\ Outstanding = Due /\ ~(waiting /\ pending = <<Ping>>) /\ Due \in {0, 1} /\ Due' = Due
  BY <1>1, <1>2, FlagIs DEF Due
<1>5. /\ Outstanding = Pings(pending) + Pings(out) + Pings(writing) + Pings(toPeer) + Owed + Pongs
      /\ Pings(pending) \in Nat /\ Pings(out) \in Nat /\ Pings(writing) \in Nat
      /\ Pings(toPeer) \in Nat /\ Owed \in {0, 1} /\ Pongs \in Nat
  BY WhereItIs
<1>6. /\ Outstanding' = Pings(pending') + Pings(out') + Pings(writing') + Pings(toPeer') + Owed' + Pongs'
      /\ Pings(toPeer') \in Nat /\ Pongs' \in Nat
  BY WhereItIsNext
<1>7. CASE PeerPings \/ PeerData \/ PeerCloses
  <2>1. PICK kind \in {"ping", "data", "close"}, i \in Nat :
          fromPeer' = Append(fromPeer, [kind |-> kind, id |-> i])
    BY <1>7 DEF PeerPings, PeerData, PeerCloses, PeerSends, Base, Typed
  <2>2. UNCHANGED <<toPeer, owes>> /\ Owed' = Owed
    BY <1>7 DEF PeerPings, PeerData, PeerCloses, PeerSends, Owed
  <2> DEFINE m == [kind |-> kind, id |-> i]
  <2>3. m \in Msg /\ One(m, "pong") = 0
    BY Ends DEF One, Kinds
  <2>4. fromPeer' = Append(fromPeer, m)
    BY <2>1
  <2> HIDE DEF m
  <2>5. Pongs' = Pongs + One(m, "pong")
    BY <2>3, <2>4, CountEnds DEF Pongs, Base, Typed
  <2> QED BY <1>1, <1>4, <1>5, <1>6, <2>2, <2>3, <2>5
<1>8. CASE PeerPongs
  <2>1. fromPeer' = Append(fromPeer, Pong(0)) /\ owes /\ ~owes' /\ UNCHANGED toPeer
    BY <1>8 DEF PeerPongs, PeerSends
  <2>2. Owed = 1 /\ Owed' = 0
    BY <2>1 DEF Owed
  <2>3. Pong(0) \in Msg /\ One(Pong(0), "pong") = 1
    BY Ends DEF One, Pong
  <2>4. Pongs' = Pongs + One(Pong(0), "pong")
    BY <2>1, <2>3, CountEnds DEF Pongs, Base, Typed
  <2> QED BY <1>1, <1>4, <1>5, <1>6, <2>1, <2>2, <2>3, <2>4
<1>9. CASE PeerReads
  <2>1. /\ toPeer # <<>> /\ toPeer' = Tail(toPeer) /\ UNCHANGED fromPeer
        /\ owes' = (owes \/ Head(toPeer).kind = "ping")
    BY <1>9 DEF PeerReads
  <2>2. Pings(toPeer) = One(Head(toPeer), "ping") + Pings(toPeer')
    BY <2>1, CountEnds DEF Pings, Base, Typed
  <2>3. Pongs' = Pongs
    BY <2>1 DEF Pongs
  <2>4. CASE Head(toPeer).kind = "ping"
    <3>1. One(Head(toPeer), "ping") = 1 /\ Owed' = 1
      BY <2>1, <2>4 DEF One, Owed
    <3> QED BY <1>1, <1>4, <1>5, <1>6, <2>2, <2>3, <3>1
  <2>5. CASE Head(toPeer).kind # "ping"
    <3>1. One(Head(toPeer), "ping") = 0 /\ Owed' = Owed
      BY <2>1, <2>5 DEF One, Owed
    <3> QED BY <1>1, <1>4, <1>5, <1>6, <2>2, <2>3, <3>1
  <2> QED BY <2>4, <2>5
<1> QED BY <1>7, <1>8, <1>9 DEF PeerStep

\* Every step.
LEMMA NextFlag == Base /\ Base' /\ FlagInv /\ [Next]_vars => FlagInv'
<1> SUFFICES ASSUME Base, Base', FlagInv, [Next]_vars PROVE FlagInv'
  OBVIOUS
<1>1. CASE Stopped \/ UNCHANGED vars
  BY <1>1, FlagStands DEF Stopped, vars, session, wire, Live
<1>2. CASE Outer
  <2>1. UNCHANGED <<pending, out, writing, toPeer, owes, fromPeer, waiting, writer, peer>>
    BY <1>2 DEF Outer, CheckShutdown, Interrupted, BackoffElapsed, DialFailed, SessionOver, TickDue,
                RotationDue, ShutdownSent, session, wire
  <2>2. task' \in Running => task \in Running
    <3>1. CASE CheckShutdown \/ Interrupted \/ BackoffElapsed \/ DialFailed
      <4>1. task' \in Idle
        BY <3>1 DEF CheckShutdown, Interrupted, BackoffElapsed, DialFailed, Idle
      <4> QED BY <4>1, Places
    <3>2. CASE SessionOver
      <4>1. task' \in Idle
        BY <3>2 DEF SessionOver, Idle, Draining, Reasons
      <4> QED BY <4>1, Places
    <3>3. CASE TickDue \/ RotationDue \/ ShutdownSent
      BY <3>3 DEF TickDue, RotationDue, ShutdownSent
    <3> QED BY <1>2, <3>1, <3>2, <3>3 DEF Outer
  <2>3. Live' => Live
    BY <2>1, <2>2 DEF Live
  <2> QED BY <2>1, <2>3, FlagStands
<1>3. CASE Dialled
  <2>1. /\ out' = <<>> /\ fromPeer' = <<>> /\ toPeer' = <<>> /\ waiting' = FALSE /\ owes' = FALSE
        /\ UNCHANGED <<pending, writing>> /\ task = <<"dial">>
    BY <1>3 DEF Dialled
  <2>2. pending = <<>> /\ writing = <<>>
    <3>1. task \in Idle /\ task # <<"sending">>
      BY <2>1, Places DEF Idle
    <3> QED BY <3>1 DEF Base, HandsInv
  <2>3. Pings(pending') = 0 /\ Pings(out') = 0 /\ Pings(writing') = 0 /\ Pings(toPeer') = 0
    BY <2>1, <2>2, OneOfThem
  <2>4. Owed' = 0 /\ Pongs' = 0
    BY <2>1, NumberedNone DEF Owed, Pongs
  <2>5. Due' = 0
    BY <2>1, <2>2, OneOfThem DEF Due
  <2>6. Outstanding' = 0
    BY <2>3, <2>4, WhereItIsNext
  <2> QED BY <2>1, <2>5, <2>6, FlagIs
<1> QED BY <1>1, <1>2, <1>3, FlagLoop, FlagWriter, FlagPeer DEF Next, RunStep, Outer

\* The flag tells the truth about the ping under way, and there is one at most.
THEOREM FlagTellsTheTruth == Spec => []PingAccounted
<1>1. FlagInv /\ Base => PingAccounted
  <2> SUFFICES ASSUME FlagInv, Base, task = <<"select">>, writer # "gone", peer # "gone"
               PROVE  Outstanding = (IF waiting THEN 1 ELSE 0)
    BY DEF PingAccounted
  <2>1. pending = <<>> /\ Live
    BY Places DEF Base, HandsInv, Live
  <2> QED BY <2>1, FlagIs, OneOfThem DEF Due
<1>2. Init => FlagInv
  BY Places DEF Init, FlagInv, Idle
<1> QED BY <1>1, <1>2, InitBase, NextBase, NextFlag, PTL DEF Spec

------------------------------------------------------------------------------
(***************************************************************************)
(* The life of a connection.                                               *)
(***************************************************************************)

\* A session that ends for a shutdown, and an end, were asked for.
LEMMA NextHalt == Base /\ HaltInv /\ [Next]_vars => HaltInv'
<1> SUFFICES ASSUME Base, HaltInv, [Next]_vars PROVE HaltInv'
  OBVIOUS
<1>1. shutdown => shutdown'
  BY DEF Next, RunStep, LoopStep, WriterStep, PeerStep, Stopped, CheckShutdown, Interrupted,
     BackoffElapsed, SessionOver, Dialled, DialFailed, ShutdownBranch, RotationBranch, PingTick,
     ReadData, ReadPing, ReadPong, ReadClose, ReadEnd, Received, Break, SendOut, WriterTakes,
     WriterWrites, WriterFails, WriterEnds, PeerPings, PeerData, PeerCloses, PeerPongs, PeerSends,
     PeerReads, PeerTurnsDeaf, SocketBreaks, TickDue, RotationDue, ShutdownSent, vars
<1>2. CASE shutdown
  BY <1>1, <1>2 DEF HaltInv
<1>3. CASE ~shutdown
  <2>1. task # <<"drain", "Shutdown">> /\ task # <<"stopped">>
    BY <1>3 DEF HaltInv
  <2> QED BY <1>3, <2>1 DEF HaltInv, Next, RunStep, LoopStep, WriterStep, PeerStep, Stopped,
     CheckShutdown, Interrupted, Draining, Reasons,
     BackoffElapsed, SessionOver, Dialled, DialFailed, ShutdownBranch, RotationBranch, PingTick,
     ReadData, ReadPing, ReadPong, ReadClose, ReadEnd, Received, Break, SendOut, WriterTakes,
     WriterWrites, WriterFails, WriterEnds, PeerPings, PeerData, PeerCloses, PeerPongs, PeerSends,
     PeerReads, PeerTurnsDeaf, SocketBreaks, TickDue, RotationDue, ShutdownSent, vars
<1> QED BY <1>2, <1>3

\* A step of the connection, in the terms of ConnectionLife.
LEMMA LifeStep ==
  ASSUME Base, Base', HaltInv, HaltInv', [Next]_vars
  PROVE  [Life!LifeNext]_(Life!lifeVars)
<1>1. LifeOf = (IF task = <<"stopped">> THEN "over" ELSE IF task \in Running \cup Draining THEN "up" ELSE "down")
      /\ LifeOf' = (IF task' = <<"stopped">> THEN "over"
                    ELSE IF task' \in Running \cup Draining THEN "up" ELSE "down")
  BY DEF LifeOf, InSession
<1>2. CASE UNCHANGED <<task, shutdown>>
  BY <1>1, <1>2 DEF Life!lifeVars
<1>3. CASE ShutdownSent
  <2>1. ~shutdown /\ shutdown' /\ task' = task
    BY <1>3 DEF ShutdownSent
  <2>2. LifeOf' = LifeOf /\ shutdown' = TRUE
    BY <1>1, <1>3, <2>1 DEF ShutdownSent
  <2> QED BY <2>1, <2>2 DEF Life!LifeNext, Life!Halt
<1>4. CASE LoopStep
  <2>1. task \in Running /\ task' \in Running \cup Draining /\ UNCHANGED shutdown
    BY <1>4, Places DEF LoopStep, ShutdownBranch, RotationBranch, PingTick, ReadData, ReadPing, ReadPong,
       ReadClose, ReadEnd, Received, ReadTurn, SendOut, Break, session, wire, Reasons
  <2>2. task # <<"stopped">> /\ task' # <<"stopped">>
    BY <2>1, Places DEF Idle
  <2> QED BY <1>1, <2>1, <2>2 DEF Life!lifeVars
<1>5. CASE Dialled
  <2>1. task = <<"dial">> /\ task' = <<"select">> /\ UNCHANGED shutdown
    BY <1>5 DEF Dialled
  <2>2. task \notin Running \cup Draining /\ task # <<"stopped">> /\ task' # <<"stopped">>
        /\ task' \in Running
    BY <2>1, Places DEF Idle
  <2> QED BY <1>1, <2>1, <2>2 DEF Life!LifeNext, Life!Connect
<1>6. CASE CheckShutdown \/ Interrupted \/ BackoffElapsed \/ DialFailed
  <2>1. /\ task \in Idle /\ task' \in Idle /\ UNCHANGED shutdown
        /\ task # <<"stopped">> /\ (task' = <<"stopped">> => shutdown)
    BY <1>6 DEF CheckShutdown, Interrupted, BackoffElapsed, DialFailed, Idle
  <2>2. task \notin Running \cup Draining /\ task' \notin Running \cup Draining
    BY <2>1, Places
  <2> QED BY <1>1, <2>1, <2>2 DEF Life!LifeNext, Life!Stop, Life!lifeVars
<1>7. CASE SessionOver
  <2>1. /\ task \in Draining /\ task' \in Idle /\ UNCHANGED shutdown
    BY <1>7 DEF SessionOver, Idle, Draining, Reasons
  <2>2. task' \notin Running \cup Draining /\ task # <<"stopped">>
    BY <2>1, Places DEF Idle
  <2>3. task' = <<"stopped">> => shutdown
    BY <2>1 DEF HaltInv
  <2> QED BY <1>1, <2>1, <2>2, <2>3 DEF Life!LifeNext, Life!Stop, Life!Drop
<1> QED BY <1>2, <1>3, <1>4, <1>5, <1>6, <1>7
        DEF Next, RunStep, WriterStep, PeerStep, Stopped, DialFailed, WriterTakes,
     WriterWrites, WriterFails, WriterEnds, PeerPings, PeerData, PeerCloses, PeerPongs, PeerSends,
     PeerReads, PeerTurnsDeaf, SocketBreaks, TickDue, RotationDue, vars

\* Whatever happens in its sessions, run keeps the safety half of ConnectionLife:
\* it is over only after the shutdown signal, and then for good.
THEOREM LifeIsKept == Spec => Life!LifeInit /\ [][Life!LifeNext]_(Life!lifeVars)
<1>1. Init => Life!LifeInit
  <2> SUFFICES ASSUME Init PROVE Life!LifeInit
    OBVIOUS
  <2>1. task = <<"check">> /\ shutdown = FALSE
    BY DEF Init
  <2>2. task # <<"stopped">> /\ task \notin Running \cup Draining
    BY <2>1, Places DEF Idle
  <2> QED BY <2>1, <2>2 DEF Life!LifeInit, LifeOf, InSession
<1>2. Init => HaltInv
  BY DEF Init, HaltInv
<1> QED BY <1>1, <1>2, InitBase, NextBase, NextHalt, LifeStep, PTL DEF Spec
===============================================================================
