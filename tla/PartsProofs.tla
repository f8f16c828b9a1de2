---------------------------- MODULE PartsProofs ----------------------------
(***************************************************************************)
(* What is proved of the parts that meet no other while they run: the      *)
(* reference data, the replayer, back pressure, the bridge, the shadow     *)
(* comparison, the decimals and the wire, each by itself and then, by      *)
(* EachPartIsItself, as the run puts them side by side.                    *)
(***************************************************************************)
EXTENDS MCParts, FiniteSetTheorems, SequenceTheorems, NaturalsInduction,
        WellFoundedInduction, TLAPS

------------------------------------------------------------------------------
(***************************************************************************)
(* The parts together.                                                     *)
(***************************************************************************)

\* A behaviour of the parts together is one of each part: what is proved below of
\* a part by itself holds in the runs.
THEOREM EachPartIsItself ==
  Spec => /\ Ref!Spec /\ Rep!Spec /\ Back!Spec /\ Shadow!Spec /\ Brg!Spec
          /\ Dec!Spec /\ Wir!Spec
<1>1. Init => /\ Ref!Init /\ Rep!Init /\ Back!Init /\ Shadow!Init /\ Brg!Init
              /\ Dec!Init /\ Wir!Init
  BY DEF Init
<1>2. [Next]_vars => [Ref!Next]_(Ref!vars)
  BY DEF Next, RefStep, BrgStep, vars, refdata, Ref!vars
<1>3. [Next]_vars => [Rep!Next]_(Rep!vars)
  BY DEF Next, RefStep, BrgStep, vars, replay, Rep!vars
<1>4. [Next]_vars => [Back!Next]_(Back!vars)
  BY DEF Next, RefStep, BrgStep, vars, guard, Back!vars
<1>5. [Next]_vars => [Shadow!Next]_(Shadow!vars)
  BY DEF Next, RefStep, BrgStep, vars, compare, Shadow!vars
<1>6. [Next]_vars => [Brg!Next]_(Brg!vars)
  BY DEF Next, RefStep, BrgStep, vars, bridge, Brg!vars
<1>7. [Next]_vars => [Dec!Next]_(Dec!vars)
  BY DEF Next, RefStep, BrgStep, vars, decimals, Dec!vars
<1>8. [Next]_vars => [Wir!Next]_(Wir!vars)
  BY DEF Next, RefStep, BrgStep, vars, wire, Wir!vars
<1> QED BY <1>1, <1>2, <1>3, <1>4, <1>5, <1>6, <1>7, <1>8, PTL
        DEF Spec, Ref!Spec, Rep!Spec, Back!Spec, Shadow!Spec, Brg!Spec, Dec!Spec, Wir!Spec

------------------------------------------------------------------------------
(***************************************************************************)
(* Back pressure.                                                          *)
(***************************************************************************)

\* A window begins after the last relief; the log has the warning of the window.
WindowInv ==
  /\ clock \in Nat /\ relieved \in Int /\ relieved <= clock
  /\ bp_start # -1 => bp_start \in Nat /\ relieved <= bp_start
  /\ (warned /\ warnings = 1) \/ (~warned /\ warnings = 0)
  /\ outcome = "restart" => clock - relieved >= RestartAt

\* The guard asks for a restart only after a whole threshold without relief, and
\* warns once in a window.
THEOREM RestartsAreEarned == Back!Spec => []RestartIsEarned
<1>1. Back!Init => WindowInv
  <2> SUFFICES ASSUME Back!Init PROVE WindowInv
    OBVIOUS
  <2>1. bp_start = -1 /\ clock = 0 /\ relieved = -1 /\ outcome # "restart"
    BY DEF Back!Init
  <2>2. ~warned /\ warnings = 0
    BY Zenon DEF Back!Init
  <2>3. /\ clock \in Nat /\ relieved \in Int /\ relieved <= clock
        /\ (bp_start # -1 => bp_start \in Nat /\ relieved <= bp_start)
    BY <2>1
  <2> QED BY <2>1, <2>2, <2>3, Zenon DEF WindowInv
<1>2. WindowInv /\ [Back!Next]_(Back!vars) => WindowInv'
  <2> SUFFICES ASSUME WindowInv, [Back!Next]_(Back!vars) PROVE WindowInv'
    OBVIOUS
  <2>1. CASE UNCHANGED Back!vars
    BY <2>1 DEF Back!vars, WindowInv
  <2>2. CASE Back!ClockAdvances
    BY <2>2, PartsAssumption DEF Back!ClockAdvances, WindowInv
  <2>3. CASE Back!Accepted \/ Back!Closed \/ Back!Resets
    <3>1. bp_start' = -1 /\ relieved' = clock /\ clock' = clock /\ outcome' # "restart"
      BY <2>3 DEF Back!Accepted, Back!Closed, Back!Resets, Back!Relieved, Back!WindowAfter
    <3>2. ~warned' /\ warnings' = 0
      BY <2>3, Zenon DEF Back!Accepted, Back!Closed, Back!Resets, Back!Relieved
    <3>3. /\ clock' \in Nat /\ relieved' \in Int /\ relieved' <= clock'
          /\ (bp_start' # -1 => bp_start' \in Nat /\ relieved' <= bp_start')
      BY <3>1 DEF WindowInv
    <3> QED BY <3>1, <3>2, <3>3, Zenon DEF WindowInv
  <2>4. ASSUME NEW admin \in BOOLEAN, Back!Refused(admin) PROVE WindowInv'
    <3> DEFINE start  == Back!Start(admin)
               result == Back!Escalated(clock - start)
    <3>1. /\ bp_start' = start /\ outcome' = result /\ UNCHANGED <<clock, relieved>>
          /\ warned' = (warned \/ result = "warned")
          /\ warnings' = IF result = "warned" /\ ~warned THEN warnings + 1 ELSE warnings
      BY <2>4 DEF Back!Refused
    <3>2. start \in Nat /\ relieved <= start
      BY DEF WindowInv, Back!Start, Back!Opened
    <3>3. result = "restart" => clock - start >= RestartAt
      BY DEF Back!Escalated
    <3> HIDE DEF start, result
    <3>4. outcome' = "restart" => clock' - relieved' >= RestartAt
      BY <3>1, <3>2, <3>3, PartsAssumption DEF WindowInv
    <3>5. 0 + 1 = 1
      OBVIOUS
    <3>6. (warned' /\ warnings' = 1) \/ (~warned' /\ warnings' = 0)
      <4>1. CASE result = "warned"
        <5>1. warned' /\ warnings' = IF ~warned THEN warnings + 1 ELSE warnings
          BY <3>1, <4>1, Zenon
        <5> QED BY <5>1, <3>5, Zenon DEF WindowInv
      <4>2. CASE result # "warned"
        <5>1. (warned' <=> warned) /\ warnings' = warnings
          BY <3>1, <4>2, Zenon
        <5> QED BY <5>1, Zenon DEF WindowInv
      <4> QED BY <4>1, <4>2
    <3>7. /\ clock' \in Nat /\ relieved' \in Int /\ relieved' <= clock'
          /\ (bp_start' # -1 => bp_start' \in Nat /\ relieved' <= bp_start')
      BY <3>1, <3>2 DEF WindowInv
    <3> QED BY <3>4, <3>6, <3>7, Zenon DEF WindowInv
  <2> QED BY <2>1, <2>2, <2>3, <2>4 DEF Back!Next
<1>3. WindowInv => RestartIsEarned
  BY DEF WindowInv, RestartIsEarned, Back!RestartIsEarned
<1> QED BY <1>1, <1>2, <1>3, PTL DEF Back!Spec

------------------------------------------------------------------------------
(***************************************************************************)
(* The bridge.                                                             *)
(***************************************************************************)

Queued == {channel[i] : i \in DOMAIN channel}

\* The main task is past its wait only behind a poll thread, which ends only
\* before it has decoded anything.
EndsInv ==
  /\ channel \in Seq(received)
  /\ Brg!WithTable(received) = Brg!WithTable(Queued) \cup buffered \cup stored \cup logged
  /\ main = "waiting" => poll = "none"
  /\ poll \in {"none", "setup", "ended"} => received = {}
  /\ main = "flushing" => poll = "ended"
  /\ main = "exited" /\ ~killed => received = {}

\* Taking the first message of the channel.
LEMMA TakesOne ==
  ASSUME NEW S, NEW c \in Seq(S), c # <<>>
  PROVE  /\ Tail(c) \in Seq(S)
         /\ {c[i] : i \in DOMAIN c} = {Head(c)} \cup {Tail(c)[i] : i \in DOMAIN Tail(c)}
<1>1. /\ Len(c) \in Nat /\ Len(c) > 0 /\ DOMAIN c = 1 .. Len(c) /\ Head(c) = c[1]
      /\ Tail(c) \in Seq(S) /\ Len(Tail(c)) = Len(c) - 1 /\ DOMAIN Tail(c) = 1 .. Len(c) - 1
      /\ \A i \in 1 .. Len(c) - 1 : Tail(c)[i] = c[i + 1]
  BY HeadTailProperties, EmptySeq, LenProperties
<1>2. ASSUME NEW i \in DOMAIN c PROVE c[i] \in {Head(c)} \cup {Tail(c)[j] : j \in DOMAIN Tail(c)}
  <2>1. CASE i = 1
    BY <2>1, <1>1
  <2>2. CASE i # 1
    <3>1. i - 1 \in 1 .. Len(c) - 1 /\ (i - 1) + 1 = i
      BY <1>1, <2>2
    <3>2. Tail(c)[i - 1] = c[i]
      BY <1>1, <3>1
    <3> QED BY <1>1, <3>1, <3>2
  <2> QED BY <2>1, <2>2
<1>3. ASSUME NEW j \in DOMAIN Tail(c) PROVE Tail(c)[j] \in {c[i] : i \in DOMAIN c}
  <2>1. j + 1 \in 1 .. Len(c)
    BY <1>1
  <2> QED BY <1>1, <2>1
<1>4. Head(c) \in {c[i] : i \in DOMAIN c}
  BY <1>1
<1> QED BY <1>1, <1>2, <1>3, <1>4

\* Putting one behind the others.
LEMMA PutsOne ==
  ASSUME NEW S, NEW c \in Seq(S), NEW m
  PROVE  /\ Append(c, m) \in Seq(S \cup {m})
         /\ {Append(c, m)[i] : i \in DOMAIN Append(c, m)} = {c[i] : i \in DOMAIN c} \cup {m}
<1>1. c \in Seq(S \cup {m}) /\ m \in S \cup {m}
  <2>1. S \subseteq S \cup {m}
    OBVIOUS
  <2> QED BY <2>1, SeqMonotonic
<1>2. /\ Append(c, m) \in Seq(S \cup {m}) /\ Len(Append(c, m)) = Len(c) + 1 /\ Len(c) \in Nat
      /\ \A i \in 1 .. Len(c) : Append(c, m)[i] = c[i]
      /\ Append(c, m)[Len(c) + 1] = m
      /\ DOMAIN c = 1 .. Len(c) /\ DOMAIN Append(c, m) = 1 .. Len(c) + 1
  BY <1>1, AppendProperties, LenProperties
<1>3. 1 .. Len(c) + 1 = (1 .. Len(c)) \cup {Len(c) + 1}
  BY <1>2
<1> QED BY <1>2, <1>3

\* What the main task takes leaves the others of the channel as they are.
LEMMA ChannelTail ==
  ASSUME EndsInv, channel # <<>>, channel' = Tail(channel), received' = received
  PROVE  channel' \in Seq(received') /\ Queued = {Head(channel)} \cup Queued'
<1>1. channel \in Seq(received)
  BY DEF EndsInv
<1>2. /\ Tail(channel) \in Seq(received)
      /\ Queued = {Head(channel)} \cup {Tail(channel)[i] : i \in DOMAIN Tail(channel)}
  BY <1>1, TakesOne, Zenon DEF Queued
<1> QED BY <1>2 DEF Queued

\* A message with a table that the poll thread handed over is in the channel, with
\* an inserter, in ClickHouse or in the log (one without is passed over), and only a
\* signal ends a bridge that has received any.
THEOREM BridgeAccounts == Brg!Spec => []OnlySignalsStop
<1>1. Brg!Init => EndsInv
  BY EmptySeq DEF Brg!Init, EndsInv, Queued, Brg!WithTable
<1>2. EndsInv /\ [Brg!Next]_(Brg!vars) => EndsInv'
  <2> SUFFICES ASSUME EndsInv, [Brg!Next]_(Brg!vars) PROVE EndsInv'
    OBVIOUS
  <2>1. CASE UNCHANGED Brg!vars
    BY <2>1 DEF Brg!vars, EndsInv, Queued, Brg!WithTable
  <2>2. CASE \/ Brg!Connects \/ Brg!TablesMissing \/ Brg!SetupDone \/ Brg!SetupFails
             \/ Brg!PollError \/ Brg!Signalled \/ Brg!WatcherExits \/ Brg!LeavesLoop
    BY <2>2 DEF EndsInv, Queued, Brg!WithTable, Brg!Connects, Brg!TablesMissing, Brg!SetupDone, Brg!SetupFails,
         Brg!PollError, Brg!AfterPollError, Brg!Signalled, Brg!WatcherExits, Brg!LeavesLoop,
         Brg!ChannelClosed, Brg!Running, Brg!rows
  <2>3. ASSUME NEW kind \in Brg!Kind, Brg!Decoded(kind) PROVE EndsInv'
    <3>1. PICK m : channel' = Append(channel, m) /\ received' = received \cup {m}
      BY <2>3, Zenon DEF Brg!Decoded
    <3>3. /\ main # "exited" /\ poll = "polling"
          /\ UNCHANGED <<main, poll, ready, signal, killed, buffered, stored, logged>>
      BY <2>3 DEF Brg!Decoded, Brg!Running
    <3>2. channel' \in Seq(received') /\ Queued' = Queued \cup {m}
      BY <3>1, PutsOne DEF EndsInv, Queued
    <3>4. /\ Brg!WithTable(received \cup {m}) = Brg!WithTable(received) \cup Brg!WithTable({m})
          /\ Brg!WithTable(Queued \cup {m}) = Brg!WithTable(Queued) \cup Brg!WithTable({m})
      BY DEF Brg!WithTable
    <3>5. Brg!WithTable(received)' = Brg!WithTable(received')
          /\ Brg!WithTable(Queued)' = Brg!WithTable(Queued')
      BY DEF Brg!WithTable
    <3> QED BY <3>1, <3>2, <3>3, <3>4, <3>5 DEF EndsInv
  <2>4. ASSUME NEW written \in BOOLEAN, Brg!Receive(written) PROVE EndsInv'
    <3>1. /\ main = "looping" /\ channel # <<>> /\ channel' = Tail(channel)
          /\ Head(channel)[2] \in Table
          /\ UNCHANGED <<main, poll, ready, signal, killed, stored, received>>
          /\ \/ buffered' = buffered \cup {Head(channel)} /\ UNCHANGED logged
             \/ logged' = logged \cup {Head(channel)} /\ UNCHANGED buffered
      BY <2>4 DEF Brg!Receive
    <3>2. channel' \in Seq(received') /\ Queued = {Head(channel)} \cup Queued'
      BY <3>1, ChannelTail
    <3>3. Brg!WithTable(Queued) = {Head(channel)} \cup Brg!WithTable(Queued')
      BY <3>1, <3>2 DEF Brg!WithTable
    <3>4. /\ Brg!WithTable(received)' = Brg!WithTable(received)
          /\ Brg!WithTable(Queued)' = Brg!WithTable(Queued')
      BY <3>1 DEF Brg!WithTable
    <3>5. Brg!WithTable(received)'
            = Brg!WithTable(Queued)' \cup buffered' \cup stored' \cup logged'
      BY <3>1, <3>3, <3>4 DEF EndsInv
    <3> QED BY <3>1, <3>2, <3>5 DEF EndsInv
  <2>5. ASSUME NEW good \in SUBSET Table, NEW bad \in SUBSET Table, Brg!Commit(good, bad)
        PROVE  EndsInv'
    <3>1. /\ main = "looping" /\ stored' = stored \cup Brg!Of(good) /\ logged' = logged \cup Brg!Of(bad)
          /\ buffered' = buffered \ Brg!Of(good \cup bad)
          /\ UNCHANGED <<main, poll, ready, signal, killed, channel, received>>
      BY <2>5 DEF Brg!Commit
    <3>2. Brg!Of(good \cup bad) = Brg!Of(good) \cup Brg!Of(bad) /\ Brg!Of(good \cup bad) \subseteq buffered
      BY DEF Brg!Of
    <3>3. /\ Brg!WithTable(Queued)' = Brg!WithTable(Queued) /\ channel' \in Seq(received')
          /\ Brg!WithTable(received)' = Brg!WithTable(received)
      BY <3>1 DEF Queued, EndsInv, Brg!WithTable
    <3> QED BY <3>1, <3>2, <3>3 DEF EndsInv
  <2>6. ASSUME NEW good \in SUBSET Table, Brg!Flushed(good) PROVE EndsInv'
    <3>1. /\ main = "flushing" /\ main' = "exited" /\ buffered' = {}
          /\ stored' = stored \cup Brg!Of(good) /\ logged' = logged \cup Brg!Of(Table \ good)
          /\ UNCHANGED <<poll, ready, signal, killed, channel, received>>
      BY <2>6 DEF Brg!Flushed
    <3>2. received = {} /\ buffered = {} /\ poll = "ended"
      BY <3>1 DEF EndsInv, Brg!WithTable
    <3>3. Brg!Of(good) = {} /\ Brg!Of(Table \ good) = {}
      BY <3>2 DEF Brg!Of
    <3>4. /\ Brg!WithTable(Queued)' = Brg!WithTable(Queued) /\ channel' \in Seq(received')
          /\ Brg!WithTable(received)' = Brg!WithTable(received)
      BY <3>1 DEF Queued, EndsInv, Brg!WithTable
    <3> QED BY <3>1, <3>2, <3>3, <3>4 DEF EndsInv
  <2>7. CASE Brg!PassesOver
    <3>1. /\ main = "looping" /\ channel # <<>> /\ channel' = Tail(channel)
          /\ Head(channel)[2] \notin Table
          /\ UNCHANGED <<main, poll, ready, signal, killed, buffered, stored, logged, received>>
      BY <2>7 DEF Brg!PassesOver
    <3>2. channel' \in Seq(received') /\ Queued = {Head(channel)} \cup Queued'
      BY <3>1, ChannelTail
    <3>3. Brg!WithTable(Queued) = Brg!WithTable(Queued')
      BY <3>1, <3>2 DEF Brg!WithTable
    <3>4. /\ Brg!WithTable(received)' = Brg!WithTable(received)
          /\ Brg!WithTable(Queued)' = Brg!WithTable(Queued')
      BY <3>1 DEF Brg!WithTable
    <3> QED BY <3>1, <3>2, <3>3, <3>4 DEF EndsInv
  <2> QED BY <2>1, <2>2, <2>3, <2>4, <2>5, <2>6, <2>7 DEF Brg!Next
<1>3. EndsInv => OnlySignalsStop
  BY DEF EndsInv, Queued, OnlySignalsStop, Brg!OnlySignalsStop
<1> QED BY <1>1, <1>2, <1>3, PTL DEF Brg!Spec

------------------------------------------------------------------------------
(***************************************************************************)
(* The replayer.                                                           *)
(***************************************************************************)

\* The counters are what the cursor has passed; a duplicate that waits is that of
\* the frame handed out last.
FrameInv ==
  /\ stats \in [delivered : Nat, dropped : Nat, corrupted : Nat, duplicated : Nat]
  /\ cursor \in Nat /\ stats.delivered + stats.dropped = cursor
  /\ pending = 0 => stats.duplicated <= stats.delivered
  /\ pending # 0 => /\ stats.duplicated < stats.delivered
                    /\ pending = cursor /\ event.frame = pending

\* Every frame the cursor has passed was delivered or dropped, and only a frame
\* delivered since the reset is repeated or waits to be.
THEOREM FramesAreCounted == Rep!Spec => []FramesAreAccountedFor
<1>1. Rep!Init => FrameInv
  BY DEF Rep!Init, Rep!NoStats, FrameInv
<1>2. FrameInv /\ [Rep!Next]_(Rep!vars) => FrameInv'
  <2> SUFFICES ASSUME FrameInv, [Rep!Next]_(Rep!vars) PROVE FrameInv'
    OBVIOUS
  <2>1. CASE UNCHANGED Rep!vars \/ Rep!ClockAdvances
    BY <2>1 DEF Rep!vars, Rep!ClockAdvances, FrameInv
  <2>2. CASE Rep!PollDuplicate
    <3>1. /\ pending # 0 /\ pending' = 0 /\ cursor' = cursor
          /\ stats' = [stats EXCEPT !.duplicated = @ + 1]
      BY <2>2 DEF Rep!PollDuplicate
    <3> QED BY <3>1 DEF FrameInv
  <2>3. CASE Rep!Reset
    BY <2>3 DEF Rep!Reset, Rep!PendingAfterReset, Rep!NoStats, FrameInv
  <2>4. ASSUME NEW drops \in 0 .. MaxFaults, NEW corrupt \in BOOLEAN, NEW dup \in BOOLEAN,
               Rep!PollReady(drops, corrupt, dup)
        PROVE  FrameInv'
    <3> DEFINE i   == cursor + drops + 1
               hit == IF corrupt THEN 1 ELSE 0
    <3>1. /\ pending = 0 /\ cursor' = i /\ pending' = (IF dup THEN i ELSE 0)
          /\ event'.frame = i
          /\ stats' = [stats EXCEPT !.delivered = @ + 1, !.dropped = @ + drops,
                                    !.corrupted = @ + hit]
      BY <2>4 DEF Rep!PollReady, Rep!Event
    <3>2. hit \in Nat /\ drops \in Nat
      BY PartsAssumption
    <3>3. pending' = 0 \/ pending' = cursor'
      BY <3>1
    <3> HIDE DEF hit
    <3>5. /\ stats.delivered \in Nat /\ stats.dropped \in Nat /\ stats.corrupted \in Nat
          /\ stats.duplicated \in Nat
          /\ stats = [delivered |-> stats.delivered, dropped |-> stats.dropped,
                      corrupted |-> stats.corrupted, duplicated |-> stats.duplicated]
      BY DEF FrameInv
    <3>6. stats' = [delivered |-> stats.delivered + 1, dropped |-> stats.dropped + drops,
                    corrupted |-> stats.corrupted + hit, duplicated |-> stats.duplicated]
      BY <3>1, <3>5
    <3>4. /\ stats' \in [delivered : Nat, dropped : Nat, corrupted : Nat, duplicated : Nat]
          /\ stats'.delivered = stats.delivered + 1 /\ stats'.dropped = stats.dropped + drops
          /\ stats'.duplicated = stats.duplicated
      BY <3>2, <3>5, <3>6
    <3> QED BY <3>1, <3>2, <3>3, <3>4 DEF FrameInv
  <2>5. ASSUME NEW drops \in 0 .. MaxFaults, Rep!PollNothing(drops) PROVE FrameInv'
    <3>1. /\ pending = 0 /\ cursor' = cursor + drops /\ UNCHANGED <<pending, event>>
          /\ stats' = [stats EXCEPT !.dropped = @ + drops]
      BY <2>5 DEF Rep!PollNothing
    <3>2. drops \in Nat
      BY PartsAssumption
    <3> QED BY <3>1, <3>2 DEF FrameInv
  <2> QED BY <2>1, <2>2, <2>3, <2>4, <2>5 DEF Rep!Next
<1>3. FrameInv => FramesAreAccountedFor
  BY DEF FrameInv, FramesAreAccountedFor, Rep!FramesAreAccountedFor
<1> QED BY <1>1, <1>2, <1>3, PTL DEF Rep!Spec

------------------------------------------------------------------------------
(***************************************************************************)
(* The comparator.                                                         *)
(***************************************************************************)

Price == [bid : Nat, ask : Nat]

\* The larger of two.
LEMMA Larger ==
  ASSUME NEW a \in Int, NEW b \in Int
  PROVE  Shadow!Max({a, b}) \in {a, b} /\ Shadow!Max({a, b}) >= a /\ Shadow!Max({a, b}) >= b
<1>1. \E x \in {a, b} : \A y \in {a, b} : x >= y
  BY a >= b \/ b >= a
<1> QED BY <1>1 DEF Shadow!Max

\* Differences are natural.
LEMMA DiffType ==
  ASSUME NEW p \in Price, NEW q \in Price
  PROVE  Shadow!QuoteDiff(p, q) \in Nat
<1>1. ASSUME NEW a \in Nat, NEW b \in Nat PROVE Shadow!DiffBps(a, b) \in Nat
  <2> DEFINE d == Shadow!Max({a - b, b - a})
  <2>1. d \in Nat
    <3>1. a - b \in Int /\ b - a \in Int /\ (a - b >= 0 \/ b - a >= 0)
      OBVIOUS
    <3>2. d \in {a - b, b - a} /\ d >= a - b /\ d >= b - a
      BY <3>1, Larger
    <3> QED BY <3>1, <3>2
  <2> HIDE DEF d
  <2>2. d * 10000 \in Nat
    BY <2>1
  <2>3. ASSUME NEW x \in Nat, a # 0 PROVE x \div a \in Nat
    BY <2>3
  <2> QED BY <2>2, <2>3 DEF Shadow!DiffBps, d
<1>2. Shadow!DiffBps(p.bid, q.bid) \in Nat /\ Shadow!DiffBps(p.ask, q.ask) \in Nat
  BY <1>1 DEF Price
<1>3. Shadow!QuoteDiff(p, q) \in {Shadow!DiffBps(p.bid, q.bid), Shadow!DiffBps(p.ask, q.ask)}
  <2>1. /\ Shadow!DiffBps(p.bid, q.bid) \in Int /\ Shadow!DiffBps(p.ask, q.ask) \in Int
        /\ Shadow!QuoteDiff(p, q)
             = Shadow!Max({Shadow!DiffBps(p.bid, q.bid), Shadow!DiffBps(p.ask, q.ask)})
    BY <1>2 DEF Shadow!QuoteDiff
  <2> QED BY <2>1, Larger
<1> QED BY <1>2, <1>3

\* A difference between the last quotes of both sides has been counted, and what
\* was counted has left its mark in the largest difference.
CountedInv ==
  /\ queued \in [Shadow!Stream -> [Symbol -> Price]]
  /\ active_bbo \in [Symbol -> Price] /\ shadow_bbo \in [Symbol -> Price]
  /\ samples \in [Symbol -> Nat] /\ divergences \in [Symbol -> Nat] /\ max_diff \in [Symbol -> Nat]
  /\ \A s \in Symbol :
       /\ active_bbo[s] # Shadow!NoQuote /\ shadow_bbo[s] # Shadow!NoQuote
          /\ Shadow!QuoteDiff(active_bbo[s], shadow_bbo[s]) > Tolerance => divergences[s] > 0
       /\ divergences[s] > 0 => max_diff[s] > 0

\* A tick keeps it.
LEMMA TickCounts == ASSUME CountedInv, Shadow!Tick PROVE CountedInv'
<1> DEFINE a == Shadow!Drained(active_bbo, "active")
           b == Shadow!Drained(shadow_bbo, "shadow")
           compared == {s \in Shadow!Pending : a[s] # Shadow!NoQuote /\ b[s] # Shadow!NoQuote}
           diff == [s \in Symbol |-> IF s \in compared THEN Shadow!QuoteDiff(a[s], b[s]) ELSE 0]
           more(s) == IF diff[s] > Tolerance THEN 1 ELSE 0
           seen(s) == IF s \in compared THEN 1 ELSE 0
<1>1. /\ queued' = [stream \in Shadow!Stream |-> Shadow!Silent]
      /\ active_bbo' = a /\ shadow_bbo' = b
      /\ samples' = [s \in Symbol |-> samples[s] + seen(s)]
      /\ divergences' = [s \in Symbol |-> divergences[s] + more(s)]
      /\ max_diff' = [s \in Symbol |-> Shadow!Max({max_diff[s], diff[s]})]
  BY DEF Shadow!Tick
<1>2. a \in [Symbol -> Price] /\ b \in [Symbol -> Price]
  BY DEF CountedInv, Shadow!Drained, Shadow!Stream
<1>3. Shadow!NoQuote \in Price /\ queued' \in [Shadow!Stream -> [Symbol -> Price]]
  BY <1>1 DEF Shadow!NoQuote, Price, Shadow!Silent
<1>4. ASSUME NEW s \in Symbol, s \notin Shadow!Pending
      PROVE  a[s] = active_bbo[s] /\ b[s] = shadow_bbo[s]
  BY <1>4 DEF Shadow!Pending, Shadow!Drained, Shadow!Stream
<1> HIDE DEF a, b
<1>5. ASSUME NEW s \in Symbol
      PROVE  diff[s] \in Nat /\ (s \in compared => diff[s] = Shadow!QuoteDiff(a[s], b[s]))
  <2>1. Shadow!QuoteDiff(a[s], b[s]) \in Nat
    BY <1>2, DiffType
  <2> QED BY <2>1
<1> HIDE DEF diff
<1>6. \A s \in Symbol : more(s) \in {0, 1} /\ (diff[s] > Tolerance <=> more(s) = 1) /\ seen(s) \in {0, 1}
  OBVIOUS
<1> HIDE DEF more, seen
<1>7. samples' \in [Symbol -> Nat] /\ divergences' \in [Symbol -> Nat]
  BY <1>1, <1>6 DEF CountedInv
<1>8. ASSUME NEW s \in Symbol
      PROVE  /\ max_diff'[s] \in Nat /\ max_diff'[s] >= max_diff[s] /\ max_diff'[s] >= diff[s]
             /\ divergences'[s] = divergences[s] + more(s)
  <2>1. max_diff[s] \in Nat /\ diff[s] \in Nat
    BY <1>5 DEF CountedInv
  <2>2. max_diff'[s] = Shadow!Max({max_diff[s], diff[s]})
    BY <1>1
  <2>3. /\ Shadow!Max({max_diff[s], diff[s]}) \in {max_diff[s], diff[s]}
        /\ Shadow!Max({max_diff[s], diff[s]}) >= max_diff[s]
        /\ Shadow!Max({max_diff[s], diff[s]}) >= diff[s]
    BY <2>1, Larger
  <2> QED BY <1>1, <2>1, <2>2, <2>3
<1>9. max_diff' \in [Symbol -> Nat]
  BY <1>1, <1>8
<1>10. ASSUME NEW s \in Symbol, a[s] # Shadow!NoQuote, b[s] # Shadow!NoQuote,
              Shadow!QuoteDiff(a[s], b[s]) > Tolerance
       PROVE  divergences'[s] > 0
  <2>1. divergences[s] \in Nat
    BY DEF CountedInv
  <2>2. CASE s \in Shadow!Pending
    <3>1. s \in compared
      BY <1>10, <2>2
    <3>2. more(s) = 1
      BY <1>5, <1>6, <1>10, <3>1
    <3> QED BY <1>8, <2>1, <3>2
  <2>3. CASE s \notin Shadow!Pending
    <3>1. divergences[s] > 0
      BY <1>4, <1>10, <2>3 DEF CountedInv
    <3> QED BY <1>6, <1>8, <2>1, <3>1
  <2> QED BY <2>2, <2>3
<1>11. ASSUME NEW s \in Symbol, divergences'[s] > 0 PROVE max_diff'[s] > 0
  <2>1. divergences[s] \in Nat /\ max_diff[s] \in Nat /\ (divergences[s] > 0 => max_diff[s] > 0)
    BY DEF CountedInv
  <2>2. CASE divergences[s] > 0
    BY <1>8, <2>1, <2>2
  <2>3. CASE ~(divergences[s] > 0)
    <3>1. more(s) = 1
      BY <1>6, <1>8, <1>11, <2>1, <2>3
    <3>2. diff[s] > 0
      BY <1>5, <1>6, <3>1, PartsAssumption
    <3> QED BY <1>5, <1>8, <3>2
  <2> QED BY <2>2, <2>3
<1> QED BY <1>1, <1>2, <1>3, <1>7, <1>9, <1>10, <1>11 DEF CountedInv

\* A difference that outlives a tick was counted, and the verdict says so.
THEOREM DifferencesAreCounted == Shadow!Spec => []DifferenceIsCounted
<1>1. Shadow!Init => CountedInv
  BY DEF Shadow!Init, Shadow!Silent, Shadow!NoQuote, Shadow!Zero, Price, CountedInv
<1>2. CountedInv /\ [Shadow!Next]_(Shadow!vars) => CountedInv'
  <2> SUFFICES ASSUME CountedInv, [Shadow!Next]_(Shadow!vars) PROVE CountedInv'
    OBVIOUS
  <2>1. CASE UNCHANGED Shadow!vars
    BY <2>1 DEF Shadow!vars, CountedInv
  <2>2. ASSUME NEW stream \in Shadow!Stream, NEW s \in Symbol, NEW q \in Quote,
               Shadow!Publishes(stream, s, q)
        PROVE  CountedInv'
    <3>1. q \in Price
      BY PartsAssumption DEF Price
    <3> QED BY <2>2, <3>1 DEF Shadow!Publishes, CountedInv
  <2> QED BY <2>1, <2>2, TickCounts DEF Shadow!Next
<1>3. CountedInv => DifferenceIsCounted
  <2> SUFFICES ASSUME CountedInv, NEW s \in Symbol, MaxPct = 0, divergences[s] > 0
               PROVE  Shadow!Verdict # "stable"
    BY DEF CountedInv, DifferenceIsCounted, Shadow!DifferenceIsCounted
  <2>1. divergences[s] \in Nat /\ samples[s] \in Nat /\ max_diff[s] > 0
    BY DEF CountedInv
  <2>2. MaxPct * samples[s] = 0
    BY <2>1
  <2>3. ~Shadow!IsAcceptable(s)
    BY <2>1, <2>2 DEF Shadow!IsAcceptable
  <2> QED BY <2>1, <2>3, Zenon DEF Shadow!Verdict
<1> QED BY <1>1, <1>2, <1>3, PTL DEF Shadow!Spec

------------------------------------------------------------------------------
(***************************************************************************)
(* Reference data.                                                         *)
(***************************************************************************)

Listed == {Ref!None} \cup Ref!Definition
News   == [symbol : Symbol, def : Ref!Definition, seq : Nat, withStatus : BOOLEAN]

\* The operators of the instance are those of the libraries.
LEMMA SameCardinality == \A S : Ref!Cardinality(S) = Cardinality(S)
BY DEF Ref!Cardinality, Cardinality

\* The exchange's list names no symbol twice.
LEMMA ListingOf ==
  ASSUME NEW S \in SUBSET Symbol
  PROVE  \E n \in Nat : /\ Ref!SetToSeq(S) \in [1 .. n -> S]
                        /\ \A i, j \in 1 .. n : Ref!SetToSeq(S)[i] = Ref!SetToSeq(S)[j] => i = j
<1> DEFINE n == Cardinality(S)
<1>1. IsFiniteSet(S)
  BY PartsAssumption, FS_Subset
<1>2. n \in Nat /\ ExistsBijection(1 .. n, S)
  BY <1>1, FS_CardinalityType
<1>3. PICK f : f \in Bijection(1 .. n, S)
  BY <1>2 DEF ExistsBijection
<1>4. f \in [1 .. n -> S] /\ Ref!IsInjective(f)
  <2>1. f \in [1 .. n -> S] /\ \A i, j \in 1 .. n : f[i] = f[j] => i = j
    BY <1>3 DEF Bijection, Injection, IsInjective
  <2> HIDE DEF n
  <2> QED BY <2>1 DEF Ref!IsInjective
<1>5. Ref!SetToSeq(S) \in [1 .. n -> S] /\ Ref!IsInjective(Ref!SetToSeq(S))
  BY <1>4, SameCardinality DEF Ref!SetToSeq
<1> HIDE DEF n
<1> QED BY <1>2, <1>5 DEF Ref!IsInjective

\* g folds the definitions of v for every set of the first n symbols of the list.
BatchBody(list, v, base, n, g) ==
  [D \in SUBSET (1 .. n) |->
     IF D = {} THEN base
     ELSE Ref!Upsert(g[D \ {Ref!Max(D)}], v[list[Ref!Max(D)]], list[Ref!Max(D)])]

\* A set of the first n + 1 positions, with or without the last one.
LEMMA LastPosition ==
  ASSUME NEW n \in Nat, NEW D \in SUBSET (1 .. n + 1)
  PROVE  /\ n + 1 \in D => Ref!Max(D) = n + 1 /\ D \ {n + 1} \in SUBSET (1 .. n)
         /\ n + 1 \notin D => D \in SUBSET (1 .. n)
<1>1. ASSUME n + 1 \in D PROVE Ref!Max(D) = n + 1 /\ D \ {n + 1} \in SUBSET (1 .. n)
  <2>1. \A y \in D : y \in Int /\ n + 1 >= y
    OBVIOUS
  <2>2. \A x \in D : (\A y \in D : x >= y) => x = n + 1
    BY <1>1, <2>1
  <2>3. Ref!Max(D) = n + 1
    BY <1>1, <2>1, <2>2 DEF Ref!Max
  <2> QED BY <2>3
<1> QED BY <1>1

\* Induction over the naturals, for a set: no number is the least one missing.
LEMMA NatSetInduction ==
  ASSUME NEW T, 0 \in T, \A n \in Nat : n \in T => n + 1 \in T
  PROVE  \A n \in Nat : n \in T
<1> SUFFICES ASSUME Nat \ T # {} PROVE FALSE
  OBVIOUS
<1>1. PICK m \in Nat \ T : \A k \in Nat \ T : ~ (<<k, m>> \in OpToRel(<, Nat))
  <2>1. IsWellFoundedOn(OpToRel(<, Nat), Nat) /\ Nat \ T \subseteq Nat
    BY NatLessThanWellFounded
  <2> QED BY <2>1, WFMin
<1>2. m # 0 /\ m - 1 \in Nat /\ m - 1 < m /\ (m - 1) + 1 = m
  <2>1. m \in Nat /\ m \notin T
    OBVIOUS
  <2> QED BY <2>1
<1>3. m - 1 \notin T
  BY <1>1, <1>2
<1>4. <<m - 1, m>> \in OpToRel(<, Nat)
  BY <1>2 DEF OpToRel
<1> QED BY <1>1, <1>2, <1>3, <1>4

\* There is such a fold.
LEMMA BatchExists ==
  ASSUME NEW list, NEW v, NEW base
  PROVE  \A n \in Nat : \E g : g = BatchBody(list, v, base, n, g)
<1> DEFINE T == {n \in Nat : \E g : g = BatchBody(list, v, base, n, g)}
           next(g, n) == Ref!Upsert(g, v[list[n]], list[n])
<1>1. 0 \in T
  <2> DEFINE g == [D \in SUBSET (1 .. 0) |-> base]
  <2>1. \A D \in SUBSET (1 .. 0) : D = {}
    OBVIOUS
  <2>2. g = BatchBody(list, v, base, 0, g)
    BY <2>1 DEF BatchBody
  <2> HIDE DEF g
  <2> QED BY <2>2
<1>2. ASSUME NEW n \in Nat, n \in T PROVE n + 1 \in T
  <2>1. PICK g : g = BatchBody(list, v, base, n, g)
    BY <1>2
  <2> DEFINE h == [D \in SUBSET (1 .. n + 1) |->
                     IF n + 1 \in D THEN next(g[D \ {n + 1}], n + 1) ELSE g[D]]
  <2>2. ASSUME NEW D \in SUBSET (1 .. n + 1)
        PROVE  h[D] = BatchBody(list, v, base, n + 1, h)[D]
    <3>1. CASE n + 1 \in D
      <4>1. Ref!Max(D) = n + 1 /\ D \ {n + 1} \in SUBSET (1 .. n) /\ D # {}
            /\ n + 1 \notin D \ {n + 1} /\ D \ {n + 1} \in SUBSET (1 .. n + 1)
        BY <3>1, LastPosition
      <4>2. h[D] = next(h[D \ {n + 1}], n + 1)
        <5> HIDE DEF next
        <5> QED BY <3>1, <4>1
      <4> HIDE DEF h
      <4> QED BY <4>1, <4>2 DEF BatchBody
    <3>2. CASE n + 1 \notin D
      <4>1. D \in SUBSET (1 .. n)
        BY <3>2, LastPosition
      <4>2. g[D] = IF D = {} THEN base ELSE next(g[D \ {Ref!Max(D)}], Ref!Max(D))
        BY <2>1, <4>1 DEF BatchBody
      <4>3. h[D] = g[D] /\ h[D \ {Ref!Max(D)}] = g[D \ {Ref!Max(D)}]
        <5> HIDE DEF next
        <5> QED BY <3>2
      <4> HIDE DEF h
      <4> QED BY <4>2, <4>3 DEF BatchBody
    <3> QED BY <3>1, <3>2
  <2>3. h = [D \in SUBSET (1 .. n + 1) |-> h[D]]
    OBVIOUS
  <2> HIDE DEF h
  <2>4. h = BatchBody(list, v, base, n + 1, h)
    BY <2>2, <2>3 DEF BatchBody
  <2> QED BY <2>4
<1> HIDE DEF T
<1>3. \A n \in Nat : n \in T
  BY <1>1, <1>2, NatSetInduction
<1> QED BY <1>3 DEF T

\* What ApplyBatch does: the registry after each symbol of the list, one by one.
LEMMA BatchIsSteps ==
  ASSUME NEW base, NEW n \in Nat, NEW list, DOMAIN list = 1 .. n
  PROVE  \E R : /\ R[0] = base /\ R[n] = Ref!ApplyBatch(base, list)
               /\ \A k \in 0 .. n - 1 :
                    R[k + 1] = Ref!Upsert(R[k], venue[list[k + 1]], list[k + 1])
<1> DEFINE S == DOMAIN list
           body(h) == [D \in SUBSET S |->
                         IF D = {} THEN base
                         ELSE LET x == Ref!Max(D)
                              IN  Ref!Upsert(h[D \ {x}], venue[list[x]], list[x])]
           iter == CHOOSE h : h = body(h)
           R == [k \in 0 .. n |-> iter[1 .. k]]
<1>1. Ref!ApplyBatch(base, list) = iter[S]
  BY Zenon DEF Ref!ApplyBatch, Ref!FoldLeft, Ref!MapThenFoldSet
<1>2. \A h : body(h) = BatchBody(list, venue, base, n, h)
  BY DEF BatchBody
<1>3. iter = body(iter)
  <2> HIDE DEF body
  <2>2. PICK g : g = BatchBody(list, venue, base, n, g)
    BY BatchExists
  <2>1. \E h : h = body(h)
    BY <1>2, <2>2
  <2> QED BY <2>1
<1> HIDE DEF body, iter
<1>4. iter = BatchBody(list, venue, base, n, iter)
  BY <1>2, <1>3
<1>5. R[0] = base
  <2>1. iter[{}] = base
    BY <1>4 DEF BatchBody
  <2>2. 1 .. 0 = {} /\ 0 \in 0 .. n
    OBVIOUS
  <2> QED BY <2>1, <2>2
<1>6. R[n] = Ref!ApplyBatch(base, list)
  BY <1>1
<1>7. ASSUME NEW k \in 0 .. n - 1
      PROVE  R[k + 1] = Ref!Upsert(R[k], venue[list[k + 1]], list[k + 1])
  <2> DEFINE D == 1 .. k + 1
  <2>0. k \in Nat /\ k + 1 \in 1 .. k + 1 /\ k + 1 <= n
    OBVIOUS
  <2>1. k \in Nat /\ k + 1 \in D /\ D # {} /\ D \in SUBSET (1 .. k + 1) /\ D \in SUBSET (1 .. n)
    <3>1. \A i \in 1 .. k + 1 : i \in 1 .. n
      BY <2>0
    <3> QED BY <2>0, <3>1
  <2>2. D \ {k + 1} = 1 .. k
    BY <2>0
  <2>3. R[k + 1] = iter[D] /\ R[k] = iter[1 .. k]
    BY <2>0
  <2> HIDE DEF D, R
  <2>4. Ref!Max(D) = k + 1
    BY <2>1, LastPosition
  <2>5. iter[D] = Ref!Upsert(iter[D \ {Ref!Max(D)}], venue[list[Ref!Max(D)]], list[Ref!Max(D)])
    BY <1>4, <2>1 DEF BatchBody
  <2> QED BY <2>2, <2>3, <2>4, <2>5
<1> HIDE DEF R
<1> QED BY <1>5, <1>6, <1>7

\* A list of events: no symbol twice, each with the registry's definition, and one
\* without a status leaves the trading flag that the registry had before (inst).
EventsOf(list, registry) ==
  /\ \A i, j \in DOMAIN list : list[i].symbol = list[j].symbol => i = j
  /\ \A i \in DOMAIN list : list[i].def = registry[list[i].symbol]

NamedIn(list, s) == \E i \in DOMAIN list : list[i].symbol = s

\* The registry and its events after some of a batch, named in list; inst is the
\* registry before.
BatchInv(reg, inst, list, k) ==
  /\ reg.instruments \in [Symbol -> Listed] /\ reg.next_seq \in Nat /\ reg.events \in Seq(News)
  /\ EventsOf(reg.events, reg.instruments)
  /\ \A i \in DOMAIN reg.events :
       /\ reg.events[i].symbol \in {list[j] : j \in 1 .. k}
       /\ ~reg.events[i].withStatus =>
            /\ inst[reg.events[i].symbol] # Ref!None
            /\ inst[reg.events[i].symbol].trading = reg.events[i].def.trading
  /\ \A s \in Symbol : ~NamedIn(reg.events, s) => reg.instruments[s] = inst[s]

\* One event more.
LEMMA OneMore ==
  ASSUME NEW S, NEW q \in Seq(S), NEW m \in S
  PROVE  /\ Append(q, m) \in Seq(S) /\ Len(q) \in Nat
         /\ DOMAIN q = 1 .. Len(q) /\ DOMAIN Append(q, m) = 1 .. Len(q) + 1
         /\ Append(q, m)[Len(q) + 1] = m /\ \A i \in 1 .. Len(q) : Append(q, m)[i] = q[i]
         /\ \A i \in 1 .. Len(q) : q[i] \in S
         /\ \A i \in DOMAIN Append(q, m) : i \in DOMAIN q \/ i = Len(q) + 1
         /\ \A i \in DOMAIN q : i \in DOMAIN Append(q, m) /\ i # Len(q) + 1
<1>1. /\ Append(q, m) \in Seq(S) /\ Len(Append(q, m)) = Len(q) + 1 /\ Len(q) \in Nat
      /\ \A i \in 1 .. Len(q) : Append(q, m)[i] = q[i]
      /\ Append(q, m)[Len(q) + 1] = m
      /\ DOMAIN q = 1 .. Len(q) /\ DOMAIN Append(q, m) = 1 .. Len(q) + 1
  BY AppendProperties, LenProperties
<1>2. \A i \in 1 .. Len(q) : q[i] \in S
  BY ElementOfSeq
<1> QED BY <1>1, <1>2

\* A symbol of the list more.
LEMMA BatchStep ==
  ASSUME NEW inst \in [Symbol -> Listed], NEW n \in Nat, NEW list \in [1 .. n -> Symbol],
         \A i, j \in 1 .. n : list[i] = list[j] => i = j,
         NEW k \in 0 .. n - 1, NEW reg, BatchInv(reg, inst, list, k),
         NEW def \in Ref!Definition, NEW new, new = Ref!Upsert(reg, def, list[k + 1])
  PROVE  BatchInv(new, inst, list, k + 1)
<1> DEFINE x == list[k + 1]
           prev == reg.instruments[x]
           told == (prev = Ref!None \/ prev.trading # def.trading)
           ev == [symbol |-> x, def |-> def, seq |-> reg.next_seq, withStatus |-> told]
           differs == prev = Ref!None \/ prev # def
<1>1. k \in Nat /\ k + 1 \in 1 .. n /\ \A j \in 1 .. k : j \in 1 .. n /\ j # k + 1 /\ j \in 1 .. k + 1
  OBVIOUS
<1>2. x \in Symbol /\ \A j \in 1 .. k : list[j] # x
  BY <1>1
<1>3. new = [instruments |-> IF differs THEN [reg.instruments EXCEPT ![x] = def] ELSE reg.instruments,
             next_seq    |-> reg.next_seq + 1,
             events      |-> IF differs THEN Append(reg.events, ev) ELSE reg.events]
  BY Zenon DEF Ref!Upsert, Ref!BusinessFieldsDiffer
<1>4. ~NamedIn(reg.events, x)
  BY <1>2 DEF BatchInv, NamedIn
<1>5. prev = inst[x]
  BY <1>2, <1>4 DEF BatchInv
<1>6. {list[j] : j \in 1 .. k} \subseteq {list[j] : j \in 1 .. k + 1} /\ x \in {list[j] : j \in 1 .. k + 1}
  BY <1>1
<1>7. told \in BOOLEAN /\ (~told => inst[x] # Ref!None /\ inst[x].trading = def.trading)
  BY <1>5
<1>8. ev \in News
  BY <1>2, <1>7 DEF News, BatchInv
<1>9. ev.symbol = x /\ ev.def = def /\ ev.withStatus = told
  OBVIOUS
<1> HIDE DEF x, told, ev
<1>10. CASE ~differs
  <2>1. new.instruments = reg.instruments /\ new.events = reg.events /\ new.next_seq = reg.next_seq + 1
    BY <1>3, <1>10
  <2> QED BY <2>1, <1>6 DEF BatchInv
<1>11. CASE differs
  <2> DEFINE inst2 == [reg.instruments EXCEPT ![x] = def]
             ev2 == Append(reg.events, ev)
             l == Len(reg.events)
  <2>1. new.instruments = inst2 /\ new.events = ev2 /\ new.next_seq = reg.next_seq + 1
    BY <1>3, <1>11
  <2>2. /\ ev2 \in Seq(News) /\ l \in Nat
        /\ DOMAIN reg.events = 1 .. l /\ ev2[l + 1] = ev /\ l + 1 \in DOMAIN ev2
        /\ \A i \in DOMAIN reg.events : ev2[i] = reg.events[i] /\ i \in DOMAIN ev2 /\ i # l + 1
        /\ \A i \in DOMAIN ev2 : i \in DOMAIN reg.events \/ i = l + 1
    <3>1. reg.events \in Seq(News)
      BY DEF BatchInv
    <3> QED BY <1>8, <3>1, OneMore
  <2>3. inst2 \in [Symbol -> Listed] /\ inst2[x] = def
        /\ \A s \in Symbol : s # x => inst2[s] = reg.instruments[s]
    BY <1>2 DEF BatchInv, Listed
  <2> HIDE DEF ev2, inst2, l
  <2>4. \A i \in DOMAIN reg.events : reg.events[i].symbol # x /\ reg.events[i].symbol \in Symbol
    <3>1. \A i \in DOMAIN reg.events : reg.events[i] \in News
      BY <2>2, ElementOfSeq DEF BatchInv, l
    <3> QED BY <1>4, <3>1 DEF NamedIn, News
  <2>5. EventsOf(ev2, inst2)
    <3>1. ASSUME NEW i \in DOMAIN ev2, NEW j \in DOMAIN ev2, ev2[i].symbol = ev2[j].symbol PROVE i = j
      <4>1. i = l + 1 <=> ev2[i].symbol = x
        BY <2>2, <2>4, <1>9
      <4>2. j = l + 1 <=> ev2[j].symbol = x
        BY <2>2, <2>4, <1>9
      <4>3. CASE i = l + 1
        BY <3>1, <4>1, <4>2, <4>3
      <4>4. CASE i # l + 1
        <5>1. i \in DOMAIN reg.events /\ j \in DOMAIN reg.events
          BY <2>2, <3>1, <4>1, <4>2, <4>4
        <5>2. reg.events[i].symbol = reg.events[j].symbol
          BY <2>2, <3>1, <5>1
        <5> QED BY <5>1, <5>2 DEF BatchInv, EventsOf
      <4> QED BY <4>3, <4>4
    <3>2. ASSUME NEW i \in DOMAIN ev2 PROVE ev2[i].def = inst2[ev2[i].symbol]
      <4>1. CASE i = l + 1
        BY <2>2, <2>3, <4>1, <1>9
      <4>2. CASE i \in DOMAIN reg.events
        <5>1. reg.events[i].def = reg.instruments[reg.events[i].symbol]
          BY <4>2 DEF BatchInv, EventsOf
        <5> QED BY <2>2, <2>3, <2>4, <4>2, <5>1
      <4> QED BY <2>2, <4>1, <4>2
    <3> QED BY <3>1, <3>2 DEF EventsOf
  <2>6. ASSUME NEW i \in DOMAIN ev2
        PROVE  /\ ev2[i].symbol \in {list[j] : j \in 1 .. k + 1}
               /\ ~ev2[i].withStatus => /\ inst[ev2[i].symbol] # Ref!None
                                        /\ inst[ev2[i].symbol].trading = ev2[i].def.trading
    <3>1. CASE i = l + 1
      <4>1. ev2[i].symbol = x /\ ev2[i].def = def /\ ev2[i].withStatus = told
        BY <2>2, <3>1, <1>9
      <4> QED BY <4>1, <1>6, <1>7
    <3>2. CASE i \in DOMAIN reg.events
      <4>1. ev2[i] = reg.events[i]
        BY <2>2, <3>2
      <4> QED BY <4>1, <3>2, <1>6 DEF BatchInv
    <3> QED BY <2>2, <3>1, <3>2
  <2>7. ASSUME NEW s \in Symbol, ~NamedIn(ev2, s) PROVE inst2[s] = inst[s]
    <3>1. s # x
      BY <2>2, <2>7, <1>9 DEF NamedIn
    <3>2. ~NamedIn(reg.events, s)
      BY <2>2, <2>7 DEF NamedIn
    <3> QED BY <2>3, <3>1, <3>2 DEF BatchInv
  <2>8. new.next_seq \in Nat
    BY <2>1 DEF BatchInv
  <2> QED BY <2>1, <2>2, <2>3, <2>5, <2>6, <2>7, <2>8 DEF BatchInv
<1> QED BY <1>10, <1>11

Told == [trading : BOOLEAN, seq : Int]

\* The types, and who has nothing to publish.
RefTyped ==
  /\ venue \in [Symbol -> Listed] /\ instruments \in [Symbol -> Listed] /\ next_seq \in Nat
  /\ events \in Seq(News) /\ (pc = "publishes" <=> events # <<>>)
  /\ known \in [Shard -> [Symbol -> Listed]] /\ status \in [Shard -> [Symbol -> Told]]

\* Of a symbol it lacks nothing of, a shard's consumer is behind the registry by
\* the events to come and by nothing else.
BehindInv ==
  /\ EventsOf(events, instruments)
  /\ \A sh \in Shard, s \in Symbol : <<sh, s>> \notin missing /\ ~NamedIn(events, s) =>
       /\ known[sh][s] = instruments[s]
       /\ instruments[s] # Ref!None => status[sh][s].trading = instruments[s].trading
  /\ \A sh \in Shard, i \in DOMAIN events :
       <<sh, events[i].symbol>> \notin missing /\ ~events[i].withStatus =>
         status[sh][events[i].symbol].trading = events[i].def.trading

\* A refresh.
LEMMA FetchedKeeps == ASSUME RefTyped, BehindInv, Ref!Fetched PROVE RefTyped' /\ BehindInv'
<1> DEFINE S == {s \in Symbol : venue[s] # Ref!None}
           base == [instruments |-> instruments, next_seq |-> next_seq, events |-> <<>>]
<1>1. PICK list : list = Ref!SetToSeq(S)
  OBVIOUS
<1>2. PICK n \in Nat : list \in [1 .. n -> S] /\ \A i, j \in 1 .. n : list[i] = list[j] => i = j
  <2>1. S \in SUBSET Symbol
    OBVIOUS
  <2> HIDE DEF S
  <2> QED BY <1>1, <2>1, ListingOf
<1>3. PICK reg : reg = Ref!ApplyBatch(base, list)
  OBVIOUS
<1>4. /\ pc \in {"starts", "fetches"}
      /\ instruments' = reg.instruments /\ next_seq' = reg.next_seq /\ events' = reg.events
      /\ pc' = IF reg.events = <<>> THEN "waits" ELSE "publishes"
      /\ UNCHANGED <<venue, known, status, changes, missing>>
  BY <1>1, <1>3 DEF Ref!Fetched, Ref!Fetching, Ref!consumer
<1>5. events = <<>>
  BY <1>4 DEF RefTyped
<1>6. PICK R : /\ R[0] = base /\ R[n] = reg
               /\ \A k \in 0 .. n - 1 :
                    R[k + 1] = Ref!Upsert(R[k], venue[list[k + 1]], list[k + 1])
  <2>1. DOMAIN list = 1 .. n
    BY <1>2
  <2> HIDE DEF base
  <2> QED BY <1>3, <2>1, BatchIsSteps
<1>7. BatchInv(reg, instruments, list, n)
  <2> DEFINE T == {k \in Nat : k <= n => BatchInv(R[k], instruments, list, k)}
  <2>1. 0 \in T
    <3>1. /\ R[0].instruments = instruments /\ R[0].next_seq = next_seq /\ R[0].events = <<>>
          /\ DOMAIN R[0].events = {} /\ <<>> \in Seq(News)
      BY <1>6, EmptySeq
    <3>2. BatchInv(R[0], instruments, list, 0)
      BY <3>1 DEF BatchInv, EventsOf, RefTyped
    <3> QED BY <3>2
  <2>2. ASSUME NEW k \in Nat, k \in T PROVE k + 1 \in T
    <3> SUFFICES ASSUME k + 1 <= n PROVE BatchInv(R[k + 1], instruments, list, k + 1)
      OBVIOUS
    <3>1. k \in 0 .. n - 1 /\ k + 1 \in 1 .. n /\ k <= n
      OBVIOUS
    <3>2. BatchInv(R[k], instruments, list, k)
      BY <2>2, <3>1
    <3>3. R[k + 1] = Ref!Upsert(R[k], venue[list[k + 1]], list[k + 1])
      BY <1>6, <3>1
    <3>4. list \in [1 .. n -> Symbol]
      BY <1>2
    <3>5. venue[list[k + 1]] \in Ref!Definition
      BY <1>2, <3>1 DEF RefTyped, Listed
    <3>6. instruments \in [Symbol -> Listed]
      BY DEF RefTyped
    <3> HIDE DEF T, S
    <3> QED BY <1>2, <3>1, <3>2, <3>3, <3>4, <3>5, <3>6, BatchStep
  <2> HIDE DEF T
  <2>3. n \in T
    BY <2>1, <2>2, NatSetInduction
  <2> QED BY <1>6, <2>3 DEF T
<1> HIDE DEF S, base
<1>8. RefTyped'
  BY <1>4, <1>7 DEF RefTyped, BatchInv
<1>9. EventsOf(events', instruments')
  BY <1>4, <1>7 DEF BatchInv
<1>10. known' = known /\ status' = status /\ missing' = missing
  BY <1>4
<1>11. \A sh \in Shard, s \in Symbol : <<sh, s>> \notin missing =>
         /\ known[sh][s] = instruments[s]
         /\ instruments[s] # Ref!None => status[sh][s].trading = instruments[s].trading
  BY <1>5 DEF BehindInv, NamedIn
<1>12. ASSUME NEW sh \in Shard, NEW s \in Symbol, <<sh, s>> \notin missing', ~NamedIn(events', s)
       PROVE  /\ known'[sh][s] = instruments'[s]
              /\ instruments'[s] # Ref!None => status'[sh][s].trading = instruments'[s].trading
  <2>1. instruments'[s] = instruments[s]
    BY <1>4, <1>7, <1>12 DEF BatchInv
  <2> QED BY <1>10, <1>11, <1>12, <2>1
<1>13. ASSUME NEW sh \in Shard, NEW i \in DOMAIN events',
              <<sh, events'[i].symbol>> \notin missing', ~events'[i].withStatus
       PROVE  status'[sh][events'[i].symbol].trading = events'[i].def.trading
  <2>1. /\ instruments[reg.events[i].symbol] # Ref!None
        /\ instruments[reg.events[i].symbol].trading = reg.events[i].def.trading
    BY <1>4, <1>7, <1>13 DEF BatchInv
  <2>2. reg.events[i].symbol \in Symbol
    <3>1. reg.events \in Seq(News) /\ i \in DOMAIN reg.events
      BY <1>4, <1>7, <1>13 DEF BatchInv
    <3>2. reg.events[i] \in News
      BY <3>1, LenProperties, ElementOfSeq
    <3> QED BY <3>2 DEF News
  <2> QED BY <1>4, <1>10, <1>11, <1>13, <2>1, <2>2
<1> QED BY <1>8, <1>9, <1>12, <1>13 DEF BehindInv

\* What is left of a sequence after its head.
LEMMA LeftOver ==
  ASSUME NEW S, NEW q \in Seq(S), q # <<>>
  PROVE  /\ Tail(q) \in Seq(S) /\ Head(q) \in S /\ Head(q) = q[1] /\ 1 \in DOMAIN q
         /\ Len(q) = 1 <=> Tail(q) = <<>>
         /\ \A i \in DOMAIN Tail(q) : i \in Nat /\ i + 1 \in DOMAIN q /\ i + 1 # 1 /\ Tail(q)[i] = q[i + 1]
         /\ \A i \in DOMAIN q : i # 1 => i - 1 \in DOMAIN Tail(q) /\ i = (i - 1) + 1
<1>1. /\ Len(q) \in Nat /\ DOMAIN q = 1 .. Len(q) /\ Len(q) # 0
  BY LenProperties, EmptySeq
<1>2. /\ Head(q) = q[1] /\ Tail(q) \in Seq(S) /\ Len(Tail(q)) = Len(q) - 1 /\ Head(q) \in S
      /\ \A i \in 1 .. Len(Tail(q)) : Tail(q)[i] = q[i + 1]
  BY HeadTailProperties
<1>3. DOMAIN Tail(q) = 1 .. Len(q) - 1
  BY <1>2, LenProperties
<1>4. Tail(q) = <<>> <=> Len(Tail(q)) = 0
  BY <1>2, EmptySeq
<1> QED BY <1>1, <1>2, <1>3, <1>4

\* A broadcast.
LEMMA BroadcastKeeps == ASSUME RefTyped, BehindInv, Ref!Broadcast PROVE RefTyped' /\ BehindInv'
<1> DEFINE e == Head(events)
<1>1. PICK defOk \in SUBSET Shard, statusOk \in SUBSET Shard :
        /\ ~e.withStatus => statusOk = Shard
        /\ missing' = Ref!MissingAfter(e, defOk \cap statusOk)
        /\ known' = Ref!Heard(e, defOk, statusOk).known
        /\ status' = Ref!Heard(e, defOk, statusOk).status
  BY DEF Ref!Broadcast
<1>2. /\ pc = "publishes" /\ events' = Tail(events) /\ UNCHANGED <<venue, instruments, next_seq>>
      /\ pc' = IF Len(events) = 1 THEN "waits" ELSE "publishes"
  BY DEF Ref!Broadcast
<1>3. events \in Seq(News) /\ events # <<>>
  BY <1>2 DEF RefTyped
<1>4. /\ Tail(events) \in Seq(News) /\ e \in News /\ e = events[1] /\ 1 \in DOMAIN events
      /\ Len(events) = 1 <=> Tail(events) = <<>>
      /\ \A i \in DOMAIN events' : /\ i \in Nat /\ i + 1 \in DOMAIN events /\ i + 1 # 1
                                   /\ events'[i] = events[i + 1]
      /\ \A i \in DOMAIN events : i # 1 => i - 1 \in DOMAIN events' /\ i = (i - 1) + 1
  BY <1>2, <1>3, LeftOver
<1>5. e.symbol \in Symbol /\ e.def \in Listed /\ e.seq \in Int /\ e.withStatus \in BOOLEAN
      /\ e.def.trading \in BOOLEAN
  BY <1>4 DEF News, Listed, Ref!Definition
<1> HIDE DEF e
<1>6. /\ known' = [sh \in Shard |-> [known[sh] EXCEPT
                     ![e.symbol] = IF sh \in defOk THEN e.def ELSE @]]
      /\ status' = [sh \in Shard |-> [status[sh] EXCEPT
                     ![e.symbol] = IF sh \in statusOk /\ e.withStatus
                                   THEN [trading |-> e.def.trading, seq |-> e.seq] ELSE @]]
  BY <1>1 DEF Ref!Heard
<1>7. ASSUME NEW sh \in Shard
      PROVE  /\ \A s \in Symbol \ {e.symbol} : <<sh, s>> \notin missing' => <<sh, s>> \notin missing
             /\ <<sh, e.symbol>> \notin missing'
                  => /\ sh \in defOk /\ sh \in statusOk
                     /\ ~e.withStatus => <<sh, e.symbol>> \notin missing
  BY <1>1, <1>7 DEF Ref!MissingAfter
<1>8. RefTyped'
  <2>1. known' \in [Shard -> [Symbol -> Listed]]
    BY <1>5, <1>6 DEF RefTyped
  <2>2. [trading |-> e.def.trading, seq |-> e.seq] \in Told
    BY <1>5 DEF Told
  <2>3. status' \in [Shard -> [Symbol -> Told]]
    BY <1>5, <1>6, <2>2 DEF RefTyped
  <2>4. pc' = "publishes" <=> events' # <<>>
    BY <1>2, <1>4
  <2> QED BY <1>2, <1>4, <2>1, <2>3, <2>4 DEF RefTyped
<1>9. EventsOf(events', instruments')
  <2>1. EventsOf(events, instruments)
    BY DEF BehindInv
  <2> QED BY <1>2, <1>4, <2>1 DEF EventsOf
<1>10. \A i \in DOMAIN events' : events'[i].symbol # e.symbol
  BY <1>4 DEF BehindInv, EventsOf
<1>11. ASSUME NEW sh \in Shard
       PROVE  /\ sh \in defOk => known'[sh][e.symbol] = e.def
              /\ sh \in statusOk /\ e.withStatus => status'[sh][e.symbol].trading = e.def.trading
              /\ ~e.withStatus => status'[sh][e.symbol] = status[sh][e.symbol]
              /\ \A s \in Symbol \ {e.symbol} :
                   known'[sh][s] = known[sh][s] /\ status'[sh][s] = status[sh][s]
  <2>1. known[sh] \in [Symbol -> Listed] /\ status[sh] \in [Symbol -> Told]
    BY DEF RefTyped
  <2> QED BY <1>5, <1>6, <2>1
<1>12. ASSUME NEW sh \in Shard, NEW s \in Symbol, <<sh, s>> \notin missing', ~NamedIn(events', s)
       PROVE  /\ known'[sh][s] = instruments'[s]
              /\ instruments'[s] # Ref!None => status'[sh][s].trading = instruments'[s].trading
  <2>1. CASE s = e.symbol
    <3>1. /\ sh \in defOk /\ sh \in statusOk
          /\ ~e.withStatus => <<sh, e.symbol>> \notin missing
      BY <1>7, <1>12, <2>1
    <3>2. e.def = instruments[e.symbol]
      BY <1>4 DEF BehindInv, EventsOf
    <3>3. status'[sh][e.symbol].trading = e.def.trading
      <4>1. CASE e.withStatus
        BY <1>11, <3>1, <4>1
      <4>2. CASE ~e.withStatus
        <5>1. status[sh][e.symbol].trading = e.def.trading
          BY <1>4, <3>1, <4>2 DEF BehindInv
        <5> QED BY <1>11, <4>2, <5>1
      <4> QED BY <4>1, <4>2
    <3> QED BY <1>2, <1>11, <2>1, <3>1, <3>2, <3>3
  <2>2. CASE s # e.symbol
    <3>1. \A i \in DOMAIN events : events[i].symbol # s
      <4> SUFFICES ASSUME NEW i \in DOMAIN events, events[i].symbol = s PROVE FALSE
        OBVIOUS
      <4>1. i # 1
        BY <1>4, <2>2
      <4>2. i - 1 \in DOMAIN events' /\ events'[i - 1] = events[i]
        BY <1>4, <4>1
      <4> QED BY <1>12, <4>2 DEF NamedIn
    <3>2. <<sh, s>> \notin missing
      BY <1>7, <1>12, <2>2
    <3>3. /\ known[sh][s] = instruments[s]
          /\ instruments[s] # Ref!None => status[sh][s].trading = instruments[s].trading
      BY <3>1, <3>2 DEF BehindInv, NamedIn
    <3> QED BY <1>2, <1>11, <2>2, <3>3
  <2> QED BY <2>1, <2>2
<1>13. ASSUME NEW sh \in Shard, NEW i \in DOMAIN events',
              <<sh, events'[i].symbol>> \notin missing', ~events'[i].withStatus
       PROVE  status'[sh][events'[i].symbol].trading = events'[i].def.trading
  <2>1. i + 1 \in DOMAIN events /\ events'[i] = events[i + 1]
    BY <1>4
  <2>2. events'[i].symbol \in Symbol \ {e.symbol}
    <3>1. events[i + 1] \in News
      BY <1>3, <2>1, ElementOfSeq, LenProperties
    <3> QED BY <1>10, <2>1, <3>1 DEF News
  <2>3. <<sh, events'[i].symbol>> \notin missing
    BY <1>7, <1>13, <2>2
  <2>4. status[sh][events'[i].symbol].trading = events'[i].def.trading
    BY <1>13, <2>1, <2>3 DEF BehindInv
  <2> QED BY <1>11, <2>2, <2>4
<1> QED BY <1>8, <1>9, <1>12, <1>13 DEF BehindInv

\* Between two refreshes a consumer has the registry's definition and status of each
\* symbol it lacks nothing of since an offer was refused (RefDataPublisher::broadcast).
THEOREM ConsumersHear == Ref!Spec => []ConsumersAgree
<1>1. Ref!Init => RefTyped /\ BehindInv
  <2> SUFFICES ASSUME Ref!Init PROVE RefTyped /\ BehindInv
    OBVIOUS
  <2>1. /\ venue \in [Symbol -> Listed] /\ instruments = [s \in Symbol |-> Ref!None]
        /\ next_seq = 0 /\ pc = "starts" /\ events = <<>>
        /\ known  = [sh \in Shard |-> [s \in Symbol |-> Ref!None]]
        /\ status = [sh \in Shard |-> [s \in Symbol |-> Ref!NoStatus]]
    <3>1. {Ref!None, [terms |-> 0, trading |-> TRUE]} \subseteq Listed
      BY DEF Listed, Ref!Definition, Ref!Terms
    <3> QED BY <3>1 DEF Ref!Init
  <2>2. Ref!NoStatus \in Told /\ Ref!None \in Listed
    BY DEF Ref!NoStatus, Told, Listed
  <2>3. events \in Seq(News) /\ DOMAIN events = {}
    BY <2>1, EmptySeq
  <2>4. RefTyped
    BY <2>1, <2>2, <2>3 DEF RefTyped
  <2>5. BehindInv
    BY <2>1, <2>3 DEF BehindInv, EventsOf
  <2> QED BY <2>4, <2>5
<1>2. RefTyped /\ BehindInv /\ [Ref!Next]_(Ref!vars) => RefTyped' /\ BehindInv'
  <2> SUFFICES ASSUME RefTyped, BehindInv, [Ref!Next]_(Ref!vars) PROVE RefTyped' /\ BehindInv'
    OBVIOUS
  <2>1. CASE \/ UNCHANGED Ref!vars \/ Ref!Ticks \/ Ref!FetchFails \/ Ref!ShutsDown
             \/ \E s \in Symbol : Ref!VenueChanges(s)
    <3>1. UNCHANGED <<instruments, next_seq, events, known, status, missing>>
      BY <2>1 DEF Ref!vars, Ref!Ticks, Ref!FetchFails, Ref!ShutsDown, Ref!VenueChanges,
           Ref!consumer, Ref!service
    <3>2. venue' \in [Symbol -> Listed]
      BY <2>1 DEF RefTyped, Listed, Ref!vars, Ref!Ticks, Ref!FetchFails, Ref!ShutsDown,
           Ref!VenueChanges
    <3>3. pc' = "publishes" <=> pc = "publishes"
      BY <2>1 DEF Ref!vars, Ref!Ticks, Ref!FetchFails, Ref!ShutsDown, Ref!VenueChanges,
           Ref!Fetching, Ref!service
    <3> QED BY <3>1, <3>2, <3>3 DEF RefTyped, BehindInv, EventsOf, NamedIn
  <2> QED BY <2>1, FetchedKeeps, BroadcastKeeps DEF Ref!Next
<1>3. RefTyped /\ BehindInv => ConsumersAgree
  <2> SUFFICES ASSUME RefTyped, BehindInv, pc = "waits",
                      NEW sh \in Shard, NEW s \in Symbol, <<sh, s>> \notin missing
               PROVE  /\ known[sh][s] = instruments[s]
                      /\ instruments[s] # Ref!None
                           => status[sh][s].trading = instruments[s].trading
    BY DEF ConsumersAgree, Ref!ConsumersAgree
  <2>1. ~NamedIn(events, s)
    BY EmptySeq DEF RefTyped, NamedIn
  <2> QED BY <2>1 DEF BehindInv
<1> QED BY <1>1, <1>2, <1>3, PTL DEF Ref!Spec

------------------------------------------------------------------------------
(***************************************************************************)
(* Decimals.                                                               *)
(***************************************************************************)

\* The powers of ten up to the n-th.
Powers(n, g) == g = [k \in 0 .. n |-> IF k = 0 THEN 1 ELSE 10 * g[k - 1]]

\* There are such powers, and those up to n + 1 are those up to n and one more.
LEMMA PowersExist == \A n \in Nat : \E g : Powers(n, g)
<1> DEFINE T == {n \in Nat : \E g : Powers(n, g)}
<1>1. 0 \in T
  <2> DEFINE g == [k \in 0 .. 0 |-> 1]
  <2>1. Powers(0, g)
    BY DEF Powers
  <2> QED BY <2>1
<1>2. ASSUME NEW n \in Nat, n \in T PROVE n + 1 \in T
  <2>1. PICK g : Powers(n, g)
    BY <1>2
  <2> DEFINE h == [k \in 0 .. n + 1 |-> IF k = n + 1 THEN 10 * g[n] ELSE g[k]]
             body == [k \in 0 .. n + 1 |-> IF k = 0 THEN 1 ELSE 10 * h[k - 1]]
  <2>2. ASSUME NEW k \in 0 .. n + 1 PROVE h[k] = body[k]
    <3>1. CASE k = 0
      BY <2>1, <3>1 DEF Powers
    <3>2. CASE k = n + 1
      BY <3>2
    <3>3. CASE k # 0 /\ k # n + 1
      <4>1. k \in 0 .. n /\ k - 1 \in 0 .. n /\ k - 1 \in 0 .. n + 1 /\ k - 1 # n + 1
        BY <3>3
      <4>2. g[k] = 10 * g[k - 1]
        BY <2>1, <3>3, <4>1 DEF Powers
      <4> QED BY <3>3, <4>1, <4>2
    <3> QED BY <3>1, <3>2, <3>3
  <2>3. h = body
    BY <2>2
  <2>4. Powers(n + 1, h)
    BY <2>3 DEF Powers
  <2> HIDE DEF h
  <2> QED BY <2>4
<1> HIDE DEF T
<1>3. \A n \in Nat : n \in T
  BY <1>1, <1>2, NatSetInduction
<1> QED BY <1>3 DEF T

\* Any two such functions have the same powers.
LEMMA PowersAgree ==
  ASSUME NEW n \in Nat, NEW m \in Nat, NEW g, NEW h, Powers(n, g), Powers(m, h)
  PROVE  \A k \in Nat : k <= n /\ k <= m => g[k] = h[k]
<1> DEFINE T == {k \in Nat : k <= n /\ k <= m => g[k] = h[k]}
<1>1. 0 \in T
  BY DEF Powers
<1>2. ASSUME NEW k \in Nat, k \in T PROVE k + 1 \in T
  <2> SUFFICES ASSUME k + 1 <= n, k + 1 <= m PROVE g[k + 1] = h[k + 1]
    OBVIOUS
  <2>1. k + 1 \in 0 .. n /\ k + 1 \in 0 .. m /\ (k + 1) - 1 = k /\ k + 1 # 0 /\ g[k] = h[k]
    BY <1>2
  <2> QED BY <2>1 DEF Powers
<1> HIDE DEF T
<1>3. \A k \in Nat : k \in T
  BY <1>1, <1>2, NatSetInduction
<1> QED BY <1>3 DEF T

Ten(n) == Dec!TenTo[n]

\* What TenTo is.
LEMMA TenIs == /\ Ten(0) = 1
               /\ \A n \in Nat : Ten(n + 1) = 10 * Ten(n)
<1> DEFINE rec(f) == [n \in Nat |-> IF n = 0 THEN 1 ELSE 10 * f[n - 1]]
           f == [n \in Nat |-> (CHOOSE g : Powers(n, g))[n]]
<1>1. f = rec(f)
  <2>1. ASSUME NEW n \in Nat PROVE f[n] = rec(f)[n]
    <3>1. PICK g : Powers(n, g) /\ f[n] = g[n]
      BY PowersExist
    <3>2. CASE n = 0
      BY <3>1, <3>2 DEF Powers
    <3>3. CASE n # 0
      <4>1. n - 1 \in Nat
        BY <3>3
      <4>2. PICK h : Powers(n - 1, h) /\ f[n - 1] = h[n - 1]
        BY <4>1, PowersExist
      <4>3. h[n - 1] = g[n - 1]
        BY <3>1, <4>1, <4>2, PowersAgree
      <4>4. g[n] = 10 * g[n - 1]
        BY <3>1, <3>3 DEF Powers
      <4> HIDE DEF f
      <4> QED BY <3>1, <3>3, <4>2, <4>3, <4>4
    <3> QED BY <3>2, <3>3
  <2> HIDE DEF f
  <2>2. DOMAIN rec(f) = Nat
    OBVIOUS
  <2>3. f = [n \in Nat |-> f[n]]
    BY DEF f
  <2> QED BY <2>1, <2>3
<1>2. Dec!TenTo = CHOOSE g : g = rec(g)
  BY DEF Dec!TenTo
<1> HIDE DEF f
<1>3. Dec!TenTo = rec(Dec!TenTo)
  <2> HIDE DEF rec
  <2> QED BY <1>1, <1>2
<1>4. ASSUME NEW n \in Nat PROVE Dec!TenTo[n] = IF n = 0 THEN 1 ELSE 10 * Dec!TenTo[n - 1]
  BY <1>3
<1> HIDE DEF rec
<1>5. ASSUME NEW n \in Nat PROVE Ten(n + 1) = 10 * Ten(n)
  <2>1. n + 1 \in Nat /\ n + 1 # 0 /\ (n + 1) - 1 = n
    OBVIOUS
  <2> QED BY <1>4, <2>1 DEF Ten
<1> QED BY <1>4, <1>5 DEF Ten

\* Powers are positive, and the power of a sum is the product of the powers.
LEMMA TenIsPositive == \A n \in Nat : Ten(n) \in Nat /\ Ten(n) >= 1
<1> DEFINE T == {n \in Nat : Ten(n) \in Nat /\ Ten(n) >= 1}
<1>1. 0 \in T
  BY TenIs
<1>2. ASSUME NEW n \in Nat, n \in T PROVE n + 1 \in T
  BY <1>2, TenIs
<1> HIDE DEF T
<1>3. \A n \in Nat : n \in T
  BY <1>1, <1>2, NatSetInduction
<1> QED BY <1>3 DEF T

\* Ten times a product.
LEMMA TimesTen == \A a, p \in Nat : a * (10 * p) = 10 * (a * p) /\ a * p \in Nat
OBVIOUS

\* One number between two neighbouring multiples.
LEMMA OneQuotient ==
  ASSUME NEW q \in Nat, NEW p \in Nat, p >= 1, NEW r \in Nat, r < p
  PROVE  (q * p + r) \div p = q
<1> DEFINE x == q * p + r
           d == x \div p
<1>1. x \in Nat /\ d \in Int /\ p * d <= x /\ x < p * d + p
  OBVIOUS
<1>2. p * q \in Nat /\ p * q = q * p
  OBVIOUS
<1> HIDE DEF d
<1>3. ~ d > q
  <2> SUFFICES ASSUME d >= q + 1 PROVE FALSE
    BY <1>1
  <2>1. p * d >= p * (q + 1)
    BY <1>1
  <2>2. p * (q + 1) = p * q + p
    OBVIOUS
  <2> QED BY <1>1, <1>2, <2>1, <2>2
<1>4. ~ d < q
  <2> SUFFICES ASSUME d + 1 <= q PROVE FALSE
    BY <1>1
  <2>1. p * (d + 1) <= p * q
    BY <1>1
  <2>2. p * (d + 1) = p * d + p
    BY <1>1
  <2> QED BY <1>1, <1>2, <2>1, <2>2
<1> QED BY <1>1, <1>3, <1>4 DEF d

\* A number that is written digit by digit, and cut: W has its digits in c.
LEMMA CutAndGrown ==
  ASSUME NEW W \in [Nat -> Nat], NEW c \in [Nat -> 0 .. 9],
         \A k \in Nat : W[k + 1] = 10 * W[k] + c[k + 1], NEW a \in Nat
  PROVE  \A j \in Nat : /\ W[a] = W[a + j] \div Ten(j)
                        /\ (\A k \in Nat : k > a => c[k] = 0) => W[a + j] = W[a] * Ten(j)
<1> DEFINE T == {j \in Nat : \E r \in Nat : /\ r < Ten(j) /\ W[a + j] = W[a] * Ten(j) + r
                                            /\ (\A k \in Nat : k > a => c[k] = 0) => r = 0}
<1>1. 0 \in T
  <2>1. W[a + 0] = W[a] * Ten(0) + 0 /\ 0 < Ten(0)
    BY TenIs
  <2> QED BY <2>1
<1>2. ASSUME NEW j \in Nat, j \in T PROVE j + 1 \in T
  <2>1. PICK r \in Nat : /\ r < Ten(j) /\ W[a + j] = W[a] * Ten(j) + r
                         /\ (\A k \in Nat : k > a => c[k] = 0) => r = 0
    BY <1>2
  <2>2. PICK d \in 0 .. 9 : d = c[(a + j) + 1]
    OBVIOUS
  <2>3. (a + j) + 1 = a + (j + 1) /\ (a + j) + 1 > a /\ a + j \in Nat /\ (a + j) + 1 \in Nat
    OBVIOUS
  <2>4. W[a + (j + 1)] = 10 * W[a + j] + d
    BY <2>2, <2>3
  <2>5. PICK p \in Nat, w \in Nat, m \in Nat : p = Ten(j) /\ w = W[a] /\ m = w * p
    BY TenIsPositive, TimesTen
  <2>6. Ten(j + 1) = 10 * p
    BY <2>5, TenIs
  <2>7. w * (10 * p) = 10 * m
    BY <2>5, TimesTen
  <2>8. W[a + (j + 1)] = W[a] * Ten(j + 1) + (10 * r + d)
    BY <2>1, <2>4, <2>5, <2>6, <2>7
  <2>9. 10 * r + d \in Nat /\ 10 * r + d < Ten(j + 1)
    BY <2>1, <2>5, <2>6
  <2>10. (\A k \in Nat : k > a => c[k] = 0) => 10 * r + d = 0
    BY <2>1, <2>2, <2>3
  <2> QED BY <2>8, <2>9, <2>10
<1> HIDE DEF T
<1>3. \A j \in Nat : j \in T
  BY <1>1, <1>2, NatSetInduction
<1>4. ASSUME NEW j \in Nat
      PROVE  /\ W[a] = W[a + j] \div Ten(j)
             /\ (\A k \in Nat : k > a => c[k] = 0) => W[a + j] = W[a] * Ten(j)
  <2>1. PICK r \in Nat : /\ r < Ten(j) /\ W[a + j] = W[a] * Ten(j) + r
                         /\ (\A k \in Nat : k > a => c[k] = 0) => r = 0
    BY <1>3 DEF T
  <2>2. Ten(j) \in Nat /\ Ten(j) >= 1 /\ W[a] \in Nat
    BY TenIsPositive
  <2>3. W[a] = W[a + j] \div Ten(j)
    <3>1. PICK p \in Nat, q \in Nat : p = Ten(j) /\ q = W[a]
      BY <2>2
    <3>2. (q * p + r) \div p = q
      BY <2>1, <2>2, <3>1, OneQuotient
    <3>3. W[a + j] = q * p + r
      BY <2>1, <3>1
    <3> QED BY <3>1, <3>2, <3>3
  <2>4. W[a] * Ten(j) \in Nat
    BY <2>2, TimesTen
  <2> QED BY <2>1, <2>3, <2>4
<1> QED BY <1>4

\* g folds the digits of every set of the first n positions.
NumberBody(digits, n, g) ==
  [D \in SUBSET (1 .. n) |->
     IF D = {} THEN 0 ELSE 10 * g[D \ {Dec!Max(D)}] + digits[Dec!Max(D)]]

\* The greatest element is the same, whichever instance names it.
LEMMA SameMax == \A D : Dec!Max(D) = Ref!Max(D)
BY DEF Dec!Max, Ref!Max

\* There is a function that folds the digits of every set of positions.
LEMMA NumberExists ==
  ASSUME NEW digits
  PROVE  \A n \in Nat : \E g : g = NumberBody(digits, n, g)
<1> DEFINE T == {n \in Nat : \E g : g = NumberBody(digits, n, g)}
           next(g, n) == 10 * g + digits[n]
<1>1. 0 \in T
  <2> DEFINE g == [D \in SUBSET (1 .. 0) |-> 0]
  <2>1. \A D \in SUBSET (1 .. 0) : D = {}
    OBVIOUS
  <2>2. g = NumberBody(digits, 0, g)
    BY <2>1 DEF NumberBody
  <2> HIDE DEF g
  <2> QED BY <2>2
<1>2. ASSUME NEW n \in Nat, n \in T PROVE n + 1 \in T
  <2>1. PICK g : g = NumberBody(digits, n, g)
    BY <1>2
  <2> DEFINE h == [D \in SUBSET (1 .. n + 1) |->
                     IF n + 1 \in D THEN next(g[D \ {n + 1}], n + 1) ELSE g[D]]
  <2>2. ASSUME NEW D \in SUBSET (1 .. n + 1)
        PROVE  h[D] = NumberBody(digits, n + 1, h)[D]
    <3>1. CASE n + 1 \in D
      <4>1. Dec!Max(D) = n + 1 /\ D \ {n + 1} \in SUBSET (1 .. n) /\ D # {}
            /\ n + 1 \notin D \ {n + 1} /\ D \ {n + 1} \in SUBSET (1 .. n + 1)
        BY <3>1, LastPosition, SameMax
      <4>2. h[D] = next(h[D \ {n + 1}], n + 1)
        <5> HIDE DEF next
        <5> QED BY <3>1, <4>1
      <4> HIDE DEF h
      <4> QED BY <4>1, <4>2 DEF NumberBody
    <3>2. CASE n + 1 \notin D
      <4>1. D \in SUBSET (1 .. n)
        BY <3>2, LastPosition
      <4>2. g[D] = IF D = {} THEN 0 ELSE next(g[D \ {Dec!Max(D)}], Dec!Max(D))
        BY <2>1, <4>1 DEF NumberBody
      <4>3. h[D] = g[D] /\ h[D \ {Dec!Max(D)}] = g[D \ {Dec!Max(D)}]
        <5> HIDE DEF next
        <5> QED BY <3>2
      <4> HIDE DEF h
      <4> QED BY <4>2, <4>3 DEF NumberBody
    <3> QED BY <3>1, <3>2
  <2>3. h = [D \in SUBSET (1 .. n + 1) |-> h[D]]
    OBVIOUS
  <2> HIDE DEF h
  <2>4. h = NumberBody(digits, n + 1, h)
    BY <2>2, <2>3 DEF NumberBody
  <2> QED BY <2>4
<1> HIDE DEF T
<1>3. \A n \in Nat : n \in T
  BY <1>1, <1>2, NatSetInduction
<1> QED BY <1>3 DEF T

\* What Number does: a digit after the other.
LEMMA NumberIsSteps ==
  ASSUME NEW n \in Nat, NEW digits, DOMAIN digits = 1 .. n
  PROVE  \E R : /\ R[0] = 0 /\ R[n] = Dec!Number(digits)
               /\ \A k \in 0 .. n - 1 : R[k + 1] = 10 * R[k] + digits[k + 1]
<1> DEFINE S == DOMAIN digits
           body(h) == [D \in SUBSET S |->
                         IF D = {} THEN 0
                         ELSE LET x == Dec!Max(D)
                              IN  10 * h[D \ {x}] + digits[x]]
           iter == CHOOSE h : h = body(h)
           R == [k \in 0 .. n |-> iter[1 .. k]]
<1>1. Dec!Number(digits) = iter[S]
  BY Zenon DEF Dec!Number, Dec!FoldLeft, Dec!MapThenFoldSet
<1>2. \A h : body(h) = NumberBody(digits, n, h)
  BY DEF NumberBody
<1>3. iter = body(iter)
  <2> HIDE DEF body
  <2>1. PICK g : g = NumberBody(digits, n, g)
    BY NumberExists
  <2>2. \E h : h = body(h)
    BY <1>2, <2>1
  <2> QED BY <2>2
<1> HIDE DEF body, iter
<1>4. iter = NumberBody(digits, n, iter)
  BY <1>2, <1>3
<1>5. R[0] = 0
  <2>1. iter[{}] = 0
    BY <1>4 DEF NumberBody
  <2>2. 1 .. 0 = {} /\ 0 \in 0 .. n
    OBVIOUS
  <2> QED BY <2>1, <2>2
<1>6. R[n] = Dec!Number(digits)
  BY <1>1
<1>7. ASSUME NEW k \in 0 .. n - 1
      PROVE  R[k + 1] = 10 * R[k] + digits[k + 1]
  <2> DEFINE D == 1 .. k + 1
  <2>1. k \in Nat /\ k + 1 \in 1 .. k + 1 /\ k + 1 <= n
    OBVIOUS
  <2>2. k \in Nat /\ k + 1 \in D /\ D # {} /\ D \in SUBSET (1 .. k + 1) /\ D \in SUBSET (1 .. n)
    <3>1. \A i \in 1 .. k + 1 : i \in 1 .. n
      BY <2>1
    <3> QED BY <2>1, <3>1
  <2>3. D \ {k + 1} = 1 .. k
    BY <2>1
  <2>4. R[k + 1] = iter[D] /\ R[k] = iter[1 .. k]
    BY <2>1
  <2> HIDE DEF D, R
  <2>5. Dec!Max(D) = k + 1
    BY <2>2, LastPosition, SameMax
  <2>6. iter[D] = 10 * iter[D \ {Dec!Max(D)}] + digits[Dec!Max(D)]
    BY <1>4, <2>2 DEF NumberBody
  <2> QED BY <2>3, <2>4, <2>5, <2>6
<1> HIDE DEF R
<1> QED BY <1>5, <1>6, <1>7

Decimal == [negative : BOOLEAN, whole : Nat, frac : Seq(0 .. 9)]

\* The digits behind the point, zeros without end behind the last one.
DigitsOf(f) == [k \in Nat |-> IF k \in 1 .. Len(f) THEN f[k] ELSE 0]

\* The number at each scale.
Written(t) == [n \in Nat |-> t.whole * Ten(n) + Dec!Number(Dec!Padded(t.frac, n))]

\* A function on the first n numbers is a sequence.
LEMMA FunctionIsSeq ==
  ASSUME NEW S, NEW n \in Nat, NEW f \in [1 .. n -> S]
  PROVE  f \in Seq(S) /\ Len(f) = n /\ DOMAIN f = 1 .. n
<1>1. f \in Seq(S)
  BY SeqDef
<1> QED BY <1>1, LenProperties

\* Padded has the first n of the digits and zeros.
LEMMA PaddedIs ==
  ASSUME NEW f \in Seq(0 .. 9), NEW n \in Nat
  PROVE  /\ Dec!Padded(f, n) \in [1 .. n -> 0 .. 9]
         /\ \A i \in 1 .. n : Dec!Padded(f, n)[i] = DigitsOf(f)[i]
<1>1. Len(f) \in Nat /\ \A i \in 1 .. Len(f) : f[i] \in 0 .. 9
  BY LenProperties, ElementOfSeq
<1>2. Dec!Padded(f, n) = [i \in 1 .. n |-> IF i <= Len(f) THEN f[i] ELSE 0]
  BY DEF Dec!Padded
<1>3. \A i \in 1 .. n : (i <= Len(f) <=> i \in 1 .. Len(f)) /\ i \in Nat
  BY <1>1
<1> QED BY <1>1, <1>2, <1>3 DEF DigitsOf

\* A digit more.
LEMMA PaddedGrows ==
  ASSUME NEW f \in Seq(0 .. 9), NEW n \in Nat
  PROVE  /\ Dec!Number(Dec!Padded(f, n)) \in Nat
         /\ Dec!Number(Dec!Padded(f, 0)) = 0
         /\ Dec!Number(Dec!Padded(f, n + 1))
              = 10 * Dec!Number(Dec!Padded(f, n)) + DigitsOf(f)[n + 1]
<1> DEFINE c == DigitsOf(f)
<1>1. \A m \in Nat : c[m] \in 0 .. 9
  <2>1. Len(f) \in Nat /\ \A i \in 1 .. Len(f) : f[i] \in 0 .. 9
    BY LenProperties, ElementOfSeq
  <2> QED BY <2>1 DEF DigitsOf
<1>2. ASSUME NEW m \in Nat
      PROVE  \E R : /\ R[0] = 0 /\ R[m] = Dec!Number(Dec!Padded(f, m))
                    /\ \A k \in 0 .. m - 1 : R[k + 1] = 10 * R[k] + c[k + 1]
  <2>1. PICK p : p = Dec!Padded(f, m)
    OBVIOUS
  <2>2. DOMAIN p = 1 .. m /\ \A i \in 1 .. m : p[i] = c[i]
    BY <2>1, PaddedIs
  <2>3. PICK R : /\ R[0] = 0 /\ R[m] = Dec!Number(p)
                 /\ \A k \in 0 .. m - 1 : R[k + 1] = 10 * R[k] + p[k + 1]
    BY <2>2, NumberIsSteps
  <2>4. \A k \in 0 .. m - 1 : k + 1 \in 1 .. m
    OBVIOUS
  <2> HIDE DEF c
  <2> QED BY <2>1, <2>2, <2>3, <2>4
<1> HIDE DEF c
<1>3. PICK R : /\ R[0] = 0 /\ R[n] = Dec!Number(Dec!Padded(f, n))
               /\ \A k \in 0 .. n - 1 : R[k + 1] = 10 * R[k] + c[k + 1]
  BY <1>2
<1>4. PICK Q : /\ Q[0] = 0 /\ Q[n + 1] = Dec!Number(Dec!Padded(f, n + 1))
               /\ \A k \in 0 .. n : Q[k + 1] = 10 * Q[k] + c[k + 1]
  <2>1. PICK m \in Nat : m = n + 1
    OBVIOUS
  <2>2. PICK Q : /\ Q[0] = 0 /\ Q[m] = Dec!Number(Dec!Padded(f, m))
                 /\ \A k \in 0 .. m - 1 : Q[k + 1] = 10 * Q[k] + c[k + 1]
    BY <1>2
  <2>3. m - 1 = n
    BY <2>1
  <2> QED BY <2>1, <2>2, <2>3
<1> DEFINE T == {k \in Nat : k <= n => R[k] = Q[k] /\ R[k] \in Nat}
<1>5. 0 \in T
  BY <1>3, <1>4
<1>6. ASSUME NEW k \in Nat, k \in T PROVE k + 1 \in T
  <2> SUFFICES ASSUME k + 1 <= n PROVE R[k + 1] = Q[k + 1] /\ R[k + 1] \in Nat
    OBVIOUS
  <2>1. k \in 0 .. n - 1 /\ k \in 0 .. n /\ R[k] = Q[k] /\ R[k] \in Nat
    BY <1>6
  <2>2. PICK d \in 0 .. 9 : d = c[k + 1]
    BY <1>1
  <2>3. R[k + 1] = 10 * R[k] + d
    BY <1>3, <2>1, <2>2
  <2>4. Q[k + 1] = 10 * Q[k] + d
    BY <1>4, <2>1, <2>2
  <2> QED BY <2>1, <2>3, <2>4
<1> HIDE DEF T
<1>7. n \in T
  BY <1>5, <1>6, NatSetInduction
<1>8. R[n] = Q[n] /\ R[n] \in Nat
  BY <1>7 DEF T
<1>9. Q[n + 1] = 10 * Q[n] + c[n + 1]
  BY <1>4
<1>10. Dec!Number(Dec!Padded(f, 0)) = 0
  BY <1>2
<1> QED BY <1>3, <1>4, <1>8, <1>9, <1>10 DEF c

\* With a place more, ten times the number and the next digit.
LEMMA WrittenGrows ==
  ASSUME NEW t \in Decimal
  PROVE  /\ Written(t) \in [Nat -> Nat] /\ DigitsOf(t.frac) \in [Nat -> 0 .. 9]
         /\ \A n \in Nat : Written(t)[n + 1] = 10 * Written(t)[n] + DigitsOf(t.frac)[n + 1]
         /\ \A k \in Nat : k > Len(t.frac) => DigitsOf(t.frac)[k] = 0
         /\ Len(t.frac) \in Nat
<1>1. PICK f \in Seq(0 .. 9), w \in Nat : f = t.frac /\ w = t.whole
  BY DEF Decimal
<1>2. Len(f) \in Nat /\ \A i \in 1 .. Len(f) : f[i] \in 0 .. 9
  BY LenProperties, ElementOfSeq
<1>3. DigitsOf(f) \in [Nat -> 0 .. 9] /\ \A k \in Nat : k > Len(f) => DigitsOf(f)[k] = 0
  BY <1>2 DEF DigitsOf
<1>4. ASSUME NEW n \in Nat
      PROVE  /\ Written(t)[n] \in Nat
             /\ Written(t)[n + 1] = 10 * Written(t)[n] + DigitsOf(f)[n + 1]
  <2>1. PICK a \in Nat, b \in Nat : /\ a = Dec!Number(Dec!Padded(f, n))
                                    /\ b = Dec!Number(Dec!Padded(f, n + 1))
                                    /\ b = 10 * a + DigitsOf(f)[n + 1]
    <3>1. Dec!Number(Dec!Padded(f, n)) \in Nat
      BY PaddedGrows
    <3>2. Dec!Number(Dec!Padded(f, n + 1)) = 10 * Dec!Number(Dec!Padded(f, n)) + DigitsOf(f)[n + 1]
      BY PaddedGrows
    <3>3. DigitsOf(f)[n + 1] \in Nat
      BY <1>3
    <3> QED BY <3>1, <3>2, <3>3
  <2>2. PICK p \in Nat, q \in Nat : p = Ten(n) /\ q = Ten(n + 1) /\ q = 10 * p
    <3>1. Ten(n) \in Nat /\ Ten(n + 1) = 10 * Ten(n)
      BY TenIs, TenIsPositive
    <3> QED BY <3>1
  <2>3. w * (10 * p) = 10 * (w * p) /\ w * p \in Nat
    BY TimesTen
  <2>4. Written(t)[n] = w * p + a /\ Written(t)[n + 1] = w * q + b
    BY <1>1, <2>1, <2>2 DEF Written
  <2>5. PICK d \in Nat : d = DigitsOf(f)[n + 1]
    BY <1>3
  <2>6. PICK x \in Nat : x = w * p
    BY <2>3
  <2>7. Written(t)[n] = x + a /\ Written(t)[n + 1] = 10 * x + (10 * a + d)
    BY <2>1, <2>2, <2>3, <2>4, <2>5, <2>6
  <2> QED BY <2>5, <2>7
<1>5. Written(t) \in [Nat -> Nat]
  <2>1. \A n \in Nat : t.whole * Ten(n) + Dec!Number(Dec!Padded(t.frac, n)) \in Nat
    BY <1>4 DEF Written
  <2> QED BY <2>1 DEF Written
<1> QED BY <1>1, <1>2, <1>3, <1>4, <1>5

\* The reference definition counts on the whole text and cuts or appends then.
LEMMA MagnitudeIs ==
  ASSUME NEW t \in Decimal, NEW n \in Nat
  PROVE  Dec!Magnitude(t, n) = Written(t)[n]
<1>1. PICK f \in Seq(0 .. 9), w \in Nat, l \in Nat : f = t.frac /\ w = t.whole /\ l = Len(f)
  BY LenProperties DEF Decimal
<1>2. PICK W \in [Nat -> Nat], c \in [Nat -> 0 .. 9] :
        /\ W = Written(t) /\ c = DigitsOf(f)
        /\ \A k \in Nat : W[k + 1] = 10 * W[k] + c[k + 1]
        /\ \A k \in Nat : k > l => c[k] = 0
  BY <1>1, WrittenGrows
<1>3. f = Dec!Padded(f, l)
  <2>1. f \in [1 .. l -> 0 .. 9]
    BY <1>1, LenProperties
  <2>2. f = [i \in 1 .. l |-> f[i]]
    BY <2>1
  <2>3. \A i \in 1 .. l : i <= Len(f)
    BY <1>1
  <2> QED BY <2>2, <2>3 DEF Dec!Padded
<1>4. W[l] = w * Ten(l) + Dec!Number(f)
  BY <1>1, <1>2, <1>3 DEF Written
<1>5. Ten(l) * w = w * Ten(l)
  BY TenIsPositive
<1>6. Dec!Magnitude(t, n) = IF n >= l THEN W[l] * Ten(n - l) ELSE W[l] \div Ten(l - n)
  BY <1>1, <1>4, <1>5 DEF Dec!Magnitude, Ten
<1>7. CASE n >= l
  <2>1. n - l \in Nat /\ l + (n - l) = n
    BY <1>7
  <2>2. W[l + (n - l)] = W[l] * Ten(n - l)
    BY <1>2, <2>1, CutAndGrown
  <2> QED BY <1>2, <1>6, <1>7, <2>1, <2>2
<1>8. CASE ~ n >= l
  <2>1. l - n \in Nat /\ n + (l - n) = l
    BY <1>8
  <2>2. W[n] = W[n + (l - n)] \div Ten(l - n)
    BY <1>2, <2>1, CutAndGrown
  <2> QED BY <1>2, <1>6, <1>8, <2>1, <2>2
<1> QED BY <1>7, <1>8

\* What the copies that cut and append make of the digits is what padding makes.
LEMMA CutAndPadded ==
  ASSUME NEW f \in Seq(0 .. 9), NEW n \in Nat, NEW m, m = Dec!Least(Len(f), n)
  PROVE  /\ SubSeq(f, 1, m) \o [i \in 1 .. n - m |-> 0] = Dec!Padded(f, n)
         /\ Len(SubSeq(f, 1, m)) = m
<1>1. PICK l \in Nat : l = Len(f) /\ \A i \in 1 .. l : f[i] \in 0 .. 9
  BY LenProperties, ElementOfSeq
<1>2. m \in Nat /\ m <= l /\ m <= n /\ (m = l \/ m = n)
  BY <1>1 DEF Dec!Least
<1>3. PICK kept : kept = SubSeq(f, 1, m)
  OBVIOUS
<1>4. PICK zeros : zeros = [i \in 1 .. n - m |-> 0]
  OBVIOUS
<1>5. /\ kept \in Seq(0 .. 9) /\ Len(kept) = m /\ \A i \in 1 .. m : kept[i] = f[i]
  <2>1. \A i \in 1 .. m : f[i] \in 0 .. 9
    BY <1>1, <1>2
  <2>2. /\ kept \in Seq(0 .. 9) /\ Len(kept) = IF 1 <= m THEN m - 1 + 1 ELSE 0
        /\ \A i \in 1 .. m - 1 + 1 : kept[i] = f[1 + i - 1]
    BY <1>2, <1>3, <2>1, SubSeqProperties
  <2> QED BY <1>2, <2>2
<1>6. zeros \in Seq(0 .. 9) /\ Len(zeros) = n - m /\ \A i \in 1 .. n - m : zeros[i] = 0
  <2>1. n - m \in Nat /\ zeros \in [1 .. n - m -> 0 .. 9]
    BY <1>2, <1>4
  <2> QED BY <1>4, <2>1, FunctionIsSeq
<1>7. /\ kept \o zeros \in Seq(0 .. 9) /\ Len(kept \o zeros) = m + (n - m)
      /\ \A i \in 1 .. m + (n - m) : (kept \o zeros)[i] = IF i <= m THEN kept[i] ELSE zeros[i - m]
  <2>1. /\ kept \o zeros \in Seq(0 .. 9) /\ Len(kept \o zeros) = Len(kept) + Len(zeros)
        /\ \A i \in 1 .. Len(kept) + Len(zeros) :
             (kept \o zeros)[i] = IF i <= Len(kept) THEN kept[i] ELSE zeros[i - Len(kept)]
    <3>1. kept \in Seq(0 .. 9) /\ zeros \in Seq(0 .. 9)
      BY <1>5, <1>6
    <3> QED BY <3>1, ConcatProperties
  <2> QED BY <1>5, <1>6, <2>1
<1>8. /\ Dec!Padded(f, n) \in Seq(0 .. 9) /\ Len(Dec!Padded(f, n)) = n
      /\ \A i \in 1 .. n : Dec!Padded(f, n)[i] = IF i <= l THEN f[i] ELSE 0
  <2>1. Dec!Padded(f, n) \in [1 .. n -> 0 .. 9]
    BY PaddedIs
  <2> QED BY <1>1, <2>1, FunctionIsSeq DEF Dec!Padded
<1>9. ASSUME NEW i \in 1 .. n PROVE (kept \o zeros)[i] = Dec!Padded(f, n)[i]
  <2>1. i \in 1 .. m + (n - m)
    BY <1>2
  <2>2. CASE i <= m
    BY <1>2, <1>5, <1>7, <1>8, <2>1, <2>2
  <2>3. CASE ~ i <= m
    <3>1. i - m \in 1 .. n - m /\ ~ i <= l
      BY <1>2, <2>3
    <3> QED BY <1>6, <1>7, <1>8, <2>1, <2>3, <3>1
  <2> QED BY <2>2, <2>3
<1>10. m + (n - m) = n
  BY <1>2
<1>11. kept \o zeros = Dec!Padded(f, n)
  BY <1>7, <1>8, <1>9, <1>10, SeqEqual
<1> QED BY <1>3, <1>4, <1>5, <1>11

\* Every copy gives the number at the scale, whatever the length of the fraction.
LEMMA CopiesAreExact ==
  ASSUME NEW t \in Decimal, ~t.negative, NEW n \in Nat
  PROVE  /\ Dec!ParseScaled(t, n) = Written(t)[n]
         /\ Dec!ParseRefdata(t, n) = Written(t)[n]
         /\ Dec!ParseGateway(t, n) = Written(t)[n]
<1>1. PICK f \in Seq(0 .. 9), w \in Nat : f = t.frac /\ w = t.whole
  BY DEF Decimal
<1>2. PICK m : m = Dec!Least(Len(f), n)
  OBVIOUS
<1>3. /\ SubSeq(f, 1, m) \o [i \in 1 .. n - m |-> 0] = Dec!Padded(f, n)
      /\ Len(SubSeq(f, 1, m)) = m
  BY <1>2, CutAndPadded
<1>4. PICK N : N = Dec!Number(Dec!Padded(f, n))
  OBVIOUS
<1>5. Dec!Whole(t) = w
  BY <1>1 DEF Dec!Whole
<1>6. Written(t)[n] = w * Ten(n) + N
  BY <1>1, <1>4 DEF Written
<1>7. Dec!ParseScaled(t, n) = w * Ten(n) + N
  BY <1>1, <1>4, <1>5 DEF Dec!ParseScaled, Ten
<1>8. Dec!ParseRefdata(t, n) = w * Ten(n) + N
  BY <1>1, <1>2, <1>3, <1>4, <1>5 DEF Dec!ParseRefdata, Ten
<1>9. Dec!ParseGateway(t, n) = w * Ten(n) + N
  <2>1. CASE f # <<>>
    BY <1>1, <1>2, <1>3, <1>4, <1>5, <2>1 DEF Dec!ParseGateway, Ten
  <2>2. CASE f = <<>>
    <3>1. \A k \in Nat : DigitsOf(f)[k] = 0
      <4>1. Len(f) = 0
        BY <2>2, EmptySeq
      <4> QED BY <4>1 DEF DigitsOf
    <3> DEFINE T == {k \in Nat : Dec!Number(Dec!Padded(f, k)) = 0}
    <3>2. 0 \in T
      BY PaddedGrows
    <3>3. ASSUME NEW k \in Nat, k \in T PROVE k + 1 \in T
      <4>1. /\ Dec!Number(Dec!Padded(f, k + 1))
                 = 10 * Dec!Number(Dec!Padded(f, k)) + DigitsOf(f)[k + 1]
            /\ Dec!Number(Dec!Padded(f, k)) = 0 /\ DigitsOf(f)[k + 1] = 0
        <5>1. Dec!Number(Dec!Padded(f, k + 1))
                = 10 * Dec!Number(Dec!Padded(f, k)) + DigitsOf(f)[k + 1]
          BY PaddedGrows
        <5>2. k + 1 \in Nat
          OBVIOUS
        <5> QED BY <3>1, <3>3, <5>1, <5>2
      <4> QED BY <4>1
    <3> HIDE DEF T
    <3>4. n \in T
      BY <3>2, <3>3, NatSetInduction
    <3>5. N = 0
      BY <1>4, <3>4 DEF T
    <3> QED BY <1>1, <1>5, <2>2, <3>5 DEF Dec!ParseGateway, Ten
  <2> QED BY <2>1, <2>2
<1> QED BY <1>6, <1>7, <1>8, <1>9

\* The column holds the number at the coarser scale, with zeros behind it.
LEMMA ColumnIsExact ==
  ASSUME NEW t \in Decimal, NEW n \in Nat
  PROVE  LET k == Dec!Least(n, RowScale)
         IN  Dec!ToRow(Written(t)[n], n) = Dec!Magnitude(t, k) * Dec!TenTo[RowScale - k]
<1>1. PICK W \in [Nat -> Nat], c \in [Nat -> 0 .. 9] :
        W = Written(t) /\ \A k \in Nat : W[k + 1] = 10 * W[k] + c[k + 1]
  BY WrittenGrows
<1>2. RowScale \in Nat
  BY PartsAssumption
<1>3. CASE n <= RowScale
  <2>1. Dec!ToRow(W[n], n) = W[n] * Dec!TenTo[RowScale - n]
    BY <1>3 DEF Dec!ToRow
  <2>2. CASE n = RowScale
    BY <1>1, <2>1, <2>2, MagnitudeIs DEF Dec!Least
  <2>3. CASE n # RowScale
    <3>1. Dec!Least(n, RowScale) = n
      BY <1>2, <1>3, <2>3 DEF Dec!Least
    <3> QED BY <1>1, <2>1, <3>1, MagnitudeIs
  <2> QED BY <2>2, <2>3
<1>4. CASE ~ n <= RowScale
  <2>1. n - RowScale \in Nat /\ RowScale + (n - RowScale) = n
    BY <1>2, <1>4
  <2>2. W[RowScale] = W[RowScale + (n - RowScale)] \div Ten(n - RowScale)
    BY <1>1, <1>2, <2>1, CutAndGrown
  <2>3. W[RowScale] = W[n] \div Ten(n - RowScale)
    BY <2>1, <2>2
  <2>4. W[n] \in Nat /\ W[RowScale] \in Nat
    BY <1>2
  <2>5. Dec!ToRow(W[n], n) = W[RowScale]
    BY <1>4, <2>3, <2>4 DEF Dec!ToRow, Dec!Quotient, Ten
  <2>6. Dec!Least(n, RowScale) = RowScale
    BY <1>2, <1>4 DEF Dec!Least
  <2>7. Dec!Magnitude(t, RowScale) = W[RowScale]
    BY <1>1, <1>2, MagnitudeIs
  <2>8. Dec!TenTo[RowScale - RowScale] = 1
    <3>1. RowScale - RowScale = 0
      BY <1>2
    <3> QED BY <3>1, TenIs DEF Ten
  <2>9. W[RowScale] * 1 = W[RowScale]
    BY <2>4
  <2> QED BY <1>1, <2>5, <2>6, <2>7, <2>8, <2>9
<1> QED BY <1>3, <1>4

\* The message holds the number, and the column what to_d8 makes of it.
DecimalInv ==
  /\ text \in Decimal /\ scale \in Nat
  /\ stage \in {"normalised", "stored"} /\ ~text.negative => mantissa = Written(text)[scale]
  /\ stage = "stored" => row = Dec!ToRow(mantissa, scale)

\* The column holds the venue's number, cut at the coarser of its scale and the
\* message's, whichever of the four copies of parse_scaled read it (to_d8).
THEOREM RowsAreExact == Dec!Spec => []RowIsText
<1>1. Dec!Init => DecimalInv
  BY EmptySeq DEF Dec!Init, Dec!Nought, DecimalInv, Decimal
<1>2. DecimalInv /\ [Dec!Next]_(Dec!vars) => DecimalInv'
  <2> SUFFICES ASSUME DecimalInv, [Dec!Next]_(Dec!vars) PROVE DecimalInv'
    OBVIOUS
  <2>1. CASE UNCHANGED Dec!vars
    BY <2>1 DEF Dec!vars, DecimalInv
  <2>2. CASE Dec!Reads
    <3>1. scale' \in Nat /\ stage' = "read" /\ text' \in Dec!Text
      BY <2>2, PartsAssumption DEF Dec!Reads
    <3>2. text'.frac \in Seq(0 .. 9)
      <4>1. PICK m \in 0 .. MaxDigits : text'.frac \in [1 .. m -> Digit]
        BY <3>1 DEF Dec!Text, Dec!SeqOf
      <4>2. m \in Nat /\ text'.frac \in [1 .. m -> 0 .. 9]
        <5>1. m \in Nat /\ Digit \subseteq 0 .. 9
          BY PartsAssumption
        <5> QED BY <4>1, <5>1
      <4> QED BY <4>2, FunctionIsSeq
    <3>3. text' \in Decimal
      BY <3>1, <3>2, PartsAssumption DEF Dec!Text, Decimal
    <3> QED BY <3>1, <3>3 DEF DecimalInv
  <2>3. CASE Dec!Normalises
    <3>1. /\ stage' = "normalised" /\ text' = text /\ scale' = scale
          /\ mantissa' \in {Dec!ParseScaled(text, scale), Dec!ParseRefdata(text, scale),
                            Dec!ParseGateway(text, scale)}
      BY <2>3 DEF Dec!Normalises
    <3>2. PICK t \in Decimal, n \in Nat : t = text /\ n = scale
      BY DEF DecimalInv
    <3>3. ~t.negative => mantissa' = Written(t)[n]
      BY <3>1, <3>2, CopiesAreExact
    <3> QED BY <3>1, <3>2, <3>3 DEF DecimalInv
  <2>4. CASE Dec!Stores
    BY <2>4 DEF Dec!Stores, DecimalInv
  <2> QED BY <2>1, <2>2, <2>3, <2>4 DEF Dec!Next
<1>3. DecimalInv => RowIsText
  <2> SUFFICES ASSUME DecimalInv, stage = "stored", ~text.negative
               PROVE  LET n == Dec!Least(scale, RowScale)
                      IN  row = Dec!Magnitude(text, n) * Dec!TenTo[RowScale - n]
    BY DEF RowIsText, Dec!RowIsText
  <2>1. row = Dec!ToRow(Written(text)[scale], scale)
    BY DEF DecimalInv
  <2> QED BY <2>1, ColumnIsExact DEF DecimalInv
<1> QED BY <1>1, <1>2, <1>3, PTL DEF Dec!Spec

------------------------------------------------------------------------------
(***************************************************************************)
(* The wire.                                                               *)
(***************************************************************************)

\* The sequences of q joined one after the other, up to the n-th.
Joined(q, n, g) == g = [i \in 1 .. n |-> IF i = 1 THEN q[i] ELSE g[i - 1] \o q[i]]

\* There are the sequences joined up to each.
LEMMA JoinedExist == ASSUME NEW q PROVE \A n \in Nat : \E g : Joined(q, n, g)
<1> DEFINE T == {n \in Nat : \E g : Joined(q, n, g)}
<1>1. 0 \in T
  <2> DEFINE g == [i \in 1 .. 0 |-> q[i]]
  <2>1. Joined(q, 0, g)
    BY DEF Joined
  <2> QED BY <2>1
<1>2. ASSUME NEW n \in Nat, n \in T PROVE n + 1 \in T
  <2>1. PICK g : Joined(q, n, g)
    BY <1>2
  <2> DEFINE h == [i \in 1 .. n + 1 |->
                     IF i = n + 1 THEN IF n = 0 THEN q[1] ELSE g[n] \o q[n + 1] ELSE g[i]]
             body == [i \in 1 .. n + 1 |-> IF i = 1 THEN q[i] ELSE h[i - 1] \o q[i]]
  <2>2. ASSUME NEW i \in 1 .. n + 1 PROVE h[i] = body[i]
    <3>1. CASE i = n + 1 /\ n = 0
      BY <3>1
    <3>2. CASE i = n + 1 /\ n # 0
      <4>1. i - 1 = n /\ n \in 1 .. n + 1 /\ n # n + 1 /\ i # 1
        BY <3>2
      <4> QED BY <3>2, <4>1
    <3>3. CASE i # n + 1
      <4>1. i \in 1 .. n /\ (i # 1 => i - 1 \in 1 .. n + 1 /\ i - 1 # n + 1)
        BY <3>3
      <4>2. g[i] = IF i = 1 THEN q[i] ELSE g[i - 1] \o q[i]
        BY <2>1, <4>1 DEF Joined
      <4> QED BY <3>3, <4>1, <4>2
    <3> QED BY <3>1, <3>2, <3>3
  <2>3. h = body
    BY <2>2
  <2>4. Joined(q, n + 1, h)
    BY <2>3 DEF Joined
  <2> HIDE DEF h
  <2> QED BY <2>4
<1> HIDE DEF T
<1>3. \A n \in Nat : n \in T
  BY <1>1, <1>2, NatSetInduction
<1> QED BY <1>3 DEF T

\* e has what is joined of the first n sequences of q.
Joins(e, n, q) == e[0] = <<>> /\ \A k \in 0 .. n - 1 : e[k + 1] = e[k] \o q[k + 1]

\* What FlattenSeq does: e has what is joined so far.
LEMMA FlattenIsSteps ==
  ASSUME NEW S, NEW n \in Nat, NEW q \in [1 .. n -> Seq(S)]
  PROVE  \E e : Joins(e, n, q) /\ e[n] = Wir!FlattenSeq(q)
<1>1. Len(q) = n /\ q \in Seq(Seq(S))
  BY FunctionIsSeq
<1>2. CASE n = 0
  <2>1. q = <<>>
    BY <1>2
  <2>2. Wir!FlattenSeq(q) = <<>>
    BY <1>1, <1>2, <2>1 DEF Wir!FlattenSeq
  <2> DEFINE e == [k \in 0 .. 0 |-> <<>>]
  <2>3. /\ e[0] = <<>> /\ e[n] = Wir!FlattenSeq(q)
        /\ \A k \in 0 .. n - 1 : e[k + 1] = e[k] \o q[k + 1]
    BY <1>2, <2>2
  <2> HIDE DEF e
  <2> QED BY <2>3 DEF Joins
<1>3. CASE n # 0
  <2> DEFINE body(g) == [i \in 1 .. Len(q) |-> IF i = 1 THEN q[i] ELSE g[i - 1] \o q[i]]
             flat == CHOOSE g : g = body(g)
             e == [k \in 0 .. n |-> IF k = 0 THEN <<>> ELSE flat[k]]
  <2>1. Wir!FlattenSeq(q) = flat[n]
    BY <1>1, <1>3 DEF Wir!FlattenSeq
  <2>2. flat = body(flat)
    <3>1. PICK g : Joined(q, n, g)
      BY JoinedExist
    <3>2. g = body(g)
      BY <1>1, <3>1 DEF Joined
    <3> HIDE DEF body
    <3> QED BY <3>2
  <2> HIDE DEF flat
  <2>3. \A i \in 1 .. n : flat[i] = IF i = 1 THEN q[i] ELSE flat[i - 1] \o q[i]
    BY <1>1, <2>2
  <2>4. e[0] = <<>> /\ e[n] = Wir!FlattenSeq(q)
    BY <1>3, <2>1
  <2>5. ASSUME NEW k \in 0 .. n - 1 PROVE e[k + 1] = e[k] \o q[k + 1]
    <3>1. k + 1 \in 1 .. n /\ k + 1 \in 0 .. n /\ k \in 0 .. n /\ k + 1 # 0 /\ (k + 1) - 1 = k
      OBVIOUS
    <3>2. CASE k = 0
      <4>1. q[1] \in Seq(S)
        BY <3>1, <3>2
      <4>2. <<>> \o q[1] = q[1]
        BY <4>1, ConcatEmptySeq
      <4> QED BY <2>3, <3>1, <3>2, <4>2
    <3>3. CASE k # 0
      <4>1. k + 1 # 1
        BY <3>3
      <4> QED BY <2>3, <3>1, <3>3, <4>1
    <3> QED BY <3>2, <3>3
  <2> HIDE DEF e
  <2> QED BY <2>4, <2>5 DEF Joins
<1> QED BY <1>2, <1>3

\* e[k] has the sequences of q before the k-th in their places.
InPlace(S, e, n, q, k) ==
  /\ e[k] \in Seq(S)
  /\ \A i \in 0 .. n - 1 : i < k =>
       /\ Len(e[i]) + Len(q[i + 1]) <= Len(e[k])
       /\ \A j \in 1 .. Len(q[i + 1]) : e[k][Len(e[i]) + j] = q[i + 1][j]

\* Joined one after the other, the sequences keep their places.
LEMMA JoinKeepsPlaces ==
  ASSUME NEW S, NEW n \in Nat, NEW q \in [1 .. n -> Seq(S)], NEW e, Joins(e, n, q),
         NEW k \in 0 .. n
  PROVE  InPlace(S, e, n, q, k)
<1>1. e[0] = <<>> /\ \A m \in 0 .. n - 1 : e[m + 1] = e[m] \o q[m + 1]
  BY DEF Joins
<1> DEFINE Placed(m) == \A i \in 0 .. n - 1 : i < m =>
                          /\ Len(e[i]) + Len(q[i + 1]) <= Len(e[m])
                          /\ \A j \in 1 .. Len(q[i + 1]) : e[m][Len(e[i]) + j] = q[i + 1][j]
           T == {m \in Nat : m <= n => Placed(m) /\ \A i \in 0 .. n : i <= m => e[i] \in Seq(S)}
<1>2. 0 \in T
  <2>1. e[0] \in Seq(S)
    BY <1>1, EmptySeq
  <2>2. \A i \in 0 .. n - 1 : ~ i < 0
    OBVIOUS
  <2>3. Placed(0)
    BY <2>2
  <2>4. \A i \in 0 .. n : i <= 0 => i = 0
    OBVIOUS
  <2> HIDE DEF Placed
  <2> QED BY <2>1, <2>3, <2>4
<1>3. ASSUME NEW m \in Nat, m \in T, m + 1 <= n
      PROVE  Placed(m + 1) /\ \A i \in 0 .. n : i <= m + 1 => e[i] \in Seq(S)
  <2>1. m \in 0 .. n - 1 /\ m <= n /\ m + 1 \in 1 .. n /\ m \in 0 .. n
    BY <1>3
  <2>2. Placed(m) /\ \A i \in 0 .. n : i <= m => e[i] \in Seq(S)
    <3> HIDE DEF Placed
    <3> QED BY <1>3, <2>1
  <2> HIDE DEF T
  <2>3. e[m] \in Seq(S) /\ q[m + 1] \in Seq(S) /\ e[m + 1] = e[m] \o q[m + 1]
    <3> HIDE DEF Placed
    <3>1. q[m + 1] \in Seq(S)
      BY <2>1
    <3>2. e[m] \in Seq(S)
      BY <2>1, <2>2
    <3>3. e[m + 1] = e[m] \o q[m + 1]
      BY <1>1, <2>1
    <3> QED BY <3>1, <3>2, <3>3
  <2>4. PICK a \in Seq(S) : a = e[m]
    BY <2>3
  <2>5. PICK b \in Seq(S) : b = q[m + 1]
    BY <2>3
  <2>6. PICK c : c = e[m + 1]
    OBVIOUS
  <2>7. c = a \o b
    BY <2>3, <2>4, <2>5, <2>6
  <2>8. /\ a \o b \in Seq(S) /\ Len(a \o b) = Len(a) + Len(b)
        /\ \A i \in 1 .. Len(a) + Len(b) : (a \o b)[i] = IF i <= Len(a) THEN a[i] ELSE b[i - Len(a)]
    BY ConcatProperties
  <2>9. PICK la \in Nat : la = Len(a)
    BY LenProperties
  <2>10. PICK lb \in Nat : lb = Len(b)
    BY LenProperties
  <2>11. /\ c \in Seq(S) /\ Len(c) = la + lb
        /\ \A i \in 1 .. la + lb : c[i] = IF i <= la THEN a[i] ELSE b[i - la]
    BY <2>7, <2>8, <2>9, <2>10
  <2>12. ASSUME NEW i \in 0 .. n - 1, i < m + 1
        PROVE  /\ Len(e[i]) + Len(q[i + 1]) <= Len(c)
               /\ \A j \in 1 .. Len(q[i + 1]) : c[Len(e[i]) + j] = q[i + 1][j]
    <3>1. e[i] \in Seq(S) /\ q[i + 1] \in Seq(S)
      <4>1. i \in 0 .. n /\ i <= m /\ i + 1 \in 1 .. n
        BY <2>12
      <4> QED BY <2>2, <4>1
    <3>2. Len(e[i]) \in Nat /\ Len(q[i + 1]) \in Nat
      BY <3>1, LenProperties
    <3>3. CASE i = m
      <4>1. Len(e[i]) = la /\ q[i + 1] = b /\ Len(b) = lb
        BY <2>4, <2>5, <2>9, <2>10, <3>3
      <4>2. ASSUME NEW j \in 1 .. lb PROVE c[la + j] = b[j]
        <5>1. la + j \in 1 .. la + lb /\ ~ la + j <= la /\ (la + j) - la = j
          OBVIOUS
        <5> QED BY <2>11, <5>1
      <4> QED BY <2>11, <4>1, <4>2
    <3>4. CASE i # m
      <4>1. i < m
        BY <2>12, <3>4
      <4>2. PICK p \in Nat : p = Len(e[i])
        BY <3>2
      <4>3. PICK w \in Nat : w = Len(q[i + 1])
        BY <3>2
      <4>4. p + w <= la /\ \A j \in 1 .. w : a[p + j] = q[i + 1][j]
        BY <2>2, <2>4, <2>9, <4>2, <4>3, <4>1
      <4>5. ASSUME NEW j \in 1 .. w PROVE c[p + j] = q[i + 1][j]
        <5>1. p + j \in 1 .. la + lb /\ p + j <= la
          BY <4>4
        <5> QED BY <2>11, <4>4, <5>1
      <4>6. p + w <= la + lb
        BY <4>4
      <4> QED BY <2>11, <4>2, <4>3, <4>5, <4>6
    <3> QED BY <3>3, <3>4
  <2>13. Placed(m + 1)
    BY <2>6, <2>12
  <2>14. \A i \in 0 .. n : i <= m + 1 => i <= m \/ i = m + 1
    OBVIOUS
  <2> HIDE DEF Placed
  <2> QED BY <2>2, <2>6, <2>11, <2>13, <2>14
<1>4. ASSUME NEW m \in Nat, m \in T PROVE m + 1 \in T
  <2>1. CASE m + 1 <= n
    <3>1. Placed(m + 1) /\ \A i \in 0 .. n : i <= m + 1 => e[i] \in Seq(S)
      <4> HIDE DEF Placed, T
      <4> QED BY <1>3, <1>4, <2>1
    <3> HIDE DEF Placed
    <3> QED BY <3>1
  <2>2. CASE ~ m + 1 <= n
    <3> HIDE DEF Placed
    <3> QED BY <2>2
  <2> QED BY <2>1, <2>2
<1> HIDE DEF T
<1>5. k \in T
  <2>1. \A m \in Nat : m \in T
    BY <1>2, <1>4, NatSetInduction
  <2> QED BY <2>1
<1> HIDE DEF Placed
<1>6. Placed(k) /\ e[k] \in Seq(S)
  BY <1>5 DEF T
<1> QED BY <1>6 DEF Placed, InPlace

\* The k-th of the n sequences of q lies in f behind at[k - 1].
Laid(f, at, n, q) ==
  /\ at[0] = 0 /\ Len(f) = at[n]
  /\ \A k \in 0 .. n - 1 :
       /\ at[k + 1] = at[k] + Len(q[k + 1]) /\ at[k + 1] <= at[n]
       /\ \A j \in 1 .. Len(q[k + 1]) : f[at[k] + j] = q[k + 1][j]

\* What FlattenSeq gives has every sequence in its place.
LEMMA FlattenIs ==
  ASSUME NEW S, NEW n \in Nat, NEW q \in [1 .. n -> Seq(S)], NEW f, f = Wir!FlattenSeq(q)
  PROVE  f \in Seq(S) /\ \E at \in [0 .. n -> Nat] : Laid(f, at, n, q)
<1>1. PICK e : Joins(e, n, q) /\ e[n] = Wir!FlattenSeq(q)
  BY FlattenIsSteps
<1>2. e[n] = f
  BY <1>1
<1> DEFINE at == [k \in 0 .. n |-> Len(e[k])]
<1>3. ASSUME NEW k \in 0 .. n
      PROVE  /\ e[k] \in Seq(S)
             /\ \A i \in 0 .. n - 1 : i < k =>
                  /\ Len(e[i]) + Len(q[i + 1]) <= Len(e[k])
                  /\ \A j \in 1 .. Len(q[i + 1]) : e[k][Len(e[i]) + j] = q[i + 1][j]
  <2> HIDE DEF at
  <2>1. InPlace(S, e, n, q, k)
    BY <1>1, JoinKeepsPlaces
  <2> QED BY <2>1 DEF InPlace
<1>4. \A k \in 0 .. n : Len(e[k]) \in Nat
  BY <1>3, LenProperties
<1>5. at \in [0 .. n -> Nat] /\ at[0] = 0 /\ f \in Seq(S) /\ Len(f) = at[n]
  <2>1. Len(<<>>) = 0 /\ 0 \in 0 .. n /\ n \in 0 .. n
    OBVIOUS
  <2>2. e[n] \in Seq(S)
    BY <1>3, <2>1
  <2> QED BY <1>1, <1>2, <1>4, <2>1, <2>2 DEF Joins
<1>6. ASSUME NEW k \in 0 .. n - 1
      PROVE  /\ at[k + 1] = at[k] + Len(q[k + 1]) /\ at[k + 1] <= at[n]
             /\ \A j \in 1 .. Len(q[k + 1]) : f[at[k] + j] = q[k + 1][j]
  <2>1. k \in 0 .. n /\ k + 1 \in 0 .. n /\ k + 1 \in 1 .. n /\ k < n /\ n \in 0 .. n
    OBVIOUS
  <2>2. at[k] = Len(e[k]) /\ at[k + 1] = Len(e[k + 1]) /\ at[n] = Len(f)
    BY <1>2, <2>1
  <2> HIDE DEF at
  <2>3. e[k] \in Seq(S) /\ q[k + 1] \in Seq(S) /\ e[k + 1] = e[k] \o q[k + 1]
    BY <1>1, <1>3, <2>1 DEF Joins
  <2>4. Len(e[k] \o q[k + 1]) = Len(e[k]) + Len(q[k + 1])
    BY <2>3, ConcatProperties
  <2>5. /\ Len(e[k]) + Len(q[k + 1]) <= Len(f)
        /\ \A j \in 1 .. Len(q[k + 1]) : f[Len(e[k]) + j] = q[k + 1][j]
    BY <1>2, <1>3, <2>1
  <2> QED BY <2>2, <2>3, <2>4, <2>5
<1> HIDE DEF at
<1>7. Laid(f, at, n, q)
  BY <1>5, <1>6 DEF Laid
<1> QED BY <1>5, <1>7

\* One field of a message: what the decoder has after it, from what it had.
Undecoded(cells) == [ok |-> TRUE, body |-> <<>>, left |-> cells]

FieldRead(d, field) ==
  IF d.ok /\ Wir!Readable(field, d.left)
  THEN [ok   |-> TRUE,
        body |-> Append(d.body, Wir!Get(field, d.left)),
        left |-> SubSeq(d.left, Wir!Width(field, d.left) + 1, Len(d.left))]
  ELSE [d EXCEPT !.ok = FALSE]

\* g reads the fields of every set of the first n positions.
DecodedBody(fields, cells, n, g) ==
  [D \in SUBSET (1 .. n) |->
     IF D = {} THEN Undecoded(cells)
     ELSE FieldRead(g[D \ {Wir!Max(D)}], fields[Wir!Max(D)])]

\* Again the greatest element is the same.
LEMMA SameLast == \A D : Wir!Max(D) = Ref!Max(D)
BY DEF Wir!Max, Ref!Max

\* There is a function that reads the fields of every set of positions.
LEMMA DecodedExists ==
  ASSUME NEW fields, NEW cells
  PROVE  \A n \in Nat : \E g : g = DecodedBody(fields, cells, n, g)
<1> DEFINE T == {n \in Nat : \E g : g = DecodedBody(fields, cells, n, g)}
<1>1. 0 \in T
  <2> DEFINE g == [D \in SUBSET (1 .. 0) |-> Undecoded(cells)]
  <2>1. \A D \in SUBSET (1 .. 0) : D = {}
    OBVIOUS
  <2>2. g = DecodedBody(fields, cells, 0, g)
    BY <2>1 DEF DecodedBody
  <2> HIDE DEF g
  <2> QED BY <2>2
<1>2. ASSUME NEW n \in Nat, n \in T PROVE n + 1 \in T
  <2>1. PICK g : g = DecodedBody(fields, cells, n, g)
    BY <1>2
  <2> DEFINE h == [D \in SUBSET (1 .. n + 1) |->
                     IF n + 1 \in D THEN FieldRead(g[D \ {n + 1}], fields[n + 1]) ELSE g[D]]
  <2>2. ASSUME NEW D \in SUBSET (1 .. n + 1)
        PROVE  h[D] = DecodedBody(fields, cells, n + 1, h)[D]
    <3>1. CASE n + 1 \in D
      <4>1. Wir!Max(D) = n + 1 /\ D \ {n + 1} \in SUBSET (1 .. n) /\ D # {}
            /\ n + 1 \notin D \ {n + 1} /\ D \ {n + 1} \in SUBSET (1 .. n + 1)
        BY <3>1, LastPosition, SameLast
      <4>2. h[D] = FieldRead(h[D \ {n + 1}], fields[n + 1])
        BY <3>1, <4>1
      <4> HIDE DEF h
      <4> QED BY <4>1, <4>2 DEF DecodedBody
    <3>2. CASE n + 1 \notin D
      <4>1. D \in SUBSET (1 .. n)
        BY <3>2, LastPosition
      <4>2. g[D] = IF D = {} THEN Undecoded(cells)
                   ELSE FieldRead(g[D \ {Wir!Max(D)}], fields[Wir!Max(D)])
        BY <2>1, <4>1 DEF DecodedBody
      <4>3. h[D] = g[D] /\ h[D \ {Wir!Max(D)}] = g[D \ {Wir!Max(D)}]
        BY <3>2
      <4> HIDE DEF h
      <4> QED BY <4>2, <4>3 DEF DecodedBody
    <3> QED BY <3>1, <3>2
  <2>3. h = [D \in SUBSET (1 .. n + 1) |-> h[D]]
    OBVIOUS
  <2> HIDE DEF h
  <2>4. h = DecodedBody(fields, cells, n + 1, h)
    BY <2>2, <2>3 DEF DecodedBody
  <2> QED BY <2>4
<1> HIDE DEF T
<1>3. \A n \in Nat : n \in T
  BY <1>1, <1>2, NatSetInduction
<1> QED BY <1>3 DEF T

\* What Decoded does: a field after the other.
Reads(R, n, fields, cells) ==
  R[0] = Undecoded(cells) /\ \A k \in 0 .. n - 1 : R[k + 1] = FieldRead(R[k], fields[k + 1])

\* Decoded is the last of such steps.
LEMMA DecodedIsSteps ==
  ASSUME NEW n \in Nat, NEW fields, DOMAIN fields = 1 .. n, NEW cells
  PROVE  \E R : Reads(R, n, fields, cells) /\ R[n] = Wir!Decoded(fields, cells)
<1> DEFINE S == DOMAIN fields
           body(h) == [D \in SUBSET S |->
                         IF D = {} THEN [ok |-> TRUE, body |-> <<>>, left |-> cells]
                         ELSE LET x == Wir!Max(D)
                              IN  FieldRead(h[D \ {x}], fields[x])]
           iter == CHOOSE h : h = body(h)
           R == [k \in 0 .. n |-> iter[1 .. k]]
<1>1. Wir!Decoded(fields, cells) = iter[S]
  BY Zenon DEF Wir!Decoded, Wir!FoldLeft, Wir!MapThenFoldSet, FieldRead
<1>2. \A h : body(h) = DecodedBody(fields, cells, n, h)
  BY DEF DecodedBody, Undecoded
<1>3. iter = body(iter)
  <2> HIDE DEF body
  <2>1. PICK g : g = DecodedBody(fields, cells, n, g)
    BY DecodedExists
  <2>2. \E h : h = body(h)
    BY <1>2, <2>1
  <2> QED BY <2>2
<1> HIDE DEF body, iter
<1>4. iter = DecodedBody(fields, cells, n, iter)
  BY <1>2, <1>3
<1>5. R[0] = Undecoded(cells)
  <2>1. iter[{}] = Undecoded(cells)
    BY <1>4 DEF DecodedBody
  <2>2. 1 .. 0 = {} /\ 0 \in 0 .. n
    OBVIOUS
  <2> QED BY <2>1, <2>2
<1>6. R[n] = Wir!Decoded(fields, cells)
  BY <1>1
<1>7. ASSUME NEW k \in 0 .. n - 1
      PROVE  R[k + 1] = FieldRead(R[k], fields[k + 1])
  <2> DEFINE D == 1 .. k + 1
  <2>1. k \in Nat /\ k + 1 \in 1 .. k + 1 /\ k + 1 <= n
    OBVIOUS
  <2>2. k \in Nat /\ k + 1 \in D /\ D # {} /\ D \in SUBSET (1 .. k + 1) /\ D \in SUBSET (1 .. n)
    <3>1. \A i \in 1 .. k + 1 : i \in 1 .. n
      BY <2>1
    <3> QED BY <2>1, <3>1
  <2>3. D \ {k + 1} = 1 .. k
    BY <2>1
  <2>4. R[k + 1] = iter[D] /\ R[k] = iter[1 .. k]
    BY <2>1
  <2> HIDE DEF D, R
  <2>5. Wir!Max(D) = k + 1
    BY <2>2, LastPosition, SameLast
  <2>6. iter[D] = FieldRead(iter[D \ {Wir!Max(D)}], fields[Wir!Max(D)])
    BY <1>4, <2>2 DEF DecodedBody
  <2> QED BY <2>3, <2>4, <2>5, <2>6
<1> HIDE DEF R
<1> QED BY <1>5, <1>6, <1>7 DEF Reads

\* The kinds of a message's fields, and the values a field of each kind has.
Kind == {"any", "bool", "levels", "side", "state", "reason"}
Level == Int \X Int
Fits(field, v) == /\ field = "levels" => v \in Seq(Level)
                  /\ field = "bool" => v \in BOOLEAN
                  /\ field = "side" => v \in 0 .. 2
                  /\ field = "state" => v \in 1 .. 7
                  /\ field = "reason" => v \in 1 .. 8
                  /\ field = "any" => v \in Int

\* c begins as p does, as far as it goes.
Begins(c, p) == /\ c \in Seq(Int)
                /\ \A j \in 1 .. Len(c) : j <= Len(p) => c[j] = p[j]

\* A level is its price and its quantity.
LEMMA LevelIsPair == \A x \in Level : x = <<x[1], x[2]>>
<1> SUFFICES ASSUME NEW x \in Level PROVE x = <<x[1], x[2]>>
  OBVIOUS
<1>1. PICK a \in Int, b \in Int : x = <<a, b>>
  BY DEF Level
<1> QED BY <1>1

\* Where the cells of a side lie: p is the number of levels, then every level.
SideCells(v, n, p) == /\ p \in Seq(Int) /\ Len(p) = 1 + 2 * n /\ p[1] = n
                      /\ \A i \in 1 .. n : p[2 * i] = v[i][1] /\ p[2 * i + 1] = v[i][2]

\* put_levels writes a side like that.
LEMMA LevelsAre ==
  ASSUME NEW v \in Seq(Level), NEW n \in Nat, n = Len(v), NEW p, p = Wir!Put("levels", v)
  PROVE  SideCells(v, n, p)
<1>1. v \in [1 .. n -> Level]
  BY LenProperties
<1>2. v \in [1 .. n -> Seq(Int)]
  <2>1. ASSUME NEW i \in 1 .. n PROVE v[i] \in Seq(Int)
    <3>1. v[i] \in Level
      BY <1>1
    <3>2. PICK a \in Int, b \in Int : v[i] = <<a, b>>
      BY <3>1 DEF Level
    <3> QED BY <3>2
  <2>2. v = [i \in 1 .. n |-> v[i]]
    BY <1>1
  <2> QED BY <2>1, <2>2
<1>3. PICK f : f = Wir!FlattenSeq(v)
  OBVIOUS
<1>4. f \in Seq(Int) /\ \E at \in [0 .. n -> Nat] : Laid(f, at, n, v)
  BY <1>2, <1>3, FlattenIs
<1>5. PICK at \in [0 .. n -> Nat] : Laid(f, at, n, v)
  BY <1>4
<1>6. \A i \in 1 .. n : Len(v[i]) = 2
  <2>1. ASSUME NEW i \in 1 .. n PROVE Len(v[i]) = 2
    <3>1. v[i] \in Level
      BY <1>1
    <3>2. PICK a \in Int, b \in Int : v[i] = <<a, b>>
      BY <3>1 DEF Level
    <3> QED BY <3>2
  <2> QED BY <2>1
<1>7. \A k \in 0 .. n : at[k] = 2 * k
  <2> DEFINE T == {k \in Nat : k <= n => at[k] = 2 * k}
  <2>1. 0 \in T
    BY <1>5 DEF Laid
  <2>2. ASSUME NEW k \in Nat, k \in T PROVE k + 1 \in T
    <3> SUFFICES ASSUME k + 1 <= n PROVE at[k + 1] = 2 * (k + 1)
      OBVIOUS
    <3>1. k \in 0 .. n - 1 /\ k + 1 \in 1 .. n
      OBVIOUS
    <3>2. at[k + 1] = at[k] + Len(v[k + 1])
      BY <1>5, <3>1 DEF Laid
    <3>3. at[k] = 2 * k
      BY <2>2
    <3>4. Len(v[k + 1]) = 2
      BY <1>6, <3>1
    <3> QED BY <3>2, <3>3, <3>4
  <2> HIDE DEF T
  <2>3. \A k \in Nat : k \in T
    BY <2>1, <2>2, NatSetInduction
  <2> QED BY <2>3 DEF T
<1>8. Len(f) = 2 * n
  BY <1>5, <1>7 DEF Laid
<1>9. ASSUME NEW i \in 1 .. n PROVE f[2 * i - 1] = v[i][1] /\ f[2 * i] = v[i][2]
  <2>1. PICK k \in 0 .. n - 1 : i = k + 1
    <3>1. i - 1 \in 0 .. n - 1 /\ i = (i - 1) + 1
      OBVIOUS
    <3> QED BY <3>1
  <2>2. \A j \in 1 .. Len(v[k + 1]) : f[at[k] + j] = v[k + 1][j]
    BY <1>5 DEF Laid
  <2>3. k \in 0 .. n
    OBVIOUS
  <2>4. at[k] = 2 * k /\ Len(v[k + 1]) = 2
    BY <1>6, <1>7, <2>1, <2>3
  <2>5. f[2 * k + 1] = v[i][1] /\ f[2 * k + 2] = v[i][2]
    BY <2>1, <2>2, <2>4
  <2>6. 2 * i - 1 = 2 * k + 1 /\ 2 * i = 2 * k + 2
    BY <2>1
  <2> QED BY <2>5, <2>6
<1>10. p = <<n>> \o f
  BY <1>3 DEF Wir!Put
<1>11. <<n>> \in Seq(Int) /\ Len(<<n>>) = 1 /\ <<n>>[1] = n
  OBVIOUS
<1>12. PICK s \in Seq(Int) : s = <<n>>
  BY <1>11
<1>13. /\ s \o f \in Seq(Int) /\ Len(s \o f) = Len(s) + Len(f)
       /\ \A i \in 1 .. Len(s) + Len(f) : (s \o f)[i] = IF i <= Len(s) THEN s[i] ELSE f[i - Len(s)]
  BY <1>4, ConcatProperties
<1>14. /\ p \in Seq(Int) /\ Len(p) = 1 + 2 * n
       /\ \A i \in 1 .. 1 + 2 * n : p[i] = IF i <= 1 THEN s[i] ELSE f[i - 1]
  BY <1>8, <1>10, <1>11, <1>12, <1>13
<1>15. p[1] = n
  <2>1. 1 \in 1 .. 1 + 2 * n
    OBVIOUS
  <2> QED BY <1>11, <1>12, <1>14, <2>1
<1>16. ASSUME NEW i \in 1 .. n PROVE p[2 * i] = v[i][1] /\ p[2 * i + 1] = v[i][2]
  <2>1. 2 * i \in 1 .. 1 + 2 * n /\ 2 * i + 1 \in 1 .. 1 + 2 * n /\ ~ 2 * i <= 1 /\ ~ 2 * i + 1 <= 1
        /\ (2 * i + 1) - 1 = 2 * i
    OBVIOUS
  <2> QED BY <1>9, <1>14, <2>1
<1> QED BY <1>14, <1>15, <1>16 DEF SideCells

\* What put_levels wrote, get_levels gives back; a side that is cut is refused.
LEMMA LevelsReadBack ==
  ASSUME NEW v \in Seq(Level), NEW p, p = Wir!Put("levels", v), NEW c, Begins(c, p)
  PROVE  /\ p \in Seq(Int) /\ Len(p) >= 1
         /\ Len(p) <= Len(c) => /\ Wir!Readable("levels", c) /\ Wir!Width("levels", c) = Len(p)
                                /\ Wir!Get("levels", c) = v
         /\ Len(c) < Len(p) => ~Wir!Readable("levels", c)
<1>1. PICK n \in Nat : n = Len(v)
  BY LenProperties
<1>2. /\ p \in Seq(Int) /\ Len(p) = 1 + 2 * n /\ p[1] = n
      /\ \A i \in 1 .. n : p[2 * i] = v[i][1] /\ p[2 * i + 1] = v[i][2]
  <2>1. SideCells(v, n, p)
    BY <1>1, LevelsAre
  <2> QED BY <2>1 DEF SideCells
<1>3. c \in Seq(Int) /\ \A j \in 1 .. Len(c) : j <= 1 + 2 * n => c[j] = p[j]
  BY <1>2 DEF Begins
<1>4. PICK m \in Nat : m = Len(c)
  BY <1>3, LenProperties
<1>5. m # 0 => c # <<>> /\ c[1] = n
  <2>1. c = <<>> => Len(c) = 0
    OBVIOUS
  <2>2. m # 0 => 1 \in 1 .. m /\ 1 <= 1 + 2 * n
    OBVIOUS
  <2> QED BY <1>2, <1>3, <1>4, <2>1, <2>2
<1>6. m = 0 => c = <<>>
  BY <1>3, <1>4, EmptySeq
<1>7. m # 0 => Wir!Width("levels", c) = 1 + 2 * n
  BY <1>5 DEF Wir!Width
<1>8. CASE 1 + 2 * n <= m
  <2>1. m # 0
    BY <1>8
  <2>2. Wir!Readable("levels", c)
    BY <1>4, <1>5, <1>7, <1>8, <2>1 DEF Wir!Readable, Wir!Valid
  <2>3. Wir!Get("levels", c) = [i \in 1 .. n |-> <<c[2 * i], c[2 * i + 1]>>]
    BY <1>5, <2>1 DEF Wir!Get, Wir!Levels
  <2>4. ASSUME NEW i \in 1 .. n PROVE <<c[2 * i], c[2 * i + 1]>> = v[i]
    <3>1. 2 * i \in 1 .. m /\ 2 * i + 1 \in 1 .. m /\ 2 * i <= 1 + 2 * n /\ 2 * i + 1 <= 1 + 2 * n
      BY <1>8
    <3>2. c[2 * i] = v[i][1] /\ c[2 * i + 1] = v[i][2]
      BY <1>2, <1>3, <1>4, <3>1
    <3>3. v[i] \in Level
      BY <1>1, LenProperties
    <3>4. v[i] = <<v[i][1], v[i][2]>>
      BY <3>3, LevelIsPair
    <3> QED BY <3>2, <3>4
  <2>5. v = [i \in 1 .. n |-> v[i]]
    BY <1>1, LenProperties
  <2>6. Wir!Get("levels", c) = v
    BY <2>3, <2>4, <2>5
  <2> QED BY <1>2, <1>4, <1>7, <1>8, <2>1, <2>2, <2>6
<1>9. CASE m < 1 + 2 * n
  <2>1. ~Wir!Readable("levels", c)
    BY <1>4, <1>6, <1>7, <1>9 DEF Wir!Readable
  <2> QED BY <1>2, <1>4, <1>9, <2>1
<1>10. 1 + 2 * n <= m \/ m < 1 + 2 * n
  OBVIOUS
<1> QED BY <1>8, <1>9, <1>10

\* Any other field is one cell.
LEMMA CellReadsBack ==
  ASSUME NEW field \in Kind, field # "levels", NEW v, Fits(field, v),
         NEW p, p = Wir!Put(field, v), NEW c, Begins(c, p)
  PROVE  /\ p \in Seq(Int) /\ Len(p) >= 1
         /\ Len(p) <= Len(c) => /\ Wir!Readable(field, c) /\ Wir!Width(field, c) = Len(p)
                                /\ Wir!Get(field, c) = v
         /\ Len(c) < Len(p) => ~Wir!Readable(field, c)
<1>1. PICK x \in Int : p = <<x>> /\ Wir!Valid(field, x)
                       /\ IF field = "bool" THEN v = (x # 0) ELSE v = x
  <2>1. CASE field = "bool"
    <3>1. v = TRUE \/ v = FALSE
      BY <2>1 DEF Fits
    <3>2. p = <<IF v THEN 1 ELSE 0>>
      BY <2>1 DEF Wir!Put
    <3>3. CASE v = TRUE
      <4>1. (IF v THEN 1 ELSE 0) = 1
        BY <3>3
      <4>2. p = <<1>> /\ Wir!Valid(field, 1) /\ 1 # 0
        BY <2>1, <3>2, <4>1 DEF Wir!Valid
      <4>3. v = (1 # 0)
        BY <3>3, <4>2, Zenon
      <4>4. p = <<1>> /\ Wir!Valid(field, 1) /\ v = (1 # 0)
        BY <4>2, <4>3
      <4> QED BY <2>1, <4>4
    <3>4. CASE v = FALSE
      <4>1. p = <<0>> /\ Wir!Valid(field, 0) /\ v = (0 # 0)
        BY <2>1, <3>2, <3>4 DEF Wir!Valid
      <4> QED BY <2>1, <4>1
    <3> QED BY <3>1, <3>3, <3>4
  <2>2. CASE field # "bool"
    <3>1. p = <<v>>
      BY <2>2 DEF Wir!Put
    <3>2. v \in Int /\ Wir!Valid(field, v)
      BY <2>2 DEF Fits, Kind, Wir!Valid
    <3> QED BY <2>2, <3>1, <3>2
  <2> QED BY <2>1, <2>2
<1>2. p \in Seq(Int) /\ Len(p) = 1 /\ p[1] = x
  BY <1>1
<1>3. c \in Seq(Int) /\ \A j \in 1 .. Len(c) : j <= 1 => c[j] = p[j]
  BY <1>2 DEF Begins
<1>4. PICK m \in Nat : m = Len(c)
  BY <1>3, LenProperties
<1>5. Wir!Width(field, c) = 1
  BY DEF Wir!Width
<1>6. CASE m >= 1
  <2>1. c # <<>>
    <3>1. Len(<<>>) = 0
      OBVIOUS
    <3> QED BY <1>4, <1>6, <3>1
  <2>2. c[1] = x
    <3>1. 1 \in 1 .. m
      BY <1>6
    <3> QED BY <1>2, <1>3, <1>4, <3>1
  <2>3. Wir!Readable(field, c)
    BY <1>1, <1>4, <1>5, <1>6, <2>1, <2>2 DEF Wir!Readable
  <2>4. Wir!Get(field, c) = v
    BY <1>1, <2>2 DEF Wir!Get
  <2> QED BY <1>2, <1>4, <1>5, <1>6, <2>3, <2>4
<1>7. CASE m < 1
  <2>1. c = <<>>
    BY <1>3, <1>4, <1>7, EmptySeq
  <2> QED BY <1>2, <1>4, <1>7, <2>1 DEF Wir!Readable
<1>8. m >= 1 \/ m < 1
  OBVIOUS
<1> QED BY <1>6, <1>7, <1>8

\* Of the cells p of a field: what is written is read, and what is cut is refused.
ReadBack(field, v, p, c) ==
  /\ p \in Seq(Int) /\ Len(p) >= 1
  /\ Len(p) <= Len(c) => /\ Wir!Readable(field, c) /\ Wir!Width(field, c) = Len(p)
                         /\ Wir!Get(field, c) = v
  /\ Len(c) < Len(p) => ~Wir!Readable(field, c)

\* So it is for a field of every kind.
LEMMA ReadsBack ==
  ASSUME NEW field \in Kind, NEW v, Fits(field, v),
         NEW p, p = Wir!Put(field, v), NEW c, Begins(c, p)
  PROVE  ReadBack(field, v, p, c)
<1>1. CASE field = "levels"
  <2>1. v \in Seq(Level) /\ p = Wir!Put("levels", v)
    BY <1>1 DEF Fits
  <2> QED BY <1>1, <2>1, LevelsReadBack DEF ReadBack
<1>2. CASE field # "levels"
  BY <1>2, CellReadsBack DEF ReadBack
<1> QED BY <1>1, <1>2

\* What is left of s behind its first w elements.
LEMMA RestIs ==
  ASSUME NEW s \in Seq(Int), NEW l \in Nat, l = Len(s), NEW w \in Nat, w <= l
  PROVE  /\ SubSeq(s, w + 1, Len(s)) \in Seq(Int) /\ Len(SubSeq(s, w + 1, Len(s))) = l - w
         /\ \A j \in 1 .. l - w : SubSeq(s, w + 1, Len(s))[j] = s[w + j]
<1>1. \A i \in w + 1 .. l : s[i] \in Int
  <2>1. \A i \in w + 1 .. l : i \in 1 .. l
    OBVIOUS
  <2>2. \A i \in 1 .. l : s[i] \in Int
    BY LenProperties
  <2> QED BY <2>1, <2>2
<1>2. PICK m \in Int : m = w + 1
  OBVIOUS
<1>3. /\ SubSeq(s, m, l) \in Seq(Int)
      /\ Len(SubSeq(s, m, l)) = IF m <= l THEN l - m + 1 ELSE 0
      /\ \A i \in 1 .. l - m + 1 : SubSeq(s, m, l)[i] = s[m + i - 1]
  BY <1>1, <1>2, SubSeqProperties
<1>4. PICK r : r = SubSeq(s, m, l)
  OBVIOUS
<1>5. r \in Seq(Int) /\ Len(r) = l - w /\ \A j \in 1 .. l - w : r[j] = s[w + j]
  <2>1. Len(r) = l - w
    BY <1>2, <1>3, <1>4
  <2>2. ASSUME NEW j \in 1 .. l - w PROVE r[j] = s[w + j]
    <3>1. j \in 1 .. l - m + 1 /\ m + j - 1 = w + j
      BY <1>2
    <3> QED BY <1>3, <1>4, <3>1
  <2> QED BY <1>3, <1>4, <2>1, <2>2
<1> QED BY <1>2, <1>4, <1>5

\* The first k values and one more.
LEMMA OneValueMore ==
  ASSUME NEW values, NEW k \in Nat
  PROVE  Append([i \in 1 .. k |-> values[i]], values[k + 1]) = [i \in 1 .. k + 1 |-> values[i]]
<1> DEFINE S == {values[i] : i \in 1 .. k + 1}
           f == [i \in 1 .. k |-> values[i]]
<1>1. \A i \in 1 .. k : i \in 1 .. k + 1
  OBVIOUS
<1>2. f \in [1 .. k -> S] /\ values[k + 1] \in S
  BY <1>1
<1>3. PICK a : a = values[k + 1]
  OBVIOUS
<1>4. \A i \in 1 .. k : f[i] = values[i]
  OBVIOUS
<1> HIDE DEF f, S
<1>5. f \in Seq(S) /\ Len(f) = k
  BY <1>2, FunctionIsSeq
<1>6. /\ Append(f, a) \in Seq(S) /\ Len(Append(f, a)) = Len(f) + 1
      /\ \A i \in 1 .. Len(f) : Append(f, a)[i] = f[i]
      /\ Append(f, a)[Len(f) + 1] = a
  BY <1>2, <1>3, <1>5, AppendProperties
<1>7. PICK g : g = Append(f, a)
  OBVIOUS
<1>8. g \in Seq(S) /\ Len(g) = k + 1
  BY <1>5, <1>6, <1>7
<1>9. g = [i \in 1 .. k + 1 |-> g[i]]
  BY <1>8, LenProperties
<1>10. ASSUME NEW i \in 1 .. k + 1 PROVE g[i] = values[i]
  <2>1. i \in 1 .. k \/ i = k + 1
    OBVIOUS
  <2> QED BY <1>3, <1>4, <1>5, <1>6, <1>7, <2>1
<1>11. g = [i \in 1 .. k + 1 |-> values[i]]
  BY <1>9, <1>10
<1> QED BY <1>3, <1>7, <1>11 DEF f

\* One field, by what there is to read.
LEMMA FieldIsRead ==
  ASSUME NEW field, NEW b, NEW l, Wir!Readable(field, l)
  PROVE  FieldRead([ok |-> TRUE, body |-> b, left |-> l], field)
           = [ok |-> TRUE, body |-> Append(b, Wir!Get(field, l)),
              left |-> SubSeq(l, Wir!Width(field, l) + 1, Len(l))]
BY DEF FieldRead

\* A field that is not readable ends the decoding.
LEMMA FieldIsRefused ==
  ASSUME NEW field, NEW b, NEW l, ~Wir!Readable(field, l)
  PROVE  FieldRead([ok |-> TRUE, body |-> b, left |-> l], field)
           = [ok |-> FALSE, body |-> b, left |-> l]
BY DEF FieldRead

\* What is refused stays refused.
LEMMA RefusedForGood ==
  ASSUME NEW field, NEW b, NEW l
  PROVE  FieldRead([ok |-> FALSE, body |-> b, left |-> l], field)
           = [ok |-> FALSE, body |-> b, left |-> l]
BY DEF FieldRead

\* Behind the first p cells, lc - p of the cells are left.
Left(l, cells, lc, p) == /\ l \in Seq(Int) /\ Len(l) = lc - p
                         /\ \A j \in 1 .. lc - p : l[j] = cells[p + j]

\* d is the decoder's state after k fields, of which the cells hold p cells.
ReadTo(d, k, values, cells, lc, p) ==
  /\ p <= lc => \E l : /\ Left(l, cells, lc, p)
                       /\ d = [ok |-> TRUE, body |-> [i \in 1 .. k |-> values[i]], left |-> l]
  /\ lc < p => \E b, l : d = [ok |-> FALSE, body |-> b, left |-> l]

\* The state after fields that are all there.
LEMMA ReadOn ==
  ASSUME NEW d, NEW k, NEW values, NEW cells, NEW lc \in Nat, NEW p \in Nat, p <= lc,
         NEW l, Left(l, cells, lc, p),
         d = [ok |-> TRUE, body |-> [i \in 1 .. k |-> values[i]], left |-> l]
  PROVE  ReadTo(d, k, values, cells, lc, p)
<1>1. ~ lc < p
  OBVIOUS
<1> QED BY <1>1, Zenon DEF ReadTo

\* The state after a field that is not.
LEMMA ReadNoMore ==
  ASSUME NEW d, NEW k, NEW values, NEW cells, NEW lc \in Nat, NEW p \in Nat, lc < p,
         NEW b, NEW l, d = [ok |-> FALSE, body |-> b, left |-> l]
  PROVE  ReadTo(d, k, values, cells, lc, p)
<1>1. ~ p <= lc
  OBVIOUS
<1> QED BY <1>1, Zenon DEF ReadTo

\* The cells are those of whole as far as they go, and whole has value's w cells behind p.
FieldAt(field, value, whole, cells, lc, p, w) ==
  /\ field \in Kind /\ Fits(field, value) /\ w = Len(Wir!Put(field, value))
  /\ \A j \in 1 .. lc : cells[j] = whole[j]
  /\ \A j \in 1 .. w : whole[p + j] = Wir!Put(field, value)[j]

\* A field's step: w cells more are read, or the first missing one is noticed.
LEMMA FieldStep ==
  ASSUME NEW k \in Nat, NEW values, NEW field, NEW whole, NEW cells,
         NEW lc \in Nat, NEW p \in Nat, NEW w \in Nat,
         FieldAt(field, values[k + 1], whole, cells, lc, p, w),
         NEW d, ReadTo(d, k, values, cells, lc, p)
  PROVE  ReadTo(FieldRead(d, field), k + 1, values, cells, lc, p + w)
<1>1. PICK put : put = Wir!Put(field, values[k + 1])
  OBVIOUS
<1>2. /\ field \in Kind /\ Fits(field, values[k + 1]) /\ w = Len(put)
      /\ \A j \in 1 .. lc : cells[j] = whole[j]
      /\ \A j \in 1 .. w : whole[p + j] = put[j]
  BY <1>1 DEF FieldAt
<1>3. PICK e : e = FieldRead(d, field)
  OBVIOUS
<1>4. CASE p <= lc
  <2>1. PICK l : /\ Left(l, cells, lc, p)
                 /\ d = [ok |-> TRUE, body |-> [i \in 1 .. k |-> values[i]], left |-> l]
    BY <1>4 DEF ReadTo
  <2>2. PICK b : b = [i \in 1 .. k |-> values[i]]
    OBVIOUS
  <2>3. l \in Seq(Int) /\ Len(l) = lc - p /\ \A j \in 1 .. lc - p : l[j] = cells[p + j]
    BY <2>1 DEF Left
  <2>4. Begins(l, put)
    <3>1. ASSUME NEW j \in 1 .. Len(l), j <= Len(put) PROVE l[j] = put[j]
      <4>1. j \in 1 .. lc - p /\ j \in 1 .. w /\ p + j \in 1 .. lc
        BY <1>4, <1>2, <2>3, <3>1
      <4> QED BY <1>2, <2>3, <4>1
    <3> QED BY <2>3, <3>1 DEF Begins
  <2>5. ReadBack(field, values[k + 1], put, l)
    BY <1>1, <1>2, <2>4, ReadsBack
  <2>6. CASE p + w <= lc
    <3>1. w <= lc - p /\ lc - p \in Nat
      BY <1>4, <2>6
    <3>2. /\ Wir!Readable(field, l) /\ Wir!Width(field, l) = w
          /\ Wir!Get(field, l) = values[k + 1]
      BY <1>2, <2>3, <2>5, <3>1 DEF ReadBack
    <3>3. PICK r : r = SubSeq(l, w + 1, Len(l))
      OBVIOUS
    <3>4. PICK m \in Nat : m = lc - p
      BY <3>1
    <3>5. m = Len(l) /\ w <= m
      BY <2>3, <3>4, <3>1
    <3>6. r \in Seq(Int) /\ Len(r) = m - w /\ \A j \in 1 .. m - w : r[j] = l[w + j]
      <4>1. /\ SubSeq(l, w + 1, Len(l)) \in Seq(Int) /\ Len(SubSeq(l, w + 1, Len(l))) = m - w
            /\ \A j \in 1 .. m - w : SubSeq(l, w + 1, Len(l))[j] = l[w + j]
        BY <2>3, <3>5, RestIs
      <4> QED BY <3>3, <4>1
    <3>7. e = [ok |-> TRUE, body |-> Append(b, values[k + 1]), left |-> r]
      <4>1. d = [ok |-> TRUE, body |-> b, left |-> l]
        BY <2>1, <2>2
      <4>2. FieldRead([ok |-> TRUE, body |-> b, left |-> l], field)
              = [ok |-> TRUE, body |-> Append(b, Wir!Get(field, l)),
                 left |-> SubSeq(l, Wir!Width(field, l) + 1, Len(l))]
        BY <3>2, FieldIsRead
      <4> QED BY <1>3, <3>2, <3>3, <4>1, <4>2
    <3>8. Append(b, values[k + 1]) = [i \in 1 .. k + 1 |-> values[i]]
      BY <2>2, OneValueMore
    <3>9. Left(r, cells, lc, p + w)
      <4>1. m - w = lc - (p + w)
        BY <3>4
      <4>2. ASSUME NEW j \in 1 .. lc - (p + w) PROVE r[j] = cells[(p + w) + j]
        <5>1. j \in 1 .. m - w /\ w + j \in 1 .. lc - p /\ p + (w + j) = (p + w) + j
          BY <3>4
        <5> QED BY <2>3, <3>6, <5>1
      <4> QED BY <3>6, <4>1, <4>2 DEF Left
    <3>10. p + w \in Nat
      OBVIOUS
    <3>11. e = [ok |-> TRUE, body |-> [i \in 1 .. k + 1 |-> values[i]], left |-> r]
      BY <3>7, <3>8
    <3> QED BY <1>3, <2>6, <3>9, <3>10, <3>11, ReadOn
  <2>7. CASE lc < p + w
    <3>1. lc - p < w
      BY <2>7
    <3>2. ~Wir!Readable(field, l)
      BY <1>2, <2>3, <2>5, <3>1 DEF ReadBack
    <3>3. e = [ok |-> FALSE, body |-> b, left |-> l]
      <4>1. d = [ok |-> TRUE, body |-> b, left |-> l]
        BY <2>1, <2>2
      <4>2. FieldRead([ok |-> TRUE, body |-> b, left |-> l], field)
              = [ok |-> FALSE, body |-> b, left |-> l]
        BY <3>2, FieldIsRefused
      <4> QED BY <1>3, <4>1, <4>2
    <3>4. p + w \in Nat
      OBVIOUS
    <3> QED BY <1>3, <2>7, <3>3, <3>4, ReadNoMore
  <2>8. p + w <= lc \/ lc < p + w
    OBVIOUS
  <2> QED BY <2>6, <2>7, <2>8
<1>5. CASE lc < p
  <2>1. PICK b, l : d = [ok |-> FALSE, body |-> b, left |-> l]
    BY <1>5 DEF ReadTo
  <2>2. e = [ok |-> FALSE, body |-> b, left |-> l]
    <3>1. FieldRead([ok |-> FALSE, body |-> b, left |-> l], field)
            = [ok |-> FALSE, body |-> b, left |-> l]
      BY RefusedForGood
    <3> QED BY <1>3, <2>1, <3>1
  <2>3. lc < p + w /\ p + w \in Nat
    BY <1>5
  <2> QED BY <1>3, <2>2, <2>3, ReadNoMore
<1>6. p <= lc \/ lc < p
  OBVIOUS
<1> QED BY <1>4, <1>5, <1>6

\* The fields of a message, in the kinds that Body lists.
Values(fields, values, n) ==
  /\ fields \in [1 .. n -> Kind] /\ values = [i \in 1 .. n |-> values[i]]
  /\ \A i \in 1 .. n : Fits(fields[i], values[i])

Puts(fields, values) == [i \in DOMAIN fields |-> Wir!Put(fields[i], values[i])]

\* Every field puts cells.
LEMMA PutsAreCells ==
  ASSUME NEW n \in Nat, NEW fields, NEW values, Values(fields, values, n)
  PROVE  Puts(fields, values) \in [1 .. n -> Seq(Int)]
<1>1. DOMAIN fields = 1 .. n
  BY DEF Values
<1>2. ASSUME NEW i \in 1 .. n PROVE Wir!Put(fields[i], values[i]) \in Seq(Int)
  <2>1. fields[i] \in Kind /\ Fits(fields[i], values[i])
    BY DEF Values
  <2>2. Begins(<<>>, Wir!Put(fields[i], values[i]))
    BY EmptySeq DEF Begins
  <2>3. ReadBack(fields[i], values[i], Wir!Put(fields[i], values[i]), <<>>)
    BY <2>1, <2>2, ReadsBack
  <2> QED BY <2>3 DEF ReadBack
<1> QED BY <1>1, <1>2 DEF Puts

\* The lc cells are the first of whole.
FirstOf(cells, lc, whole) == /\ cells \in Seq(Int) /\ lc = Len(cells) /\ lc <= Len(whole)
                             /\ \A j \in 1 .. lc : cells[j] = whole[j]

\* d has all the values when the cells are all of whole, and is refused otherwise.
AllOrNone(d, lc, whole, values) == /\ lc = Len(whole) => d.ok = TRUE /\ d.body = values
                                   /\ lc < Len(whole) => d.ok = FALSE

\* The fields' cells give the values back, and a part of the cells is refused.
LEMMA FieldsReadBack ==
  ASSUME NEW n \in Nat, NEW fields, NEW values, Values(fields, values, n),
         NEW whole, whole = Wir!FlattenSeq(Puts(fields, values)),
         NEW cells, NEW lc \in Nat, FirstOf(cells, lc, whole)
  PROVE  AllOrNone(Wir!Decoded(fields, cells), lc, whole, values)
<1>1. /\ cells \in Seq(Int) /\ lc = Len(cells) /\ lc <= Len(whole)
      /\ \A j \in 1 .. lc : cells[j] = whole[j]
  BY DEF FirstOf
<1>2. PICK d : d = Wir!Decoded(fields, cells)
  OBVIOUS
<1>3. PICK q \in [1 .. n -> Seq(Int)] : q = Puts(fields, values)
  BY PutsAreCells
<1>4. whole \in Seq(Int) /\ \E at \in [0 .. n -> Nat] : Laid(whole, at, n, q)
  BY <1>3, FlattenIs
<1>5. PICK at \in [0 .. n -> Nat] : Laid(whole, at, n, q)
  BY <1>4
<1>6. DOMAIN fields = 1 .. n
  BY DEF Values
<1>7. \E R : Reads(R, n, fields, cells) /\ R[n] = Wir!Decoded(fields, cells)
  BY <1>6, DecodedIsSteps
<1>8. PICK R : Reads(R, n, fields, cells) /\ R[n] = d
  BY <1>2, <1>7
<1> DEFINE T == {k \in Nat : k <= n => ReadTo(R[k], k, values, cells, lc, at[k])}
<1>9. 0 \in T
  <2>1. at[0] = 0 /\ R[0] = [ok |-> TRUE, body |-> <<>>, left |-> cells]
    BY <1>5, <1>8 DEF Laid, Reads, Undecoded
  <2>2. Left(cells, cells, lc, 0)
    BY <1>1 DEF Left
  <2>3. [i \in 1 .. 0 |-> values[i]] = <<>>
    OBVIOUS
  <2>4. ReadTo(R[0], 0, values, cells, lc, 0)
    <3>1. R[0] = [ok |-> TRUE, body |-> [i \in 1 .. 0 |-> values[i]], left |-> cells] /\ 0 <= lc
      BY <2>1, <2>3
    <3> QED BY <2>2, <3>1, ReadOn
  <2> QED BY <2>1, <2>4
<1>10. ASSUME NEW k \in Nat, ReadTo(R[k], k, values, cells, lc, at[k]), k + 1 <= n
      PROVE  ReadTo(R[k + 1], k + 1, values, cells, lc, at[k + 1])
  <2>1. k \in 0 .. n - 1 /\ k + 1 \in 1 .. n /\ k \in 0 .. n
    BY <1>10
  <2>2. R[k + 1] = FieldRead(R[k], fields[k + 1])
    BY <1>8, <2>1 DEF Reads
  <2>3. fields[k + 1] \in Kind /\ Fits(fields[k + 1], values[k + 1])
    BY <2>1 DEF Values
  <2>4. q[k + 1] = Wir!Put(fields[k + 1], values[k + 1]) /\ q[k + 1] \in Seq(Int)
    BY <1>3, <1>6, <2>1 DEF Puts
  <2>5. /\ at[k + 1] = at[k] + Len(q[k + 1])
        /\ \A j \in 1 .. Len(q[k + 1]) : whole[at[k] + j] = q[k + 1][j]
    BY <1>5, <2>1 DEF Laid
  <2>6. PICK w \in Nat : w = Len(q[k + 1])
    BY <2>4, LenProperties
  <2>7. PICK p \in Nat : p = at[k]
    BY <2>1
  <2>8. PICK e : e = R[k]
    OBVIOUS
  <2>9. PICK field \in Kind : field = fields[k + 1]
    BY <2>3
  <2>10. FieldAt(field, values[k + 1], whole, cells, lc, p, w)
    BY <1>1, <2>3, <2>4, <2>5, <2>6, <2>7, <2>9 DEF FieldAt
  <2>11. ReadTo(e, k, values, cells, lc, p)
    BY <1>10, <2>7, <2>8
  <2>12. ReadTo(FieldRead(e, field), k + 1, values, cells, lc, p + w)
    BY <2>10, <2>11, FieldStep
  <2> QED BY <2>2, <2>5, <2>6, <2>7, <2>8, <2>9, <2>12
<1>11. ASSUME NEW k \in Nat, k \in T PROVE k + 1 \in T
  <2>1. CASE k + 1 <= n
    <3>1. ReadTo(R[k], k, values, cells, lc, at[k])
      BY <1>11, <2>1
    <3>2. ReadTo(R[k + 1], k + 1, values, cells, lc, at[k + 1])
      BY <1>10, <2>1, <3>1
    <3> QED BY <3>2
  <2>2. CASE ~ k + 1 <= n
    BY <2>2
  <2> QED BY <2>1, <2>2
<1> HIDE DEF T
<1>12. \A k \in Nat : k \in T
  BY <1>9, <1>11, NatSetInduction
<1>13. ReadTo(d, n, values, cells, lc, at[n])
  BY <1>8, <1>12 DEF T
<1>14. Len(whole) = at[n]
  BY <1>5 DEF Laid
<1>15. ASSUME lc = Len(whole) PROVE d.ok = TRUE /\ d.body = values
  <2>1. PICK l : d = [ok |-> TRUE, body |-> [i \in 1 .. n |-> values[i]], left |-> l]
    BY <1>13, <1>14, <1>15 DEF ReadTo
  <2>2. [i \in 1 .. n |-> values[i]] = values
    BY DEF Values
  <2> QED BY <2>1, <2>2
<1>16. ASSUME lc < Len(whole) PROVE d.ok = FALSE
  <2>1. PICK b, l : d = [ok |-> FALSE, body |-> b, left |-> l]
    BY <1>13, <1>14, <1>16 DEF ReadTo
  <2> QED BY <2>1
<1>17. AllOrNone(d, lc, whole, values)
  BY <1>15, <1>16 DEF AllOrNone
<1> QED BY <1>2, <1>17

\* Plain fields are kinds.
LEMMA PlainIs == \A n \in Nat : Wir!Plain(n) \in Seq(Kind)
<1> SUFFICES ASSUME NEW n \in Nat PROVE Wir!Plain(n) \in Seq(Kind)
  OBVIOUS
<1>1. Wir!Plain(n) \in [1 .. n -> Kind]
  BY DEF Wir!Plain, Kind
<1> QED BY <1>1, FunctionIsSeq

\* A layout is a list of kinds, of a type that has a code.
Coded(type) == \E i \in 1 .. 18 : Wir!MessageType[i] = type
Layout(type, body) == body \in Seq(Kind) /\ Coded(type)

\* Seventeen types have a layout, and each has a code.
LEMMA Types ==
  /\ DOMAIN Wir!MessageType = 1 .. 18
  /\ \A type \in {"InstrumentDefinition", "TradingStatus", "BookSnapshot", "BookDelta",
                  "BestBidOffer", "Trade", "MarkPrice", "FundingRate", "Liquidation",
                  "OpenInterest", "AccountUpdate", "OrderUpdate", "Heartbeat", "FeedStatus",
                  "GapDetected", "BookStale", "BookRecovered"} :
        Coded(type)
<1> DEFINE mt == Wir!MessageType
<1>1. /\ mt[1] = "InstrumentDefinition" /\ mt[2] = "TradingStatus" /\ mt[3] = "BookSnapshot"
      /\ mt[4] = "BookDelta" /\ mt[5] = "BestBidOffer" /\ mt[6] = "Trade" /\ mt[7] = "MarkPrice"
      /\ mt[8] = "FundingRate" /\ mt[9] = "Liquidation" /\ mt[10] = "OpenInterest"
      /\ mt[11] = "AccountUpdate" /\ mt[12] = "OrderUpdate" /\ mt[13] = "Heartbeat"
      /\ mt[14] = "FeedStatus" /\ mt[15] = "GapDetected" /\ mt[16] = "BookStale"
      /\ mt[17] = "BookRecovered" /\ DOMAIN mt = 1 .. 18
  BY DEF Wir!MessageType
<1> HIDE DEF mt
<1>2. \A type \in {"InstrumentDefinition", "TradingStatus", "BookSnapshot", "BookDelta",
                   "BestBidOffer", "Trade", "MarkPrice", "FundingRate", "Liquidation",
                   "OpenInterest", "AccountUpdate", "OrderUpdate", "Heartbeat", "FeedStatus",
                   "GapDetected", "BookStale", "BookRecovered"} :
         \E i \in 1 .. 18 : mt[i] = type
  BY <1>1
<1> QED BY <1>1, <1>2 DEF mt, Coded

\* The layouts of the reference data are kinds, of coded types.
LEMMA ReferenceListed ==
  \A type \in DOMAIN Wir!ReferenceBody : Layout(type, Wir!ReferenceBody[type])
<1>1. /\ Wir!Plain(10) \in Seq(Kind)
      /\ <<"bool">> \in Seq(Kind)
      /\ <<"any", "bool">> \in Seq(Kind)
  BY PlainIs DEF Kind
<1>2. Wir!Plain(10) \o <<"bool">> \in Seq(Kind)
  BY <1>1, ConcatProperties
<1>3. PICK a \in Seq(Kind) : a = Wir!Plain(10) \o <<"bool">>
  BY <1>1, <1>2
<1>4. PICK b \in Seq(Kind) : b = <<"any", "bool">>
  BY <1>1, <1>2
<1>5. Wir!ReferenceBody = [InstrumentDefinition |-> a, TradingStatus |-> b]
  BY <1>3, <1>4 DEF Wir!ReferenceBody
<1>6. Coded("InstrumentDefinition") /\ Coded("TradingStatus")
  BY Types
<1> QED BY <1>5, <1>6 DEF Layout

\* Those of the books.
LEMMA BooksListed ==
  \A type \in DOMAIN Wir!BookBody : Layout(type, Wir!BookBody[type])
<1>1. /\ Wir!Plain(4) \in Seq(Kind)
      /\ Wir!Plain(6) \in Seq(Kind)
      /\ <<"levels", "levels">> \in Seq(Kind)
  BY PlainIs DEF Kind
<1>2. Wir!Plain(4) \o <<"levels", "levels">> \in Seq(Kind)
  BY <1>1, ConcatProperties
<1>3. Wir!Plain(6) \o <<"levels", "levels">> \in Seq(Kind)
  BY <1>1, <1>2, ConcatProperties
<1>4. PICK a \in Seq(Kind) : a = Wir!Plain(4) \o <<"levels", "levels">>
  BY <1>1, <1>2, <1>3
<1>5. PICK b \in Seq(Kind) : b = Wir!Plain(6) \o <<"levels", "levels">>
  BY <1>1, <1>2, <1>3
<1>6. Wir!BookBody = [BookSnapshot |-> a, BookDelta |-> b]
  BY <1>4, <1>5 DEF Wir!BookBody
<1>7. Coded("BookSnapshot") /\ Coded("BookDelta")
  BY Types
<1> QED BY <1>6, <1>7 DEF Layout

\* Those of the prices.
LEMMA PricesListed ==
  \A type \in DOMAIN Wir!PriceBody : Layout(type, Wir!PriceBody[type])
<1>1. /\ Wir!Plain(8) \in Seq(Kind)
      /\ Wir!Plain(7) \in Seq(Kind)
      /\ Wir!Plain(4) \in Seq(Kind)
      /\ <<"bool", "side">> \in Seq(Kind)
  BY PlainIs DEF Kind
<1>2. Wir!Plain(7) \o <<"bool", "side">> \in Seq(Kind)
  BY <1>1, ConcatProperties
<1>3. PICK a \in Seq(Kind) : a = Wir!Plain(8)
  BY <1>1, <1>2
<1>4. PICK b \in Seq(Kind) : b = Wir!Plain(7) \o <<"bool", "side">>
  BY <1>1, <1>2
<1>5. PICK c \in Seq(Kind) : c = Wir!Plain(4)
  BY <1>1, <1>2
<1>6. PICK d \in Seq(Kind) : d = Wir!Plain(4)
  BY <1>1, <1>2
<1>7. Wir!PriceBody = [BestBidOffer |-> a, Trade |-> b, MarkPrice |-> c, FundingRate |-> d]
  BY <1>3, <1>4, <1>5, <1>6 DEF Wir!PriceBody
<1>8. Coded("BestBidOffer") /\ Coded("Trade") /\ Coded("MarkPrice") /\ Coded("FundingRate")
  BY Types
<1> QED BY <1>7, <1>8 DEF Layout

\* Those of the flow.
LEMMA FlowListed ==
  \A type \in DOMAIN Wir!FlowBody : Layout(type, Wir!FlowBody[type])
<1>1. /\ Wir!Plain(3) \in Seq(Kind)
      /\ Wir!Plain(4) \in Seq(Kind)
      /\ <<"side">> \in Seq(Kind)
      /\ <<"state">> \in Seq(Kind)
      /\ <<>> \in Seq(Kind)
  BY PlainIs DEF Kind
<1>2. Wir!Plain(3) \o <<"side">> \in Seq(Kind)
  BY <1>1, ConcatProperties
<1>3. (Wir!Plain(3) \o <<"side">>) \o Wir!Plain(4) \in Seq(Kind)
  BY <1>1, <1>2, ConcatProperties
<1>4. PICK a \in Seq(Kind) : a = Wir!Plain(3) \o <<"side">> \o Wir!Plain(4)
  BY <1>1, <1>2, <1>3
<1>5. PICK b \in Seq(Kind) : b = Wir!Plain(3)
  BY <1>1, <1>2, <1>3
<1>6. PICK c \in Seq(Kind) : c = <<>>
  BY <1>1, <1>2, <1>3
<1>7. PICK d \in Seq(Kind) : d = <<"state">>
  BY <1>1, <1>2, <1>3
<1>8. Wir!FlowBody = [Liquidation |-> a, OpenInterest |-> b, Heartbeat |-> c, FeedStatus |-> d]
  BY <1>4, <1>5, <1>6, <1>7 DEF Wir!FlowBody
<1>9. Coded("Liquidation") /\ Coded("OpenInterest") /\ Coded("Heartbeat") /\ Coded("FeedStatus")
  BY Types
<1> QED BY <1>8, <1>9 DEF Layout

\* Those of the status.
LEMMA StatusListed ==
  \A type \in DOMAIN Wir!StatusBody : Layout(type, Wir!StatusBody[type])
<1>1. /\ Wir!Plain(3) \in Seq(Kind)
      /\ Wir!Plain(2) \in Seq(Kind)
      /\ <<"any", "reason">> \in Seq(Kind)
      /\ <<>> \in Seq(Kind)
  BY PlainIs DEF Kind
<1>2. PICK a \in Seq(Kind) : a = Wir!Plain(3)
  BY <1>1
<1>3. PICK b \in Seq(Kind) : b = <<"any", "reason">>
  BY <1>1
<1>4. PICK c \in Seq(Kind) : c = Wir!Plain(2)
  BY <1>1
<1>5. PICK d \in Seq(Kind) : d = <<>>
  BY <1>1
<1>6. PICK e \in Seq(Kind) : e = <<>>
  BY <1>1
<1>7. Wir!StatusBody = [GapDetected |-> a, BookStale |-> b, BookRecovered |-> c,
                        AccountUpdate |-> d, OrderUpdate |-> e]
  BY <1>2, <1>3, <1>4, <1>5, <1>6 DEF Wir!StatusBody
<1>8. Coded("GapDetected") /\ Coded("BookStale") /\ Coded("BookRecovered")
      /\ Coded("AccountUpdate") /\ Coded("OrderUpdate")
  BY Types
<1> QED BY <1>7, <1>8 DEF Layout

\* Every layout is a list of kinds.
LEMMA BodyListed == \A type \in DOMAIN Wir!Body : Layout(type, Wir!Body[type])
<1> SUFFICES ASSUME NEW type \in DOMAIN Wir!Body PROVE Layout(type, Wir!Body[type])
  OBVIOUS
<1> DEFINE bs == Wir!Bodies
           c == CHOOSE i \in DOMAIN bs : type \in DOMAIN bs[i]
<1>1. type \in UNION {DOMAIN bs[i] : i \in DOMAIN bs} /\ Wir!Body[type] = bs[c][type]
  BY DEF Wir!Body
<1>2. /\ DOMAIN bs = 1 .. 5
      /\ bs[1] = Wir!ReferenceBody /\ bs[2] = Wir!BookBody /\ bs[3] = Wir!PriceBody
      /\ bs[4] = Wir!FlowBody /\ bs[5] = Wir!StatusBody
  BY DEF Wir!Bodies
<1> HIDE DEF bs
<1>3. c \in DOMAIN bs /\ type \in DOMAIN bs[c]
  <2>1. \E i \in DOMAIN bs : type \in DOMAIN bs[i]
    BY <1>1
  <2> QED BY <2>1
<1> HIDE DEF c
<1>4. c = 1 \/ c = 2 \/ c = 3 \/ c = 4 \/ c = 5
  BY <1>2, <1>3
<1>5. CASE c = 1
  BY <1>1, <1>2, <1>3, <1>5, ReferenceListed
<1>6. CASE c = 2
  BY <1>1, <1>2, <1>3, <1>6, BooksListed
<1>7. CASE c = 3
  BY <1>1, <1>2, <1>3, <1>7, PricesListed
<1>8. CASE c = 4
  BY <1>1, <1>2, <1>3, <1>8, FlowListed
<1>9. CASE c = 5
  BY <1>1, <1>2, <1>3, <1>9, StatusListed
<1> QED BY <1>4, <1>5, <1>6, <1>7, <1>8, <1>9

\* A type's code stands for it alone.
LEMMA CodeIs ==
  ASSUME NEW type \in DOMAIN Wir!Body
  PROVE  Wir!Code(type) \in 1 .. 18 /\ Wir!MessageType[Wir!Code(type)] = type
<1>1. \E i \in 1 .. 18 : Wir!MessageType[i] = type
  BY BodyListed DEF Layout, Coded
<1>2. DOMAIN Wir!MessageType = 1 .. 18
  BY Types
<1> QED BY <1>1, <1>2 DEF Wir!Code

\* Messages as a publisher sends them.
Message == {Wir!Sample(type, number, bids, asks) :
              type \in DOMAIN Wir!Body, number \in Nat, bids \in Nat, asks \in Nat}

\* What a message is made of.
MadeOf(m, type, ids, body, n) ==
  /\ m = [type |-> type, venue |-> 1, market |-> 1, ids |-> ids, body |-> body]
  /\ type \in DOMAIN Wir!Body /\ ids \in [1 .. 8 -> Int] /\ Values(Wir!Body[type], body, n)

\* A message sent is made like that.
LEMMA MessageIs ==
  ASSUME NEW m \in Message
  PROVE  \E type, ids, body : \E n \in Nat : MadeOf(m, type, ids, body, n)
<1>1. PICK type \in DOMAIN Wir!Body, number \in Nat, bids \in Nat, asks \in Nat :
        m = Wir!Sample(type, number, bids, asks)
  BY DEF Message
<1>2. PICK fields : fields = Wir!Body[type]
  OBVIOUS
<1>3. fields \in Seq(Kind)
  BY <1>2, BodyListed DEF Layout
<1>4. PICK n \in Nat : n = Len(fields)
  BY <1>3, LenProperties
<1>5. fields \in [1 .. n -> Kind] /\ DOMAIN fields = 1 .. n
  BY <1>3, <1>4, LenProperties
<1> DEFINE side(i) == IF i = Len(Wir!Body[type]) THEN asks ELSE bids
           ids == [i \in 1 .. Wir!HeaderSize - 4 |-> 100 * number + i]
           body == [i \in DOMAIN Wir!Body[type] |->
                      CASE Wir!Body[type][i] = "levels" -> [k \in 1 .. side(i) |-> <<k, 50 + k>>]
                        [] Wir!Body[type][i] = "bool"   -> TRUE
                        [] Wir!Body[type][i] = "any"    -> 20 + i
                        [] OTHER                        -> 1]
<1>6. m = [type |-> type, venue |-> 1, market |-> 1, ids |-> ids, body |-> body]
  BY <1>1, Zenon DEF Wir!Sample
<1>7. ids \in [1 .. 8 -> Int]
  BY DEF Wir!HeaderSize
<1>8. ASSUME NEW i \in 1 .. n PROVE Fits(fields[i], body[i])
  <2>1. side(i) \in Nat
    OBVIOUS
  <2> HIDE DEF side
  <2>2. PICK s \in Nat : s = side(i)
    BY <2>1
  <2>3. [k \in 1 .. s |-> <<k, 50 + k>>] \in Seq(Level)
    <3>1. PICK f : f = [k \in 1 .. s |-> <<k, 50 + k>>]
      OBVIOUS
    <3>2. f \in [1 .. s -> Level]
      BY <3>1 DEF Level
    <3> QED BY <3>1, <3>2, FunctionIsSeq
  <2>4. PICK v : v = body[i]
    OBVIOUS
  <2>5. PICK side0 : side0 = [k \in 1 .. s |-> <<k, 50 + k>>]
    OBVIOUS
  <2>6. v = CASE fields[i] = "levels" -> side0
             [] fields[i] = "bool"   -> TRUE
             [] fields[i] = "any"    -> 20 + i
             [] OTHER                -> 1
    BY <1>2, <1>5, <2>2, <2>4, <2>5
  <2>7. fields[i] \in Kind
    BY <1>5
  <2> HIDE DEF body
  <2>8. CASE fields[i] = "levels"
    BY <2>3, <2>4, <2>5, <2>6, <2>8 DEF Fits
  <2>9. CASE fields[i] = "bool"
    <3>1. v = TRUE
      BY <2>6, <2>9
    <3> QED BY <2>4, <2>9, <3>1 DEF Fits
  <2>10. CASE fields[i] = "any"
    BY <2>4, <2>6, <2>10 DEF Fits
  <2>11. CASE fields[i] \in {"side", "state", "reason"}
    <3>1. v = 1
      BY <2>6, <2>11
    <3> QED BY <2>4, <2>11, <3>1 DEF Fits
  <2> QED BY <2>7, <2>8, <2>9, <2>10, <2>11 DEF Kind
<1>9. body = [i \in 1 .. n |-> body[i]]
  BY <1>2, <1>5
<1> HIDE DEF body, ids
<1>10. Values(Wir!Body[type], body, n)
  BY <1>2, <1>5, <1>8, <1>9 DEF Values
<1>11. MadeOf(m, type, ids, body, n)
  BY <1>6, <1>7, <1>10 DEF MadeOf
<1> QED BY <1>11

\* A message's cells: four, the ids, and what the fields put.
CellsOf(e, type, ids, whole) ==
  /\ e \in Seq(Int) /\ Len(e) = 12 + Len(whole)
  /\ e[2] = Wir!Code(type) /\ e[3] = 1 /\ e[4] = 1
  /\ \A j \in 1 .. 8 : e[4 + j] = ids[j]
  /\ \A j \in 1 .. Len(whole) : e[12 + j] = whole[j]

\* encode_into writes these cells.
LEMMA EncodeIs ==
  ASSUME NEW m, NEW type, NEW ids, NEW body, NEW n \in Nat, MadeOf(m, type, ids, body, n),
         NEW whole, whole = Wir!FlattenSeq(Puts(Wir!Body[type], body))
  PROVE  whole \in Seq(Int) /\ CellsOf(Wir!Encode(m), type, ids, whole)
<1>1. /\ m.type = type /\ m.venue = 1 /\ m.market = 1 /\ m.ids = ids /\ m.body = body
      /\ type \in DOMAIN Wir!Body /\ ids \in [1 .. 8 -> Int] /\ Values(Wir!Body[type], body, n)
  BY DEF MadeOf
<1>2. PICK q \in [1 .. n -> Seq(Int)] : q = Puts(Wir!Body[type], body)
  BY <1>1, PutsAreCells
<1>3. whole \in Seq(Int)
  BY <1>2, FlattenIs
<1>4. Wir!Encode(m) = (<<1, Wir!Code(type), 1, 1>> \o ids) \o whole
  BY <1>1 DEF Wir!Encode, Wir!EncodeHeader, Puts
<1>5. PICK code \in Int : code = Wir!Code(type)
  <2>1. Wir!Code(type) \in 1 .. 18
    BY <1>1, CodeIs
  <2> QED BY <2>1
<1>6. PICK h : h = <<1, code, 1, 1>>
  OBVIOUS
<1>7. h \in Seq(Int) /\ Len(h) = 4 /\ h[2] = code /\ h[3] = 1 /\ h[4] = 1
  BY <1>6
<1>8. ids \in Seq(Int) /\ Len(ids) = 8
  <2>1. PICK k \in Nat : k = 8
    OBVIOUS
  <2>2. ids \in [1 .. k -> Int]
    BY <1>1, <2>1
  <2> QED BY <2>1, <2>2, FunctionIsSeq
<1>9. PICK g : g = h \o ids
  OBVIOUS
<1>10. /\ h \o ids \in Seq(Int) /\ Len(h \o ids) = Len(h) + Len(ids)
       /\ \A i \in 1 .. Len(h) + Len(ids) :
            (h \o ids)[i] = IF i <= Len(h) THEN h[i] ELSE ids[i - Len(h)]
  BY <1>7, <1>8, ConcatProperties
<1>11. /\ g \in Seq(Int) /\ Len(g) = 12
       /\ \A i \in 1 .. 12 : g[i] = IF i <= 4 THEN h[i] ELSE ids[i - 4]
  <2>1. Len(h) = 4 /\ Len(ids) = 8 /\ Len(h) + Len(ids) = 12
    BY <1>7, <1>8
  <2> QED BY <1>9, <1>10, <2>1
<1>12. PICK e : e = g \o whole
  OBVIOUS
<1>13. /\ g \o whole \in Seq(Int) /\ Len(g \o whole) = Len(g) + Len(whole)
       /\ \A i \in 1 .. Len(g) + Len(whole) :
            (g \o whole)[i] = IF i <= Len(g) THEN g[i] ELSE whole[i - Len(g)]
  BY <1>3, <1>11, ConcatProperties
<1>14. PICK w \in Nat : w = Len(whole)
  BY <1>3, LenProperties
<1>15. /\ e \in Seq(Int) /\ Len(e) = 12 + w
       /\ \A i \in 1 .. 12 + w : e[i] = IF i <= 12 THEN g[i] ELSE whole[i - 12]
  BY <1>11, <1>12, <1>13, <1>14
<1>16. e[2] = code /\ e[3] = 1 /\ e[4] = 1
  <2>1. \A i \in {2, 3, 4} : i \in 1 .. 12 /\ i \in 1 .. 12 + w /\ i <= 12 /\ i <= 4
    OBVIOUS
  <2> QED BY <1>7, <1>11, <1>15, <2>1
<1>17. ASSUME NEW j \in 1 .. 8 PROVE e[4 + j] = ids[j]
  <2>1. 4 + j \in 1 .. 12 /\ 4 + j \in 1 .. 12 + w /\ 4 + j <= 12 /\ ~ 4 + j <= 4 /\ (4 + j) - 4 = j
    OBVIOUS
  <2> QED BY <1>11, <1>15, <2>1
<1>18. ASSUME NEW j \in 1 .. w PROVE e[12 + j] = whole[j]
  <2>1. 12 + j \in 1 .. 12 + w /\ ~ 12 + j <= 12 /\ (12 + j) - 12 = j
    OBVIOUS
  <2> QED BY <1>15, <2>1
<1>19. Wir!Encode(m) = e
  BY <1>4, <1>5, <1>6, <1>9, <1>12
<1> QED BY <1>3, <1>5, <1>14, <1>15, <1>16, <1>17, <1>18, <1>19 DEF CellsOf

\* The cells of a message, as far as they go, are the message or nothing.
LEMMA MessageReadBack ==
  ASSUME NEW m \in Message, NEW e, e = Wir!Encode(m),
         NEW c, NEW lc \in Nat, FirstOf(c, lc, e)
  PROVE  /\ lc = Len(e) => Wir!FromBytes(c) = m
         /\ lc < Len(e) => Wir!FromBytes(c) = Wir!Nothing
<1>1. c \in Seq(Int) /\ lc = Len(c) /\ lc <= Len(e) /\ \A j \in 1 .. lc : c[j] = e[j]
  BY DEF FirstOf
<1>2. PICK type, ids, body : \E n \in Nat : MadeOf(m, type, ids, body, n)
  BY MessageIs
<1>3. PICK n \in Nat : MadeOf(m, type, ids, body, n)
  BY <1>2
<1>4. /\ m = [type |-> type, venue |-> 1, market |-> 1, ids |-> ids, body |-> body]
      /\ type \in DOMAIN Wir!Body /\ ids \in [1 .. 8 -> Int] /\ Values(Wir!Body[type], body, n)
  BY <1>3 DEF MadeOf
<1>5. PICK whole : whole = Wir!FlattenSeq(Puts(Wir!Body[type], body))
  OBVIOUS
<1>6. whole \in Seq(Int) /\ CellsOf(e, type, ids, whole)
  BY <1>3, <1>5, EncodeIs
<1>7. PICK lw \in Nat : lw = Len(whole)
  BY <1>6, LenProperties
<1>8. /\ Len(e) = 12 + lw
      /\ e[2] = Wir!Code(type) /\ e[3] = 1 /\ e[4] = 1
      /\ \A j \in 1 .. 8 : e[4 + j] = ids[j]
      /\ \A j \in 1 .. lw : e[12 + j] = whole[j]
  BY <1>6, <1>7 DEF CellsOf
<1>9. CASE lc < 12
  <2>1. ~Wir!HeaderReadable(c)
    BY <1>1, <1>9 DEF Wir!HeaderReadable, Wir!HeaderSize
  <2>2. Wir!FromBytes(c) = Wir!Nothing
    BY <2>1 DEF Wir!FromBytes
  <2> QED BY <1>8, <1>9, <2>2
<1>10. CASE 12 <= lc
  <2>1. c[2] = Wir!Code(type) /\ c[3] = 1 /\ c[4] = 1
    <3>1. 2 \in 1 .. lc /\ 3 \in 1 .. lc /\ 4 \in 1 .. lc
      BY <1>10
    <3> QED BY <1>1, <1>8, <3>1
  <2>2. /\ c[2] \in DOMAIN Wir!MessageType /\ Wir!MessageType[c[2]] = type
    <3>1. Wir!Code(type) \in 1 .. 18 /\ Wir!MessageType[Wir!Code(type)] = type
      BY <1>4, CodeIs
    <3> QED BY <2>1, <3>1, Types
  <2>3. Wir!HeaderReadable(c)
    <3>1. Wir!Valid("venue", c[3]) /\ Wir!Valid("market", c[4])
      BY <2>1 DEF Wir!Valid
    <3> QED BY <1>1, <1>10, <2>2, <3>1 DEF Wir!HeaderReadable, Wir!HeaderSize
  <2>4. PICK r : r = SubSeq(c, 13, Len(c))
    OBVIOUS
  <2>5. PICK l \in Nat : l = lc - 12
    BY <1>10
  <2>6. r \in Seq(Int) /\ Len(r) = l /\ \A j \in 1 .. l : r[j] = c[12 + j]
    <3>1. PICK w \in Nat : w = 12
      OBVIOUS
    <3>2. w <= lc
      BY <1>10, <3>1
    <3>3. /\ SubSeq(c, w + 1, Len(c)) \in Seq(Int) /\ Len(SubSeq(c, w + 1, Len(c))) = lc - w
          /\ \A j \in 1 .. lc - w : SubSeq(c, w + 1, Len(c))[j] = c[w + j]
      BY <1>1, <3>2, RestIs
    <3>4. r = SubSeq(c, w + 1, Len(c)) /\ l = lc - w
      BY <2>4, <2>5, <3>1
    <3> QED BY <3>1, <3>3, <3>4
  <2>7. \A j \in 1 .. l : r[j] = whole[j]
    <3>1. ASSUME NEW j \in 1 .. l PROVE r[j] = whole[j]
      <4>1. 12 + j \in 1 .. lc /\ j \in 1 .. lw
        BY <1>1, <1>8, <1>10, <2>5
      <4> QED BY <1>1, <1>8, <2>6, <4>1
    <3> QED BY <3>1
  <2>8. l <= lw
    BY <1>1, <1>8, <2>5
  <2>9. PICK d : d = Wir!Decoded(Wir!Body[type], r)
    OBVIOUS
  <2>10. /\ l = Len(whole) => d.ok = TRUE /\ d.body = body
         /\ l < Len(whole) => d.ok = FALSE
    <3>1. FirstOf(r, l, whole)
      BY <1>7, <2>6, <2>7, <2>8 DEF FirstOf
    <3>2. AllOrNone(Wir!Decoded(Wir!Body[type], r), l, whole, body)
      BY <1>4, <1>5, <3>1, FieldsReadBack
    <3> QED BY <2>9, <3>2 DEF AllOrNone
  <2>11. Wir!FromBytes(c)
           = IF ~d.ok THEN Wir!Nothing
             ELSE [type |-> type, venue |-> c[3], market |-> c[4],
                   ids |-> SubSeq(c, 5, 12), body |-> d.body]
    <3>1. 12 + 1 = 13
      OBVIOUS
    <3> QED BY <1>1, <1>4, <2>2, <2>3, <2>4, <2>9, <3>1, Zenon DEF Wir!FromBytes, Wir!HeaderSize
  <2>12. CASE lc = Len(e)
    <3>1. d.ok = TRUE /\ d.body = body
      BY <1>7, <1>8, <2>5, <2>10, <2>12
    <3>2. SubSeq(c, 5, 12) = ids
      <4>1. \A i \in 5 .. 12 : c[i] \in Int
        <5>1. \A i \in 5 .. 12 : i \in 1 .. lc
          BY <1>10
        <5>2. \A i \in 1 .. lc : c[i] \in Int
          BY <1>1, LenProperties
        <5> QED BY <5>1, <5>2
      <4>2. PICK a \in Int, b \in Int : a = 5 /\ b = 12
        OBVIOUS
      <4>3. /\ SubSeq(c, a, b) \in Seq(Int)
            /\ Len(SubSeq(c, a, b)) = IF a <= b THEN b - a + 1 ELSE 0
            /\ \A i \in 1 .. b - a + 1 : SubSeq(c, a, b)[i] = c[a + i - 1]
        BY <4>1, <4>2, SubSeqProperties
      <4>4. PICK s : s = SubSeq(c, 5, 12)
        OBVIOUS
      <4>5. s \in Seq(Int) /\ Len(s) = 8 /\ \A i \in 1 .. 8 : s[i] = c[4 + i]
        BY <4>2, <4>3, <4>4
      <4>6. ASSUME NEW i \in 1 .. 8 PROVE s[i] = ids[i]
        <5>1. 4 + i \in 1 .. lc
          BY <1>10
        <5> QED BY <1>1, <1>8, <4>5, <5>1
      <4>7. s = [i \in 1 .. 8 |-> s[i]]
        BY <4>5, LenProperties
      <4>8. ids = [i \in 1 .. 8 |-> ids[i]]
        BY <1>4
      <4> QED BY <4>4, <4>6, <4>7, <4>8
    <3>3. Wir!FromBytes(c) = m
      BY <1>4, <2>1, <2>11, <3>1, <3>2
    <3> QED BY <2>12, <3>3
  <2>13. CASE lc < Len(e)
    <3>1. d.ok = FALSE
      BY <1>7, <1>8, <2>5, <2>10, <2>13
    <3>2. Wir!FromBytes(c) = Wir!Nothing
      BY <2>11, <3>1
    <3>3. ~ lc = Len(e)
      BY <1>8, <2>13
    <3> QED BY <3>2, <3>3
  <2> QED BY <1>8, <2>12, <2>13
<1> QED BY <1>9, <1>10

\* A fragment's decoding is what WholeOrRefused asks for.
Decodes(f) == f.part = 1 => Wir!FromBytes(f.cells) = IF f.parts = 1 THEN f.message ELSE Wir!Nothing

\* The fragments that Aeron cuts messages into.
Fragment == UNION {{Wir!Fragments(m)[i] : i \in DOMAIN Wir!Fragments(m)} : m \in Message}

\* The first so many cells of e.
LEMMA FirstCells ==
  ASSUME NEW e \in Seq(Int), NEW w \in Nat, w <= Len(e)
  PROVE  FirstOf(SubSeq(e, 1, w), w, e) /\ w = Len(SubSeq(e, 1, w))
<1>1. PICK n \in Nat : n = Len(e)
  BY LenProperties
<1>2. \A i \in 1 .. w : e[i] \in Int
  <2>1. \A i \in 1 .. w : i \in 1 .. n
    BY <1>1
  <2>2. \A i \in 1 .. n : e[i] \in Int
    BY <1>1, LenProperties
  <2> QED BY <2>1, <2>2
<1>3. PICK a \in Int : a = 1
  OBVIOUS
<1>4. /\ SubSeq(e, a, w) \in Seq(Int)
      /\ Len(SubSeq(e, a, w)) = IF a <= w THEN w - a + 1 ELSE 0
      /\ \A i \in 1 .. w - a + 1 : SubSeq(e, a, w)[i] = e[a + i - 1]
  BY <1>2, <1>3, SubSeqProperties
<1>5. PICK s : s = SubSeq(e, 1, w)
  OBVIOUS
<1>6. s \in Seq(Int) /\ Len(s) = w /\ \A i \in 1 .. w : s[i] = e[i]
  BY <1>3, <1>4, <1>5
<1> QED BY <1>1, <1>5, <1>6 DEF FirstOf

\* An encoded message is longer than a header.
LEMMA EncodedIs ==
  ASSUME NEW m \in Message
  PROVE  Wir!Encode(m) \in Seq(Int) /\ Len(Wir!Encode(m)) >= 12
<1>1. PICK type, ids, body : \E n \in Nat : MadeOf(m, type, ids, body, n)
  BY MessageIs
<1>2. PICK n \in Nat : MadeOf(m, type, ids, body, n)
  BY <1>1
<1>3. PICK whole : whole = Wir!FlattenSeq(Puts(Wir!Body[type], body))
  OBVIOUS
<1>4. whole \in Seq(Int) /\ CellsOf(Wir!Encode(m), type, ids, whole)
  BY <1>2, <1>3, EncodeIs
<1>5. Len(whole) \in Nat
  BY <1>4, LenProperties
<1> QED BY <1>4, <1>5 DEF CellsOf

\* A message that fits a fragment is one; so many fragments are a natural number.
LEMMA PartsAre ==
  ASSUME NEW n \in Nat, n >= 1
  PROVE  /\ (n + Mtu - 1) \div Mtu \in Nat
         /\ n <= Mtu => (n + Mtu - 1) \div Mtu = 1
<1>1. PICK p \in Nat : p = Mtu /\ p >= 1
  BY PartsAssumption
<1>2. PICK x \in Nat : x = n + p - 1
  BY <1>1
<1>3. PICK d : d = x \div p
  OBVIOUS
<1>4. d \in Int /\ p * d <= x /\ x < p * d + p
  BY <1>1, <1>3
<1>5. d \in Nat
  <2>1. ASSUME d < 0 PROVE FALSE
    <3>1. PICK c \in Nat : d = -1 - c
      <4>1. -1 - d \in Nat /\ d = -1 - (-1 - d)
        BY <1>4, <2>1
      <4> QED BY <4>1
    <3>2. p * d + p = -(p * c)
      BY <3>1
    <3>3. p * c \in Nat
      OBVIOUS
    <3> QED BY <1>4, <3>2, <3>3
  <2> QED BY <1>4, <2>1
<1>6. ASSUME n <= p PROVE d = 1
  <2>1. n - 1 \in Nat /\ n - 1 < p /\ 1 * p + (n - 1) = x
    BY <1>2, <1>6
  <2>2. PICK r \in Nat : r = n - 1
    BY <2>1
  <2>3. PICK q \in Nat : q = 1
    OBVIOUS
  <2>4. (q * p + r) \div p = q
    BY <1>1, <2>1, <2>2, OneQuotient
  <2> QED BY <1>3, <2>1, <2>2, <2>3, <2>4
<1> QED BY <1>1, <1>2, <1>3, <1>5, <1>6

\* Of the fragments of a message the first decodes as it should.
LEMMA FragmentsDecode ==
  ASSUME NEW m \in Message
  PROVE  Wir!Fragments(m) \in Seq(Fragment)
         /\ \A i \in DOMAIN Wir!Fragments(m) : Decodes(Wir!Fragments(m)[i])
<1>1. PICK e \in Seq(Int) : e = Wir!Encode(m) /\ Len(e) >= 12
  BY EncodedIs
<1>2. PICK n \in Nat : n = Len(e) /\ n >= 1
  BY <1>1, LenProperties
<1>3. PICK parts \in Nat : parts = (n + Mtu - 1) \div Mtu /\ (n <= Mtu => parts = 1)
  BY <1>2, PartsAre
<1>4. PICK fs : fs = Wir!Fragments(m)
  OBVIOUS
<1>5. fs = [i \in 1 .. parts |->
              [message |-> m, part |-> i, parts |-> parts,
               cells |-> SubSeq(e, (i - 1) * Mtu + 1, IF i = parts THEN n ELSE i * Mtu)]]
  BY <1>1, <1>2, <1>3, <1>4, Zenon DEF Wir!Fragments
<1>6. fs \in Seq(Fragment)
  <2>1. ASSUME NEW i \in 1 .. parts PROVE fs[i] \in Fragment
    <3>1. i \in DOMAIN Wir!Fragments(m)
      BY <1>4, <1>5
    <3> QED BY <1>4, <3>1 DEF Fragment
  <2>2. fs \in [1 .. parts -> Fragment]
    BY <1>5, <2>1
  <2> QED BY <2>2, FunctionIsSeq
<1>7. ASSUME NEW i \in 1 .. parts PROVE Decodes(fs[i])
  <2> SUFFICES ASSUME fs[i].part = 1
               PROVE  Wir!FromBytes(fs[i].cells)
                        = IF fs[i].parts = 1 THEN fs[i].message ELSE Wir!Nothing
    BY DEF Decodes
  <2>1. i = 1
    BY <1>5
  <2>2. PICK w : w = IF i = parts THEN n ELSE Mtu
    OBVIOUS
  <2>3. fs[i].message = m /\ fs[i].parts = parts /\ fs[i].cells = SubSeq(e, 1, w)
    <3>1. (1 - 1) * Mtu + 1 = 1 /\ 1 * Mtu = Mtu
      BY PartsAssumption
    <3> QED BY <1>5, <2>1, <2>2, <3>1
  <2>4. w \in Nat /\ w <= n /\ (w = n <=> parts = 1)
    <3>1. Mtu \in Nat
      BY PartsAssumption
    <3>2. CASE parts = 1
      BY <2>1, <2>2, <3>2
    <3>3. CASE parts # 1
      <4>1. Mtu < n
        BY <1>3, <3>1, <3>3
      <4> QED BY <2>1, <2>2, <3>1, <3>3, <4>1
    <3> QED BY <3>2, <3>3
  <2>5. PICK c : c = SubSeq(e, 1, w)
    OBVIOUS
  <2>6. FirstOf(c, w, e)
    BY <1>2, <2>4, <2>5, FirstCells
  <2>7. /\ w = Len(e) => Wir!FromBytes(c) = m
        /\ w < Len(e) => Wir!FromBytes(c) = Wir!Nothing
    BY <1>1, <2>4, <2>6, MessageReadBack
  <2>8. CASE parts = 1
    BY <1>2, <2>3, <2>4, <2>5, <2>7, <2>8
  <2>9. CASE parts # 1
    <3>1. w < Len(e)
      BY <1>2, <2>4, <2>9
    <3> QED BY <2>3, <2>5, <2>7, <2>9, <3>1
  <2> QED BY <2>8, <2>9
<1>8. DOMAIN fs = 1 .. parts
  BY <1>5
<1> QED BY <1>4, <1>6, <1>7, <1>8

\* Whatever fragment comes, it decodes as it should.
LEMMA FragmentDecodes == \A f \in Fragment : Decodes(f)
BY FragmentsDecode DEF Fragment

\* What is under way, and what was polled last, are fragments of messages.
WireInv == /\ log \in Seq(Fragment) /\ published \in Nat
           /\ polled # <<>> => \E f \in Fragment : polled = <<f, Wir!FromBytes(f.cells)>>

\* A fragment that holds a whole message gives that message, and one that holds
\* only its beginning is refused, wherever it is cut (from_bytes, get_levels, need).
THEOREM MessagesAreWholeOrRefused == Wir!Spec => []WholeOrRefused
<1>1. Wir!Init => WireInv
  BY EmptySeq DEF Wir!Init, WireInv
<1>2. WireInv /\ [Wir!Next]_(Wir!vars) => WireInv'
  <2> SUFFICES ASSUME WireInv, [Wir!Next]_(Wir!vars) PROVE WireInv'
    OBVIOUS
  <2>1. CASE UNCHANGED Wir!vars
    BY <2>1 DEF Wir!vars, WireInv
  <2>2. CASE Wir!Poll
    <3>1. /\ log # <<>> /\ log' = Tail(log) /\ published' = published
          /\ polled' = <<Head(log), Wir!FromBytes(Head(log).cells)>>
      BY <2>2 DEF Wir!Poll
    <3>2. log \in Seq(Fragment) /\ published \in Nat
      BY DEF WireInv
    <3>3. Head(log) \in Fragment /\ Tail(log) \in Seq(Fragment)
      BY <3>1, <3>2, HeadTailProperties
    <3> QED BY <3>1, <3>2, <3>3 DEF WireInv
  <2>3. ASSUME NEW type \in DOMAIN Wir!Body, NEW bids \in Depth, NEW asks \in Depth,
               Wir!Publishes(Wir!Sample(type, published, bids, asks))
        PROVE  WireInv'
    <3>1. PICK m : m = Wir!Sample(type, published, bids, asks)
      OBVIOUS
    <3>2. m \in Message
      <4>1. published \in Nat /\ bids \in Nat /\ asks \in Nat
        BY PartsAssumption DEF WireInv
      <4> QED BY <3>1, <4>1 DEF Message
    <3>3. PICK fs \in Seq(Fragment) : fs = Wir!Fragments(m)
      BY <3>2, FragmentsDecode
    <3>4. /\ published' = published + 1 /\ polled' = polled
          /\ log' = log \o fs \/ log' = log
      BY <2>3, <3>1, <3>3 DEF Wir!Publishes
    <3>5. log \in Seq(Fragment) /\ published \in Nat
      BY DEF WireInv
    <3>6. log \o fs \in Seq(Fragment)
      BY <3>5, ConcatProperties
    <3>7. log' \in Seq(Fragment)
      BY <3>4, <3>5, <3>6
    <3>8. published' \in Nat
      BY <3>4, <3>5
    <3> QED BY <3>4, <3>7, <3>8 DEF WireInv
  <2> QED BY <2>1, <2>2, <2>3 DEF Wir!Next
<1>3. WireInv => WholeOrRefused
  <2> SUFFICES ASSUME WireInv, polled # <<>>, polled[1].part = 1
               PROVE  polled[2] = IF polled[1].parts = 1 THEN polled[1].message ELSE Wir!Nothing
    BY DEF WholeOrRefused, Wir!WholeOrRefused
  <2>1. PICK f \in Fragment : polled = <<f, Wir!FromBytes(f.cells)>>
    BY DEF WireInv
  <2>2. Decodes(f)
    BY FragmentDecodes
  <2>3. polled[1] = f /\ polled[2] = Wir!FromBytes(f.cells)
    BY <2>1
  <2> QED BY <2>2, <2>3 DEF Decodes
<1> QED BY <1>1, <1>2, <1>3, PTL DEF Wir!Spec

------------------------------------------------------------------------------
(***************************************************************************)
(* The parts side by side.                                                 *)
(***************************************************************************)

\* Side by side, as the run has them, the parts keep what each keeps by itself:
\* broadcast, next_frame_at, try_offer_at, tick, run and commit, to_d8, from_bytes.
THEOREM PartsKeepTheirs ==
  Spec => [](/\ ConsumersAgree /\ FramesAreAccountedFor /\ RestartIsEarned
             /\ DifferenceIsCounted /\ OnlySignalsStop /\ RowIsText /\ WholeOrRefused)
BY EachPartIsItself, ConsumersHear, FramesAreCounted, RestartsAreEarned,
   DifferencesAreCounted, BridgeAccounts, RowsAreExact, MessagesAreWholeOrRefused, PTL

=============================================================================
