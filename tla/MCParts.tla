------------------------------ MODULE MCParts ------------------------------
(***************************************************************************)
(* The parts of the system that meet no other while they run, checked in   *)
(* one go: a behaviour is one of the part it chose at the start, and the   *)
(* rest of the variables stand still.                                      *)
(***************************************************************************)
EXTENDS Integers, Sequences, FiniteSets

CONSTANTS Symbol, Shard, MaxChanges, MaxMissing, IdleUpTo,               \* Refdata
          Recording, Timing, MaxNow, MaxFaults, MaxResets,               \* Replayer
          WarnAt, DegradeAt, RestartAt, MaxClock,                        \* Backpressure
          Quote, Tolerance, MinSamples, MaxPct, MaxSamples,              \* ShadowCompare
          Table, Other, MaxReceived,                                     \* Bridge
          Digit, MaxWhole, MaxDigits, MaxScale, RowScale,                \* Decimals
          BufferSize, Mtu, Depth, MaxMessages                            \* Wire

(* Symbols and shards are finite in number, prices are counted in ticks, what *)
(* is configured is not negative, a decimal has digits from 0 to 9, and a     *)
(* fragment holds something.                                                  *)
ASSUME PartsAssumption ==
    /\ IsFiniteSet(Symbol) /\ IsFiniteSet(Shard)
    /\ MaxFaults \in Nat
    /\ RestartAt \in Nat /\ DegradeAt \in Nat /\ WarnAt \in Nat
    /\ Quote \subseteq [bid : Nat, ask : Nat] /\ Tolerance \in Nat /\ MaxPct \in Nat
    /\ Digit \subseteq 0 .. 9 /\ MaxWhole \in Nat /\ MaxDigits \in Nat
    /\ MaxScale \in Nat /\ RowScale \in Nat
    /\ Depth \subseteq Nat /\ Mtu \in Nat \ {0}

VARIABLES part,
          venue, instruments, next_seq, pc, events, known, status, changes, missing,
          timing, cursor, start_real, virtual, pending, stats, event, now, faults, resets,
          bp_start, warned, outcome, clock, relieved, warnings,
          queued, active_bbo, shadow_bbo, samples, divergences, max_diff,
          main, poll, ready, signal, killed, channel, buffered, stored, logged, received,
          text, scale, mantissa, row, stage,
          log, polled, published

Ref == INSTANCE Refdata

\* Four frames, two of them captured at once; slower, as recorded and without a gate.
MCRecording == <<5, 6, 6, 8>>
MCTiming == {[name |-> "fast", num |-> 1, den |-> 1],
             [name |-> "deterministic", num |-> 1, den |-> 1],
             [name |-> "scaled", num |-> 1, den |-> 1],
             [name |-> "scaled", num |-> 3, den |-> 2]}
Rep == INSTANCE Replayer

Back == INSTANCE Backpressure WITH MaxNow <- MaxClock, now <- clock

\* Two quotes whose bids are within the tolerance and whose asks are not.
MCQuote == {[bid |-> 10000, ask |-> 10002], [bid |-> 10001, ask |-> 10005]}
Shadow == INSTANCE ShadowCompare

Brg == INSTANCE Bridge WITH MaxMessages <- MaxReceived

Dec == INSTANCE Decimals

Wir == INSTANCE Wire

refdata   == <<venue, instruments, next_seq, pc, events, known, status, changes, missing>>
replay    == <<timing, cursor, start_real, virtual, pending, stats, event, now, faults, resets>>
guard     == <<bp_start, warned, outcome, clock, relieved, warnings>>
compare   == <<queued, active_bbo, shadow_bbo, samples, divergences, max_diff>>
bridge    == <<main, poll, ready, signal, killed, channel, buffered, stored, logged, received>>
decimals  == <<text, scale, mantissa, row, stage>>
wire      == <<log, polled, published>>
vars      == <<part, refdata, replay, guard, compare, bridge, decimals, wire>>

Init == /\ part \in {"refdata", "replay", "guard", "compare", "bridge", "decimals", "wire"}
        /\ Ref!Init /\ (part = "refdata" \/ venue = [s \in Symbol |-> Ref!None])
        /\ Rep!Init /\ (part = "replay" \/ timing.name = "fast")
        /\ Back!Init /\ Shadow!Init /\ Brg!Init /\ Dec!Init /\ Wir!Init

RefStep(A)  == part = "refdata" /\ A /\ UNCHANGED <<part, replay, guard, compare, bridge, decimals, wire>>
BrgStep(A)  == part = "bridge" /\ A /\ UNCHANGED <<part, refdata, replay, guard, compare, decimals, wire>>

Next == \/ RefStep(Ref!Next)
        \/ /\ part = "replay" /\ Rep!Next
           /\ UNCHANGED <<part, refdata, guard, compare, bridge, decimals, wire>>
        \/ /\ part = "guard" /\ Back!Next
           /\ UNCHANGED <<part, refdata, replay, compare, bridge, decimals, wire>>
        \/ /\ part = "compare" /\ Shadow!Next
           /\ UNCHANGED <<part, refdata, replay, guard, bridge, decimals, wire>>
        \/ BrgStep(Brg!Next)
        \/ /\ part = "decimals" /\ Dec!Next
           /\ UNCHANGED <<part, refdata, replay, guard, compare, bridge, wire>>
        \/ /\ part = "wire" /\ Wir!Next
           /\ UNCHANGED <<part, refdata, replay, guard, compare, bridge, decimals>>

\* The fairness of Refdata and of Bridge, for their steps here.
Spec == /\ Init /\ [][Next]_vars
        /\ WF_vars(RefStep(Ref!Ticks)) /\ SF_vars(RefStep(Ref!Fetched))
        /\ WF_vars(RefStep(Ref!Broadcast))
        /\ WF_vars(BrgStep(Brg!Steps)) /\ WF_vars(BrgStep(Brg!WatcherExits))

-----------------------------------------------------------------------------

(* A consumer has the registry's definition and status of every symbol it has *)
(* not been refused an offer of since (RefDataPublisher::broadcast).          *)
ConsumersAgree == Ref!ConsumersAgree

(* The registry comes to hold what the exchange lists (RefDataService::run). *)
RegistryCatchesUp == Ref!RegistryCatchesUp

(* Frames passed over are delivered or dropped (Replayer::next_frame_at).    *)
FramesAreAccountedFor == Rep!FramesAreAccountedFor

(* A restart is asked for only after a whole threshold without relief        *)
(* (BackpressureGuard::try_offer_at).                                        *)
RestartIsEarned == Back!RestartIsEarned

(* A difference that outlives a tick is counted (Comparator::tick).          *)
DifferenceIsCounted == Shadow!DifferenceIsCounted

(* No row of a table leaves the bridge unaccounted for, but by a signal      *)
(* (write, commit, end).                                                     *)
OnlySignalsStop == Brg!OnlySignalsStop

(* A signal ends the bridge once ClickHouse is there (install_sigint_handler). *)
SignalEnds == Brg!SignalEnds

(* The column holds the venue's number, cut at the coarser scale (to_d8).    *)
RowIsText == Dec!RowIsText

(* A message that fits a fragment arrives as it was published, and the       *)
(* beginning of a longer one is refused (from_bytes, get_levels).            *)
WholeOrRefused == Wir!WholeOrRefused

=============================================================================
