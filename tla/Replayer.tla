------------------------------ MODULE Replayer ------------------------------
(***************************************************************************)
(* The replayer of recorded frames (crates/replay/src/replayer.rs): when   *)
(* it hands out the next frame under each timing, which frames the fault   *)
(* injector drops, corrupts or repeats, and the time it gives them.        *)
(*                                                                         *)
(* The pseudo-random rolls of the fault injector are a choice; whoever     *)
(* polls may do so at any time, and its clock does not go back.            *)
(***************************************************************************)
EXTENDS Integers, Sequences

CONSTANTS Recording,  \* captured_at_ns of the recorded frames, in order
          Timing,     \* the timings replayed: records with a name, num and den
          MaxNow,     \* last reading of the caller's clock
          MaxFaults,  \* rolls of the fault injector that hit
          MaxResets   \* resets in a behaviour

VARIABLES timing,       \* base_timing of the mode
          cursor,       \* frames consumed
          start_real,   \* reading of the clock at the first poll, -1 before it
          virtual,      \* the virtual clock of the deterministic timing
          pending,      \* the duplicate to hand out next, 0 if there is none
          stats,        \* frames delivered, dropped, corrupted and duplicated
          event,        \* what the last poll handed out
          now, faults, resets

vars == <<timing, cursor, start_real, virtual, pending, stats, event, now, faults, resets>>

Frames  == Len(Recording)
NoStats == [delivered |-> 0, dropped |-> 0, corrupted |-> 0, duplicated |-> 0]
Event(i, dup, ts) == [frame |-> i, duplicate |-> dup, ts |-> ts]
NoEvent == Event(0, FALSE, 0)

Init == /\ timing \in Timing
        /\ cursor = 0 /\ start_real = -1 /\ virtual = Recording[1] /\ pending = 0
        /\ stats = NoStats /\ event = NoEvent
        /\ now = 0 /\ faults = 0 /\ resets = 0

ClockAdvances ==
    /\ now < MaxNow /\ now' = now + 1
    /\ UNCHANGED <<timing, cursor, start_real, virtual, pending, stats, event, faults, resets>>

(* A duplicate is handed out before the timing is looked at. *)
PollDuplicate ==
    /\ pending # 0 /\ pending' = 0
    /\ event' = Event(pending, TRUE, event.ts)
    /\ stats' = [stats EXCEPT !.duplicated = @ + 1]
    /\ UNCHANGED <<timing, cursor, start_real, virtual, now, faults, resets>>

Gated == timing.name = "scaled"
Start == IF start_real = -1 THEN now ELSE start_real

(* When frame i is due; the original timing is scaled by one. *)
EmitAt(i) == Start + ((Recording[i] - Recording[1]) * timing.num) \div timing.den

Due(i) == Gated => now >= EmitAt(i)
Started == IF Gated /\ cursor < Frames THEN Start ELSE start_real

(* The clock moves by the time between the frame and the one recorded before *)
(* it, whether or not that one was delivered.                                *)
AdvanceVirtualClock(i) ==
    CASE timing.name # "deterministic" -> Recording[i]
      [] i = 1 -> virtual
      [] OTHER -> virtual + Recording[i] - Recording[i - 1]

(* One poll passes over frames it drops, each at its own due time, and hands *)
(* out the next one, perhaps corrupted, perhaps to be repeated.              *)
PollReady(drops, corrupt, dup) ==
    LET i   == cursor + drops + 1
        hit == drops + (IF corrupt THEN 1 ELSE 0) + (IF dup THEN 1 ELSE 0)
    IN  /\ pending = 0 /\ i <= Frames
        /\ \A j \in cursor + 1 .. i : Due(j)
        /\ faults + hit <= MaxFaults /\ faults' = faults + hit
        /\ cursor' = i /\ start_real' = Started
        /\ virtual' = IF timing.name = "deterministic" THEN AdvanceVirtualClock(i) ELSE virtual
        /\ event' = Event(i, FALSE, AdvanceVirtualClock(i))
        /\ pending' = IF dup THEN i ELSE 0
        /\ stats' = [stats EXCEPT !.delivered = @ + 1, !.dropped = @ + drops,
                                  !.corrupted = @ + (IF corrupt THEN 1 ELSE 0)]
        /\ UNCHANGED <<timing, now, resets>>

(* Nothing is handed out: every frame left is dropped, or the next one is not *)
(* due after the drops (none, if it was not due at once).                     *)
PollNothing(drops) ==
    LET i == cursor + drops
    IN  /\ pending = 0 /\ i <= Frames
        /\ \A j \in cursor + 1 .. i : Due(j)
        /\ i < Frames => ~Due(i + 1)
        /\ faults + drops <= MaxFaults /\ faults' = faults + drops
        /\ cursor' = i /\ start_real' = Started
        /\ stats' = [stats EXCEPT !.dropped = @ + drops]
        /\ UNCHANGED <<timing, virtual, pending, event, now, resets>>

(* Mutant: the duplicate of the last run is still handed out. *)
PendingAfterReset_Kept == pending

PendingAfterReset == 0

Reset ==
    /\ resets < MaxResets /\ resets' = resets + 1
    /\ cursor' = 0 /\ start_real' = -1 /\ virtual' = Recording[1]
    /\ pending' = PendingAfterReset /\ stats' = NoStats /\ event' = NoEvent
    /\ UNCHANGED <<timing, now, faults>>

Next == \/ ClockAdvances \/ PollDuplicate \/ Reset
        \/ \E drops \in 0 .. MaxFaults :
             \/ \E corrupt, dup \in BOOLEAN : PollReady(drops, corrupt, dup)
             \/ PollNothing(drops)

Spec == Init /\ [][Next]_vars

-----------------------------------------------------------------------------
(* Every frame the cursor has passed was delivered or dropped, and only a    *)
(* frame delivered since the reset is repeated or waits to be (the counters  *)
(* of next_frame_at, reset).                                                 *)
FramesAreAccountedFor ==
    /\ stats.delivered + stats.dropped = cursor
    /\ stats.duplicated + (IF pending = 0 THEN 0 ELSE 1) <= stats.delivered
    /\ pending # 0 => pending = cursor /\ event.frame = pending

=============================================================================
