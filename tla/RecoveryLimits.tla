---------------------------- MODULE RecoveryLimits ----------------------------
(***************************************************************************)
(* The two limits on recovery, identical in both adapters: the bounded     *)
(* recovery buffer (recovery_buffer.rs, with push_to_recovery of the shard *)
(* loop) and the circuit breaker on recovery attempts (circuit_breaker.rs).*)
(*                                                                         *)
(* Time is the remaining cooldown: open_until - now, counted down by       *)
(* CooldownPasses.  That the oldest event is too old, or the byte budget   *)
(* spent, is an input of the push: both need a buffer that is not empty.   *)
(***************************************************************************)
EXTENDS Integers, Sequences

CONSTANTS
  MaxEvents,    \* RecoveryBuffer::max_events
  MaxAttempts,  \* CircuitBreaker::max_attempts
  Cooldown      \* CircuitBreaker::cooldown_ns, in steps of the clock

ASSUME LimitsAssumption ==
  /\ MaxEvents \in Nat \ {0}
  /\ MaxAttempts \in Nat \ {0}
  /\ Cooldown \in Nat \ {0}

------------------------------------------------------------------------------
\* Recovery buffer

Overflows(buf, ageOrBytes) ==
  \/ ageOrBytes /\ buf # <<>>
  \/ Len(buf) >= MaxEvents

\* A push without the event limit.
Pushed_NoLimit(buf, d, ageOrBytes) ==
  IF ageOrBytes /\ buf # <<>> THEN <<>> ELSE Append(buf, d)

\* push_to_recovery: on overflow the delta is not stored and the buffer is
\* cleared, so the delta and everything buffered before it are gone.
Pushed(buf, d, ageOrBytes) ==
  IF Overflows(buf, ageOrBytes) THEN <<>> ELSE Append(buf, d)

------------------------------------------------------------------------------
\* Circuit breaker: open stands for open_until.is_some(), wait for the time
\* left until then.

Circuit == [failures : 0..MaxAttempts, open : BOOLEAN, wait : 0..Cooldown]

NewCircuit == [failures |-> 0, open |-> FALSE, wait |-> 0]

\* A check whose automatic reset forgets the failure counter.
Checked_KeepsFailures(c) ==
  IF c.open /\ c.wait = 0 THEN [c EXCEPT !.open = FALSE] ELSE c

\* A check that never resets an open circuit.
Checked_NoReset(c) == c

\* check(now): an expired cooldown closes the circuit and clears the counter.
Checked(c) == IF c.open /\ c.wait = 0 THEN NewCircuit ELSE c

\* record_success
Succeeded(c) == NewCircuit

\* record_failure(now), wait being what is left of the cooldown by the time
\* the call is made; an open circuit keeps its deadline.
Failed(c, wait) ==
  IF c.open THEN c
  ELSE IF c.failures + 1 >= MaxAttempts
       THEN [failures |-> c.failures + 1, open |-> TRUE, wait |-> wait]
       ELSE [c EXCEPT !.failures = @ + 1]

\* The value record_failure returns: this failure just opened the circuit.
JustOpened(c, c2) == ~c.open /\ c2.open
==============================================================================
