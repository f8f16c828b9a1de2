---------------------------- MODULE Backpressure ----------------------------
(***************************************************************************)
(* The back-pressure guard of a publication                                *)
(* (crates/aeron-publisher/src/backpressure.rs) under a caller that offers *)
(* whenever it likes, with the outcomes an Aeron publication can have.     *)
(***************************************************************************)
EXTENDS Integers

CONSTANTS WarnAt, DegradeAt, RestartAt,   \* warn_ns, degrade_ns, restart_ns
          MaxNow                          \* last reading of the clock

VARIABLES bp_start,   \* when the window began, -1 if there is none
          warned,     \* the warning of the window has been logged
          outcome,    \* what the last offer came to
          now,
          relieved,   \* last reading at which an offer did not meet back pressure
          warnings    \* warnings logged since

vars == <<bp_start, warned, outcome, now, relieved, warnings>>

Init == /\ bp_start = -1 /\ warned = FALSE /\ outcome = "none"
        /\ now = 0 /\ relieved = -1 /\ warnings = 0

ClockAdvances == /\ now < MaxNow /\ now' = now + 1
                 /\ UNCHANGED <<bp_start, warned, outcome, relieved, warnings>>

(* Mutant: the window outlives the message that got through. *)
WindowAfter_Kept == bp_start

WindowAfter == -1

(* An accepted offer, a terminal failure or a call of reset ends the window. *)
Relieved(result) ==
    /\ bp_start' = WindowAfter /\ warned' = FALSE /\ outcome' = result
    /\ relieved' = now /\ warnings' = 0
    /\ UNCHANGED now

Accepted == Relieved("accepted")
Closed   == Relieved("closed")
Resets   == Relieved("none")

Opened == IF bp_start = -1 THEN now ELSE bp_start

Escalated(elapsed) ==
    CASE elapsed >= RestartAt -> "restart"
      [] elapsed >= DegradeAt -> "degrade"
      [] elapsed >= WarnAt    -> "warned"
      [] OTHER                -> "retrying"

(* Back pressure and an admin action both keep the window open. *)
Start(admin) == Opened

Refused(admin) ==
    LET result == Escalated(now - Start(admin))
    IN  /\ bp_start' = Start(admin) /\ outcome' = result
        /\ warned'   = (warned \/ result = "warned")
        /\ warnings' = IF result = "warned" /\ ~warned THEN warnings + 1 ELSE warnings
        /\ UNCHANGED <<now, relieved>>

Next == \/ ClockAdvances \/ Accepted \/ Closed \/ Resets
        \/ \E admin \in BOOLEAN : Refused(admin)

Spec == Init /\ [][Next]_vars

-----------------------------------------------------------------------------
(* The guard asks for a restart only when nothing has got through for as     *)
(* long as the restart threshold, and warns once until something does        *)
(* (try_offer_at, reset).                                                    *)
RestartIsEarned ==
    /\ outcome = "restart" => now - relieved >= RestartAt
    /\ warnings <= 1

=============================================================================
