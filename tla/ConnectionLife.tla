---------------------------- MODULE ConnectionLife ----------------------------
(***************************************************************************)
(* What ConnectionManager::run promises to the code that starts it: a      *)
(* session is down, up or over; it is over only because of a shutdown,     *)
(* for ever, and a shutdown ends it.                                       *)
(***************************************************************************)
VARIABLES
  life,    \* "down", "up" or "over"
  halted   \* the shutdown signal has been sent

lifeVars == <<life, halted>>

LifeInit == life = "down" /\ halted = FALSE

Halt    == ~halted /\ halted' = TRUE /\ UNCHANGED life
Connect == life = "down" /\ life' = "up" /\ UNCHANGED halted
Drop    == life = "up" /\ life' = "down" /\ UNCHANGED halted
Stop    == halted /\ life # "over" /\ life' = "over" /\ UNCHANGED halted

LifeNext == Halt \/ Connect \/ Drop \/ Stop

LifeSpec == LifeInit /\ [][LifeNext]_lifeVars /\ WF_lifeVars(Stop)
==============================================================================
