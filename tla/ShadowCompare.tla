--------------------------- MODULE ShadowCompare ---------------------------
(***************************************************************************)
(* The comparator of two connector generations                             *)
(* (bin/shadow-compare/src/lib.rs): the best quotes of the active and of   *)
(* the shadow stream, compared symbol by symbol at every tick, and the     *)
(* verdict a migration waits for.                                          *)
(*                                                                         *)
(* A channel that is drained as a whole only matters by the last quote of  *)
(* each symbol in it, so that is what it holds.                            *)
(***************************************************************************)
EXTENDS Integers, FiniteSetsExt

CONSTANTS Symbol, Quote,   \* a quote is a record of bid and ask
          Tolerance,       \* tolerance_bps
          MinSamples,      \* min_samples
          MaxPct,          \* max_divergence_pct
          MaxSamples       \* samples of a symbol counted

VARIABLES queued,        \* per stream and symbol the last quote not yet drained
          active_bbo, shadow_bbo,
          samples, divergences, max_diff   \* stats, per symbol

vars == <<queued, active_bbo, shadow_bbo, samples, divergences, max_diff>>

Stream  == {"active", "shadow"}
NoQuote == [bid |-> 0, ask |-> 0]
Silent  == [s \in Symbol |-> NoQuote]
Zero    == [s \in Symbol |-> 0]

Init == /\ queued = [stream \in Stream |-> Silent]
        /\ active_bbo = Silent /\ shadow_bbo = Silent
        /\ samples = Zero /\ divergences = Zero /\ max_diff = Zero

Publishes(stream, s, q) ==
    /\ queued' = [queued EXCEPT ![stream][s] = q]
    /\ UNCHANGED <<active_bbo, shadow_bbo, samples, divergences, max_diff>>

Drained(bbo, stream) ==
    [s \in Symbol |-> IF queued[stream][s] = NoQuote THEN bbo[s] ELSE queued[stream][s]]

DiffBps(a, b) == IF a = 0 THEN 0 ELSE (Max({a - b, b - a}) * 10000) \div a
QuoteDiff(a, b) == Max({DiffBps(a.bid, b.bid), DiffBps(a.ask, b.ask)})

(* Mutant: only the shadow's quotes call for a comparison. *)
Pending_ShadowOnly == {s \in Symbol : queued["shadow"][s] # NoQuote}

(* drain_active and drain_shadow note every symbol that either side quoted. *)
Pending == {s \in Symbol : \E stream \in Stream : queued[stream][s] # NoQuote}

Tick ==
    LET a == Drained(active_bbo, "active")
        b == Drained(shadow_bbo, "shadow")
        compared == {s \in Pending : a[s] # NoQuote /\ b[s] # NoQuote}
        diff == [s \in Symbol |-> IF s \in compared THEN QuoteDiff(a[s], b[s]) ELSE 0]
    IN  /\ \A s \in compared : samples[s] < MaxSamples
        /\ queued' = [stream \in Stream |-> Silent]
        /\ active_bbo' = a /\ shadow_bbo' = b
        /\ samples' = [s \in Symbol |-> samples[s] + (IF s \in compared THEN 1 ELSE 0)]
        /\ divergences' = [s \in Symbol |-> divergences[s] + (IF diff[s] > Tolerance THEN 1 ELSE 0)]
        /\ max_diff' = [s \in Symbol |-> Max({max_diff[s], diff[s]})]

Next == Tick \/ \E stream \in Stream, s \in Symbol, q \in Quote : Publishes(stream, s, q)

Spec == Init /\ [][Next]_vars

Total == MapThenSumSet(LAMBDA s : samples[s], Symbol)
IsAcceptable(s) == divergences[s] * 100 <= MaxPct * samples[s]

Verdict == CASE Total < MinSamples -> "insufficient"
             [] \E s \in Symbol : ~IsAcceptable(s) /\ max_diff[s] > 0 -> "diverging"
             [] OTHER -> "stable"

-----------------------------------------------------------------------------
(* A difference that has outlived a tick was counted, whichever side moved   *)
(* and however long the other has been silent, and with no divergence        *)
(* allowed the verdict says so for good (tick, compare_pending, verdict).    *)
DifferenceIsCounted ==
    \A s \in Symbol :
      /\ active_bbo[s] # NoQuote /\ shadow_bbo[s] # NoQuote
         /\ QuoteDiff(active_bbo[s], shadow_bbo[s]) > Tolerance => divergences[s] > 0
      /\ MaxPct = 0 /\ divergences[s] > 0 => Verdict # "stable"
=============================================================================
