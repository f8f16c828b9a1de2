------------------------------ MODULE Decimals ------------------------------
(***************************************************************************)
(* What becomes of a decimal the venue sends as text: the adapters scale   *)
(* it to an integer (parse_scaled of the futures and spot normalizers, the *)
(* same algorithm in refdata and order-gateway), the message carries the   *)
(* integer and its scale, and the ClickHouse bridge rescales it to the     *)
(* columns' fixed scale (to_d8 of bin/clickhouse-bridge/src/rows.rs).      *)
(*                                                                         *)
(* A text is its sign, its integer part and the digits behind the point.   *)
(* Numbers stay far from the width of an i64.                              *)
(***************************************************************************)
EXTENDS Integers, Sequences, SequencesExt

CONSTANTS Digit,       \* digits used in the texts
          MaxWhole,    \* largest integer part
          MaxDigits,   \* digits behind the point
          MaxScale,    \* largest scale of an instrument
          RowScale     \* scale of the columns, 8 in the code

VARIABLES text, scale,
          mantissa,    \* the scaled integer of the message
          row,         \* the integer stored in the column
          stage        \* waits, read, normalised, stored

vars == <<text, scale, mantissa, row, stage>>

Text == [negative : BOOLEAN, whole : 0 .. MaxWhole, frac : SeqOf(Digit, MaxDigits)]

Nought == [negative |-> FALSE, whole |-> 0, frac |-> <<>>]

Init == /\ text = Nought /\ scale = 0
        /\ mantissa = 0 /\ row = 0 /\ stage = "waits"

Reads == /\ stage = "waits" /\ stage' = "read"
         /\ text' \in Text /\ scale' \in 0 .. MaxScale
         /\ UNCHANGED <<mantissa, row>>

(* What pow makes of ten, for exponents that are not negative. *)
TenTo[n \in Nat] == IF n = 0 THEN 1 ELSE 10 * TenTo[n - 1]

Number(digits) == FoldLeft(LAMBDA n, d : 10 * n + d, 0, digits)

(* Digits beyond the scale are cut off, missing ones are zeros. *)
Padded(digits, n) == [i \in 1 .. n |-> IF i <= Len(digits) THEN digits[i] ELSE 0]

(* The sign belongs to the integer part alone, and is lost with a zero. *)
Whole(t) == IF t.negative THEN -t.whole ELSE t.whole

Least(a, b) == IF a < b THEN a ELSE b

(* The copy of the spot and futures normalizers. *)
ParseScaled(t, n) == Whole(t) * TenTo[n] + Number(Padded(t.frac, n))

(* The copy of refdata cuts the digits first and appends zeros. *)
ParseRefdata(t, n) ==
    LET kept == SubSeq(t.frac, 1, Least(Len(t.frac), n))
    IN  Whole(t) * TenTo[n] + Number(kept \o [i \in 1 .. n - Len(kept) |-> 0])

(* The copy of order-gateway passes over an empty fraction, and appends its  *)
(* zeros to what it keeps of the digits. Its scales have at least one digit. *)
ParseGateway(t, n) ==
    LET available == Least(Len(t.frac), n)
    IN  Whole(t) * TenTo[n]
          + IF t.frac = <<>> THEN 0
            ELSE Number(SubSeq(t.frac, 1, available) \o [i \in 1 .. n - available |-> 0])

(* The text meets one of the copies of the algorithm. *)
Normalises ==
    /\ stage = "read" /\ stage' = "normalised"
    /\ \/ mantissa' = ParseScaled(text, scale)
       \/ mantissa' = ParseRefdata(text, scale)
       \/ scale > 0 /\ mantissa' = ParseGateway(text, scale)
    /\ UNCHANGED <<text, scale, row>>

(* Division of a signed integer drops the remainder towards zero. *)
Quotient(n, d) == IF n < 0 THEN -((-n) \div d) ELSE n \div d

(* Mutant: a finer scale is stored as it is. *)
ToRow_NoDivision(m, n) == IF n <= RowScale THEN m * TenTo[RowScale - n] ELSE m

ToRow(m, n) == IF n <= RowScale THEN m * TenTo[RowScale - n]
               ELSE Quotient(m, TenTo[n - RowScale])

Stores ==
    /\ stage = "normalised" /\ stage' = "stored"
    /\ row' = ToRow(mantissa, scale)
    /\ UNCHANGED <<text, scale, mantissa>>

Next == Reads \/ Normalises \/ Stores

Spec == Init /\ [][Next]_vars

-----------------------------------------------------------------------------
(* The value of the text times ten to the n, without its sign and without    *)
(* what lies beyond n digits, counted on the text as a whole.                *)
Magnitude(t, n) ==
    LET all   == TenTo[Len(t.frac)] * t.whole + Number(t.frac)
    IN  IF n >= Len(t.frac) THEN all * TenTo[n - Len(t.frac)]
        ELSE all \div TenTo[Len(t.frac) - n]

(* What is stored of a number that is not negative is the number, cut at the *)
(* coarser of the two scales, whichever copy read it (parse_scaled, to_d8).  *)
RowIsText ==
    stage = "stored" /\ ~text.negative =>
      LET n == Least(scale, RowScale)
      IN  row = Magnitude(text, n) * TenTo[RowScale - n]

(* message.rs:391: a field is scaled as "rate * 10^funding_rate_scale",      *)
(* negative rates included.                                                  *)
RateKeepsSign ==
    stage = "normalised" /\ text.negative => mantissa = -Magnitude(text, scale)
=============================================================================
