--------------------------- MODULE MCOrderGateway ---------------------------
(* OrderGateway with trades of different sizes, of which two or three fill *)
(* an order exactly, and without trades where only ids matter. *)
EXTENDS OrderGateway

ThreeTrades == 1 .. 3
NoTrades    == {}
MCSize      == [t \in Trade |-> IF t = 3 THEN 2 ELSE 1]
=============================================================================
