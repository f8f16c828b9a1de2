-------------------------------- MODULE Wire --------------------------------
(***************************************************************************)
(* A message on its way from a publisher to a subscriber: encoded into a   *)
(* buffer (crates/connector-core/src/message.rs, header.rs, codec.rs),     *)
(* offered to Aeron, which cuts it into fragments of the MTU's length, and *)
(* decoded from what one poll of the ClickHouse bridge hands over          *)
(* (bin/clickhouse-bridge/src/main.rs).  The poll takes no assembler, so   *)
(* what is decoded is a fragment.                                          *)
(*                                                                         *)
(* A buffer is a sequence of cells, and every number, flag or text of a    *)
(* message fills one: widths, byte order and UTF-8 are left out, and with  *)
(* them a cut inside a number, which ends as any other cut does.           *)
(***************************************************************************)
EXTENDS Integers, SequencesExt

CONSTANTS BufferSize,   \* the buffer a publisher encodes into, 65536 bytes
          Mtu,          \* what a fragment holds, 1408 bytes less Aeron's header
          Depth,        \* numbers of levels on a side
          MaxMessages   \* messages published

VARIABLES log,          \* fragments offered and not yet polled
          polled,       \* the last fragment polled and what the bridge made of it
          published     \* messages offered so far

vars == <<log, polled, published>>

-----------------------------------------------------------------------------
(* The fields of each message behind its header, in the order in which both  *)
(* encode_into and decode go through them.                                   *)

Plain(n) == [i \in 1 .. n |-> "any"]

ReferenceBody == [InstrumentDefinition |-> Plain(10) \o <<"bool">>,
                  TradingStatus        |-> <<"any", "bool">>]

BookBody == [BookSnapshot |-> Plain(4) \o <<"levels", "levels">>,
             BookDelta    |-> Plain(6) \o <<"levels", "levels">>]

PriceBody == [BestBidOffer |-> Plain(8),
              Trade        |-> Plain(7) \o <<"bool", "side">>,
              MarkPrice    |-> Plain(4),
              FundingRate  |-> Plain(4)]

FlowBody == [Liquidation  |-> Plain(3) \o <<"side">> \o Plain(4),
             OpenInterest |-> Plain(3),
             Heartbeat    |-> <<>>,
             FeedStatus   |-> <<"state">>]

StatusBody == [GapDetected   |-> Plain(3),
               BookStale     |-> <<"any", "reason">>,
               BookRecovered |-> Plain(2),
               AccountUpdate |-> <<>>,
               OrderUpdate   |-> <<>>]

Bodies == <<ReferenceBody, BookBody, PriceBody, FlowBody, StatusBody>>

Body == [type \in UNION {DOMAIN Bodies[i] : i \in DOMAIN Bodies} |->
           LET i == CHOOSE i \in DOMAIN Bodies : type \in DOMAIN Bodies[i]
           IN  Bodies[i][type]]

MessageType == <<"InstrumentDefinition", "TradingStatus", "BookSnapshot", "BookDelta",
                 "BestBidOffer", "Trade", "MarkPrice", "FundingRate", "Liquidation",
                 "OpenInterest", "AccountUpdate", "OrderUpdate", "Heartbeat", "FeedStatus",
                 "GapDetected", "BookStale", "BookRecovered", "BookChecksum">>

Code(type) == CHOOSE i \in DOMAIN MessageType : MessageType[i] = type

(* VenueId, MarketType, AggressorSide, FeedState and BookStaleReason. *)
Valid(field, cell) == CASE field \in {"venue", "market"} -> cell \in 1 .. 2
                        [] field = "side"                -> cell \in 0 .. 2
                        [] field = "state"               -> cell \in 1 .. 7
                        [] field = "reason"              -> cell \in 1 .. 8
                        [] OTHER                         -> TRUE

-----------------------------------------------------------------------------
(* Encoding.                                                                 *)

(* Version, type, venue, market; three ids, the sequence number and four times. *)
HeaderSize == 12

EncodeHeader(m) == <<1, Code(m.type), m.venue, m.market>> \o m.ids

Put(field, value) ==
    CASE field = "levels" -> <<Len(value)>> \o FlattenSeq(value)
      [] field = "bool"   -> <<IF value THEN 1 ELSE 0>>
      [] OTHER            -> <<value>>

Encode(m) == LET fields == Body[m.type]
             IN  EncodeHeader(m) \o FlattenSeq([i \in DOMAIN fields |-> Put(fields[i], m.body[i])])

-----------------------------------------------------------------------------
(* Decoding. What it refuses is Nothing.                                     *)

Nothing == [type |-> "none"]

(* Mutant: the quantity is read before the price. *)
Levels_Swapped(cells) == [i \in 1 .. cells[1] |-> <<cells[2 * i + 1], cells[2 * i]>>]

Levels(cells) == [i \in 1 .. cells[1] |-> <<cells[2 * i], cells[2 * i + 1]>>]

Width(field, cells) == IF field = "levels" THEN 1 + 2 * cells[1] ELSE 1

Readable(field, cells) ==
    cells # <<>> /\ Width(field, cells) <= Len(cells) /\ Valid(field, cells[1])

Get(field, cells) == CASE field = "levels" -> Levels(cells)
                       [] field = "bool"   -> cells[1] # 0
                       [] OTHER            -> cells[1]

(* The first error ends it (the ? of every field). *)
Decoded(fields, cells) ==
    FoldLeft(LAMBDA d, field :
               IF d.ok /\ Readable(field, d.left)
               THEN [ok   |-> TRUE,
                     body |-> Append(d.body, Get(field, d.left)),
                     left |-> SubSeq(d.left, Width(field, d.left) + 1, Len(d.left))]
               ELSE [d EXCEPT !.ok = FALSE],
             [ok |-> TRUE, body |-> <<>>, left |-> cells], fields)

HeaderReadable(cells) == /\ Len(cells) >= HeaderSize
                         /\ cells[2] \in DOMAIN MessageType
                         /\ Valid("venue", cells[3]) /\ Valid("market", cells[4])

(* The version is not looked at, cells behind the last field neither, and a *)
(* checksum belongs to another stream.                                      *)
FromBytes(cells) ==
    IF ~HeaderReadable(cells) \/ MessageType[cells[2]] \notin DOMAIN Body THEN Nothing
    ELSE LET type == MessageType[cells[2]]
             d    == Decoded(Body[type], SubSeq(cells, HeaderSize + 1, Len(cells)))
         IN  IF ~d.ok THEN Nothing
             ELSE [type |-> type, venue |-> cells[3], market |-> cells[4],
                   ids |-> SubSeq(cells, 5, HeaderSize), body |-> d.body]

-----------------------------------------------------------------------------
(* Messages told apart by number, type and levels; the levels of a side, and *)
(* the other fields, differ from each other.                                 *)
Sample(type, number, bids, asks) ==
    LET side(i) == IF i = Len(Body[type]) THEN asks ELSE bids
    IN  [type |-> type, venue |-> 1, market |-> 1,
         ids  |-> [i \in 1 .. HeaderSize - 4 |-> 100 * number + i],
         body |-> [i \in DOMAIN Body[type] |->
                     CASE Body[type][i] = "levels" -> [k \in 1 .. side(i) |-> <<k, 50 + k>>]
                       [] Body[type][i] = "bool"   -> TRUE
                       [] Body[type][i] = "any"    -> 20 + i
                       [] OTHER                    -> 1]]

Init == log = <<>> /\ polled = <<>> /\ published = 0

(* Aeron's cut; the bytes of a fragment are all it hands to the poller. *)
Fragments(m) ==
    LET cells == Encode(m)
        parts == (Len(cells) + Mtu - 1) \div Mtu
    IN  [i \in 1 .. parts |->
           [message |-> m, part |-> i, parts |-> parts,
            cells   |-> SubSeq(cells, (i - 1) * Mtu + 1, IF i = parts THEN Len(cells) ELSE i * Mtu)]]

(* A message that the buffer cannot hold is not offered. *)
Publishes(m) ==
    /\ published < MaxMessages /\ published' = published + 1
    /\ log' = IF Len(Encode(m)) <= BufferSize THEN log \o Fragments(m) ELSE log
    /\ UNCHANGED polled

(* What is shorter than a header is passed over, what does not decode is     *)
(* written to the debug log.                                                 *)
Poll == /\ log # <<>>
        /\ polled' = <<Head(log), FromBytes(Head(log).cells)>>
        /\ log' = Tail(log)
        /\ UNCHANGED published

Next == \/ Poll
        \/ \E type \in DOMAIN Body, bids, asks \in Depth :
             Publishes(Sample(type, published, bids, asks))

Spec == Init /\ [][Next]_vars

-----------------------------------------------------------------------------
(* A fragment that holds a whole message gives that message, with its levels  *)
(* on their sides and in their order, and one that holds only its beginning   *)
(* is refused, wherever it is cut (from_bytes, get_levels, need).             *)
WholeOrRefused ==
    polled # <<>> /\ polled[1].part = 1 =>
      polled[2] = IF polled[1].parts = 1 THEN polled[1].message ELSE Nothing

(* README.md:248: every Aeron fragment is a header and its payload.           *)
FragmentsAreMessages == polled # <<>> => polled[2] = polled[1].message
=============================================================================
