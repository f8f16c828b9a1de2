------------------------------- MODULE Refdata -------------------------------
(***************************************************************************)
(* Reference data (crates/refdata): RefDataService::run fetches the        *)
(* exchange's list of instruments at each tick, InstrumentRegistry turns   *)
(* the difference into events, and RefDataPublisher::broadcast offers each *)
(* event to every shard, the definition before the trading status.         *)
(*                                                                         *)
(* A definition is what the exchange lists of a symbol: its trading status *)
(* and its terms, which stand for the nine other business fields.  The     *)
(* exchange and the consumer that keeps what it hears last are modelled    *)
(* around the code; a refused offer is one whose result is not Ok.         *)
(***************************************************************************)
EXTENDS Integers, SequencesExt

CONSTANTS Symbol, Shard,
          MaxChanges,   \* changes of the exchange's list in a behaviour
          MaxMissing,   \* bound: symbols at consumers that lack something at a time
          IdleUpTo      \* sequence number up to which a refresh may find nothing new

VARIABLES venue,        \* what the exchange lists of each symbol
          instruments,  \* the registry: the definition of each symbol it has seen
          next_seq,     \* the registry's sequence number
          pc,           \* the service: "starts", "waits", "fetches", "publishes", "stopped"
          events,       \* the events still to be published
          known,        \* each shard's consumer: the definition it has of each symbol
          status,       \* and the trading status it was told last
          missing,      \* history: <<shard, symbol>> some of whose last offers were refused
          changes

vars == <<venue, instruments, next_seq, pc, events, known, status, changes, missing>>

Terms      == 0 .. 1
Definition == [terms : Terms, trading : BOOLEAN]
None       == [terms |-> -1, trading |-> FALSE]
NoStatus   == [trading |-> FALSE, seq |-> -1]

Init == /\ venue \in [Symbol -> {None, [terms |-> 0, trading |-> TRUE]}]
        /\ instruments = [s \in Symbol |-> None] /\ next_seq = 0
        /\ pc = "starts" /\ events = <<>>
        /\ known  = [sh \in Shard |-> [s \in Symbol |-> None]]
        /\ status = [sh \in Shard |-> [s \in Symbol |-> NoStatus]]
        /\ changes = 0 /\ missing = {}

service  == <<instruments, next_seq, pc, events>>
consumer == <<known, status>>

(* The exchange lists a symbol, halts it, changes its terms or delists it. *)
VenueChanges(s) ==
    /\ changes < MaxChanges /\ changes' = changes + 1
    /\ \E def \in {None} \cup Definition :
         def # venue[s] /\ venue' = [venue EXCEPT ![s] = def]
    /\ UNCHANGED <<service, consumer, missing>>

(* Refreshes that find nothing new only use up numbers: IdleUpTo bounds them. *)
(* Those that do are one more than the changes, at most.                      *)
SeqLimit == IdleUpTo + Cardinality(Symbol) * (MaxChanges + 2)

NewsAtVenue == \E s \in Symbol : venue[s] \notin {None, instruments[s]}

Ticks ==
    /\ pc = "waits" /\ pc' = "fetches"
    /\ next_seq <= IdleUpTo \/ (NewsAtVenue /\ next_seq <= SeqLimit)
    /\ UNCHANGED <<venue, instruments, next_seq, events, consumer, changes, missing>>

Fetching == pc \in {"starts", "fetches"}

(* A refresh that fails, be it one symbol that does not parse, is logged and *)
(* tried again at the next tick; the very first one ends the service.        *)
FetchFails ==
    /\ Fetching
    /\ pc' = IF pc = "starts" THEN "stopped" ELSE "waits"
    /\ UNCHANGED <<venue, instruments, next_seq, events, consumer, changes, missing>>

(* Mutant: the terms are not compared. *)
BusinessFieldsDiffer_TradingOnly(a, b) == a.trading # b.trading

BusinessFieldsDiffer(a, b) == a # b

(* InstrumentRegistry::upsert: the registry after a definition and the event *)
(* it gives rise to, if any; the status belongs to it when it is new or      *)
(* trading has flipped.                                                      *)
Upsert(reg, def, s) ==
    LET prev  == reg.instruments[s]
        event == [symbol |-> s, def |-> def, seq |-> reg.next_seq,
                  withStatus |-> prev = None \/ prev.trading # def.trading]
        differs == prev = None \/ BusinessFieldsDiffer(prev, def)
    IN  [instruments |-> IF differs THEN [reg.instruments EXCEPT ![s] = def]
                         ELSE reg.instruments,
         next_seq    |-> reg.next_seq + 1,
         events      |-> IF differs THEN Append(reg.events, event) ELSE reg.events]

(* InstrumentRegistry::apply_batch, in the order of the exchange's list. *)
ApplyBatch(reg, listed) ==
    FoldLeft(LAMBDA r, s : Upsert(r, venue[s], s), reg, listed)

Fetched ==
    /\ Fetching
    /\ LET listed == SetToSeq({s \in Symbol : venue[s] # None})
           reg == ApplyBatch([instruments |-> instruments, next_seq |-> next_seq,
                              events |-> <<>>], listed)
       IN  /\ instruments' = reg.instruments /\ next_seq' = reg.next_seq
           /\ events' = reg.events
           /\ pc' = IF reg.events = <<>> THEN "waits" ELSE "publishes"
    /\ UNCHANGED <<venue, consumer, changes, missing>>

(* Mutant: the status goes out before the definition, to the shards that *)
(* take the definition only.                                             *)
Heard_StatusAlone(event, defOk, statusOk) ==
    [known  |-> [sh \in Shard |-> [known[sh] EXCEPT
                   ![event.symbol] = IF sh \in defOk /\ ~event.withStatus THEN event.def ELSE @]],
     status |-> [sh \in Shard |-> [status[sh] EXCEPT
                   ![event.symbol] = IF sh \in statusOk /\ event.withStatus
                                     THEN [trading |-> event.def.trading, seq |-> event.seq]
                                     ELSE @]]]

(* What the consumers have when the shards in defOk took the definition and *)
(* those in statusOk the status.                                            *)
Heard(event, defOk, statusOk) ==
    [known  |-> [sh \in Shard |-> [known[sh] EXCEPT
                   ![event.symbol] = IF sh \in defOk THEN event.def ELSE @]],
     status |-> [sh \in Shard |-> [status[sh] EXCEPT
                   ![event.symbol] = IF sh \in statusOk /\ event.withStatus
                                     THEN [trading |-> event.def.trading, seq |-> event.seq]
                                     ELSE @]]]

(* A consumer lacks something of a symbol from an offer that was refused to *)
(* a definition that it takes together with a status.                       *)
MissingAfter(event, served) ==
    LET healed == IF event.withStatus THEN served \X {event.symbol} ELSE {}
    IN  (missing \ healed) \cup ((Shard \ served) \X {event.symbol})

(* RefDataPublisher::broadcast and offer_to_shard.  A refused offer counts  *)
(* like any other, for only its error is looked at: nothing is repeated and *)
(* the other shards are served all the same.                                *)
Broadcast ==
    /\ pc = "publishes"
    /\ \E defOk, statusOk \in SUBSET Shard :
         LET event == Head(events)
             heard == Heard(event, defOk, statusOk)
         IN  /\ ~event.withStatus => statusOk = Shard
             /\ missing' = MissingAfter(event, defOk \cap statusOk)
             /\ Cardinality(missing') <= MaxMissing
             /\ known' = heard.known /\ status' = heard.status
    /\ events' = Tail(events)
    /\ pc' = IF Len(events) = 1 THEN "waits" ELSE "publishes"
    /\ UNCHANGED <<venue, instruments, next_seq, changes>>

(* The shutdown signal is seen between two refreshes only. *)
ShutsDown ==
    /\ pc = "waits" /\ pc' = "stopped"
    /\ UNCHANGED <<venue, instruments, next_seq, events, consumer, changes, missing>>

Next == \/ \E s \in Symbol : VenueChanges(s)
        \/ Ticks \/ FetchFails \/ Fetched \/ Broadcast \/ ShutsDown

(* The ticker goes on and a fetch that is repeated succeeds in the end. *)
Fairness == WF_vars(Ticks) /\ SF_vars(Fetched) /\ WF_vars(Broadcast)

Spec     == Init /\ [][Next]_vars
FairSpec == Spec /\ Fairness

-----------------------------------------------------------------------------
(* Every variable keeps its type, and the service publishes only while it *)
(* has events to publish.                                                 *)
TypeOK == /\ venue \in [Symbol -> {None} \cup Definition]
          /\ instruments \in [Symbol -> {None} \cup Definition]
          /\ next_seq \in 0 .. SeqLimit
          /\ pc \in {"starts", "waits", "fetches", "publishes", "stopped"}
          /\ pc = "publishes" <=> events # <<>>
          /\ \A i \in DOMAIN events :
               /\ events[i].symbol \in Symbol /\ events[i].def \in Definition
               /\ events[i].seq \in 0 .. next_seq - 1
          /\ known \in [Shard -> [Symbol -> {None} \cup Definition]]
          /\ \A sh \in Shard, s \in Symbol : status[sh][s].seq \in -1 .. next_seq - 1
          /\ changes \in 0 .. MaxChanges /\ missing \subseteq Shard \X Symbol

(* Between two refreshes each consumer has the registry's definition and    *)
(* trading status of every symbol, but for those it lacks something of since *)
(* an offer to it was refused: a refusal costs no other consumer, no other   *)
(* symbol, and is made up for by the next offers with a status (broadcast,   *)
(* offer_to_shard).                                                          *)
ConsumersAgree ==
    pc = "waits" => \A sh \in Shard, s \in Symbol : <<sh, s>> \notin missing =>
        /\ known[sh][s] = instruments[s]
        /\ instruments[s] # None => status[sh][s].trading = instruments[s].trading

(* When the exchange has come to rest and the service is not shut down, the *)
(* registry comes to hold every listed symbol as it is listed.  (A symbol   *)
(* that was delisted stays as it was last seen.)                            *)
RegistryCatchesUp ==
    <>[](pc # "stopped")
      => \A s \in Symbol : <>[](venue[s] # None => instruments[s] = venue[s])
=============================================================================
