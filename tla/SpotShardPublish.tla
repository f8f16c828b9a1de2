--------------------------- MODULE SpotShardPublish ---------------------------
(***************************************************************************)
(* What run_shard offers to the shard's publication while SpotShard keeps  *)
(* the book, and what a subscriber makes of it.                            *)
(*                                                                         *)
(* A frame is encoded into encode_buf before it is handled and offered     *)
(* from encode_buf after it was handled.  Every control message offered in *)
(* between is encoded into the same encode_buf, so what is offered last is *)
(* then the start of that control message once more, cut or padded to the  *)
(* length of the frame, and the frame itself never leaves.                 *)
(*                                                                         *)
(* Every offer is taken to succeed.                                        *)
(***************************************************************************)
EXTENDS SpotShard

VARIABLES
  out,     \* the messages offered by the last step, in order
  heard,   \* the feed state a subscriber was told last
  marked   \* whether a subscriber was told last that the book is stale

view == <<out, heard, marked>>

Msg(type)   == [type |-> type]
Status(s)   == [type |-> "FeedStatus", state |-> s]
DeltaMsg(d) == [type |-> "BookDelta", delta |-> d]

\* set_feed_state offers a FeedStatus when the state changes.
StatusChange == IF feed' = feed THEN <<>> ELSE <<Status(feed')>>

\* ctl is offered while frame is handled, then encode_buf.
AfterFrame(ctl, frame) == Append(ctl, IF ctl = <<>> THEN frame ELSE ctl[Len(ctl)])

Offered(type) == {i \in 1..Len(out') : out'[i].type = type}

\* The subscriber reads what was offered.
Hears ==
  /\ heard' = IF Offered("FeedStatus") = {} THEN heard
              ELSE out'[CHOOSE i \in Offered("FeedStatus") :
                          \A j \in Offered("FeedStatus") : j <= i].state
  /\ marked' = /\ marked \/ Offered("BookStale") # {}
               /\ Offered("BookRecovered") = {}

Offers(msgs) == out' = msgs /\ Hears

PublishInit == Init /\ out = <<>> /\ heard = "Connecting" /\ marked = FALSE

------------------------------------------------------------------------------

Silently ==
  /\ \/ Environment
     \/ SkipFrame
     \/ ApplySnapshot \/ ReplaySkip \/ ReplayApply
     \/ CheckTick \/ CheckPasses
  /\ Offers(<<>>)

\* Applied, discarded and buffered deltas are all offered; skipped ones are not.
PublishFrame ==
  /\ ApplyFrame \/ DiscardFrame \/ \E ageOrBytes \in BOOLEAN : BufferFrame(ageOrBytes)
  /\ Offers(AfterFrame(StatusChange, DeltaMsg(Head(frames))))

\* A delta that starts a recovery is still being handled while it lasts.
PublishGap ==
  LET ctl == <<Msg("GapDetected"), Msg("BookStale")>> \o StatusChange IN
  /\ \E ageOrBytes \in BOOLEAN : GapFrame(ageOrBytes)
  /\ Offers(IF pc' = "idle" THEN AfterFrame(ctl, DeltaMsg(Head(frames))) ELSE ctl)

PublishTick == Tick /\ Offers(StatusChange)

\* The frame that started a recovery ends with it.  Its recovery has changed
\* the feed state, so the frame is overwritten.
EndsFrame(ctl) == IF pc \in {"gapFetch", "gapReplay"} THEN AfterFrame(ctl, ctl[Len(ctl)]) ELSE ctl

PublishFailure ==
  /\ \E waited \in 0..Cooldown : ReplayGap(waited) \/ FetchFailed(waited)
  /\ Offers(EndsFrame(StatusChange))

PublishRecovered ==
  /\ Recovered
  /\ Offers(EndsFrame(<<Msg("BookRecovered")>> \o StatusChange))

PublishIncompatible ==
  /\ CheckIncompatible
  /\ Offers(<<Msg("BookStale")>> \o StatusChange)

PublishBbo ==
  /\ BboClears \/ BboTolerated \/ BboDegrades
  /\ Offers(AfterFrame(StatusChange, Msg("BestBidOffer")))

\* A handler that marks the book stale and only says so in the feed state.
PublishBboStale_StatusOnly ==
  /\ BboMarksStale
  /\ Offers(AfterFrame(StatusChange, Msg("BestBidOffer")))

PublishBboStale ==
  /\ BboMarksStale
  /\ Offers(AfterFrame(<<Msg("BookStale")>> \o StatusChange, Msg("BestBidOffer")))

PublishNext ==
  \/ Silently
  \/ PublishFrame \/ PublishGap
  \/ PublishTick \/ PublishFailure \/ PublishRecovered
  \/ PublishIncompatible
  \/ PublishBbo \/ PublishBboStale

PublishSpec == PublishInit /\ [][PublishNext]_<<vars, view>>

\* The fairness of SpotShard: an offer is part of the step that makes it.
FairPublishSpec == PublishSpec /\ Fairness

------------------------------------------------------------------------------
\* Properties

\* What a subscriber was told last of a symbol is so: the feed state, and
\* whether the book is stale.
SubscriberInStep == heard = feed /\ marked = stale

\* readme:431: book deltas must never be silently dropped.  A delta that is
\* applied to the book is offered.
AppliedIsOffered ==
  [][ApplyFrame => \E i \in 1..Len(out') : out'[i] = DeltaMsg(Head(frames))]_<<vars, view>>

\* readme:464: the connector must not publish deltas for a stale book.
NoStaleDelta == [][stale => Offered("BookDelta") = {}]_<<vars, view>>
==============================================================================
