--------------------------- MODULE MessageChannel ---------------------------
(***************************************************************************)
(* What a sender may expect of WebsocketSession::SendMsg: the messages it  *)
(* accepts reach the peer in the order of acceptance, without gaps and     *)
(* without duplicates, until the channel breaks; after that nothing more   *)
(* reaches the peer.  Messages are named by their number of acceptance.    *)
(***************************************************************************)
EXTENDS Naturals, Sequences

VARIABLES sent,       \* how many messages have been accepted
          delivered,  \* the messages that the peer has got, in order
          broken      \* no further message will be delivered

channelVars == <<sent, delivered, broken>>

ChannelInit ==
    /\ sent = 0
    /\ delivered = <<>>
    /\ broken = FALSE

Accept ==
    /\ sent' = sent + 1
    /\ UNCHANGED <<delivered, broken>>

Deliver ==
    /\ ~broken
    /\ Len(delivered) < sent
    /\ delivered' = Append(delivered, Len(delivered) + 1)
    /\ UNCHANGED <<sent, broken>>

Break ==
    /\ broken' = TRUE
    /\ UNCHANGED <<sent, delivered>>

ChannelNext == Accept \/ Deliver \/ Break

ChannelSpec == ChannelInit /\ [][ChannelNext]_channelVars
=============================================================================
