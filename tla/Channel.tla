------------------------------ MODULE Channel ------------------------------
(***************************************************************************)
(* What a notification driver promises to its two ends: on each channel    *)
(* the messages arrive exactly once and in the order they were sent, and   *)
(* never more than Capacity of them are under way.                         *)
(***************************************************************************)
EXTENDS Sequences, Naturals

CONSTANTS Channels,     \* the independent streams of messages
          Messages,     \* what is sent on them
          Capacity      \* how many messages of a channel may be under way

VARIABLES sent,         \* the messages sent on each channel, in order
          got           \* the messages received from each channel, in order

channelVars == <<sent, got>>

UnderWay(c) == Len(sent[c]) - Len(got[c])

ChannelInit == sent = [c \in Channels |-> <<>>] /\ got = sent

Send(c, m) ==
    /\ UnderWay(c) < Capacity
    /\ sent' = [sent EXCEPT ![c] = Append(@, m)]
    /\ UNCHANGED got

Receive(c) ==
    /\ UnderWay(c) > 0
    /\ got' = [got EXCEPT ![c] = Append(@, sent[c][Len(@) + 1])]
    /\ UNCHANGED sent

ChannelNext == \E c \in Channels : (\E m \in Messages : Send(c, m)) \/ Receive(c)

ChannelSpec == ChannelInit /\ [][ChannelNext]_channelVars
=============================================================================
