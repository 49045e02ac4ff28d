--------------------------- MODULE ReliableChannel ---------------------------
(***************************************************************************)
(* What one direction of a link promises: payloads are accepted one by     *)
(* one, each once and in the order in which they were numbered, and the    *)
(* sender is never more than a window ahead of the receiver.               *)
(***************************************************************************)
EXTENDS Integers, Sequences

CONSTANT Window     \* payloads the sender may be ahead

VARIABLES
    sent,           \* payloads numbered by the sender
    received        \* payloads accepted by the receiver

channelVars == <<sent, received>>

ChannelInit == sent = <<>> /\ received = <<>>

\* Some payload is numbered.
Number ==
    /\ Len(sent) - Len(received) < Window
    /\ Len(sent') = Len(sent) + 1
    /\ sent' = Append(sent, sent'[Len(sent) + 1])
    /\ UNCHANGED received

\* The next payload is accepted.
Deliver ==
    /\ Len(received) < Len(sent)
    /\ received' = Append(received, sent[Len(received) + 1])
    /\ UNCHANGED sent

ChannelNext == Number \/ Deliver

ChannelSpec == ChannelInit /\ [][ChannelNext]_channelVars

\* Nothing that was numbered stays on the way for ever.
FairChannelSpec == ChannelSpec /\ WF_channelVars(Deliver)
==============================================================================
