------------------------------ MODULE LossyFifo ------------------------------
(***************************************************************************)
(* What the endpoints may rely on when they talk through a relay: whatever *)
(* is received was sent, once, and in the order it was sent.  Anything on  *)
(* its way may be lost.                                                    *)
(***************************************************************************)
EXTENDS Naturals, Sequences, SequencesExt

CONSTANTS
    Msg,        \* what the sender sends
    NoMsg       \* what has been received before anything was

VARIABLES
    channel,    \* messages on their way, oldest first
    received    \* the message received last

lossyVars == <<channel, received>>

LossyInit == channel = <<>> /\ received = NoMsg

Transmit(m) == channel' = Append(channel, m) /\ UNCHANGED received

Receive ==
    /\ channel # <<>>
    /\ received' = Head(channel)
    /\ channel' = Tail(channel)

LoseOne ==
    /\ \E i \in DOMAIN channel : channel' = RemoveAt(channel, i)
    /\ UNCHANGED received

LossyNext == (\E m \in Msg : Transmit(m)) \/ Receive \/ LoseOne

LossySpec == LossyInit /\ [][LossyNext]_lossyVars
==============================================================================
