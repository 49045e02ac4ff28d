----------------------------- MODULE BoundedFifo -----------------------------
(***************************************************************************)
(* What the users of a CircularQueue rely on: a first-in first-out queue   *)
(* that holds Capacity messages, with one thread at each end.              *)
(***************************************************************************)
EXTENDS Naturals, Sequences

CONSTANTS
    Msg,        \* messages
    NoMsg,      \* what has been got before anything was
    Capacity    \* messages the queue holds at most

VARIABLES
    queue,      \* messages put and not yet got
    got         \* the message got last

fifoVars == <<queue, got>>

FifoInit == queue = <<>> /\ got = NoMsg

Put(m) ==
    /\ Len(queue) < Capacity
    /\ queue' = Append(queue, m)
    /\ UNCHANGED got

Get ==
    /\ queue # <<>>
    /\ got' = Head(queue)
    /\ queue' = Tail(queue)

\* The queue is thrown away with all it holds, and replaced by an empty one.
Clear == queue' = <<>> /\ UNCHANGED got

FifoNext == (\E m \in Msg : Put(m)) \/ Get \/ Clear

FifoSpec == FifoInit /\ [][FifoNext]_fifoVars

\* The consumer keeps asking.
FairFifoSpec == FifoSpec /\ WF_fifoVars(Get)
==============================================================================
