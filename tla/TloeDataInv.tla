------------------------------ MODULE TloeDataInv ------------------------------
(***************************************************************************)
(* The inductive invariant behind ReadsSeeWrites.  A message goes through  *)
(* a queue, the loop, the link and tl_msg_buffer; the invariant says of    *)
(* each place which request or which answer is there, by counting the      *)
(* messages of its channel in front of it.                                 *)
(***************************************************************************)
EXTENDS TloeEndpointProps

Both == {CHANNEL_A, CHANNEL_D}

\* m is the k-th element of s.
Nth(s, k, m) == k \in 1 .. Len(s) /\ m = s[k]

\* How many of the first n messages are on channel c.
Rank(msgs, c, n) == Cardinality({i \in 1 .. n : msgs[i].chan = c})

\* One message, counted for channel c.
One(m, c) == IF m.chan = c THEN 1 ELSE 0

\* The messages of channel c that have left their queue.
Taken(msgs, held, c) == Rank(msgs, c, Len(msgs)) + One(held, c)

\* What has been numbered, what the loop holds and what is queued on channel c
\* follow each other in ref.
Lined(msgs, held, queue, ref, c) ==
    /\ \A j \in 1 .. Len(msgs) : msgs[j].chan = c => Nth(ref, Rank(msgs, c, j), msgs[j])
    /\ held.chan = c => Nth(ref, Rank(msgs, c, Len(msgs)) + 1, held)
    /\ \A i \in 1 .. Len(queue) : Nth(ref, Taken(msgs, held, c) + i, queue[i])

\* What waits in buffer on channel c is what ref has behind the first n.
Waits(buffer, ref, n, c) ==
    \A j \in 1 .. Len(buffer) : buffer[j].chan = c => Nth(ref, n + Rank(buffer, c, j), buffer[j])

\* The requests of the peer that e has executed, and the messages of channel c
\* that e has handled.
Executed(e) == Taken(Messages(txlog[e]), request_tlmsg[e], CHANNEL_D) + Len(response_buffer[e])
Handled(e, c) == IF c = CHANNEL_A THEN Executed(e) ELSE Len(results[e])

\* What e has to send on channel c.
Due(e, c) == IF c = CHANNEL_A THEN submitted[e] ELSE Expected(submitted[Peer(e)])

\* The queue e sends them from.
Source(e, c) == IF c = CHANNEL_A THEN message_buffer[e] ELSE response_buffer[e]

\* The messages of channel c that e has accepted.
Received(e, c) == Rank(Messages(txlog[Peer(e)]), c, Len(rxlog[e]))

SendsInOrder(e) ==
    /\ \A c \in Both : Lined(Messages(txlog[e]), request_tlmsg[e], Source(e, c), Due(e, c), c)
    /\ Len(submitted[e])
          = Taken(Messages(txlog[e]), request_tlmsg[e], CHANNEL_A) + Len(message_buffer[e])

HandlesInOrder(e) ==
    exited[e] = "no" =>
        \A c \in Both :
            /\ Waits(tl_msg_buffer[e], Due(Peer(e), c), Handled(e, c), c)
            /\ Handled(e, c) + Rank(tl_msg_buffer[e], c, Len(tl_msg_buffer[e])) = Received(e, c)

\* The memory of e holds what the requests executed so far have written.
MemoryWritten(e) ==
    /\ Executed(e) <= Len(submitted[Peer(e)])
    /\ \A a \in Addr : mem[e][a] = Written(submitted[Peer(e)], Executed(e), a)

Answered(e) == \A i \in 1 .. Len(results[e]) : Nth(Expected(submitted[e]), i, results[e][i])

DataOK(e) == SendsInOrder(e) /\ HandlesInOrder(e) /\ MemoryWritten(e) /\ Answered(e)

\* Every message of the two channels, wherever it is, is the request or the
\* answer whose turn it is, and each memory holds what the requests executed
\* so far have written: the invariant that makes ReadsSeeWrites inductive
\* (select_buffer, serve_normal_request, tl_handler).
DataInv == \A e \in Endpoint : DataOK(e)
================================================================================
