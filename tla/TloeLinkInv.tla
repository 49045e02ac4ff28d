----------------------------- MODULE TloeLinkInv -----------------------------
(***************************************************************************)
(* The inductive invariant behind InOrderDelivery and UnackedRetained.  It *)
(* ties every sequence number in the system, in a counter, a buffer or a   *)
(* frame on its way, to a position in the history txlog of the endpoint    *)
(* that numbers the frames.                                                *)
(***************************************************************************)
EXTENDS TloeEndpoint

IsSeq(s) == s \in Seq({s[i] : i \in DOMAIN s})

\* The sequence number of the frame that e numbers after n others; -1 stands
\* for the last frame before the start.
SeqOf(e, n) ==
    LET s == StartSeq[e] + n
    IN  IF s < 0 THEN MAX_SEQ_NUM ELSE IF s > MAX_SEQ_NUM THEN s - (MAX_SEQ_NUM + 1) ELSE s

IsFrame(f) ==
    f = [type |-> f.type, seq_num |-> f.seq_num, seq_num_ack |-> f.seq_num_ack,
         ack |-> f.ack, chan |-> f.chan, credit |-> f.credit, tlmsg |-> f.tlmsg]

\* f is what e sends for the n-th payload of its history log.
Carries(f, e, log, n) ==
    /\ IsFrame(f)
    /\ f.type = TYPE_NORMAL
    /\ f.ack = TLOE_ACK
    /\ f.seq_num = SeqOf(e, n - 1)
    /\ Payload(f) = log[n]

\* An acknowledgement of the first k frames of e, for some k up to accepted.
AckOf(seq_num_ack, e, accepted) == \E k \in 0 .. accepted : seq_num_ack = SeqOf(e, k - 1)

\* The retransmit buffer of e holds the last payloads of its history.
GoodBuffer(buffer, e, log) ==
    /\ IsSeq(buffer)
    /\ Len(buffer) <= Len(log)
    /\ \A i \in 1 .. Len(buffer) : Carries(buffer[i], e, log, Len(log) - Len(buffer) + i)

\* A frame on its way to e, from a peer with history log that has accepted
\* that many frames of e.
GoodFrame(f, e, log, accepted) ==
    /\ f.type \in {TYPE_NORMAL, TYPE_ACKONLY}
    /\ f.ack = TLOE_ACK
    /\ AckOf(f.seq_num_ack, e, accepted)
    /\ f.type = TYPE_NORMAL => \E n \in 1 .. Len(log) : Carries(f, Peer(e), log, n)

GoodQueue(queue, e, log, accepted) ==
    /\ IsSeq(queue)
    /\ \A i \in 1 .. Len(queue) : GoodFrame(queue[i], e, log, accepted)

GoodAcks(queue, e, accepted) ==
    /\ IsSeq(queue)
    /\ \A i \in 1 .. Len(queue) : AckOf(queue[i].seq_num_ack, e, accepted)

\* received is a prefix of sent.
Prefix(received, sent) ==
    /\ IsSeq(received)
    /\ Len(received) <= Len(sent)
    /\ \A i \in 1 .. Len(received) : received[i] = sent[i]

IsArray(v) == v = [e \in Endpoint |-> v[e]]

Arrays ==
    /\ IsArray(retransmit_buffer) /\ IsArray(ack_buffer) /\ IsArray(fabric)
    /\ IsArray(txlog) /\ IsArray(rxlog)
    /\ IsArray(next_tx_seq) /\ IsArray(next_rx_seq)

\* What holds of endpoint e and of the direction from e to its peer.
LinkOK(e) ==
    /\ IsSeq(txlog[e])
    /\ Len(txlog[e]) <= MaxTx
    /\ next_tx_seq[e] = SeqOf(e, Len(txlog[e]))
    /\ next_rx_seq[e] = SeqOf(Peer(e), Len(rxlog[e]))
    /\ Prefix(rxlog[e], txlog[Peer(e)])
    /\ GoodBuffer(retransmit_buffer[e], e, txlog[e])
    /\ Len(txlog[e]) - Len(retransmit_buffer[e]) <= Len(rxlog[Peer(e)])
    /\ GoodAcks(ack_buffer[e], Peer(e), Len(rxlog[e]))
    /\ GoodQueue(fabric[e], e, txlog[Peer(e)], Len(rxlog[Peer(e)]))

\* Every counter, buffered frame, queued acknowledgement and frame in flight
\* agrees with the histories: the invariant that makes the link's promises
\* inductive.
LinkInv == Arrays /\ \A e \in Endpoint : LinkOK(e)
==============================================================================
