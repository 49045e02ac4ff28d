--------------------------- MODULE TloeEndpointProps ---------------------------
(***************************************************************************)
(* What the two endpoints of TloeEndpoint promise end to end: credit is    *)
(* neither lost nor invented, reads return what was written, every request *)
(* is answered and the link falls quiet.                                   *)
(***************************************************************************)
EXTENDS TloeEndpoint, FiniteSets, FiniteSetsExt

\* The sum of a sequence of numbers: one pair for each unit of each number.
Units(numbers) == UNION {{i} \X (1 .. numbers[i]) : i \in DOMAIN numbers}
Total(numbers) == Cardinality(Units(numbers))

\* Flits of the messages on channel c in a sequence of messages.
Flits(msgs, c) ==
    Total([i \in DOMAIN msgs |-> IF msgs[i].chan = c THEN tlmsg_get_flits_cnt(msgs[i]) ELSE 0])

\* Credit for channel c that a sequence of payloads returns.
Returned(log, c) ==
    Total([i \in DOMAIN log |-> IF log[i].chan = c THEN 2^log[i].credit ELSE 0])

\* Payloads numbered by e and not yet accepted by its peer, and their messages.
InTransit(e) == SubSeq(txlog[e], Len(rxlog[Peer(e)]) + 1, Len(txlog[e]))
Messages(log) == [i \in DOMAIN log |-> log[i].tlmsg]

\* The channels that carry messages, and where the credit of e for one of them is:
\* with e, in messages e has numbered and in those that wait for tl_handler, in
\* what the peer has to return, and in frames that return it.
Carrying == 1 .. CHANNEL_NUM - 1
Balance(e, c) ==
    credits[e][c] + Flits(Messages(InTransit(e)), c) + Flits(tl_msg_buffer[Peer(e)], c)
        + tx_flow_credits[Peer(e)][c] + Returned(InTransit(Peer(e)), c)

\* Credit is conserved.  What e may still send on a channel, what it has sent
\* and its peer has not handled, what the peer has handled and not returned,
\* and what is on its way back add up to the credit granted when the
\* connection was opened, although frames are lost and sent again
\* (fc_credit_dec, fc_credit_inc, add_channel_flow_credits, get_outgoing_credits).
CreditConservation ==
    \A e \in Endpoint, c \in Carrying :
        exited[Peer(e)] = "no" => Balance(e, c) = 2^CREDIT_DEFAULT

\* What a word of a memory that was 0 everywhere holds after the first n of
\* these requests.
Written(requests, n, a) ==
    LET puts == {i \in 1 .. n : requests[i].opcode = A_PUTFULLDATA_OPCODE
                                    /\ requests[i].addr = a}
    IN  IF puts = {} THEN 0 ELSE requests[Max(puts)].data

\* The answers a user's requests have when they are executed one after the
\* other on such a memory.
Expected(requests) ==
    [n \in DOMAIN requests |->
        IF requests[n].opcode = A_PUTFULLDATA_OPCODE THEN AccessAck
        ELSE AccessAckData(requests[n].size, Written(requests, n, requests[n].addr))]

\* The responses an endpoint handles are those its user's requests have when
\* the peer executes each one once and in order: a read returns the last value
\* written before it, and no write is repeated, skipped or overtaken
\* (handle_A_PUTFULLDATA_opcode, handle_A_GET_opcode, select_buffer).
ReadsSeeWrites ==
    \A e \in Endpoint :
        /\ Len(results[e]) <= Len(submitted[e])
        /\ \A i \in DOMAIN results[e] : results[e][i] = Expected(submitted[e])[i]

\* Every request is answered, whatever has been lost on the way (the timeout
\* of TX and the acknowledgements of RX).
EveryRequestAnswered ==
    \A e \in Endpoint, n \in 1 .. Max({MaxRequests[x] : x \in Endpoint}) :
        Len(submitted[e]) >= n ~> Len(results[e]) >= n

\* The link becomes quiet with all credit back home: zero-tlmsg frames,
\* ACKONLY frames and acknowledgements of duplicates do not answer each other
\* for ever, and no credit is stranded in tx_flow_credits (serve_duplicate_request,
\* serve_zero_tlmsg_request, select_max_credit_channel).
Quiet ==
    \A e \in Endpoint :
        /\ fabric[e] = <<>>
        /\ retransmit_buffer[e] = <<>>
        /\ ack_buffer[e] = <<>>
        /\ credits[e] = [c \in Channel |-> 2^CREDIT_DEFAULT]
EventuallyQuiet == <>[]Quiet

\* A NAK queued by serve_oos_request is sent as a NAK: the frame TX numbers
\* when it takes the entry from ack_buffer has its ack flag cleared.
NakIsSent ==
    [][\A e \in Endpoint :
          (/\ Len(ack_buffer'[e]) < Len(ack_buffer[e])
           /\ ack_buffer[e][1].ack = TLOE_NAK)
          => retransmit_buffer'[e][Len(retransmit_buffer'[e])].ack = TLOE_NAK]_vars

\* The assertion of serve_duplicate_request and serve_oos_request: there is
\* always room in ack_buffer.
AckBufferHasRoom == \A e \in Endpoint : exited[e] # "ack_buffer"
================================================================================
