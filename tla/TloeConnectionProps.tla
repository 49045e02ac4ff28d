-------------------------- MODULE TloeConnectionProps --------------------------
(***************************************************************************)
(* What opening and closing a connection must leave behind: two endpoints  *)
(* that agree on sequence numbers and credit, that get anywhere at all,    *)
(* and that can be closed, opened again and quit.                          *)
(***************************************************************************)
EXTENDS TloeConnection, TloeEndpointProps

\* Type correctness, also after the numbers, queues and credits have been reset
\* for the next connection (tloe_endpoint_init).
ConnTypeOK ==
    /\ TypeOK
    /\ user \in [Endpoint -> {"idle", "open", "close", "last", "quit"}]
    /\ connection \in [Endpoint -> BOOLEAN]
    /\ is_done \in [Endpoint -> BOOLEAN]
    /\ ended \in [Endpoint -> BOOLEAN]
    /\ conn_flag \in [Endpoint -> BOOLEAN]
    /\ start \in [Endpoint -> {"past", "now", "future"}]
    /\ sessions \in [Endpoint -> 0 .. MaxSessions]
    /\ resends \in 0 .. MaxResend

\* Both ends think that the same connection is open.
Connected ==
    /\ \A e \in Endpoint : connection[e] /\ exited[e] = "no"
    /\ sessions["master"] = sessions["slave"]

\* And no frame has been lost so far.
Undisturbed == Connected /\ losses = 0

\* While nothing is lost each end of an open connection accepts exactly the
\* payloads its peer has numbered since it was opened, once and in order: frames
\* of the handshake that are sent twice, or are left over from an earlier
\* connection, are never taken for data (serve_conn_master, recv_conn_slave, tloe_rx_get_req_type).
SessionDelivery == Undisturbed => InOrderDelivery

\* The master takes handshake frames only in the order of their numbers, so what
\* it accepts is what the slave has numbered, in order, even when frames are lost,
\* in the handshake and at the end of an earlier connection too
\* (recv_conn_master).
MasterInOrder ==
    Connected =>
        /\ Len(rxlog["master"]) <= Len(txlog["slave"])
        /\ \A i \in DOMAIN rxlog["master"] : rxlog["master"][i] = txlog["slave"][i]

\* While nothing is lost the credit of every channel of an open connection adds
\* up to what the handshake granted, at both ends (set_credit, init_flowcontrol).
SessionCredit == Undisturbed => CreditConservation

\* The frame that e expects can still come: its peer has not numbered it yet,
\* can send it again, or it is on its way.
CanStillCome(e) ==
    \/ next_rx_seq[e] = next_tx_seq[Peer(e)]
    \/ \E i \in DOMAIN retransmit_buffer[Peer(e)] :
          retransmit_buffer[Peer(e)][i].seq_num = next_rx_seq[e]
    \/ \E i \in DOMAIN fabric[e] :
          fabric[e][i].type # TYPE_ACKONLY /\ fabric[e][i].seq_num = next_rx_seq[e]

\* Retransmission makes up for every frame that is missing on an open connection,
\* however it was lost, with one exception: the slave may be left waiting for a
\* frame of the master's handshake, numbers 0 to 5, which retransmit_buffer never
\* holds (TX, open_conn_master, serve_conn_master).
DataRecoverable ==
    Connected =>
        \A e \in Endpoint :
            CanStillCome(e) \/ (e = "slave" /\ next_rx_seq[e] < CHANNEL_NUM)

\* What the README promises of an open connection ("Reliable Communication:
\* Sequence number management and retransmission support"): a frame an end
\* expects can still come, if the link has lost none.  The code breaks it: the
\* fabric drops what finds it full, and the last frame of the master's handshake
\* is not kept for retransmission (open_conn_master, tloe_mq_send).
Recoverable == Undisturbed => \A e \in Endpoint : CanStillCome(e)

\* When both users are opening the connection, the slave gets it open, and so does
\* the master, unless the timer that the slave reads before it is set never expires:
\* after CONN_RESEND_TIME the handshake is sent again (command c, open_conn_master,
\* open_conn_slave, check_timer).  It takes a fabric that loses nothing
\* (MaxLoss = 0): neither end repeats its frames for a peer that still waits.
OpenCompletes ==
    \A e \in Endpoint :
        (\A x \in Endpoint : user[x] = "open")
            ~> connection[e] \/ (e = "master" /\ start["slave"] = "future")

\* When both users are closing the connection, each gets it closed (command d,
\* close_conn_master, close_conn_slave).  Again MaxLoss = 0: the slave answers once.
CloseCompletes ==
    \A e \in Endpoint :
        (\A x \in Endpoint : user[x] \in {"close", "last"}) ~> user[e] = "idle"

\* A user who quits while the connection is open gets out of the program: the
\* thread it joins ends (command q, tloe_endpoint_close).
ConnectedQuitEnds ==
    \A e \in Endpoint : is_done[e] /\ connection[e] ~> ended[e] \/ exited[e] # "no"

\* Requests of e's user that the endpoint thread has sent on this connection,
\* holds, or is going to find in message_buffer.
Asked(e) ==
    Cardinality({i \in DOMAIN txlog[e] : txlog[e][i].tlmsg.chan = CHANNEL_A})
        + Cardinality({m \in {request_tlmsg[e]} : m.chan = CHANNEL_A})
        + Len(message_buffer[e])

\* A connection carries the requests made on it, all of them, and at most one
\* more: closing discards what waits in message_buffer, but request_tlmsg is a
\* local of the endpoint thread and the request it holds is sent on the next
\* connection (tloe_endpoint, tloe_endpoint_init).
SessionRequests ==
    \A e \in Endpoint : connection[e] => Asked(e) - Len(submitted[e]) \in {0, 1}
================================================================================
