----------------------------- MODULE TloeEndpoint -----------------------------
(***************************************************************************)
(* The data plane of the OmniXtend endpoint program (tloe_endpoint.c and   *)
(* the files it drives): two endpoint processes, master and slave, joined  *)
(* by a lossy fabric.  Each process has a user thread, which puts read and *)
(* write requests into message_buffer, and an endpoint thread, which loops *)
(* over select_buffer, TX, RX and tl_handler.  Both sides may issue        *)
(* requests; each one serves the other's from its own memory.              *)
(* select_buffer and TX are one step: select_buffer touches nothing but    *)
(* the thread's own state and the consuming end of message_buffer.         *)
(*                                                                         *)
(* Here the connection is open (connection = 1) throughout; TloeConnection *)
(* opens and closes it.  Time is abstracted to the outcome of the two      *)
(* timeout tests of TX.                                                    *)
(***************************************************************************)
EXTENDS Retransmission, FlowControl

CONSTANTS
    WINDOW_SIZE,        \* frames the retransmit buffer holds
    MESSAGE_BUF,        \* create_queue sizes; a queue of size n holds n - 1
    ACK_BUF,
    TL_MSG_BUF,
    RESPONSE_BUF,
    FABRIC_BUF,         \* frames the fabric holds in one direction
    CREDIT_DEFAULT,     \* exponent of the credit granted when opening
    Addr,               \* disjoint 8-byte words of a memory
    OutOfBounds,        \* those of Addr in the last 7 bytes of the memory
    HeapAddr,           \* those of Addr that may lie in freed heap memory
    Val,                \* values the users write; each fits one byte
    StartSeq,           \* sequence number each endpoint starts with
    MaxTx,              \* bound: frames each endpoint numbers
    MaxRequests,        \* bound: requests each user makes
    MaxLoss,            \* bound: frames the fabric loses
    MaxExpiry,          \* bound: expiries while an answer is on its way
    MaxLead             \* bound: expiries of one timer while the other runs

Endpoint == {"master", "slave"}
Peer(e) == IF e = "master" THEN "slave" ELSE "master"

ASSUME SizeAssumption ==
    /\ WINDOW_SIZE \in Nat \ {0}
    /\ {MESSAGE_BUF, ACK_BUF, TL_MSG_BUF, RESPONSE_BUF} \subseteq Nat \ {0, 1}
    /\ FABRIC_BUF \in Nat \ {0}
    /\ CREDIT_DEFAULT \in 0 .. 31
ASSUME DataAssumption ==
    /\ Addr \subseteq Nat \ {0}
    /\ OutOfBounds \subseteq Addr
    /\ HeapAddr \subseteq Addr
    /\ Val \subseteq 1 .. 255
ASSUME StartAssumption == StartSeq \in [Endpoint -> SeqNum]
ASSUME BoundAssumption ==
    /\ MaxTx \in Nat
    /\ MaxTx < HALF_MAX_SEQ_NUM
    /\ MaxRequests \in [Endpoint -> Nat]
    /\ MaxLoss \in Nat
    /\ MaxExpiry \in Nat
    /\ MaxLead \in Nat \ {0}

VARIABLES
    pc,                         \* where the endpoint thread is in its loop
    message_buffer,             \* requests from the user
    response_buffer,            \* responses from tl_handler
    request_tlmsg,              \* the message the loop wants to transmit
    buffer_select_counter,
    retransmit_buffer,          \* frames sent and not acknowledged
    ack_buffer,                 \* acknowledgements to be sent
    tl_msg_buffer,              \* messages received and not handled
    next_tx_seq, next_rx_seq, acked_seq,
    should_send_ackonly_frame, ackonly_frame_sent,
    credits, tx_flow_credits,
    mem,                        \* mem_storage
    exited,                     \* why the process has called exit, or "no"
    fabric,                     \* frames on their way to the endpoint
    losses, expiries, lead,     \* what has been used of the bounds
    submitted, results,         \* history: user's requests, answers printed
    txlog, rxlog                \* history: payloads numbered, payloads accepted

loopVars == <<request_tlmsg, buffer_select_counter>>
seqVars  == <<next_tx_seq, next_rx_seq, acked_seq>>
flagVars == <<should_send_ackonly_frame, ackonly_frame_sent>>
linkVars == <<retransmit_buffer, ack_buffer, seqVars, flagVars, txlog, rxlog>>
fcVars   == <<credits, tx_flow_credits>>
tlVars   == <<tl_msg_buffer, response_buffer, mem>>
userVars == <<message_buffer, submitted, results>>
envVars  == <<fabric, losses, expiries, lead>>
vars == <<pc, loopVars, linkVars, fcVars, tlVars, userVars, envVars, exited>>
-------------------------------------------------------------------------------
\* Messages and frames.

TYPE_NORMAL == "normal"
TYPE_ACKONLY == "ackonly"
TYPE_OPEN_CONNECTION == "open"
TYPE_CLOSE_CONNECTION == "close"
TLOE_ACK == "ack"
TLOE_NAK == "nak"

Get(addr, size) == [chan |-> CHANNEL_A, opcode |-> A_GET_OPCODE,
                    size |-> size, addr |-> addr, data |-> 0]
PutFullData(addr, value) == [chan |-> CHANNEL_A, opcode |-> A_PUTFULLDATA_OPCODE,
                             size |-> 3, addr |-> addr, data |-> value]
AccessAck == [chan |-> CHANNEL_D, opcode |-> D_ACCESSACK_OPCODE,
              size |-> 0, addr |-> 0, data |-> 0]
AccessAckData(size, value) == [chan |-> CHANNEL_D, opcode |-> D_ACCESSACKDATA_OPCODE,
                               size |-> size, addr |-> 0, data |-> value]

Request == {Get(a, s) : a \in Addr, s \in {0, 3}} \cup {PutFullData(a, v) : a \in Addr, v \in Val}
Answer == {AccessAck} \cup {AccessAckData(s, v) : s \in {0, 3}, v \in Val \cup {0}}
TLMsg == Request \cup Answer

\* The mask flit is 0 exactly for the frames whose tlmsg is NULL.
Frame == [type : {TYPE_NORMAL, TYPE_ACKONLY, TYPE_OPEN_CONNECTION, TYPE_CLOSE_CONNECTION},
          seq_num : SeqNum, seq_num_ack : SeqNum, ack : {TLOE_ACK, TLOE_NAK},
          chan : Channel, credit : 0 .. 31, tlmsg : TLMsg \cup {NULL}]

\* What a numbered frame carries, as the history variables record it.
Payload(f) == [tlmsg |-> f.tlmsg, chan |-> f.chan, credit |-> f.credit]

\* mq_send on a nonblocking queue: what does not fit is dropped.
Carry(queue, frames) ==
    LET all == queue \o frames
    IN  IF Len(all) <= FABRIC_BUF THEN all ELSE SubSeq(all, 1, FABRIC_BUF)

IsFull(queue, size) == Len(queue) >= size - 1
-------------------------------------------------------------------------------
\* Every queue empty, every frame acknowledged.
Fresh ==
    /\ pc = [e \in Endpoint |-> "tx"]
    /\ message_buffer = [e \in Endpoint |-> <<>>]
    /\ response_buffer = [e \in Endpoint |-> <<>>]
    /\ request_tlmsg = [e \in Endpoint |-> NULL]
    /\ buffer_select_counter = [e \in Endpoint |-> 4]
    /\ retransmit_buffer = [e \in Endpoint |-> <<>>]
    /\ ack_buffer = [e \in Endpoint |-> <<>>]
    /\ tl_msg_buffer = [e \in Endpoint |-> <<>>]
    /\ next_tx_seq = StartSeq
    /\ next_rx_seq = [e \in Endpoint |-> StartSeq[Peer(e)]]
    /\ acked_seq = [e \in Endpoint |-> tloe_seqnum_prev(StartSeq[e])]
    /\ should_send_ackonly_frame = [e \in Endpoint |-> FALSE]
    /\ ackonly_frame_sent = [e \in Endpoint |-> FALSE]
    /\ tx_flow_credits = [e \in Endpoint |-> [c \in Channel |-> 0]]
    /\ mem = [e \in Endpoint |-> [a \in Addr |-> 0]]
    /\ exited = [e \in Endpoint |-> "no"]
    /\ fabric = [e \in Endpoint |-> <<>>]
    /\ losses = 0
    /\ expiries = 0
    /\ lead = [e \in Endpoint |-> 0]
    /\ submitted = [e \in Endpoint |-> <<>>]
    /\ results = [e \in Endpoint |-> <<>>]
    /\ txlog = [e \in Endpoint |-> <<>>]
    /\ rxlog = [e \in Endpoint |-> <<>>]

\* A quiescent moment of an open connection: nothing on its way, every credit
\* returned.  Sequence numbers can be anywhere on the circle.  The entry of
\* channel 0, which carries nothing, is never used.
Init ==
    /\ Fresh
    /\ credits = [e \in Endpoint |-> [c \in Channel |-> 2^CREDIT_DEFAULT]]

\* The endpoint thread is at this point of its loop.
At(e, point) == pc[e] = point /\ exited[e] = "no"
Goto(e, point) == pc' = [pc EXCEPT ![e] = point]
-------------------------------------------------------------------------------
\* The user thread: the commands r, w and a of handle_user_input.  A command
\* waits while message_buffer is full.  Command t is a sequence of w and r.

Submit(e, tlmsg) ==
    /\ exited[e] = "no"
    /\ Len(submitted[e]) < MaxRequests[e]
    /\ ~IsFull(message_buffer[e], MESSAGE_BUF)
    /\ message_buffer' = [message_buffer EXCEPT ![e] = Append(@, tlmsg)]
    /\ submitted' = [submitted EXCEPT ![e] = Append(@, tlmsg)]
    /\ UNCHANGED <<pc, loopVars, linkVars, fcVars, tlVars, results, envVars, exited>>

read_memory(e) == \E addr \in Addr : Submit(e, Get(addr, 3))

write_memory(e) == \E addr \in Addr, value \in Val : Submit(e, PutFullData(addr, value))

\* Command a allocates the header only, so the address the frame will carry
\* is whatever the heap holds behind it.  One byte is read there.
create_and_enqueue_message(e) == \E addr \in HeapAddr : Submit(e, Get(addr, 0))
-------------------------------------------------------------------------------
\* select_buffer: responses first, but every fourth choice is a request's.  It
\* is called when no message is left over from the last iteration.

FromResponses(e) ==
    request_tlmsg[e] = NULL /\ buffer_select_counter[e] > 1 /\ response_buffer[e] # <<>>
FromMessages(e) == request_tlmsg[e] = NULL /\ ~FromResponses(e)

\* The message the iteration is about, or NULL.
Selected(e) ==
    CASE request_tlmsg[e] # NULL -> request_tlmsg[e]
      [] FromResponses(e) -> Head(response_buffer[e])
      [] FromMessages(e) /\ message_buffer[e] # <<>> -> Head(message_buffer[e])
      [] OTHER -> NULL

select_buffer(e) ==
    /\ response_buffer' = [response_buffer EXCEPT ![e] = IF FromResponses(e) THEN Tail(@) ELSE @]
    /\ message_buffer' = [message_buffer EXCEPT
            ![e] = IF FromMessages(e) /\ @ # <<>> THEN Tail(@) ELSE @]
    /\ buffer_select_counter' = [buffer_select_counter EXCEPT
            ![e] = CASE FromResponses(e) -> @ - 1
                     [] FromMessages(e)  -> 4
                     [] OTHER            -> @]
-------------------------------------------------------------------------------
\* The transmitter.

WindowFull(e) == Len(retransmit_buffer[e]) >= WINDOW_SIZE

\* The request at hand cannot be sent for want of credit.
NoCredit(e) == Selected(e) # NULL /\ ~try_dec_credits(credits[e], Selected(e))

\* e is about to send something, and so to acknowledge its peer's frames.
WillSend(e) ==
    \/ should_send_ackonly_frame[e]
    \/ /\ ~WindowFull(e)
       /\ \/ ack_buffer[e] # <<>>
          \/ /\ ~NoCredit(e)
             /\ \/ Selected(e) # NULL
                \/ tl_msg_buffer[e] # <<>>
                \/ select_max_credit_channel(tx_flow_credits[e]) # CHANNEL_0

\* The timer has every reason to expire: no answer is on its way.  Both ends
\* run the same 100 ms timer, so one does not expire again and again while the
\* other, with a frame of its own outstanding, does not.
Overdue(e) ==
    /\ fabric = [x \in Endpoint |-> <<>>]
    /\ ~WillSend(Peer(e))
    /\ retransmit_buffer[Peer(e)] # <<>> => lead[e] < MaxLead

\* How long ago the oldest unacknowledged frame was sent, as the timeout tests
\* see it: before half of the timeout, between the half and all of it, after it.
\* The half only matters to a full window.
Elapsed(e) ==
    {"early"} \cup
    IF retransmit_buffer[e] # <<>> /\ (Overdue(e) \/ expiries < MaxExpiry)
    THEN IF WindowFull(e) /\ ~ackonly_frame_sent[e] THEN {"half", "due"} ELSE {"due"}
    ELSE {}

AckonlyFrame(e) ==
    [type |-> TYPE_ACKONLY, seq_num |-> next_tx_seq[e],
     seq_num_ack |-> tloe_seqnum_prev(next_rx_seq[e]), ack |-> TLOE_ACK,
     chan |-> CHANNEL_0, credit |-> 0, tlmsg |-> NULL]

\* The ACKONLY frame of a half timeout is sent once, with a full window.
AckonlyAtHalf(e, elapsed) ==
    WindowFull(e) /\ ~ackonly_frame_sent[e] /\ elapsed # "early"

AckonlyFrames(e, elapsed) ==
    (IF should_send_ackonly_frame[e] THEN <<AckonlyFrame(e)>> ELSE <<>>)
        \o (IF AckonlyAtHalf(e, elapsed) THEN <<AckonlyFrame(e)>> ELSE <<>>)

\* After a timeout the whole buffer is sent again, from its front.
TimeoutFrames(e, buffer, elapsed) ==
    IF elapsed = "due"
    THEN retransmit(buffer, buffer[1].seq_num, tloe_seqnum_prev(next_rx_seq[e]))
    ELSE <<>>

\* What every pass through TX does, whatever it does with its request.
TXCommon(e, elapsed, frames) ==
    /\ At(e, "tx")
    /\ Goto(e, "rx")
    /\ select_buffer(e)
    /\ should_send_ackonly_frame' = [should_send_ackonly_frame EXCEPT ![e] = FALSE]
    /\ ackonly_frame_sent' = [ackonly_frame_sent EXCEPT ![e] = @ \/ AckonlyAtHalf(e, elapsed)]
    /\ fabric' = [fabric EXCEPT ![Peer(e)] = Carry(@, AckonlyFrames(e, elapsed) \o frames)]
    /\ expiries' = IF elapsed = "early" \/ Overdue(e) THEN expiries ELSE expiries + 1
    /\ lead' = IF elapsed = "due"
               THEN [lead EXCEPT ![Peer(e)] = 0,
                        ![e] = IF retransmit_buffer[Peer(e)] = <<>> \/ @ = MaxLead THEN @ ELSE @ + 1]
               ELSE lead
    /\ UNCHANGED <<next_rx_seq, acked_seq, rxlog, tl_msg_buffer, mem, submitted, results,
                   losses, exited>>

\* Nothing to send, a full window, or no credit and no acknowledgement to send.
TX_Hold(e, elapsed) ==
    /\ \/ WindowFull(e)
       \/ /\ Selected(e) = NULL
          /\ ack_buffer[e] = <<>>
          /\ select_max_credit_channel(tx_flow_credits[e]) = CHANNEL_0
       \/ NoCredit(e) /\ ack_buffer[e] = <<>>
    /\ TXCommon(e, elapsed, TimeoutFrames(e, retransmit_buffer[e], elapsed))
    /\ request_tlmsg' = [request_tlmsg EXCEPT ![e] = Selected(e)]
    /\ UNCHANGED <<retransmit_buffer, ack_buffer, next_tx_seq, txlog, fcVars>>

\* prepare_normal_frame; the acknowledgement is the first one of ack_buffer if
\* there is one, and one channel's credit is returned if there is any.
NormalFrame(e, tlmsg) ==
    LET chan == select_max_credit_channel(tx_flow_credits[e])
    IN  [type |-> TYPE_NORMAL, seq_num |-> next_tx_seq[e],
         seq_num_ack |-> IF ack_buffer[e] = <<>> THEN tloe_seqnum_prev(next_rx_seq[e])
                         ELSE Head(ack_buffer[e]).seq_num_ack,
         ack |-> TLOE_ACK,
         chan |-> chan,
         credit |-> IF chan = CHANNEL_0 THEN 0 ELSE get_largest_pow(tx_flow_credits[e][chan]),
         tlmsg |-> tlmsg]

SendNormalFrame(e, elapsed, tlmsg) ==
    LET f == NormalFrame(e, tlmsg)
        buffer == Append(retransmit_buffer[e], f)
    IN  /\ Len(txlog[e]) < MaxTx
        /\ ~WindowFull(e)
        /\ TXCommon(e, elapsed, <<f>> \o TimeoutFrames(e, buffer, elapsed))
        /\ ack_buffer' = [ack_buffer EXCEPT ![e] = IF @ = <<>> THEN @ ELSE Tail(@)]
        /\ tx_flow_credits' =
               IF f.chan = CHANNEL_0 THEN tx_flow_credits
               ELSE [tx_flow_credits EXCEPT ![e] = get_outgoing_credits(@, f.chan)]
        /\ retransmit_buffer' = [retransmit_buffer EXCEPT ![e] = buffer]
        /\ next_tx_seq' = [next_tx_seq EXCEPT ![e] = tloe_seqnum_next(@)]
        /\ txlog' = [txlog EXCEPT ![e] = Append(@, Payload(f))]

TX_Message(e, elapsed) ==
    /\ Selected(e) # NULL
    /\ ~NoCredit(e)
    /\ SendNormalFrame(e, elapsed, Selected(e))
    /\ credits' = [credits EXCEPT ![e] = fc_credit_dec(@, Selected(e))]
    /\ request_tlmsg' = [request_tlmsg EXCEPT ![e] = NULL]

\* A zero-tlmsg frame carries an acknowledgement or credit and no message.
TX_Zero(e, elapsed) ==
    /\ \/ NoCredit(e) /\ ack_buffer[e] # <<>>
       \/ /\ Selected(e) = NULL
          /\ \/ ack_buffer[e] # <<>>
             \/ select_max_credit_channel(tx_flow_credits[e]) # CHANNEL_0
    /\ SendNormalFrame(e, elapsed, NULL)
    /\ request_tlmsg' = [request_tlmsg EXCEPT ![e] = Selected(e)]
    /\ UNCHANGED credits

TX(e) == \E elapsed \in Elapsed(e) :
    TX_Hold(e, elapsed) \/ TX_Message(e, elapsed) \/ TX_Zero(e, elapsed)
-------------------------------------------------------------------------------
\* The receiver.

\* Nothing has arrived.
RX_Idle(e) ==
    /\ At(e, "rx")
    /\ fabric[e] = <<>>
    /\ Goto(e, "tl")
    /\ UNCHANGED <<loopVars, linkVars, fcVars, tlVars, userVars, envVars, exited>>

\* serve_ack, done for every frame that arrives: slide the window, and send
\* the rest of it again for a NAK.
serve_ack(e, f) ==
    LET buffer == slide_window(retransmit_buffer[e], f.seq_num_ack)
        again  == IF f.ack = TLOE_NAK
                  THEN retransmit(buffer, tloe_seqnum_next(f.seq_num_ack),
                                  tloe_seqnum_prev(next_rx_seq[e]))
                  ELSE <<>>
    IN  /\ retransmit_buffer' = [retransmit_buffer EXCEPT ![e] = buffer]
        /\ lead' = IF buffer = retransmit_buffer[e] THEN lead ELSE [lead EXCEPT ![Peer(e)] = 0]
        /\ fabric' = [fabric EXCEPT ![e] = Tail(@), ![Peer(e)] = Carry(@, again)]

\* What every frame that arrives goes through.
RXCommon(e, f) ==
    /\ At(e, "rx")
    /\ Goto(e, "tl")
    /\ serve_ack(e, f)
    /\ ackonly_frame_sent' = [ackonly_frame_sent EXCEPT ![e] = FALSE]
    /\ UNCHANGED <<loopVars, next_tx_seq, txlog, tx_flow_credits, response_buffer, mem,
                   userVars, losses, expiries>>

UpdateAckedSeq(e, f) ==
    acked_seq' = [acked_seq EXCEPT ![e] = tloe_seqnum_update_acked_seq(@, f.seq_num_ack)]

RX_Ackonly(e, f) ==
    /\ f.type = TYPE_ACKONLY
    /\ RXCommon(e, f)
    /\ UpdateAckedSeq(e, f)
    /\ UNCHANGED <<ack_buffer, tl_msg_buffer, next_rx_seq, should_send_ackonly_frame,
                   credits, rxlog, exited>>

REQ_NORMAL == "normal"
REQ_DUPLICATE == "duplicate"
REQ_OOS == "oos"

\* A plausible slip: a frame seen before taken for the next.
Mutant_accept_again(e, f) ==
    IF tloe_seqnum_cmp(f.seq_num, next_rx_seq[e]) <= 0 THEN REQ_NORMAL ELSE REQ_OOS

tloe_rx_get_req_type(e, f) ==
    LET diff_seq == tloe_seqnum_cmp(f.seq_num, next_rx_seq[e])
    IN  CASE diff_seq = 0 -> REQ_NORMAL
          [] diff_seq < 0 -> REQ_DUPLICATE
          [] diff_seq > 0 -> REQ_OOS

\* The frame expected next: what its two handlers have in common.
Accept(e, f) ==
    /\ f.type # TYPE_ACKONLY
    /\ tloe_rx_get_req_type(e, f) = REQ_NORMAL
    /\ RXCommon(e, f)
    /\ next_rx_seq' = [next_rx_seq EXCEPT ![e] = tloe_seqnum_next(f.seq_num)]
    /\ UpdateAckedSeq(e, f)
    /\ credits' = [credits EXCEPT ![e] = fc_credit_inc(@, f.chan, f.credit)]
    /\ rxlog' = [rxlog EXCEPT ![e] = Append(@, Payload(f))]
    /\ UNCHANGED ack_buffer

\* An overflow of tl_msg_buffer ends the process.
serve_normal_request(e, f) ==
    /\ f.tlmsg # NULL
    /\ Accept(e, f)
    /\ IF IsFull(tl_msg_buffer[e], TL_MSG_BUF)
       THEN exited' = [exited EXCEPT ![e] = "tl_msg_buffer"] /\ UNCHANGED tl_msg_buffer
       ELSE /\ tl_msg_buffer' = [tl_msg_buffer EXCEPT ![e] = Append(@, f.tlmsg)]
            /\ UNCHANGED exited
    /\ UNCHANGED should_send_ackonly_frame

serve_zero_tlmsg_request(e, f) ==
    /\ f.tlmsg = NULL
    /\ Accept(e, f)
    /\ should_send_ackonly_frame' = [should_send_ackonly_frame EXCEPT ![e] = TRUE]
    /\ UNCHANGED <<tl_msg_buffer, exited>>

\* Queue an acknowledgement; an overflow of ack_buffer ends the process.
QueueAck(e, entry) ==
    /\ IF IsFull(ack_buffer[e], ACK_BUF)
       THEN exited' = [exited EXCEPT ![e] = "ack_buffer"] /\ UNCHANGED ack_buffer
       ELSE /\ ack_buffer' = [ack_buffer EXCEPT ![e] = Append(@, entry)]
            /\ UNCHANGED exited
    /\ UNCHANGED <<tl_msg_buffer, next_rx_seq, acked_seq, should_send_ackonly_frame,
                   credits, rxlog>>

serve_duplicate_request(e, f) ==
    /\ f.type # TYPE_ACKONLY
    /\ tloe_rx_get_req_type(e, f) = REQ_DUPLICATE
    /\ RXCommon(e, f)
    /\ QueueAck(e, [seq_num_ack |-> f.seq_num, ack |-> TLOE_ACK])

serve_oos_request(e, f) ==
    /\ f.type # TYPE_ACKONLY
    /\ tloe_rx_get_req_type(e, f) = REQ_OOS
    /\ RXCommon(e, f)
    /\ QueueAck(e, [seq_num_ack |-> tloe_seqnum_prev(next_rx_seq[e]), ack |-> TLOE_NAK])

RX(e) ==
    \/ RX_Idle(e)
    \/ /\ fabric[e] # <<>>
       /\ LET f == Head(fabric[e])
          IN  \/ RX_Ackonly(e, f)
              \/ serve_normal_request(e, f)
              \/ serve_zero_tlmsg_request(e, f)
              \/ serve_duplicate_request(e, f)
              \/ serve_oos_request(e, f)
-------------------------------------------------------------------------------
\* The TileLink handler, and the credit the loop returns after it.

TL_Skip(e) ==
    /\ At(e, "tl")
    /\ tl_msg_buffer[e] = <<>> \/ IsFull(response_buffer[e], RESPONSE_BUF)
    /\ Goto(e, "tx")
    /\ UNCHANGED <<loopVars, linkVars, fcVars, tlVars, userVars, envVars, exited>>

TLCommon(e, tlmsg) ==
    /\ At(e, "tl")
    /\ ~IsFull(response_buffer[e], RESPONSE_BUF)
    /\ Goto(e, "tx")
    /\ tl_msg_buffer' = [tl_msg_buffer EXCEPT ![e] = Tail(@)]
    /\ tx_flow_credits' = [tx_flow_credits EXCEPT
            ![e] = add_channel_flow_credits(@, tlmsg.chan, tlmsg_get_flits_cnt(tlmsg))]
    /\ UNCHANGED <<loopVars, linkVars, credits, message_buffer, submitted, envVars>>

Is(tlmsg, chan, opcode) == tlmsg.chan = chan /\ tlmsg.opcode = opcode

Respond(e, tlmsg) == response_buffer' = [response_buffer EXCEPT ![e] = Append(@, tlmsg)]

\* An access that would run over the end of the memory ends the process.
BeyondEnd(tlmsg) == tlmsg.addr \in OutOfBounds /\ tlmsg.size = 3

\* A plausible slip: data[0], the address, stored instead of data[1].
Mutant_put_address(e, tlmsg) ==
    /\ Is(tlmsg, CHANNEL_A, A_PUTFULLDATA_OPCODE)
    /\ TLCommon(e, tlmsg)
    /\ mem' = [mem EXCEPT ![e][tlmsg.addr] = tlmsg.addr]
    /\ Respond(e, AccessAck)
    /\ UNCHANGED <<exited, results>>

handle_A_PUTFULLDATA_opcode(e, tlmsg) ==
    /\ Is(tlmsg, CHANNEL_A, A_PUTFULLDATA_OPCODE)
    /\ TLCommon(e, tlmsg)
    /\ IF BeyondEnd(tlmsg)
       THEN exited' = [exited EXCEPT ![e] = "bounds"] /\ UNCHANGED <<mem, response_buffer>>
       ELSE /\ mem' = [mem EXCEPT ![e][tlmsg.addr] = tlmsg.data]
            /\ Respond(e, AccessAck)
            /\ UNCHANGED exited
    /\ UNCHANGED results

\* A read of size 0 gives the first byte of the word, which holds all of it.
handle_A_GET_opcode(e, tlmsg) ==
    /\ Is(tlmsg, CHANNEL_A, A_GET_OPCODE)
    /\ TLCommon(e, tlmsg)
    /\ IF BeyondEnd(tlmsg)
       THEN exited' = [exited EXCEPT ![e] = "bounds"] /\ UNCHANGED response_buffer
       ELSE Respond(e, AccessAckData(tlmsg.size, mem[e][tlmsg.addr])) /\ UNCHANGED exited
    /\ UNCHANGED <<mem, results>>

\* Both responses count; the one with data is printed.
handle_D_opcode(e, tlmsg) ==
    /\ \/ Is(tlmsg, CHANNEL_D, D_ACCESSACK_OPCODE)
       \/ Is(tlmsg, CHANNEL_D, D_ACCESSACKDATA_OPCODE)
    /\ TLCommon(e, tlmsg)
    /\ results' = [results EXCEPT ![e] = Append(@, tlmsg)]
    /\ UNCHANGED <<mem, response_buffer, exited>>

\* The other entries of tl_handler_table only print; no endpoint sends them.
tl_handler(e) ==
    \/ TL_Skip(e)
    \/ /\ tl_msg_buffer[e] # <<>>
       /\ LET tlmsg == Head(tl_msg_buffer[e])
          IN  \/ handle_A_PUTFULLDATA_opcode(e, tlmsg)
              \/ handle_A_GET_opcode(e, tlmsg)
              \/ handle_D_opcode(e, tlmsg)
-------------------------------------------------------------------------------
\* The fabric loses a frame: a switch, or the relay of tloe_ns asked to.
Lose(e) ==
    /\ losses < MaxLoss
    /\ \E i \in 1 .. Len(fabric[e]) :
          fabric' = [fabric EXCEPT
              ![e] = SubSeq(@, 1, i - 1) \o SubSeq(@, i + 1, Len(@))]
    /\ losses' = losses + 1
    /\ UNCHANGED <<pc, loopVars, linkVars, fcVars, tlVars, userVars, expiries, lead, exited>>

\* tloe_endpoint(): one iteration is select_buffer and TX, RX, tl_handler.
Thread(e) == TX(e) \/ RX(e) \/ tl_handler(e)
User(e) == read_memory(e) \/ write_memory(e) \/ create_and_enqueue_message(e)

Next == \E e \in Endpoint : Thread(e) \/ User(e) \/ Lose(e)

Spec == Init /\ [][Next]_vars

\* The timeout of a frame nothing will acknowledge.
Timeout(e) ==
    /\ Overdue(e)
    /\ retransmit_buffer[e] # <<>>
    /\ TX_Hold(e, "due") \/ TX_Message(e, "due") \/ TX_Zero(e, "due")

\* The operating system schedules both threads, and the clock moves: a frame
\* nothing acknowledges reaches its timeout in some pass through TX.
Fairness == \A e \in Endpoint : WF_vars(Thread(e)) /\ SF_vars(Timeout(e))
FairSpec == Spec /\ Fairness
-------------------------------------------------------------------------------
\* Types.

Entry == [seq_num_ack : SeqNum, ack : {TLOE_ACK, TLOE_NAK}]
LogEntry == [tlmsg : TLMsg \cup {NULL}, chan : Channel, credit : 0 .. 31]

LinkTypeOK ==
    /\ retransmit_buffer \in [Endpoint -> Seq(Frame)]
    /\ ack_buffer \in [Endpoint -> Seq(Entry)]
    /\ next_tx_seq \in [Endpoint -> SeqNum]
    /\ next_rx_seq \in [Endpoint -> SeqNum]
    /\ acked_seq \in [Endpoint -> SeqNum]
    /\ should_send_ackonly_frame \in [Endpoint -> BOOLEAN]
    /\ ackonly_frame_sent \in [Endpoint -> BOOLEAN]
    /\ fabric \in [Endpoint -> Seq(Frame)]
    /\ txlog \in [Endpoint -> Seq(LogEntry)]
    /\ rxlog \in [Endpoint -> Seq(LogEntry)]
    /\ \A e \in Endpoint :
          /\ Len(retransmit_buffer[e]) <= WINDOW_SIZE
          /\ Len(fabric[e]) <= FABRIC_BUF
          /\ Len(txlog[e]) <= MaxTx
          /\ Len(ack_buffer[e]) < ACK_BUF

LoopTypeOK ==
    /\ pc \in [Endpoint -> {"tx", "rx", "tl"}]
    /\ message_buffer \in [Endpoint -> Seq(Request)]
    /\ response_buffer \in [Endpoint -> Seq(Answer)]
    /\ tl_msg_buffer \in [Endpoint -> Seq(TLMsg)]
    /\ request_tlmsg \in [Endpoint -> TLMsg \cup {NULL}]
    /\ buffer_select_counter \in [Endpoint -> 1 .. 4]
    /\ mem \in [Endpoint -> [Addr -> Val \cup {0}]]
    /\ exited \in [Endpoint -> {"no", "tl_msg_buffer", "ack_buffer", "bounds"}]
    /\ submitted \in [Endpoint -> Seq(Request)]
    /\ results \in [Endpoint -> Seq(Answer)]
    /\ losses \in 0 .. MaxLoss
    /\ expiries \in 0 .. MaxExpiry
    /\ lead \in [Endpoint -> 0 .. MaxLead]
    /\ \A e \in Endpoint :
          /\ Len(message_buffer[e]) < MESSAGE_BUF
          /\ Len(response_buffer[e]) < RESPONSE_BUF
          /\ Len(tl_msg_buffer[e]) < TL_MSG_BUF

CreditTypeOK ==
    /\ credits \in [Endpoint -> [Channel -> Nat]]
    /\ tx_flow_credits \in [Endpoint -> [Channel -> Nat]]

\* Type correctness: every queue within the size create_queue gave it, every
\* sequence number within the 22 bits of its header field, and no credit
\* counter, an unsigned int in the code, below zero.
TypeOK == LinkTypeOK /\ LoopTypeOK /\ CreditTypeOK
-------------------------------------------------------------------------------
\* The promises of the link.

\* Each endpoint accepts exactly the payloads (message and returned credit) its
\* peer numbered, each one once and in order, whatever the fabric loses and
\* however often TX sends a frame again, also across the wrap-around of the
\* sequence numbers (tloe_rx_get_req_type, retransmit).
InOrderDelivery ==
    \A e \in Endpoint :
        /\ Len(rxlog[e]) <= Len(txlog[Peer(e)])
        /\ \A i \in 1 .. Len(rxlog[e]) : rxlog[e][i] = txlog[Peer(e)][i]

\* Each direction of the link is a reliable channel with a window: TX numbers a
\* payload only while the peer lacks fewer than WINDOW_SIZE, and RX accepts the
\* next one or none (is_queue_full on retransmit_buffer, tloe_rx_get_req_type).
FromMaster == INSTANCE ReliableChannel WITH
    Window <- WINDOW_SIZE, sent <- txlog["master"], received <- rxlog["slave"]
FromSlave == INSTANCE ReliableChannel WITH
    Window <- WINDOW_SIZE, sent <- txlog["slave"], received <- rxlog["master"]
LinkIsReliable == FromMaster!ChannelSpec /\ FromSlave!ChannelSpec

\* With the threads scheduled, the timeouts expiring and a bounded number of
\* losses, all that is numbered is accepted (TX, retransmit).
LinkDeliversAll == FromMaster!FairChannelSpec /\ FromSlave!FairChannelSpec

\* slide_window never discards a frame the peer has not accepted: those it has
\* popped, the first ones of txlog, are all in the peer's rxlog, and the
\* buffer holds the rest as they were numbered, ready to be sent again.
UnackedRetained ==
    \A e \in Endpoint :
        LET popped == Len(txlog[e]) - Len(retransmit_buffer[e])
        IN  /\ popped \in 0 .. Len(rxlog[Peer(e)])
            /\ \A i \in 1 .. Len(retransmit_buffer[e]) :
                  Payload(retransmit_buffer[e][i]) = txlog[e][popped + i]
===============================================================================
