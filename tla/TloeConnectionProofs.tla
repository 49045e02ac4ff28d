------------------------- MODULE TloeConnectionProofs -------------------------
(***************************************************************************)
(* What holds of a connection whatever the fabric loses and however often  *)
(* a handshake is sent again: the types, also after tloe_endpoint_init has *)
(* reset the numbers, queues and credits, and the account of the requests. *)
(*                                                                         *)
(* LinkInv is of no use here: with losses, frames of one connection reach  *)
(* the next.  What bounds an endpoint is that every connection starts its  *)
(* numbers at 0 and that RX accepts a frame only with the number after     *)
(* that of the last.                                                       *)
(***************************************************************************)
EXTENDS TloeConnectionProps, TloeLinkProofs, FiniteSetTheorems

\* The last number of a frame: those of the handshake, and those TX has given.
TopSeq == MaxTx + 5

LowFrame == {f \in Frame : f.seq_num <= TopSeq}

\* The numbers of a connection never wrap around.
Numbers ==
    /\ fabric \in [Endpoint -> Seq(LowFrame)]
    /\ retransmit_buffer \in [Endpoint -> Seq(LowFrame)]
    /\ \A e \in Endpoint : /\ next_tx_seq[e] <= Len(txlog[e]) + 5
                           /\ next_rx_seq[e] <= TopSeq + 1

\* No connection, and none being closed: tloe_endpoint_init came last.
Closed(e) == ~connection[e] /\ user[e] \notin {"close", "last"}

Phases ==
    \A e \in Endpoint :
        /\ connection[e] => user[e] \in {"idle", "quit"}
        /\ Closed(e) => txlog[e] = <<>>

\* RX may still accept a frame in an iteration begun before the connection was
\* cleared, even after tloe_endpoint_init.
Pending(e) == IF pc[e] = "rx" THEN 1 ELSE 0

Accepted(e) ==
    /\ connection[e] => Len(rxlog[e]) <= next_rx_seq[e] + 1
    /\ Closed(e) => Len(rxlog[e]) + Pending(e) <= 1
    /\ Len(rxlog[e]) + Pending(e) <= TopSeq + 3

\* The types of what TloeConnection adds.
ConnVarsOK ==
    /\ user \in [Endpoint -> {"idle", "open", "close", "last", "quit"}]
    /\ connection \in [Endpoint -> BOOLEAN]
    /\ is_done \in [Endpoint -> BOOLEAN]
    /\ ended \in [Endpoint -> BOOLEAN]
    /\ conn_flag \in [Endpoint -> BOOLEAN]
    /\ start \in [Endpoint -> {"past", "now", "future"}]
    /\ sessions \in [Endpoint -> 0 .. MaxSessions]
    /\ resends \in 0 .. MaxResend

ConnInv == TypeInv /\ ConnVarsOK /\ Numbers /\ Phases /\ \A e \in Endpoint : Accepted(e)

\* SessionRequests, also while there is no connection.
Balanced == \A e \in Endpoint : Asked(e) - Len(submitted[e]) \in {0, 1}
-------------------------------------------------------------------------------
\* Bounds.

\* What the assumptions say of the bounds.
LEMMA TopFact ==
    /\ MaxTx \in Nat \ {0} /\ TopSeq \in Nat /\ MAX_SEQ_NUM \in Nat
    /\ TopSeq + 1 <= MAX_SEQ_NUM
    /\ TopSeq + 3 <= HALF_MAX_SEQ_NUM + 12
    /\ 5 \in SeqNum /\ 0 \in SeqNum /\ MAX_SEQ_NUM \in SeqNum
<1>1. MaxTx \in Nat /\ MaxTx < HALF_MAX_SEQ_NUM /\ MaxTx # 0
  BY BoundAssumption, ConnAssumption
<1>2. MAX_SEQ_NUM \in Nat /\ MAX_SEQ_NUM >= 12
  BY MaxSeqNumAssumption, ConnAssumption DEF CHANNEL_NUM
<1>3. HALF_MAX_SEQ_NUM \in Nat /\ MAX_SEQ_NUM + 1 = 2 * HALF_MAX_SEQ_NUM
  BY HalfFact
<1> QED BY <1>1, <1>2, <1>3 DEF TopSeq, SeqNum

\* The number after s.
LEMMA NextLow ==
    ASSUME NEW s \in SeqNum
    PROVE  /\ tloe_seqnum_next(s) \in SeqNum /\ tloe_seqnum_next(s) <= s + 1
           /\ s <= TopSeq => tloe_seqnum_next(s) = s + 1
<1>1. tloe_seqnum_next(s) = IF s = MAX_SEQ_NUM THEN 0 ELSE s + 1
  BY NextFact
<1>2. s \in Nat /\ s <= MAX_SEQ_NUM
  BY MaxSeqNumAssumption DEF SeqNum
<1> QED BY <1>1, <1>2, TopFact DEF SeqNum

LEMMA LowFact ==
    /\ LowFrame \subseteq Frame
    /\ \A f \in LowFrame : f.seq_num \in SeqNum /\ f.seq_num <= TopSeq
    /\ \A f \in Frame : f.seq_num <= TopSeq => f \in LowFrame
    /\ \A f \in LowFrame, a \in SeqNum : [f EXCEPT !.seq_num_ack = a] \in LowFrame
BY DEF LowFrame, Frame

\* The account of what RX accepts keeps what it has to return within bounds.
LEMMA AcceptedFact ==
    ConnInv => AcceptedBound
<1> SUFFICES ASSUME ConnInv, NEW e \in Endpoint
             PROVE  Len(rxlog[e]) <= HALF_MAX_SEQ_NUM + 12
  BY DEF AcceptedBound, CHANNEL_NUM
<1>1. rxlog[e] \in Seq(LogEntry) /\ Len(rxlog[e]) + Pending(e) <= TopSeq + 3
  BY DEF ConnInv, TypeInv, TypeOK, LinkTypeOK, Accepted
<1>2. Len(rxlog[e]) \in Nat /\ Pending(e) \in {0, 1}
  BY <1>1 DEF Pending
<1> QED BY <1>1, <1>2, TopFact, HalfFact

\* The parts of the state that the lemmas below speak about.
LEMMA ConnTypes ==
    ASSUME ConnInv
    PROVE  /\ TypeInv /\ TypeOK /\ LinkTypeOK /\ LoopTypeOK /\ CreditTypeOK /\ CreditBound
           /\ ConnVarsOK /\ Numbers /\ Phases /\ AcceptedBound
           /\ \A e \in Endpoint : Accepted(e)
BY AcceptedFact DEF ConnInv, TypeInv, TypeOK
-------------------------------------------------------------------------------
\* The numbers, in the steps of the endpoint threads.

\* Frames that carry low numbers are sent again with low numbers.
LEMMA RefreshLow ==
    ASSUME LinkTypeOK, NEW e \in Endpoint
    PROVE  \A f \in LowFrame : [f EXCEPT !.seq_num_ack = tloe_seqnum_prev(next_rx_seq[e])] \in LowFrame
<1>1. tloe_seqnum_prev(next_rx_seq[e]) \in SeqNum
  BY SeqNumFact DEF LinkTypeOK
<1> QED BY <1>1, LowFact

\* The next number TX gives is low.
LEMMA TXLow ==
    ASSUME LinkTypeOK, Numbers, NEW e \in Endpoint
    PROVE  /\ next_tx_seq[e] \in SeqNum /\ next_tx_seq[e] <= TopSeq
           /\ next_rx_seq[e] \in SeqNum /\ next_rx_seq[e] <= TopSeq + 1
           /\ txlog[e] \in Seq(LogEntry) /\ Len(txlog[e]) \in Nat /\ Len(txlog[e]) <= MaxTx
           /\ fabric[e] \in Seq(LowFrame) /\ retransmit_buffer[e] \in Seq(LowFrame)
<1>1. next_tx_seq[e] \in SeqNum /\ txlog[e] \in Seq(LogEntry) /\ Len(txlog[e]) <= MaxTx
      /\ next_rx_seq[e] \in SeqNum
  BY DEF LinkTypeOK
<1>2. next_tx_seq[e] <= Len(txlog[e]) + 5 /\ next_rx_seq[e] <= TopSeq + 1
  BY DEF Numbers
<1>3. Len(txlog[e]) \in Nat /\ next_tx_seq[e] \in Int
  BY <1>1, TopFact DEF SeqNum
<1>4. next_tx_seq[e] <= TopSeq
  BY <1>1, <1>2, <1>3, TopFact DEF TopSeq
<1>5. fabric[e] \in Seq(LowFrame) /\ retransmit_buffer[e] \in Seq(LowFrame)
  BY DEF Numbers
<1> QED BY <1>1, <1>2, <1>3, <1>4, <1>5

\* What TX puts into the fabric.
LEMMA TXCommonLow ==
    ASSUME LinkTypeOK, Numbers, NEW e \in Endpoint, NEW elapsed,
           NEW frames \in Seq(LowFrame), TXCommon(e, elapsed, frames)
    PROVE  fabric' \in [Endpoint -> Seq(LowFrame)]
<1> DEFINE acks == AckonlyFrames(e, elapsed)
           queue == Carry(fabric[Peer(e)], acks \o frames)
<1>1. AckonlyFrame(e) \in LowFrame
  <2>1. next_tx_seq[e] \in SeqNum /\ tloe_seqnum_prev(next_rx_seq[e]) \in SeqNum
    BY SeqNumFact DEF LinkTypeOK
  <2>2. AckonlyFrame(e) \in Frame
    BY <2>1 DEF AckonlyFrame, Frame, Channel, CHANNEL_NUM, CHANNEL_0
  <2>3. AckonlyFrame(e).seq_num = next_tx_seq[e]
    BY DEF AckonlyFrame
  <2> QED BY <2>2, <2>3, LowFact, TXLow
<1> HIDE DEF LowFrame
<1>2. acks \in Seq(LowFrame)
  <2>1. <<AckonlyFrame(e)>> \in Seq(LowFrame) /\ <<>> \in Seq(LowFrame)
    BY <1>1
  <2> QED BY <2>1 DEF AckonlyFrames
<1> HIDE DEF acks
<1>3. Peer(e) \in Endpoint
  BY PeerFact
<1>4. fabric[Peer(e)] \in Seq(LowFrame) /\ acks \o frames \in Seq(LowFrame)
  BY <1>2, <1>3, TXLow
<1>5. queue \in Seq(LowFrame)
  BY <1>4, CarryType
<1>6. fabric' = [fabric EXCEPT ![Peer(e)] = queue]
  BY DEF TXCommon, acks
<1> HIDE DEF queue
<1> QED BY <1>3, <1>5, <1>6 DEF Numbers

LEMMA HoldLow ==
    ASSUME LinkTypeOK, Numbers, NEW e \in Endpoint, NEW elapsed, TX_Hold(e, elapsed)
    PROVE  Numbers'
<1> DEFINE frames == TimeoutFrames(e, retransmit_buffer[e], elapsed)
<1>1. frames \in Seq(LowFrame)
  <2> HIDE DEF LowFrame
  <2> QED BY TXLow, RefreshLow, TimeoutType
<1>2. /\ TXCommon(e, elapsed, frames)
      /\ UNCHANGED <<retransmit_buffer, next_tx_seq, txlog>>
  BY DEF TX_Hold
<1> HIDE DEF frames
<1>3. fabric' \in [Endpoint -> Seq(LowFrame)] /\ next_rx_seq' = next_rx_seq
  BY <1>1, <1>2, TXCommonLow DEF TXCommon
<1> QED BY <1>2, <1>3 DEF Numbers

LEMMA SendLow ==
    ASSUME TypeInv, AcceptedBound, Numbers, NEW e \in Endpoint, NEW elapsed,
           NEW tlmsg \in TLMsg \cup {NULL}, SendNormalFrame(e, elapsed, tlmsg)
    PROVE  Numbers'
<1> DEFINE f == NormalFrame(e, tlmsg)
           buffer == Append(retransmit_buffer[e], f)
           frames == <<f>> \o TimeoutFrames(e, buffer, elapsed)
           log == Append(txlog[e], Payload(f))
<1>0. LinkTypeOK
  BY DEF TypeInv, TypeOK
<1>1. f \in LowFrame /\ Payload(f) \in LogEntry
  <2>1. f \in Frame
    BY NormalType
  <2>2. f.seq_num = next_tx_seq[e]
    BY DEF NormalFrame
  <2> HIDE DEF f
  <2> QED BY <1>0, <2>1, <2>2, TXLow, LowFact, FrameFact
<1>2. /\ TXCommon(e, elapsed, frames)
      /\ retransmit_buffer' = [retransmit_buffer EXCEPT ![e] = buffer]
      /\ next_tx_seq' = [next_tx_seq EXCEPT ![e] = tloe_seqnum_next(next_tx_seq[e])]
      /\ txlog' = [txlog EXCEPT ![e] = log]
  BY DEF SendNormalFrame
<1> HIDE DEF f
<1> HIDE DEF LowFrame
<1>3. buffer \in Seq(LowFrame)
  BY <1>0, <1>1, TXLow
<1> HIDE DEF buffer
<1>4. frames \in Seq(LowFrame)
  <2>1. TimeoutFrames(e, buffer, elapsed) \in Seq(LowFrame)
    BY <1>0, <1>3, RefreshLow, TimeoutType
  <2> QED BY <1>1, <2>1
<1> HIDE DEF frames
<1>5. fabric' \in [Endpoint -> Seq(LowFrame)] /\ next_rx_seq' = next_rx_seq
  BY <1>0, <1>2, <1>4, TXCommonLow DEF TXCommon
<1>6. retransmit_buffer' \in [Endpoint -> Seq(LowFrame)]
  BY <1>2, <1>3 DEF Numbers
<1>7. Len(log) = Len(txlog[e]) + 1
  BY <1>0, <1>1, TXLow
<1> HIDE DEF log
<1>8. tloe_seqnum_next(next_tx_seq[e]) <= Len(log) + 5
  <2>1. /\ next_tx_seq[e] \in SeqNum /\ Len(txlog[e]) \in Nat
        /\ next_tx_seq[e] <= Len(txlog[e]) + 5
    BY <1>0, TXLow DEF Numbers
  <2>2. /\ tloe_seqnum_next(next_tx_seq[e]) \in SeqNum
        /\ tloe_seqnum_next(next_tx_seq[e]) <= next_tx_seq[e] + 1
    BY <2>1, NextLow
  <2> QED BY <1>7, <2>1, <2>2, TopFact DEF SeqNum
<1>9. \A x \in Endpoint : next_tx_seq'[x] <= Len(txlog'[x]) + 5
  <2>1. next_tx_seq \in [Endpoint -> SeqNum] /\ txlog \in [Endpoint -> Seq(LogEntry)]
    BY <1>0 DEF LinkTypeOK
  <2> QED BY <1>2, <1>8, <2>1 DEF Numbers
<1> QED BY <1>5, <1>6, <1>9 DEF Numbers

\* What every frame that arrives leaves in the fabric and the buffer.
LEMMA RXCommonLow ==
    ASSUME LinkTypeOK, Numbers, NEW e \in Endpoint, fabric[e] # <<>>, RXCommon(e, Head(fabric[e]))
    PROVE  /\ fabric' \in [Endpoint -> Seq(LowFrame)]
           /\ retransmit_buffer' \in [Endpoint -> Seq(LowFrame)]
           /\ UNCHANGED <<next_tx_seq, txlog>>
<1> DEFINE p == Peer(e)
           f == Head(fabric[e])
           buffer == slide_window(retransmit_buffer[e], f.seq_num_ack)
           again == IF f.ack = TLOE_NAK
                    THEN retransmit(buffer, tloe_seqnum_next(f.seq_num_ack),
                                    tloe_seqnum_prev(next_rx_seq[e]))
                    ELSE <<>>
<1>1. p \in Endpoint /\ p # e
  BY PeerFact
<1>2. /\ retransmit_buffer' = [retransmit_buffer EXCEPT ![e] = buffer]
      /\ fabric' = [fabric EXCEPT ![e] = Tail(fabric[e]), ![p] = Carry(fabric[p], again)]
      /\ UNCHANGED <<next_tx_seq, txlog>>
  BY <1>1 DEF RXCommon, serve_ack, LinkTypeOK
<1> HIDE DEF LowFrame
<1>3. buffer \in Seq(LowFrame)
  BY TXLow, SlideType
<1> HIDE DEF buffer
<1>4. again \in Seq(LowFrame)
  <2>1. <<>> \in Seq(LowFrame)
    OBVIOUS
  <2> QED BY <1>3, <2>1, RefreshLow, RetransmitType
<1> HIDE DEF again
<1>5. Carry(fabric[p], again) \in Seq(LowFrame)
  BY <1>1, <1>4, TXLow, CarryType
<1>6. Tail(fabric[e]) \in Seq(LowFrame)
  BY TXLow
<1> HIDE DEF p
<1>7. fabric' \in [Endpoint -> Seq(LowFrame)]
  BY <1>1, <1>2, <1>5, <1>6 DEF Numbers
<1>8. retransmit_buffer' \in [Endpoint -> Seq(LowFrame)]
  BY <1>2, <1>3 DEF Numbers
<1> QED BY <1>2, <1>7, <1>8

\* A frame that is lost changes no number.
LEMMA LoseLow ==
    ASSUME LinkTypeOK, Numbers, NEW e \in Endpoint, Lose(e)
    PROVE  Numbers'
<1> DEFINE q == fabric[e]
<1>1. PICK i \in 1 .. Len(q) :
        fabric' = [fabric EXCEPT ![e] = SubSeq(q, 1, i - 1) \o SubSeq(q, i + 1, Len(q))]
  BY DEF Lose
<1> HIDE DEF LowFrame
<1>2. q \in Seq(LowFrame) /\ Len(q) \in Nat
  BY TXLow
<1> HIDE DEF q
<1>3. SubSeq(q, 1, i - 1) \in Seq(LowFrame)
  <2>1. CASE i = 1
    <3>1. SubSeq(q, 1, i - 1) = <<>>
      BY <1>2, <2>1
    <3> QED BY <3>1
  <2>2. CASE i # 1
    BY <1>2, <2>2
  <2> QED BY <2>1, <2>2
<1>4. SubSeq(q, i + 1, Len(q)) \in Seq(LowFrame)
  <2>1. CASE i = Len(q)
    <3>1. SubSeq(q, i + 1, Len(q)) = <<>>
      BY <1>2, <2>1
    <3> QED BY <3>1
  <2>2. CASE i # Len(q)
    BY <1>2, <2>2
  <2> QED BY <2>1, <2>2
<1> DEFINE rest == SubSeq(q, 1, i - 1) \o SubSeq(q, i + 1, Len(q))
<1>5. rest \in Seq(LowFrame) /\ fabric' = [fabric EXCEPT ![e] = rest]
  BY <1>1, <1>3, <1>4
<1> HIDE DEF rest
<1>6. fabric' \in [Endpoint -> Seq(LowFrame)]
  BY <1>5 DEF Numbers
<1>7. UNCHANGED <<retransmit_buffer, next_tx_seq, next_rx_seq, txlog>>
  BY DEF Lose, linkVars, seqVars
<1> QED BY <1>6, <1>7 DEF Numbers
-------------------------------------------------------------------------------
\* The steps of the endpoint threads keep ConnInv.

\* The numbers that Accepted compares.
LEMMA AcceptedTypes ==
    ASSUME LinkTypeOK, NEW e \in Endpoint
    PROVE  /\ rxlog[e] \in Seq(LogEntry) /\ Len(rxlog[e]) \in Nat
           /\ next_rx_seq[e] \in Nat /\ Pending(e) \in {0, 1} /\ TopSeq \in Nat
<1>1. rxlog[e] \in Seq(LogEntry) /\ next_rx_seq[e] \in SeqNum
  BY DEF LinkTypeOK
<1> QED BY <1>1, TopFact DEF SeqNum, Pending

\* What is the same for an endpoint that a step leaves alone.
LEMMA OtherAccepted ==
    ASSUME NEW x \in Endpoint, Accepted(x),
           connection'[x] = connection[x], user'[x] = user[x], pc'[x] = pc[x],
           rxlog'[x] = rxlog[x], next_rx_seq'[x] = next_rx_seq[x]
    PROVE  Accepted(x)'
BY DEF Accepted, Closed, Pending

\* TX begins an iteration, which may accept one frame.
LEMMA TXConn ==
    ASSUME ConnInv, NEW e \in Endpoint, connection[e], TX(e), UNCHANGED connVars
    PROVE  ConnInv'
<1>1. /\ TypeInv /\ LinkTypeOK /\ LoopTypeOK /\ ConnVarsOK /\ Numbers /\ Phases /\ AcceptedBound
      /\ \A x \in Endpoint : Accepted(x)
  BY ConnTypes
<1>2. TypeInv'
  BY <1>1, NextType DEF Next, Thread
<1>3. PICK elapsed \in Elapsed(e) :
        TX_Hold(e, elapsed) \/ TX_Message(e, elapsed) \/ TX_Zero(e, elapsed)
  BY DEF TX
<1>4. PICK frames : TXCommon(e, elapsed, frames)
  BY <1>3 DEF TX_Hold, TX_Message, TX_Zero, SendNormalFrame
<1>5. Numbers'
  <2>1. CASE TX_Hold(e, elapsed)
    BY <1>1, <2>1, HoldLow
  <2>2. CASE TX_Message(e, elapsed)
    <3>1. Selected(e) \in TLMsg \cup {NULL} /\ SendNormalFrame(e, elapsed, Selected(e))
      BY <1>1, <2>2, SelectedType DEF TX_Message
    <3> QED BY <1>1, <3>1, SendLow
  <2>3. CASE TX_Zero(e, elapsed)
    <3>1. NULL \in TLMsg \cup {NULL} /\ SendNormalFrame(e, elapsed, NULL)
      BY <2>3 DEF TX_Zero
    <3> QED BY <1>1, <3>1, SendLow
  <2> QED BY <1>3, <2>1, <2>2, <2>3
<1>6. /\ rxlog' = rxlog /\ next_rx_seq' = next_rx_seq /\ pc' = [pc EXCEPT ![e] = "rx"]
      /\ UNCHANGED <<user, connection, is_done, ended, conn_flag, start, sessions, resends>>
  BY <1>4 DEF TXCommon, Goto, connVars
<1>7. \A x \in Endpoint : x # e => txlog'[x] = txlog[x]
  <2>1. txlog \in [Endpoint -> Seq(LogEntry)]
    BY <1>1 DEF LinkTypeOK
  <2> QED BY <1>3, <2>1 DEF TX_Hold, TX_Message, TX_Zero, SendNormalFrame
<1>8. Phases'
  BY <1>1, <1>6, <1>7 DEF Phases, Closed
<1>9. ConnVarsOK'
  BY <1>1, <1>6 DEF ConnVarsOK
<1>10. Accepted(e)'
  <2>1. /\ Len(rxlog[e]) \in Nat /\ next_rx_seq[e] \in Nat /\ TopSeq \in Nat
        /\ Len(rxlog[e]) <= next_rx_seq[e] + 1 /\ next_rx_seq[e] <= TopSeq + 1
    BY <1>1, AcceptedTypes DEF Accepted, Numbers
  <2>2. Pending(e)' \in {0, 1}
    BY DEF Pending
  <2>3. Len(rxlog[e]) + Pending(e)' <= TopSeq + 3
    BY <2>1, <2>2
  <2> QED BY <1>6, <2>1, <2>3 DEF Accepted, Closed
<1>11. ASSUME NEW x \in Endpoint PROVE Accepted(x)'
  <2>1. CASE x # e
    <3>1. pc'[x] = pc[x]
      BY <1>1, <1>6, <2>1 DEF LoopTypeOK
    <3> QED BY <1>1, <1>6, <3>1, OtherAccepted
  <2> QED BY <1>10, <2>1
<1> QED BY <1>2, <1>5, <1>8, <1>9, <1>11 DEF ConnInv

\* A frame is expected only if it has the number expected next.
LEMMA NormalNumber ==
    ASSUME NEW e \in Endpoint, NEW f, f.seq_num \in SeqNum, next_rx_seq[e] \in SeqNum,
           tloe_rx_get_req_type(e, f) = REQ_NORMAL
    PROVE  f.seq_num = next_rx_seq[e]
<1> DEFINE s == f.seq_num
           r == next_rx_seq[e]
           diff == tloe_seqnum_cmp(s, r)
<1>1. s \in Int /\ r \in Int
  BY DEF SeqNum
<1>2. tloe_rx_get_req_type(e, f) = CASE diff = 0 -> REQ_NORMAL
                                     [] diff < 0 -> REQ_DUPLICATE
                                     [] diff > 0 -> REQ_OOS
  BY DEF tloe_rx_get_req_type
<1> HIDE DEF s, r
<1>3. (s - r = 0 => diff = 0) /\ (s # r => diff = 1 \/ diff = -1)
  BY <1>1, HalfFact DEF tloe_seqnum_cmp
<1> HIDE DEF diff
<1>4. s # r => diff # 0 /\ (diff < 0 \/ diff > 0) /\ ~(diff < 0 /\ diff > 0)
  BY <1>3
<1>5. s # r => tloe_rx_get_req_type(e, f) # REQ_NORMAL
  BY <1>2, <1>4 DEF REQ_NORMAL, REQ_DUPLICATE, REQ_OOS
<1> QED BY <1>5 DEF s, r

\* RX ends the part of an iteration that may accept a frame; what it accepts
\* has the number it expects.
LEMMA RXConn ==
    ASSUME ConnInv, NEW e \in Endpoint, RX(e), UNCHANGED connVars
    PROVE  ConnInv'
<1> DEFINE f == Head(fabric[e])
<1>1. /\ TypeInv /\ LinkTypeOK /\ LoopTypeOK /\ ConnVarsOK /\ Numbers /\ Phases /\ AcceptedBound
      /\ \A x \in Endpoint : Accepted(x)
  BY ConnTypes
<1>2. TypeInv'
  BY <1>1, NextType DEF Next, Thread
<1>3. UNCHANGED <<user, connection, is_done, ended, conn_flag, start, sessions, resends>>
  BY DEF connVars
<1>4. ConnVarsOK'
  BY <1>1, <1>3 DEF ConnVarsOK
<1>5. RX_Idle(e) \/ (fabric[e] # <<>> /\ RXCommon(e, f))
  BY DEF RX, RX_Ackonly, serve_normal_request, serve_zero_tlmsg_request, Accept,
         serve_duplicate_request, serve_oos_request
<1>6. pc[e] = "rx" /\ pc' = [pc EXCEPT ![e] = "tl"]
  BY <1>5 DEF RX_Idle, RXCommon, At, Goto
<1>7. \/ UNCHANGED <<next_rx_seq, rxlog>>
      \/ /\ fabric[e] # <<>>
         /\ tloe_rx_get_req_type(e, f) = REQ_NORMAL
         /\ next_rx_seq' = [next_rx_seq EXCEPT ![e] = tloe_seqnum_next(f.seq_num)]
         /\ rxlog' = [rxlog EXCEPT ![e] = Append(rxlog[e], Payload(f))]
  BY DEF RX, RX_Idle, linkVars, seqVars, RX_Ackonly, serve_normal_request,
         serve_zero_tlmsg_request, Accept, serve_duplicate_request, serve_oos_request, QueueAck
<1>8. fabric[e] # <<>> => f \in LowFrame /\ f \in Frame /\ f.seq_num \in SeqNum /\ f.seq_num <= TopSeq
  <2>1. fabric[e] # <<>> => f \in LowFrame
    <3> HIDE DEF LowFrame
    <3> QED BY <1>1, TXLow
  <2> HIDE DEF f
  <2> QED BY <2>1, LowFact
<1> HIDE DEF f
<1>9. /\ UNCHANGED <<next_tx_seq, txlog>>
      /\ fabric' \in [Endpoint -> Seq(LowFrame)]
      /\ retransmit_buffer' \in [Endpoint -> Seq(LowFrame)]
  <2>1. CASE RX_Idle(e)
    BY <1>1, <2>1 DEF RX_Idle, linkVars, seqVars, envVars, Numbers
  <2>2. CASE fabric[e] # <<>> /\ RXCommon(e, f)
    BY <1>1, <2>2, RXCommonLow DEF f
  <2> QED BY <1>5, <2>1, <2>2
<1>10. ASSUME fabric[e] # <<>>
       PROVE  /\ tloe_seqnum_next(f.seq_num) = f.seq_num + 1
              /\ tloe_seqnum_next(f.seq_num) <= TopSeq + 1
  <2>1. f.seq_num \in SeqNum /\ f.seq_num <= TopSeq
    BY <1>8, <1>10
  <2>2. tloe_seqnum_next(f.seq_num) = f.seq_num + 1
    BY <2>1, NextLow
  <2>3. f.seq_num \in Nat
    BY <2>1, TopFact DEF SeqNum
  <2> QED BY <2>1, <2>2, <2>3, TopFact
<1>11. Numbers'
  <2>1. next_rx_seq \in [Endpoint -> SeqNum]
    BY <1>1 DEF LinkTypeOK
  <2>2. \A x \in Endpoint : next_rx_seq'[x] <= TopSeq + 1
    BY <1>1, <1>7, <1>10, <2>1 DEF Numbers
  <2> QED BY <1>1, <1>9, <2>2 DEF Numbers
<1>12. Phases'
  BY <1>1, <1>3, <1>9 DEF Phases, Closed
<1>13. Accepted(e)'
  <2>1. /\ Len(rxlog[e]) \in Nat /\ next_rx_seq[e] \in Nat /\ TopSeq \in Nat
        /\ next_rx_seq[e] \in SeqNum /\ rxlog[e] \in Seq(LogEntry) /\ Accepted(e)
    BY <1>1, AcceptedTypes DEF LinkTypeOK
  <2>2. Pending(e) = 1 /\ Pending(e)' = 0
    BY <1>1, <1>6 DEF Pending, LoopTypeOK
  <2>3. CASE UNCHANGED <<next_rx_seq, rxlog>>
    BY <1>3, <2>1, <2>2, <2>3 DEF Accepted, Closed
  <2>4. CASE ~UNCHANGED <<next_rx_seq, rxlog>>
    <3>1. f.seq_num = next_rx_seq[e]
      BY <1>7, <1>8, <2>1, <2>4, NormalNumber
    <3>2. next_rx_seq'[e] = next_rx_seq[e] + 1 /\ Len(rxlog'[e]) = Len(rxlog[e]) + 1
      <4>1. Payload(f) \in LogEntry
        BY <1>7, <1>8, <2>4, FrameFact
      <4>2. Len(Append(rxlog[e], Payload(f))) = Len(rxlog[e]) + 1
        BY <2>1, <4>1
      <4> QED BY <1>1, <1>7, <1>10, <2>4, <3>1, <4>2 DEF LinkTypeOK
    <3> QED BY <1>3, <2>1, <2>2, <3>2 DEF Accepted, Closed
  <2> QED BY <2>3, <2>4
<1>14. ASSUME NEW x \in Endpoint PROVE Accepted(x)'
  <2>1. CASE x # e
    <3>1. pc'[x] = pc[x] /\ rxlog'[x] = rxlog[x] /\ next_rx_seq'[x] = next_rx_seq[x]
      BY <1>1, <1>6, <1>7, <2>1 DEF LoopTypeOK, LinkTypeOK
    <3> QED BY <1>1, <1>3, <3>1, OtherAccepted
  <2> QED BY <1>13, <2>1
<1> QED BY <1>2, <1>4, <1>11, <1>12, <1>14 DEF ConnInv

\* A step that leaves the link alone and begins no RX.
LEMMA QuietConn ==
    ASSUME ConnInv, TypeInv', ConnVarsOK', Numbers',
           UNCHANGED <<user, connection, rxlog, next_rx_seq, txlog>>,
           \A x \in Endpoint : pc'[x] = pc[x] \/ pc'[x] = "tx"
    PROVE  ConnInv'
<1>1. LinkTypeOK /\ Phases /\ \A x \in Endpoint : Accepted(x)
  BY ConnTypes
<1>2. Phases'
  BY <1>1 DEF Phases, Closed
<1>3. ASSUME NEW x \in Endpoint PROVE Accepted(x)'
  <2>1. Len(rxlog[x]) \in Nat /\ Pending(x) \in {0, 1} /\ TopSeq \in Nat /\ next_rx_seq[x] \in Nat
    BY <1>1, AcceptedTypes
  <2>2. Pending(x)' \in {0, 1} /\ Pending(x)' <= Pending(x)
    BY DEF Pending
  <2>3. Accepted(x)
    BY <1>1
  <2> QED BY <2>1, <2>2, <2>3 DEF Accepted, Closed
<1> QED BY <1>2, <1>3 DEF ConnInv

LEMMA HandlerConn ==
    ASSUME ConnInv, NEW e \in Endpoint, tl_handler(e),
           ended' = [ended EXCEPT ![e] = is_done[e]],
           UNCHANGED <<user, connection, is_done, conn_flag, start, sessions, resends>>
    PROVE  ConnInv'
<1>1. TypeInv /\ LoopTypeOK /\ ConnVarsOK /\ Numbers /\ AcceptedBound
  BY ConnTypes
<1>2. TypeInv'
  BY <1>1, NextType DEF Next, Thread
<1>3. ConnVarsOK'
  BY <1>1 DEF ConnVarsOK
<1>4. UNCHANGED linkVars /\ UNCHANGED envVars /\ pc' = [pc EXCEPT ![e] = "tx"]
  BY DEF tl_handler, TL_Skip, TLCommon, Goto, handle_A_PUTFULLDATA_opcode,
         handle_A_GET_opcode, handle_D_opcode
<1>5. Numbers'
  BY <1>1, <1>4 DEF linkVars, seqVars, envVars, Numbers
<1>6. \A x \in Endpoint : pc'[x] = pc[x] \/ pc'[x] = "tx"
  BY <1>1, <1>4 DEF LoopTypeOK
<1> QED BY <1>2, <1>3, <1>4, <1>5, <1>6, QuietConn DEF linkVars, seqVars

LEMMA UserConn ==
    ASSUME ConnInv, NEW e \in Endpoint, User(e), UNCHANGED connVars
    PROVE  ConnInv'
<1>1. TypeInv /\ ConnVarsOK /\ Numbers /\ AcceptedBound
  BY ConnTypes
<1>2. TypeInv'
  BY <1>1, NextType DEF Next
<1>3. ConnVarsOK'
  BY <1>1 DEF ConnVarsOK, connVars
<1>4. UNCHANGED linkVars /\ UNCHANGED envVars /\ UNCHANGED pc
  BY DEF User, read_memory, write_memory, create_and_enqueue_message, Submit
<1>5. Numbers'
  BY <1>1, <1>4 DEF linkVars, seqVars, envVars, Numbers
<1> QED BY <1>2, <1>3, <1>4, <1>5, QuietConn DEF linkVars, seqVars, connVars

LEMMA LoseConn ==
    ASSUME ConnInv, NEW e \in Endpoint, Lose(e), UNCHANGED connVars
    PROVE  ConnInv'
<1>1. TypeInv /\ LinkTypeOK /\ ConnVarsOK /\ Numbers /\ AcceptedBound
  BY ConnTypes
<1>2. TypeInv'
  BY <1>1, NextType DEF Next
<1>3. ConnVarsOK'
  BY <1>1 DEF ConnVarsOK, connVars
<1>4. UNCHANGED linkVars /\ UNCHANGED pc
  BY DEF Lose
<1>5. Numbers'
  BY <1>1, LoseLow
<1> QED BY <1>2, <1>3, <1>4, <1>5, QuietConn DEF linkVars, seqVars, connVars

LEMMA StutterConn ==
    ASSUME ConnInv, UNCHANGED allVars
    PROVE  ConnInv'
<1>1. TypeInv /\ ConnVarsOK /\ Numbers /\ AcceptedBound
  BY ConnTypes
<1>2. UNCHANGED vars /\ UNCHANGED connVars
  BY DEF allVars
<1>3. TypeInv'
  BY <1>1, <1>2, NextType
<1>4. ConnVarsOK'
  BY <1>1, <1>2 DEF ConnVarsOK, connVars
<1>5. UNCHANGED linkVars /\ UNCHANGED envVars /\ UNCHANGED pc
  BY <1>2 DEF vars
<1>6. Numbers'
  BY <1>1, <1>5 DEF linkVars, seqVars, envVars, Numbers
<1> QED BY <1>2, <1>3, <1>4, <1>5, <1>6, QuietConn DEF linkVars, seqVars, connVars
-------------------------------------------------------------------------------
\* The commands keep ConnInv.

LEMMA CommandConn ==
    ASSUME ConnInv, NEW e \in Endpoint, open_conn(e) \/ close_conn(e) \/ quit(e)
    PROVE  ConnInv'
<1>1. /\ TypeInv /\ LinkTypeOK /\ LoopTypeOK /\ ConnVarsOK /\ Numbers /\ Phases /\ AcceptedBound
      /\ \A x \in Endpoint : Accepted(x)
  BY ConnTypes
<1>2. UNCHANGED vars
  BY DEF open_conn, close_conn, quit
<1>3. TypeInv'
  BY <1>1, <1>2, NextType
<1>4. UNCHANGED linkVars /\ UNCHANGED envVars /\ UNCHANGED pc
  BY <1>2 DEF vars
<1>5. Numbers'
  BY <1>1, <1>4 DEF linkVars, seqVars, envVars, Numbers
<1>6. ConnVarsOK'
  <2>1. CASE open_conn(e)
    <3>1. sessions[e] + 1 \in 0 .. MaxSessions
      BY <1>1, <2>1, ConnAssumption DEF open_conn, ConnVarsOK
    <3>2. start' \in [Endpoint -> {"past", "now", "future"}]
      BY <1>1, <2>1, ConnAssumption DEF open_conn, ConnVarsOK
    <3> QED BY <1>1, <2>1, <3>1, <3>2 DEF open_conn, ConnVarsOK
  <2>2. CASE close_conn(e)
    BY <1>1, <2>2 DEF close_conn, ConnVarsOK
  <2>3. CASE quit(e)
    BY <1>1, <2>3 DEF quit, ConnVarsOK
  <2> QED BY <2>1, <2>2, <2>3
<1>7. /\ user[e] = "idle" /\ user \in [Endpoint -> {"idle", "open", "close", "last", "quit"}]
      /\ connection \in [Endpoint -> BOOLEAN]
      /\ \/ /\ user' = [user EXCEPT ![e] = "open"] /\ connection' = connection /\ ~connection[e]
         \/ /\ user' = [user EXCEPT ![e] = "close"]
            /\ connection' = [connection EXCEPT ![e] = FALSE]
         \/ /\ user' = [user EXCEPT ![e] = "quit"] /\ connection' = connection
  BY <1>1 DEF open_conn, close_conn, quit, UserIn, ConnVarsOK
<1>8. Phases'
  BY <1>1, <1>4, <1>7 DEF Phases, Closed, linkVars
<1>9. Accepted(e)'
  <2>1. UNCHANGED <<rxlog, next_rx_seq, pc>> /\ Accepted(e)
    BY <1>1, <1>4 DEF linkVars, seqVars
  <2> QED BY <1>7, <2>1 DEF Accepted, Closed, Pending
<1>10. ASSUME NEW x \in Endpoint PROVE Accepted(x)'
  <2>1. CASE x # e
    <3>1. connection'[x] = connection[x] /\ user'[x] = user[x]
      BY <1>7, <2>1
    <3> QED BY <1>1, <1>4, <3>1, OtherAccepted DEF linkVars, seqVars
  <2> QED BY <1>9, <2>1
<1> QED BY <1>3, <1>5, <1>6, <1>8, <1>10 DEF ConnInv
-------------------------------------------------------------------------------
\* The handshakes keep ConnInv.

\* A queue of low frames is a queue of frames.
LEMMA LowSeq ==
    ASSUME NEW q \in Seq(LowFrame)
    PROVE  q \in Seq(Frame)
<1>1. Len(q) \in Nat /\ q \in [1 .. Len(q) -> LowFrame]
  <2> HIDE DEF LowFrame
  <2> QED OBVIOUS
<1>2. q \in [1 .. Len(q) -> Frame]
  BY <1>1, LowFact
<1> HIDE DEF Frame
<1> QED BY <1>1, <1>2

\* The frames of a handshake are low.
LEMMA SendFrameLow ==
    ASSUME NEW type \in {TYPE_NORMAL, TYPE_ACKONLY, TYPE_OPEN_CONNECTION, TYPE_CLOSE_CONNECTION},
           NEW s \in SeqNum, s <= TopSeq, NEW a \in SeqNum, NEW c \in Channel, NEW k \in 0 .. 31
    PROVE  /\ send_frame(type, s, a, c, k) \in LowFrame
           /\ Payload(send_frame(type, s, a, c, k)) \in LogEntry
<1> DEFINE f == send_frame(type, s, a, c, k)
<1>1. f \in Frame /\ f.seq_num = s
  BY DEF send_frame, Frame
<1> HIDE DEF f
<1>2. f \in LowFrame /\ Payload(f) \in LogEntry
  BY <1>1, LowFact, FrameFact
<1> QED BY <1>2 DEF f

\* A frame at the head of the fabric, and what is behind it.
LEMMA ReadLow ==
    ASSUME LinkTypeOK, Numbers, NEW e \in Endpoint, fabric[e] # <<>>
    PROVE  /\ Head(fabric[e]) \in Frame
           /\ Head(fabric[e]).seq_num \in SeqNum /\ Head(fabric[e]).seq_num <= TopSeq
           /\ tloe_seqnum_next(Head(fabric[e]).seq_num) \in SeqNum
           /\ tloe_seqnum_next(Head(fabric[e]).seq_num) <= TopSeq + 1
           /\ Tail(fabric[e]) \in Seq(LowFrame)
           /\ Len(Tail(fabric[e])) <= FABRIC_BUF
<1> DEFINE f == Head(fabric[e])
<1>1. fabric[e] \in Seq(LowFrame) /\ Len(fabric[e]) <= FABRIC_BUF /\ FABRIC_BUF \in Nat
  BY TXLow, SizeAssumption DEF LinkTypeOK
<1>2. /\ f \in LowFrame /\ Tail(fabric[e]) \in Seq(LowFrame)
      /\ Len(Tail(fabric[e])) = Len(fabric[e]) - 1 /\ Len(fabric[e]) \in Nat
  <2> HIDE DEF LowFrame
  <2> QED BY <1>1
<1> HIDE DEF f
<1>3. f \in Frame /\ f.seq_num \in SeqNum /\ f.seq_num <= TopSeq
  BY <1>2, LowFact
<1>4. tloe_seqnum_next(f.seq_num) \in SeqNum /\ tloe_seqnum_next(f.seq_num) = f.seq_num + 1
  BY <1>3, NextLow
<1>5. tloe_seqnum_next(f.seq_num) <= TopSeq + 1
  BY <1>3, <1>4, TopFact DEF SeqNum
<1>6. Len(Tail(fabric[e])) <= FABRIC_BUF
  BY <1>1, <1>2
<1> QED BY <1>2, <1>3, <1>4, <1>5, <1>6 DEF f

\* Less to return keeps CreditBound.
LEMMA LessOwed ==
    ASSUME NEW owed \in Nat, NEW less \in Nat, NEW waiting \in Nat, NEW accepted \in Nat,
           less <= owed, owed + 3 * waiting <= 3 * accepted
    PROVE  less + 3 * waiting <= 3 * accepted
OBVIOUS

\* A step of a handshake, before tloe_endpoint_init.
LEMMA HandshakeConn ==
    ASSUME ConnInv, ConnVarsOK', Phases', NEW e \in Endpoint, ~connection[e],
           UNCHANGED <<pc, loopVars, retransmit_buffer, ack_buffer, flagVars, rxlog, tlVars,
                       userVars, losses, expiries, lead, exited>>,
           fabric' \in [Endpoint -> Seq(LowFrame)],
           next_tx_seq' \in [Endpoint -> SeqNum],
           next_rx_seq' \in [Endpoint -> SeqNum],
           acked_seq' \in [Endpoint -> SeqNum],
           txlog' \in [Endpoint -> Seq(LogEntry)],
           credits' \in [Endpoint -> [Channel -> Nat]],
           tx_flow_credits' \in [Endpoint -> [Channel -> Nat]],
           \A x \in Endpoint :
              /\ Len(fabric'[x]) <= FABRIC_BUF
              /\ Len(txlog'[x]) <= MaxTx
              /\ next_tx_seq'[x] <= Len(txlog'[x]) + 5
              /\ next_rx_seq'[x] <= TopSeq + 1
              /\ \A c \in Channel : tx_flow_credits'[x][c] <= tx_flow_credits[x][c],
           \A x \in Endpoint \ {e} :
              user'[x] = user[x] /\ connection'[x] = connection[x]
              /\ next_rx_seq'[x] = next_rx_seq[x],
           connection'[e] \/ Closed(e)' => Closed(e)
    PROVE  ConnInv'
<1>1. /\ TypeInv /\ LinkTypeOK /\ LoopTypeOK /\ CreditTypeOK /\ CreditBound /\ Numbers
      /\ \A x \in Endpoint : Accepted(x)
  BY ConnTypes
<1>2. fabric' \in [Endpoint -> Seq(Frame)]
  <2>1. \A x \in Endpoint : fabric'[x] \in Seq(Frame)
    BY LowSeq
  <2> HIDE DEF LowFrame, Frame
  <2> QED BY <2>1
<1>3. LinkTypeOK'
  BY <1>1, <1>2 DEF LinkTypeOK, flagVars
<1>4. LoopTypeOK'
  BY <1>1 DEF LoopTypeOK, loopVars, tlVars, userVars
<1>5. CreditTypeOK'
  BY DEF CreditTypeOK
<1>6. CreditBound'
  <2> SUFFICES ASSUME NEW x \in Endpoint, NEW c \in Channel
               PROVE  tx_flow_credits'[x][c] + 3 * Len(tl_msg_buffer[x]) <= 3 * Len(rxlog[x])
    BY DEF CreditBound, tlVars
  <2>1. /\ tx_flow_credits[x][c] \in Nat
        /\ Len(tl_msg_buffer[x]) \in Nat /\ Len(rxlog[x]) \in Nat
        /\ tx_flow_credits[x][c] + 3 * Len(tl_msg_buffer[x]) <= 3 * Len(rxlog[x])
    BY <1>1, EndpointTypes
  <2>2. tx_flow_credits'[x][c] \in Nat /\ tx_flow_credits'[x][c] <= tx_flow_credits[x][c]
    OBVIOUS
  <2> QED BY <2>1, <2>2, LessOwed
<1>7. Numbers'
  BY <1>1 DEF Numbers
<1>8. Accepted(e)'
  <2>1. /\ Len(rxlog[e]) \in Nat /\ Pending(e) \in {0, 1} /\ TopSeq \in Nat /\ Accepted(e)
        /\ next_rx_seq'[e] \in Nat
    BY <1>1, AcceptedTypes, TopFact DEF SeqNum
  <2>2. Pending(e)' = Pending(e)
    BY DEF Pending
  <2> QED BY <2>1, <2>2 DEF Accepted
<1>9. ASSUME NEW x \in Endpoint PROVE Accepted(x)'
  <2>1. CASE x # e
    BY <1>1, <2>1, OtherAccepted
  <2> QED BY <1>8, <2>1
<1> QED BY <1>3, <1>4, <1>5, <1>6, <1>7, <1>9 DEF ConnInv, TypeInv, TypeOK

\* What sending does to the variables of TloeConnection.
LEMMA ServeConn ==
    ASSUME ConnVarsOK, LinkTypeOK, Numbers, NEW e \in Endpoint,
           NEW frames \in Seq(LowFrame), Serve(e, frames)
    PROVE  /\ start' \in [Endpoint -> {"past", "now", "future"}]
           /\ resends' \in 0 .. MaxResend
           /\ fabric' \in [Endpoint -> Seq(LowFrame)]
           /\ \A x \in Endpoint : Len(fabric'[x]) <= FABRIC_BUF
<1>1. start' \in [Endpoint -> {"past", "now", "future"}]
  BY DEF Serve, ConnVarsOK
<1>2. resends' \in 0 .. MaxResend
  <2>1. resends \in 0 .. MaxResend /\ MaxResend \in Nat
    BY ConnAssumption DEF ConnVarsOK
  <2>2. \/ resends' = resends
        \/ resends' = resends + 1 /\ resends < MaxResend
    BY DEF Serve, check_timer
  <2> QED BY <2>1, <2>2
<1> DEFINE queue == Carry(fabric[Peer(e)], frames)
<1>3. Peer(e) \in Endpoint
  BY PeerFact
<1>4. fabric' = [fabric EXCEPT ![Peer(e)] = queue]
  BY DEF Serve
<1> HIDE DEF LowFrame
<1>5. queue \in Seq(LowFrame) /\ Len(queue) <= FABRIC_BUF
  BY <1>3, TXLow, CarryType
<1> HIDE DEF queue
<1>6. fabric' \in [Endpoint -> Seq(LowFrame)]
  BY <1>3, <1>4, <1>5 DEF Numbers
<1>7. \A x \in Endpoint : Len(fabric'[x]) <= FABRIC_BUF
  BY <1>3, <1>4, <1>5 DEF LinkTypeOK
<1> QED BY <1>1, <1>2, <1>6, <1>7

\* The parts of HandshakeConn's premises that hold before a step.
LEMMA HandshakeTypes ==
    ASSUME ConnInv
    PROVE  /\ next_tx_seq \in [Endpoint -> SeqNum] /\ next_rx_seq \in [Endpoint -> SeqNum]
           /\ acked_seq \in [Endpoint -> SeqNum] /\ txlog \in [Endpoint -> Seq(LogEntry)]
           /\ credits \in [Endpoint -> [Channel -> Nat]]
           /\ tx_flow_credits \in [Endpoint -> [Channel -> Nat]]
           /\ fabric \in [Endpoint -> Seq(LowFrame)]
           /\ \A x \in Endpoint : /\ Len(fabric[x]) <= FABRIC_BUF
                                  /\ Len(txlog[x]) <= MaxTx
                                  /\ next_tx_seq[x] <= Len(txlog[x]) + 5
                                  /\ next_rx_seq[x] <= TopSeq + 1
                                  /\ \A c \in Channel : tx_flow_credits[x][c] <= tx_flow_credits[x][c]
<1>1. LinkTypeOK /\ CreditTypeOK /\ Numbers
  BY ConnTypes
<1>2. \A x \in Endpoint, c \in Channel : tx_flow_credits[x][c] \in Nat
  BY <1>1 DEF CreditTypeOK
<1>3. \A x \in Endpoint, c \in Channel : tx_flow_credits[x][c] <= tx_flow_credits[x][c]
  BY <1>2
<1> QED BY <1>1, <1>3 DEF LinkTypeOK, CreditTypeOK, Numbers

\* The five frames of the handshake carry the numbers 0 to 4.
LEMMA OpenFramesLow ==
    ASSUME LinkTypeOK, NEW e \in Endpoint
    PROVE  OpenFrames(e) \in Seq(LowFrame)
<1> DEFINE type(i) == IF e = "master" /\ i = CHANNEL_A THEN TYPE_OPEN_CONNECTION ELSE TYPE_NORMAL
           a == tloe_seqnum_prev(next_rx_seq[e])
           f(i) == send_frame(type(i), i - 1, a, i, CREDIT_DEFAULT)
<1>1. a \in SeqNum /\ CREDIT_DEFAULT \in 0 .. 31
  <2>1. next_rx_seq[e] \in SeqNum
    BY DEF LinkTypeOK
  <2>2. a \in SeqNum
    BY <2>1, SeqNumFact
  <2>3. CREDIT_DEFAULT \in 0 .. 31
    BY SizeAssumption
  <2> QED BY <2>2, <2>3
<1>2. OpenFrames(e) = [i \in 1 .. 5 |-> f(i)]
  BY DEF OpenFrames, CHANNEL_A, CHANNEL_E
<1>3. ASSUME NEW i \in 1 .. 5 PROVE f(i) \in LowFrame
  <2>1. i - 1 \in SeqNum /\ i - 1 <= TopSeq /\ i \in Channel
    BY TopFact DEF SeqNum, TopSeq, Channel, CHANNEL_NUM
  <2>2. type(i) \in {TYPE_NORMAL, TYPE_ACKONLY, TYPE_OPEN_CONNECTION, TYPE_CLOSE_CONNECTION}
    OBVIOUS
  <2> HIDE DEF type, a, LowFrame
  <2> QED BY <1>1, <2>1, <2>2, SendFrameLow
<1> HIDE DEF f, LowFrame
<1> DEFINE n == 5
<1>4. OpenFrames(e) \in [1 .. n -> LowFrame] /\ n \in Nat
  BY <1>2, <1>3
<1> HIDE DEF n
<1> QED BY <1>4

\* serve_conn_master, serve_conn_slave.
LEMMA ServeOpenConn ==
    ASSUME ConnInv, NEW e \in Endpoint, serve_conn(e)
    PROVE  ConnInv'
<1>1. LinkTypeOK /\ ConnVarsOK /\ Numbers /\ Phases
  BY ConnTypes
<1>2. /\ user[e] = "open" /\ Serve(e, OpenFrames(e))
      /\ next_tx_seq' = [next_tx_seq EXCEPT ![e] = 5]
      /\ UNCHANGED <<pc, loopVars, retransmit_buffer, ack_buffer, next_rx_seq, acked_seq, flagVars,
                     txlog, rxlog, fcVars, tlVars, userVars, losses, expiries, lead, exited,
                     user, connection, is_done, ended, conn_flag, sessions>>
  BY DEF serve_conn, UserIn, CHANNEL_NUM
<1>3. /\ start' \in [Endpoint -> {"past", "now", "future"}]
      /\ resends' \in 0 .. MaxResend
      /\ fabric' \in [Endpoint -> Seq(LowFrame)]
      /\ \A x \in Endpoint : Len(fabric'[x]) <= FABRIC_BUF
  BY <1>1, <1>2, OpenFramesLow, ServeConn
<1>4. ConnVarsOK'
  BY <1>1, <1>2, <1>3 DEF ConnVarsOK
<1>5. ~connection[e] /\ Phases'
  BY <1>1, <1>2 DEF Phases, Closed
<1>6. next_tx_seq' \in [Endpoint -> SeqNum]
  BY <1>2, HandshakeTypes, TopFact
<1>7. \A x \in Endpoint : next_tx_seq'[x] <= Len(txlog[x]) + 5
  <2>1. \A x \in Endpoint : Len(txlog[x]) \in Nat /\ next_tx_seq[x] <= Len(txlog[x]) + 5
    BY <1>1, TXLow DEF Numbers
  <2> QED BY <1>2, <2>1, HandshakeTypes
<1>8. Closed(e)' => Closed(e)
  BY <1>2 DEF Closed
<1>9. UNCHANGED <<credits, tx_flow_credits>>
  BY <1>2 DEF fcVars
<1> HIDE DEF LowFrame
<1> QED BY <1>2, <1>3, <1>4, <1>5, <1>6, <1>7, <1>8, <1>9, HandshakeTypes, HandshakeConn

\* The CLOSE frame.
LEMMA ServeCloseConn ==
    ASSUME ConnInv, NEW e \in Endpoint, serve_close_conn(e)
    PROVE  ConnInv'
<1>1. LinkTypeOK /\ ConnVarsOK /\ Numbers /\ Phases
  BY ConnTypes
<1>2. /\ user[e] = "close" /\ Serve(e, <<CloseFrame(e)>>)
      /\ user' = [user EXCEPT ![e] = IF e = "master" THEN "close" ELSE "last"]
      /\ UNCHANGED <<pc, loopVars, linkVars, fcVars, tlVars, userVars, losses, expiries, lead,
                     exited, connection, is_done, ended, conn_flag, sessions>>
  BY DEF serve_close_conn, UserIn
<1>3. <<CloseFrame(e)>> \in Seq(LowFrame)
  <2>0. 0 \in 0 .. 31 /\ CHANNEL_0 \in Channel
    BY DEF Channel, CHANNEL_NUM, CHANNEL_0
  <2>1. tloe_seqnum_prev(next_rx_seq[e]) \in SeqNum
    BY <1>1, SeqNumFact DEF LinkTypeOK
  <2>2. CloseFrame(e) \in LowFrame
    BY <1>1, <2>0, <2>1, TXLow, SendFrameLow DEF CloseFrame
  <2> HIDE DEF LowFrame
  <2> QED BY <2>2
<1>4. /\ start' \in [Endpoint -> {"past", "now", "future"}]
      /\ resends' \in 0 .. MaxResend
      /\ fabric' \in [Endpoint -> Seq(LowFrame)]
      /\ \A x \in Endpoint : Len(fabric'[x]) <= FABRIC_BUF
  BY <1>1, <1>2, <1>3, ServeConn
<1>5. ConnVarsOK'
  BY <1>1, <1>2, <1>4 DEF ConnVarsOK
<1>6. /\ user'[e] \in {"close", "last"} /\ user[e] \in {"close", "last"}
      /\ \A x \in Endpoint \ {e} : user'[x] = user[x]
  BY <1>1, <1>2 DEF ConnVarsOK
<1>7. ~connection[e] /\ Phases' /\ ~Closed(e)'
  BY <1>1, <1>2, <1>6 DEF Phases, Closed, linkVars
<1>8. UNCHANGED <<retransmit_buffer, ack_buffer, flagVars, rxlog, next_tx_seq, next_rx_seq,
                  acked_seq, txlog, credits, tx_flow_credits>>
  BY <1>2 DEF linkVars, seqVars, fcVars
<1> HIDE DEF LowFrame
<1> QED BY <1>2, <1>4, <1>5, <1>6, <1>7, <1>8, HandshakeTypes, HandshakeConn

\* Frames read while the connection is closed.
LEMMA RecvCloseConn ==
    ASSUME ConnInv, NEW e \in Endpoint, fabric[e] # <<>>, recv_close_conn(e, Head(fabric[e]))
    PROVE  ConnInv'
<1> DEFINE f == Head(fabric[e])
<1>1. LinkTypeOK /\ ConnVarsOK /\ Numbers /\ Phases
  BY ConnTypes
<1>2. /\ user[e] = "close"
      /\ fabric' = [fabric EXCEPT ![e] = Tail(fabric[e])]
      /\ conn_flag' = [conn_flag EXCEPT ![e] = f.type = TYPE_CLOSE_CONNECTION]
      /\ \/ /\ next_rx_seq' = [next_rx_seq EXCEPT ![e] = tloe_seqnum_next(f.seq_num)]
            /\ acked_seq' = [acked_seq EXCEPT ![e] = f.seq_num_ack]
         \/ UNCHANGED <<next_rx_seq, acked_seq>>
      /\ UNCHANGED <<pc, loopVars, retransmit_buffer, ack_buffer, next_tx_seq, flagVars, txlog,
                     rxlog, fcVars, tlVars, userVars, losses, expiries, lead, exited,
                     user, connection, is_done, ended, start, sessions, resends>>
  BY DEF recv_close_conn, UserIn
<1>3. /\ f.seq_num_ack \in SeqNum
      /\ tloe_seqnum_next(f.seq_num) \in SeqNum /\ tloe_seqnum_next(f.seq_num) <= TopSeq + 1
      /\ Tail(fabric[e]) \in Seq(LowFrame) /\ Len(Tail(fabric[e])) <= FABRIC_BUF
  BY <1>1, ReadLow, FrameFact
<1>4. (f.type = TYPE_CLOSE_CONNECTION) \in BOOLEAN
  OBVIOUS
<1> HIDE DEF f, LowFrame
<1>5. ConnVarsOK'
  <2>1. conn_flag' \in [Endpoint -> BOOLEAN]
    BY <1>1, <1>2, <1>4 DEF ConnVarsOK
  <2> QED BY <1>1, <1>2, <2>1 DEF ConnVarsOK
<1>6. ~connection[e] /\ Phases' /\ ~Closed(e)'
  BY <1>1, <1>2 DEF Phases, Closed
<1>7. fabric' \in [Endpoint -> Seq(LowFrame)] /\ \A x \in Endpoint : Len(fabric'[x]) <= FABRIC_BUF
  BY <1>2, <1>3, HandshakeTypes
<1>8. /\ next_rx_seq' \in [Endpoint -> SeqNum] /\ acked_seq' \in [Endpoint -> SeqNum]
      /\ \A x \in Endpoint : next_rx_seq'[x] <= TopSeq + 1
      /\ \A x \in Endpoint \ {e} : next_rx_seq'[x] = next_rx_seq[x]
  BY <1>2, <1>3, HandshakeTypes
<1>9. UNCHANGED <<credits, tx_flow_credits>>
  BY <1>2 DEF fcVars
<1> QED BY <1>2, <1>5, <1>6, <1>7, <1>8, <1>9, HandshakeTypes, HandshakeConn

\* The credit a handshake frame grants is an amount of credit.
LEMMA GrantType ==
    ASSUME CreditTypeOK, NEW e \in Endpoint, NEW f \in Frame
    PROVE  /\ CreditsAfter(e, f) \in [Channel -> Nat]
           /\ clear_flow_credit(tx_flow_credits[e], f.chan) \in [Channel -> Nat]
           /\ \A c \in Channel :
                clear_flow_credit(tx_flow_credits[e], f.chan)[c] <= tx_flow_credits[e][c]
<1> DEFINE amount == 2^f.credit
<1>1. f.chan \in Channel /\ f.credit \in 0 .. 31
  BY FrameFact
<1>2. amount \in Nat
  BY <1>1, PowFact
<1>3. CreditsAfter(e, f) = IF Takes(e, f) THEN [credits[e] EXCEPT ![f.chan] = amount] ELSE credits[e]
  BY DEF CreditsAfter, set_credit
<1>4. clear_flow_credit(tx_flow_credits[e], f.chan) = [tx_flow_credits[e] EXCEPT ![f.chan] = 0]
  BY DEF clear_flow_credit
<1>5. credits[e] \in [Channel -> Nat] /\ tx_flow_credits[e] \in [Channel -> Nat]
  BY DEF CreditTypeOK
<1> HIDE DEF amount
<1>6. CreditsAfter(e, f) \in [Channel -> Nat]
  BY <1>1, <1>2, <1>3, <1>5
<1>7. clear_flow_credit(tx_flow_credits[e], f.chan) \in [Channel -> Nat]
  BY <1>1, <1>4, <1>5
<1>8. ASSUME NEW c \in Channel
      PROVE  clear_flow_credit(tx_flow_credits[e], f.chan)[c] <= tx_flow_credits[e][c]
  <2>1. tx_flow_credits[e][c] \in Nat
    BY <1>5
  <2>2. CASE c = f.chan
    BY <1>1, <1>4, <1>5, <2>1, <2>2
  <2>3. CASE c # f.chan
    BY <1>1, <1>4, <1>5, <2>1, <2>3
  <2> QED BY <2>2, <2>3
<1> QED BY <1>6, <1>7, <1>8

\* A frame read while the connection is opened.
LEMMA RecvOpen ==
    ASSUME ConnInv, NEW e \in Endpoint, fabric[e] # <<>>, recv_conn(e, Head(fabric[e]))
    PROVE  /\ user[e] = "open" /\ ~connection[e] /\ Closed(e) /\ txlog[e] = <<>>
           /\ conn_flag' \in [Endpoint -> BOOLEAN]
           /\ credits' \in [Endpoint -> [Channel -> Nat]]
           /\ tx_flow_credits' \in [Endpoint -> [Channel -> Nat]]
           /\ \A x \in Endpoint, c \in Channel : tx_flow_credits'[x][c] <= tx_flow_credits[x][c]
           /\ next_rx_seq' \in [Endpoint -> SeqNum] /\ acked_seq' \in [Endpoint -> SeqNum]
           /\ \A x \in Endpoint : next_rx_seq'[x] <= TopSeq + 1
           /\ \A x \in Endpoint \ {e} : next_rx_seq'[x] = next_rx_seq[x]
           /\ UNCHANGED <<pc, loopVars, retransmit_buffer, ack_buffer, flagVars, rxlog, tlVars,
                          userVars, losses, expiries, lead, exited, is_done, ended, start,
                          sessions, resends>>
<1> DEFINE f == Head(fabric[e])
           after == CreditsAfter(e, f)
           owed == clear_flow_credit(tx_flow_credits[e], f.chan)
           acked == tloe_seqnum_update_acked_seq(acked_seq[e], f.seq_num_ack)
           flag == conn_flag[e] \/ f.type = TYPE_OPEN_CONNECTION
<1>1. LinkTypeOK /\ CreditTypeOK /\ ConnVarsOK /\ Numbers /\ Phases
  BY ConnTypes
<1>2. /\ user[e] = "open"
      /\ conn_flag' = [conn_flag EXCEPT ![e] = flag]
      /\ credits' = [credits EXCEPT ![e] = after]
      /\ \/ /\ tx_flow_credits' = [tx_flow_credits EXCEPT ![e] = owed]
            /\ next_rx_seq' = [next_rx_seq EXCEPT ![e] = tloe_seqnum_next(f.seq_num)]
            /\ acked_seq' = [acked_seq EXCEPT ![e] = acked]
         \/ UNCHANGED <<tx_flow_credits, next_rx_seq, acked_seq>>
      /\ UNCHANGED <<pc, loopVars, retransmit_buffer, ack_buffer, flagVars, rxlog, tlVars,
                     userVars, losses, expiries, lead, exited, is_done, ended, start,
                     sessions, resends>>
  BY DEF recv_conn, UserIn, UpdateAckedSeq
<1>3. /\ f \in Frame
      /\ tloe_seqnum_next(f.seq_num) \in SeqNum /\ tloe_seqnum_next(f.seq_num) <= TopSeq + 1
  BY <1>1, ReadLow
<1>4. acked \in SeqNum
  <2>1. acked_seq[e] \in SeqNum /\ f.seq_num_ack \in SeqNum
    BY <1>1, <1>3, FrameFact DEF LinkTypeOK
  <2> QED BY <2>1, SeqNumFact
<1>5. /\ after \in [Channel -> Nat] /\ owed \in [Channel -> Nat]
      /\ \A c \in Channel : owed[c] <= tx_flow_credits[e][c]
  BY <1>1, <1>3, GrantType
<1>6. flag \in BOOLEAN
  OBVIOUS
<1>7. ~connection[e] /\ Closed(e) /\ txlog[e] = <<>>
  BY <1>1, <1>2 DEF Phases, Closed
<1> HIDE DEF f, after, owed, acked, flag, LowFrame
<1>8. conn_flag' \in [Endpoint -> BOOLEAN]
  BY <1>1, <1>2, <1>6 DEF ConnVarsOK
<1>9. credits' \in [Endpoint -> [Channel -> Nat]] /\ tx_flow_credits' \in [Endpoint -> [Channel -> Nat]]
  BY <1>2, <1>5, HandshakeTypes
<1>10. \A x \in Endpoint, c \in Channel : tx_flow_credits'[x][c] <= tx_flow_credits[x][c]
  BY <1>2, <1>5, HandshakeTypes
<1>11. /\ next_rx_seq' \in [Endpoint -> SeqNum] /\ acked_seq' \in [Endpoint -> SeqNum]
       /\ \A x \in Endpoint : next_rx_seq'[x] <= TopSeq + 1
       /\ \A x \in Endpoint \ {e} : next_rx_seq'[x] = next_rx_seq[x]
  BY <1>2, <1>3, <1>4, HandshakeTypes
<1> QED BY <1>2, <1>7, <1>8, <1>9, <1>10, <1>11

LEMMA OpenWaitConn ==
    ASSUME ConnInv, NEW e \in Endpoint, fabric[e] # <<>>, open_conn_wait(e, Head(fabric[e]))
    PROVE  ConnInv'
<1>1. LinkTypeOK /\ ConnVarsOK /\ Numbers /\ Phases
  BY ConnTypes
<1>2. /\ recv_conn(e, Head(fabric[e]))
      /\ fabric' = [fabric EXCEPT ![e] = Tail(fabric[e])]
      /\ UNCHANGED <<next_tx_seq, txlog, user, connection>>
  BY DEF open_conn_wait
<1>3. Tail(fabric[e]) \in Seq(LowFrame) /\ Len(Tail(fabric[e])) <= FABRIC_BUF
  BY <1>1, ReadLow
<1> HIDE DEF LowFrame
<1>4. fabric' \in [Endpoint -> Seq(LowFrame)] /\ \A x \in Endpoint : Len(fabric'[x]) <= FABRIC_BUF
  BY <1>2, <1>3, HandshakeTypes
<1>5. ConnVarsOK'
  BY <1>1, <1>2, RecvOpen DEF ConnVarsOK
<1>6. Phases'
  BY <1>1, <1>2 DEF Phases, Closed
<1> QED BY <1>2, <1>4, <1>5, <1>6, RecvOpen, HandshakeTypes, HandshakeConn

\* The last frame of a handshake, read and answered by e.
LEMMA OpenedFabric ==
    ASSUME ConnInv, NEW e \in Endpoint, fabric[e] # <<>>, NEW last \in LowFrame,
           fabric' = [fabric EXCEPT ![e] = Tail(fabric[e]), ![Peer(e)] = Carry(fabric[Peer(e)], <<last>>)]
    PROVE  fabric' \in [Endpoint -> Seq(LowFrame)] /\ \A x \in Endpoint : Len(fabric'[x]) <= FABRIC_BUF
<1> DEFINE queue == Carry(fabric[Peer(e)], <<last>>)
<1>1. LinkTypeOK /\ Numbers
  BY ConnTypes
<1>2. Peer(e) \in Endpoint /\ Peer(e) # e
  BY PeerFact
<1>3. Tail(fabric[e]) \in Seq(LowFrame) /\ Len(Tail(fabric[e])) <= FABRIC_BUF
  BY <1>1, ReadLow
<1> HIDE DEF LowFrame
<1>4. queue \in Seq(LowFrame) /\ Len(queue) <= FABRIC_BUF
  <2>1. <<last>> \in Seq(LowFrame)
    OBVIOUS
  <2> QED BY <1>1, <1>2, <2>1, TXLow, CarryType
<1> HIDE DEF queue
<1>5. fabric' = [fabric EXCEPT ![e] = Tail(fabric[e]), ![Peer(e)] = queue]
  BY DEF queue
<1> QED BY <1>2, <1>3, <1>4, <1>5, HandshakeTypes

\* The master's connection opens: it numbers one more frame.
LEMMA OpenMasterConn ==
    ASSUME ConnInv, fabric["master"] # <<>>, open_conn_master(Head(fabric["master"]))
    PROVE  ConnInv'
<1> DEFINE e == "master"
           a == tloe_seqnum_prev(next_rx_seq'[e])
           last == send_frame(TYPE_NORMAL, next_tx_seq[e], a, CHANNEL_0, 0)
           log == Append(txlog[e], Payload(last))
<1>0. e \in Endpoint /\ Peer(e) = "slave" /\ fabric[e] # <<>>
  BY DEF Endpoint, Peer
<1>1. LinkTypeOK /\ ConnVarsOK /\ Numbers /\ Phases
  BY ConnTypes
<1>2. /\ recv_conn(e, Head(fabric[e]))
      /\ fabric' = [fabric EXCEPT ![e] = Tail(fabric[e]), ![Peer(e)] = Carry(fabric[Peer(e)], <<last>>)]
      /\ next_tx_seq' = [next_tx_seq EXCEPT ![e] = tloe_seqnum_next(next_tx_seq[e])]
      /\ txlog' = [txlog EXCEPT ![e] = log]
      /\ user' = [user EXCEPT ![e] = "idle"]
      /\ connection' = [connection EXCEPT ![e] = TRUE]
  <2>1. fabric' = [fabric EXCEPT ![e] = Tail(fabric[e]), ![Peer(e)] = Carry(fabric[Peer(e)], <<last>>)]
    BY <1>0 DEF open_conn_master, Numbers
  <2> QED BY <2>1 DEF open_conn_master, Opened
<1> HIDE DEF e
<1>3. last \in LowFrame /\ Payload(last) \in LogEntry
  <2>0. 0 \in 0 .. 31 /\ CHANNEL_0 \in Channel
    BY DEF Channel, CHANNEL_NUM, CHANNEL_0
  <2>1. next_rx_seq'[e] \in SeqNum
    BY <1>0, <1>2, RecvOpen
  <2>2. a \in SeqNum
    BY <2>1, SeqNumFact
  <2>3. next_tx_seq[e] \in SeqNum /\ next_tx_seq[e] <= TopSeq
    BY <1>0, <1>1, TXLow
  <2> HIDE DEF a
  <2> QED BY <2>0, <2>2, <2>3, SendFrameLow
<1> HIDE DEF last, LowFrame
<1>4. fabric' \in [Endpoint -> Seq(LowFrame)] /\ \A x \in Endpoint : Len(fabric'[x]) <= FABRIC_BUF
  BY <1>0, <1>2, <1>3, OpenedFabric
<1>5. log \in Seq(LogEntry) /\ Len(log) = 1
  <2>1. txlog[e] = <<>>
    BY <1>0, <1>2, RecvOpen
  <2>2. log = <<Payload(last)>>
    BY <2>1
  <2> QED BY <1>3, <2>2
<1> HIDE DEF log
<1>6. /\ tloe_seqnum_next(next_tx_seq[e]) \in SeqNum
      /\ tloe_seqnum_next(next_tx_seq[e]) <= Len(log) + 5
  <2>1. next_tx_seq[e] \in SeqNum /\ next_tx_seq[e] <= Len(txlog[e]) + 5
    BY <1>0, HandshakeTypes
  <2>2. Len(txlog[e]) = 0
    BY <1>0, <1>2, RecvOpen
  <2>3. tloe_seqnum_next(next_tx_seq[e]) \in SeqNum
        /\ tloe_seqnum_next(next_tx_seq[e]) <= next_tx_seq[e] + 1
    BY <2>1, NextLow
  <2> QED BY <1>5, <2>1, <2>2, <2>3, TopFact DEF SeqNum
<1>7. /\ next_tx_seq' \in [Endpoint -> SeqNum] /\ txlog' \in [Endpoint -> Seq(LogEntry)]
      /\ \A x \in Endpoint : Len(txlog'[x]) <= MaxTx /\ next_tx_seq'[x] <= Len(txlog'[x]) + 5
  <2>1. Len(log) <= MaxTx
    BY <1>5, TopFact
  <2> QED BY <1>0, <1>2, <1>5, <1>6, <2>1, HandshakeTypes
<1>8. ConnVarsOK'
  <2>1. user' \in [Endpoint -> {"idle", "open", "close", "last", "quit"}]
        /\ connection' \in [Endpoint -> BOOLEAN]
    BY <1>1, <1>2 DEF ConnVarsOK
  <2> QED BY <1>0, <1>1, <1>2, <2>1, RecvOpen DEF ConnVarsOK
<1>9. \A x \in Endpoint \ {e} :
        user'[x] = user[x] /\ connection'[x] = connection[x] /\ txlog'[x] = txlog[x]
  BY <1>1, <1>2, HandshakeTypes DEF ConnVarsOK
<1>10. user'[e] = "idle" /\ connection'[e]
  BY <1>0, <1>1, <1>2 DEF ConnVarsOK
<1>11. Phases'
  <2>1. ASSUME NEW x \in Endpoint
        PROVE  (connection'[x] => user'[x] \in {"idle", "quit"}) /\ (Closed(x)' => txlog'[x] = <<>>)
    BY <1>1, <1>9, <1>10 DEF Phases, Closed
  <2> QED BY <2>1 DEF Phases
<1>12. /\ ~connection[e] /\ Closed(e)
       /\ UNCHANGED <<pc, loopVars, retransmit_buffer, ack_buffer, flagVars, rxlog, tlVars,
                      userVars, losses, expiries, lead, exited>>
       /\ next_rx_seq' \in [Endpoint -> SeqNum] /\ acked_seq' \in [Endpoint -> SeqNum]
       /\ credits' \in [Endpoint -> [Channel -> Nat]]
       /\ tx_flow_credits' \in [Endpoint -> [Channel -> Nat]]
       /\ \A x \in Endpoint : /\ next_rx_seq'[x] <= TopSeq + 1
                             /\ \A c \in Channel : tx_flow_credits'[x][c] <= tx_flow_credits[x][c]
       /\ \A x \in Endpoint \ {e} : next_rx_seq'[x] = next_rx_seq[x]
  BY <1>0, <1>2, RecvOpen
<1>13. \A x \in Endpoint :
         /\ Len(fabric'[x]) <= FABRIC_BUF /\ Len(txlog'[x]) <= MaxTx
         /\ next_tx_seq'[x] <= Len(txlog'[x]) + 5 /\ next_rx_seq'[x] <= TopSeq + 1
         /\ \A c \in Channel : tx_flow_credits'[x][c] <= tx_flow_credits[x][c]
  BY <1>4, <1>7, <1>12
<1>14. \A x \in Endpoint \ {e} :
         user'[x] = user[x] /\ connection'[x] = connection[x] /\ next_rx_seq'[x] = next_rx_seq[x]
  BY <1>9, <1>12
<1> QED BY <1>0, <1>4, <1>7, <1>8, <1>11, <1>12, <1>13, <1>14, HandshakeConn

\* The slave's connection opens: it sends an ACKONLY frame.
LEMMA OpenSlaveConn ==
    ASSUME ConnInv, fabric["slave"] # <<>>, open_conn_slave(Head(fabric["slave"]))
    PROVE  ConnInv'
<1> DEFINE e == "slave"
           a == tloe_seqnum_prev(next_rx_seq'[e])
           last == send_frame(TYPE_ACKONLY, next_tx_seq[e], a, CHANNEL_0, 0)
<1>0. e \in Endpoint /\ Peer(e) = "master" /\ fabric[e] # <<>>
  BY DEF Endpoint, Peer
<1>1. LinkTypeOK /\ ConnVarsOK /\ Numbers /\ Phases
  BY ConnTypes
<1>2. /\ recv_conn(e, Head(fabric[e]))
      /\ fabric' = [fabric EXCEPT ![e] = Tail(fabric[e]), ![Peer(e)] = Carry(fabric[Peer(e)], <<last>>)]
      /\ UNCHANGED <<next_tx_seq, txlog>>
      /\ user' = [user EXCEPT ![e] = "idle"]
      /\ connection' = [connection EXCEPT ![e] = TRUE]
  <2>1. fabric' = [fabric EXCEPT ![e] = Tail(fabric[e]), ![Peer(e)] = Carry(fabric[Peer(e)], <<last>>)]
    BY <1>0 DEF open_conn_slave, Numbers
  <2> QED BY <2>1 DEF open_conn_slave, Opened
<1> HIDE DEF e
<1>3. last \in LowFrame
  <2>0. 0 \in 0 .. 31 /\ CHANNEL_0 \in Channel
    BY DEF Channel, CHANNEL_NUM, CHANNEL_0
  <2>1. next_rx_seq'[e] \in SeqNum
    BY <1>0, <1>2, RecvOpen
  <2>2. a \in SeqNum
    BY <2>1, SeqNumFact
  <2>3. next_tx_seq[e] \in SeqNum /\ next_tx_seq[e] <= TopSeq
    BY <1>0, <1>1, TXLow
  <2> HIDE DEF a
  <2> QED BY <2>0, <2>2, <2>3, SendFrameLow
<1> HIDE DEF last, LowFrame
<1>4. fabric' \in [Endpoint -> Seq(LowFrame)] /\ \A x \in Endpoint : Len(fabric'[x]) <= FABRIC_BUF
  BY <1>0, <1>2, <1>3, OpenedFabric
<1>5. ConnVarsOK'
  <2>1. user' \in [Endpoint -> {"idle", "open", "close", "last", "quit"}]
        /\ connection' \in [Endpoint -> BOOLEAN]
    BY <1>1, <1>2 DEF ConnVarsOK
  <2> QED BY <1>0, <1>1, <1>2, <2>1, RecvOpen DEF ConnVarsOK
<1>6. \A x \in Endpoint \ {e} : user'[x] = user[x] /\ connection'[x] = connection[x]
  BY <1>1, <1>2 DEF ConnVarsOK
<1>7. user'[e] = "idle" /\ connection'[e]
  BY <1>0, <1>1, <1>2 DEF ConnVarsOK
<1>8. Phases'
  <2>1. ASSUME NEW x \in Endpoint
        PROVE  (connection'[x] => user'[x] \in {"idle", "quit"}) /\ (Closed(x)' => txlog'[x] = <<>>)
    BY <1>1, <1>2, <1>6, <1>7 DEF Phases, Closed
  <2> QED BY <2>1 DEF Phases
<1>10. /\ next_tx_seq' \in [Endpoint -> SeqNum] /\ txlog' \in [Endpoint -> Seq(LogEntry)]
       /\ \A x \in Endpoint : Len(txlog'[x]) <= MaxTx /\ next_tx_seq'[x] <= Len(txlog'[x]) + 5
  BY <1>2, HandshakeTypes
<1>11. /\ ~connection[e] /\ Closed(e)
       /\ UNCHANGED <<pc, loopVars, retransmit_buffer, ack_buffer, flagVars, rxlog, tlVars,
                      userVars, losses, expiries, lead, exited>>
       /\ next_rx_seq' \in [Endpoint -> SeqNum] /\ acked_seq' \in [Endpoint -> SeqNum]
       /\ credits' \in [Endpoint -> [Channel -> Nat]]
       /\ tx_flow_credits' \in [Endpoint -> [Channel -> Nat]]
       /\ \A x \in Endpoint : /\ next_rx_seq'[x] <= TopSeq + 1
                             /\ \A c \in Channel : tx_flow_credits'[x][c] <= tx_flow_credits[x][c]
       /\ \A x \in Endpoint \ {e} : next_rx_seq'[x] = next_rx_seq[x]
  BY <1>0, <1>2, RecvOpen
<1>12. \A x \in Endpoint :
         /\ Len(fabric'[x]) <= FABRIC_BUF /\ Len(txlog'[x]) <= MaxTx
         /\ next_tx_seq'[x] <= Len(txlog'[x]) + 5 /\ next_rx_seq'[x] <= TopSeq + 1
         /\ \A c \in Channel : tx_flow_credits'[x][c] <= tx_flow_credits[x][c]
  BY <1>4, <1>10, <1>11
<1>13. \A x \in Endpoint \ {e} :
         user'[x] = user[x] /\ connection'[x] = connection[x] /\ next_rx_seq'[x] = next_rx_seq[x]
  BY <1>6, <1>11
<1> QED BY <1>0, <1>4, <1>5, <1>8, <1>10, <1>11, <1>12, <1>13, HandshakeConn

\* tloe_endpoint_init ends a close.
LEMMA ResetConn ==
    ASSUME ConnInv, NEW e \in Endpoint, user[e] \in {"close", "last"}, tloe_endpoint_init(e),
           fabric' \in [Endpoint -> Seq(LowFrame)],
           \A x \in Endpoint : Len(fabric'[x]) <= FABRIC_BUF
    PROVE  ConnInv'
<1> DEFINE grant == 2^CREDIT_INIT
           granted == init_flowcontrol(CREDIT_INIT)
           none == [c \in Channel |-> 0]
<1>1. /\ TypeInv /\ LinkTypeOK /\ LoopTypeOK /\ CreditTypeOK /\ CreditBound /\ ConnVarsOK
      /\ Numbers /\ Phases /\ \A x \in Endpoint : Accepted(x)
  BY ConnTypes
<1>2. fabric' \in [Endpoint -> Seq(Frame)]
  <2>1. \A x \in Endpoint : fabric'[x] \in Seq(Frame)
    BY LowSeq
  <2> HIDE DEF LowFrame, Frame
  <2> QED BY <2>1
<1>3. /\ retransmit_buffer' = [retransmit_buffer EXCEPT ![e] = <<>>]
      /\ ack_buffer' = [ack_buffer EXCEPT ![e] = <<>>]
      /\ next_tx_seq' = [next_tx_seq EXCEPT ![e] = 0]
      /\ next_rx_seq' = [next_rx_seq EXCEPT ![e] = 0]
      /\ acked_seq' = [acked_seq EXCEPT ![e] = MAX_SEQ_NUM]
      /\ should_send_ackonly_frame' = [should_send_ackonly_frame EXCEPT ![e] = FALSE]
      /\ ackonly_frame_sent' = [ackonly_frame_sent EXCEPT ![e] = FALSE]
      /\ txlog' = [txlog EXCEPT ![e] = <<>>]
      /\ rxlog' = [rxlog EXCEPT ![e] = <<>>]
  BY DEF tloe_endpoint_init, ResetLink, ResetNumbers
<1>4. /\ message_buffer' = [message_buffer EXCEPT ![e] = <<>>]
      /\ response_buffer' = [response_buffer EXCEPT ![e] = <<>>]
      /\ tl_msg_buffer' = [tl_msg_buffer EXCEPT ![e] = <<>>]
      /\ submitted' = [submitted EXCEPT ![e] = <<>>]
      /\ results' = [results EXCEPT ![e] = <<>>]
      /\ credits' = [credits EXCEPT ![e] = granted]
      /\ tx_flow_credits' = [tx_flow_credits EXCEPT ![e] = none]
  BY DEF tloe_endpoint_init, ResetQueues, ResetCredit
<1>5. /\ user' = [user EXCEPT ![e] = "idle"]
      /\ UNCHANGED <<pc, loopVars, mem, losses, expiries, lead, exited,
                     connection, is_done, ended, conn_flag, start, sessions, resends>>
  BY DEF tloe_endpoint_init
<1>6. /\ 0 \in SeqNum /\ MAX_SEQ_NUM \in SeqNum /\ MaxTx \in Nat /\ TopSeq \in Nat
      /\ WINDOW_SIZE \in Nat /\ ACK_BUF \in Nat \ {0}
      /\ MESSAGE_BUF \in Nat \ {0} /\ RESPONSE_BUF \in Nat \ {0} /\ TL_MSG_BUF \in Nat \ {0}
  BY TopFact, SizeAssumption
<1> HIDE DEF LowFrame
<1>7. LinkTypeOK'
  BY <1>1, <1>2, <1>3, <1>6 DEF LinkTypeOK
<1>8. LoopTypeOK'
  <2>1. /\ message_buffer' \in [Endpoint -> Seq(Request)]
        /\ response_buffer' \in [Endpoint -> Seq(Answer)]
        /\ tl_msg_buffer' \in [Endpoint -> Seq(TLMsg)]
        /\ submitted' \in [Endpoint -> Seq(Request)]
        /\ results' \in [Endpoint -> Seq(Answer)]
    BY <1>1, <1>4 DEF LoopTypeOK
  <2>2. /\ pc' \in [Endpoint -> {"tx", "rx", "tl"}]
        /\ request_tlmsg' \in [Endpoint -> TLMsg \cup {NULL}]
        /\ buffer_select_counter' \in [Endpoint -> 1 .. 4]
        /\ mem' \in [Endpoint -> [Addr -> Val \cup {0}]]
        /\ exited' \in [Endpoint -> {"no", "tl_msg_buffer", "ack_buffer", "bounds"}]
        /\ losses' \in 0 .. MaxLoss /\ expiries' \in 0 .. MaxExpiry
        /\ lead' \in [Endpoint -> 0 .. MaxLead]
    BY <1>1, <1>5 DEF LoopTypeOK, loopVars
  <2>3. ASSUME NEW x \in Endpoint
        PROVE  /\ Len(message_buffer'[x]) < MESSAGE_BUF
               /\ Len(response_buffer'[x]) < RESPONSE_BUF
               /\ Len(tl_msg_buffer'[x]) < TL_MSG_BUF
    <3>1. CASE x = e
      <4>1. message_buffer'[x] = <<>> /\ response_buffer'[x] = <<>> /\ tl_msg_buffer'[x] = <<>>
        BY <1>1, <1>4, <3>1 DEF LoopTypeOK
      <4> QED BY <1>6, <4>1
    <3>2. CASE x # e
      <4>1. /\ message_buffer'[x] = message_buffer[x] /\ response_buffer'[x] = response_buffer[x]
            /\ tl_msg_buffer'[x] = tl_msg_buffer[x]
        BY <1>1, <1>4, <3>2 DEF LoopTypeOK
      <4> QED BY <1>1, <4>1 DEF LoopTypeOK
    <3> QED BY <3>1, <3>2
  <2> QED BY <2>1, <2>2, <2>3 DEF LoopTypeOK
<1>9. granted \in [Channel -> Nat] /\ none \in [Channel -> Nat]
  <2>1. CREDIT_INIT \in 0 .. 31
    BY ConnAssumption, SizeAssumption
  <2>2. grant \in Nat
    BY <2>1, PowFact
  <2>3. granted = [c \in Channel |-> grant]
    BY DEF init_flowcontrol
  <2> HIDE DEF grant
  <2> QED BY <2>2, <2>3
<1> HIDE DEF granted
<1>10. CreditTypeOK'
  BY <1>1, <1>4, <1>9 DEF CreditTypeOK
<1>11. CreditBound'
  <2> SUFFICES ASSUME NEW x \in Endpoint, NEW c \in Channel
               PROVE  tx_flow_credits'[x][c] + 3 * Len(tl_msg_buffer'[x]) <= 3 * Len(rxlog'[x])
    BY DEF CreditBound
  <2>1. CASE x = e
    <3>1. tx_flow_credits'[x][c] = 0 /\ tl_msg_buffer'[x] = <<>> /\ rxlog'[x] = <<>>
      BY <1>1, <1>3, <1>4, <2>1 DEF LinkTypeOK, LoopTypeOK, CreditTypeOK
    <3> QED BY <3>1
  <2>2. CASE x # e
    <3>1. /\ tx_flow_credits'[x] = tx_flow_credits[x] /\ tl_msg_buffer'[x] = tl_msg_buffer[x]
          /\ rxlog'[x] = rxlog[x]
      BY <1>1, <1>3, <1>4, <2>2 DEF LinkTypeOK, LoopTypeOK, CreditTypeOK
    <3> QED BY <1>1, <3>1 DEF CreditBound
  <2> QED BY <2>1, <2>2
<1>12. ConnVarsOK'
  BY <1>1, <1>5 DEF ConnVarsOK
<1>13. Numbers'
  <2>1. retransmit_buffer' \in [Endpoint -> Seq(LowFrame)]
    BY <1>1, <1>3 DEF Numbers
  <2>2. ASSUME NEW x \in Endpoint
        PROVE  next_tx_seq'[x] <= Len(txlog'[x]) + 5 /\ next_rx_seq'[x] <= TopSeq + 1
    <3>1. CASE x = e
      <4>1. next_tx_seq'[x] = 0 /\ txlog'[x] = <<>> /\ next_rx_seq'[x] = 0
        BY <1>1, <1>3, <3>1 DEF LinkTypeOK
      <4> QED BY <1>6, <4>1
    <3>2. CASE x # e
      BY <1>1, <1>3, <3>2 DEF LinkTypeOK, Numbers
    <3> QED BY <3>1, <3>2
  <2> QED BY <2>1, <2>2 DEF Numbers
<1>14. /\ user'[e] = "idle" /\ ~connection'[e] /\ txlog'[e] = <<>> /\ rxlog'[e] = <<>>
       /\ \A x \in Endpoint \ {e} :
            /\ user'[x] = user[x] /\ connection'[x] = connection[x] /\ txlog'[x] = txlog[x]
            /\ rxlog'[x] = rxlog[x] /\ next_rx_seq'[x] = next_rx_seq[x]
  BY <1>1, <1>3, <1>5 DEF LinkTypeOK, ConnVarsOK, Phases
<1>15. Phases'
  <2>1. ASSUME NEW x \in Endpoint
        PROVE  (connection'[x] => user'[x] \in {"idle", "quit"}) /\ (Closed(x)' => txlog'[x] = <<>>)
    BY <1>1, <1>14 DEF Phases, Closed
  <2> QED BY <2>1 DEF Phases
<1>16. Accepted(e)'
  <2>1. Len(rxlog'[e]) = 0
    BY <1>14
  <2>2. Pending(e)' \in {0, 1}
    BY DEF Pending
  <2> QED BY <1>6, <1>14, <2>1, <2>2 DEF Accepted
<1>17. ASSUME NEW x \in Endpoint PROVE Accepted(x)'
  <2>1. CASE x # e
    BY <1>1, <1>5, <1>14, <2>1, OtherAccepted
  <2> QED BY <1>16, <2>1
<1> QED BY <1>7, <1>8, <1>10, <1>11, <1>12, <1>13, <1>15, <1>17 DEF ConnInv, TypeInv, TypeOK

\* close_conn_master and close_conn_slave, when they are done.
LEMMA CloseMasterConn ==
    ASSUME ConnInv, fabric["master"] # <<>>, close_conn_master(Head(fabric["master"]))
    PROVE  ConnInv'
<1> DEFINE e == "master"
<1>1. e \in Endpoint /\ user[e] = "close" /\ fabric[e] # <<>>
      /\ fabric' = [fabric EXCEPT ![e] = Tail(fabric[e])] /\ tloe_endpoint_init(e)
  BY DEF Endpoint, close_conn_master, UserIn
<1> HIDE DEF e, LowFrame
<1>2. Tail(fabric[e]) \in Seq(LowFrame) /\ Len(Tail(fabric[e])) <= FABRIC_BUF
  BY <1>1, ConnTypes, ReadLow
<1>3. fabric' \in [Endpoint -> Seq(LowFrame)] /\ \A x \in Endpoint : Len(fabric'[x]) <= FABRIC_BUF
  BY <1>1, <1>2, HandshakeTypes
<1> QED BY <1>1, <1>3, ResetConn

LEMMA CloseSlaveConn ==
    ASSUME ConnInv, close_conn_slave
    PROVE  ConnInv'
<1> DEFINE e == "slave"
           queue == IF fabric[e] = <<>> THEN fabric[e] ELSE Tail(fabric[e])
<1>1. e \in Endpoint /\ user[e] = "last"
      /\ fabric' = [fabric EXCEPT ![e] = queue] /\ tloe_endpoint_init(e)
  BY DEF Endpoint, close_conn_slave, UserIn
<1> HIDE DEF e, LowFrame
<1>2. queue \in Seq(LowFrame) /\ Len(queue) <= FABRIC_BUF
  BY <1>1, ConnTypes, ReadLow, HandshakeTypes
<1> HIDE DEF queue
<1>3. fabric' \in [Endpoint -> Seq(LowFrame)] /\ \A x \in Endpoint : Len(fabric'[x]) <= FABRIC_BUF
  BY <1>1, <1>2, HandshakeTypes
<1> QED BY <1>1, <1>3, ResetConn
-------------------------------------------------------------------------------
\* The type theorem.

LEMMA InitConn == ConnInit => ConnInv
<1> SUFFICES ASSUME ConnInit PROVE ConnInv
  OBVIOUS
<1>0. Fresh /\ next_tx_seq = [e \in Endpoint |-> 0]
  BY DEF ConnInit
<1>1. \A e \in Endpoint : Peer(e) \in Endpoint /\ StartSeq[e] = 0
  BY <1>0, PeerFact DEF Fresh
<1>2. /\ 0 \in SeqNum /\ MaxTx \in Nat /\ TopSeq \in Nat /\ MaxLoss \in Nat /\ MaxExpiry \in Nat
      /\ MaxLead \in Nat /\ MaxSessions \in Nat /\ MaxResend \in Nat
      /\ WINDOW_SIZE \in Nat /\ FABRIC_BUF \in Nat /\ ACK_BUF \in Nat \ {0}
      /\ MESSAGE_BUF \in Nat \ {0} /\ RESPONSE_BUF \in Nat \ {0} /\ TL_MSG_BUF \in Nat \ {0}
  BY TopFact, SizeAssumption, BoundAssumption, ConnAssumption
<1>20. /\ fabric = [e \in Endpoint |-> <<>>] /\ txlog = [e \in Endpoint |-> <<>>]
       /\ rxlog = [e \in Endpoint |-> <<>>]
  BY <1>0 DEF Fresh
<1>3. LinkTypeOK
  <2>1. tloe_seqnum_prev(0) \in SeqNum
    BY <1>2, SeqNumFact
  <2>2. /\ next_rx_seq = [e \in Endpoint |-> StartSeq[Peer(e)]]
        /\ acked_seq = [e \in Endpoint |-> tloe_seqnum_prev(StartSeq[e])]
    BY <1>0 DEF Fresh
  <2>3. next_rx_seq \in [Endpoint -> SeqNum] /\ acked_seq \in [Endpoint -> SeqNum]
    BY <1>1, <1>2, <2>1, <2>2
  <2>4. /\ retransmit_buffer = [e \in Endpoint |-> <<>>] /\ ack_buffer = [e \in Endpoint |-> <<>>]
        /\ should_send_ackonly_frame = [e \in Endpoint |-> FALSE]
        /\ ackonly_frame_sent = [e \in Endpoint |-> FALSE]
    BY <1>0 DEF Fresh
  <2>5. next_tx_seq \in [Endpoint -> SeqNum]
    BY <1>0, <1>2
  <2> QED BY <1>2, <1>20, <2>3, <2>4, <2>5 DEF LinkTypeOK
<1>4. LoopTypeOK
  BY <1>0, <1>2 DEF Fresh, LoopTypeOK
<1>5. CreditTypeOK
  <2> DEFINE grant == 2^CREDIT_INIT
  <2>1. CREDIT_INIT \in 0 .. 31
    BY ConnAssumption, SizeAssumption
  <2>2. grant \in Nat
    BY <2>1, PowFact
  <2>3. credits = [e \in Endpoint |-> [c \in Channel |-> grant]]
        /\ tx_flow_credits = [e \in Endpoint |-> [c \in Channel |-> 0]]
    BY <1>0 DEF ConnInit, Fresh, init_flowcontrol
  <2> HIDE DEF grant
  <2> QED BY <2>2, <2>3 DEF CreditTypeOK
<1>6. CreditBound
  BY <1>0 DEF Fresh, CreditBound
<1>7. ConnVarsOK
  BY <1>2 DEF ConnInit, ConnVarsOK
<1>8. Numbers
  <2>1. next_rx_seq = [e \in Endpoint |-> StartSeq[Peer(e)]]
    BY <1>0 DEF Fresh
  <2>2. \A e \in Endpoint : next_rx_seq[e] = 0
    BY <1>1, <2>1
  <2>3. \A e \in Endpoint : next_tx_seq[e] <= Len(txlog[e]) + 5 /\ next_rx_seq[e] <= TopSeq + 1
    <3> SUFFICES ASSUME NEW e \in Endpoint
                 PROVE  next_tx_seq[e] <= Len(txlog[e]) + 5 /\ next_rx_seq[e] <= TopSeq + 1
      OBVIOUS
    <3>1. next_tx_seq[e] = 0 /\ next_rx_seq[e] = 0
      BY <1>0, <2>2
    <3>2. Len(txlog[e]) = 0
      BY <1>20
    <3> QED BY <1>2, <3>1, <3>2
  <2>4. retransmit_buffer = [e \in Endpoint |-> <<>>]
    BY <1>0 DEF Fresh
  <2> HIDE DEF LowFrame
  <2> QED BY <1>20, <2>3, <2>4 DEF Numbers
<1>9. Phases
  BY <1>0 DEF ConnInit, Fresh, Phases
<1>10. \A e \in Endpoint : Accepted(e)
  BY <1>0, <1>2 DEF ConnInit, Fresh, Accepted, Pending
<1> QED BY <1>3, <1>4, <1>5, <1>6, <1>7, <1>8, <1>9, <1>10 DEF ConnInv, TypeInv, TypeOK

LEMMA LoopConn ==
    ASSUME ConnInv, NEW e \in Endpoint, Loop(e)
    PROVE  ConnInv'
<1>1. CASE connection[e] /\ TX(e) /\ UNCHANGED ended
  BY <1>1, TXConn DEF Loop, connVars
<1>2. CASE RX(e) /\ UNCHANGED ended
  BY <1>2, RXConn DEF Loop, connVars
<1>3. CASE tl_handler(e) /\ ended' = [ended EXCEPT ![e] = is_done[e]]
  BY <1>3, HandlerConn DEF Loop
<1> QED BY <1>1, <1>2, <1>3 DEF Loop

LEMMA HandshakeStepConn ==
    ASSUME ConnInv, NEW e \in Endpoint, Handshake(e)
    PROVE  ConnInv'
<1> DEFINE f == Head(fabric[e])
<1>1. CASE serve_conn(e) \/ serve_close_conn(e)
  BY <1>1, ServeOpenConn, ServeCloseConn
<1>2. CASE fabric[e] # <<>> /\ open_conn_wait(e, f)
  BY <1>2, OpenWaitConn
<1>3. CASE fabric[e] # <<>> /\ recv_close_conn(e, f)
  BY <1>3, RecvCloseConn
<1>4. CASE fabric[e] # <<>> /\ e = "master" /\ open_conn_master(f)
  BY <1>4, OpenMasterConn
<1>5. CASE fabric[e] # <<>> /\ e = "slave" /\ open_conn_slave(f)
  BY <1>5, OpenSlaveConn
<1>6. CASE fabric[e] # <<>> /\ e = "master" /\ close_conn_master(f)
  BY <1>6, CloseMasterConn
<1>7. CASE close_conn_slave
  BY <1>7, CloseSlaveConn
<1> QED BY <1>1, <1>2, <1>3, <1>4, <1>5, <1>6, <1>7 DEF Handshake, Opening, Closing

LEMMA NextConn == ConnInv /\ [ConnNext]_allVars => ConnInv'
<1> SUFFICES ASSUME ConnInv, [ConnNext]_allVars PROVE ConnInv'
  OBVIOUS
<1>1. CASE UNCHANGED allVars
  BY <1>1, StutterConn
<1>2. ASSUME NEW e \in Endpoint, open_conn(e) \/ close_conn(e) \/ quit(e)
      PROVE  ConnInv'
  BY <1>2, CommandConn
<1>3. ASSUME NEW e \in Endpoint, Handshake(e)
      PROVE  ConnInv'
  BY <1>3, HandshakeStepConn
<1>4. ASSUME NEW e \in Endpoint, Loop(e)
      PROVE  ConnInv'
  BY <1>4, LoopConn
<1>5. ASSUME NEW e \in Endpoint, Requests(e)
      PROVE  ConnInv'
  BY <1>5, UserConn DEF Requests
<1>6. ASSUME NEW e \in Endpoint, LoseFrame(e)
      PROVE  ConnInv'
  BY <1>6, LoseConn DEF LoseFrame
<1> QED BY <1>1, <1>2, <1>3, <1>4, <1>5, <1>6 DEF ConnNext

\* Type correctness of connections that are opened, closed and opened again,
\* whatever is lost and however often the handshake is repeated: no queue, number
\* or credit of one connection survives into the next in a way that leads RX or
\* TX out of bounds (tloe_endpoint_init, set_credit).
THEOREM ConnTypeCorrect == ConnSpec => []ConnTypeOK
<1>1. ConnInit => ConnInv
  BY InitConn
<1>2. ConnInv /\ [ConnNext]_allVars => ConnInv'
  BY NextConn
<1>3. ConnInv => ConnTypeOK
  BY DEF ConnInv, TypeInv, ConnVarsOK, ConnTypeOK
<1> QED BY <1>1, <1>2, <1>3, PTL DEF ConnSpec
-------------------------------------------------------------------------------
\* The account of the requests.

SentOnA(log) == Cardinality({i \in DOMAIN log : log[i].tlmsg.chan = CHANNEL_A})
OnA(m) == Cardinality({k \in {m} : k.chan = CHANNEL_A})

LEMMA OnAFact ==
    ASSUME NEW m
    PROVE  OnA(m) = IF m.chan = CHANNEL_A THEN 1 ELSE 0
<1> DEFINE S == {k \in {m} : k.chan = CHANNEL_A}
<1>1. CASE m.chan = CHANNEL_A
  <2>1. S = {m}
    BY <1>1
  <2> HIDE DEF S
  <2>2. Cardinality(S) = 1
    BY <2>1, FS_Singleton
  <2> QED BY <1>1, <2>2 DEF OnA, S
<1>2. CASE m.chan # CHANNEL_A
  <2>1. S = {}
    BY <1>2
  <2> HIDE DEF S
  <2>2. Cardinality(S) = 0
    BY <2>1, FS_EmptySet
  <2> QED BY <1>2, <2>2 DEF OnA, S
<1> QED BY <1>1, <1>2

\* Counting the requests in a log.
LEMMA SentFact ==
    ASSUME NEW R, NEW log \in Seq(R)
    PROVE  /\ SentOnA(log) \in Nat
           /\ SentOnA(<<>>) = 0
           /\ \A x \in R : SentOnA(Append(log, x)) = SentOnA(log) + OnA(x.tlmsg)
<1> DEFINE S(l) == {i \in DOMAIN l : l[i].tlmsg.chan = CHANNEL_A}
<1>1. IsFiniteSet(S(log)) /\ Cardinality(S(log)) \in Nat
  <2>1. Len(log) \in Nat /\ DOMAIN log = 1 .. Len(log)
    OBVIOUS
  <2>2. IsFiniteSet(1 .. Len(log)) /\ S(log) \subseteq 1 .. Len(log)
    BY <2>1, FS_Interval
  <2> HIDE DEF S
  <2> QED BY <2>2, FS_Subset, FS_CardinalityType
<1>2. Cardinality(S(<<>>)) = 0
  <2>1. S(<<>>) = {}
    OBVIOUS
  <2> HIDE DEF S
  <2> QED BY <2>1, FS_EmptySet
<1>3. ASSUME NEW x \in R PROVE SentOnA(Append(log, x)) = SentOnA(log) + OnA(x.tlmsg)
  <2> DEFINE more == Append(log, x)
             n == Len(log)
  <2>1. /\ n \in Nat /\ DOMAIN log = 1 .. n /\ DOMAIN more = 1 .. n + 1
        /\ more[n + 1] = x /\ \A i \in 1 .. n : more[i] = log[i]
    OBVIOUS
  <2> HIDE DEF n, more
  <2>2. CASE x.tlmsg.chan = CHANNEL_A
    <3>1. S(more) = S(log) \cup {n + 1} /\ n + 1 \notin S(log)
      BY <2>1, <2>2
    <3> HIDE DEF S
    <3>2. Cardinality(S(more)) = Cardinality(S(log)) + 1
      BY <1>1, <3>1, FS_AddElement
    <3>3. OnA(x.tlmsg) = 1
      BY <2>2, OnAFact
    <3> QED BY <3>2, <3>3 DEF SentOnA, S, more
  <2>3. CASE x.tlmsg.chan # CHANNEL_A
    <3>1. S(more) = S(log)
      BY <2>1, <2>3
    <3> HIDE DEF S
    <3>2. Cardinality(S(more)) = Cardinality(S(log)) + 0
      BY <1>1, <3>1
    <3>3. OnA(x.tlmsg) = 0
      BY <2>3, OnAFact
    <3> QED BY <3>2, <3>3 DEF SentOnA, S, more
  <2> QED BY <2>2, <2>3
<1> QED BY <1>1, <1>2, <1>3 DEF SentOnA

\* The four terms of the account.
LEMMA BalanceFact ==
    ASSUME ConnInv, NEW e \in Endpoint
    PROVE  /\ Asked(e) = SentOnA(txlog[e]) + OnA(request_tlmsg[e]) + Len(message_buffer[e])
           /\ SentOnA(txlog[e]) \in Nat /\ OnA(request_tlmsg[e]) \in {0, 1}
           /\ Len(message_buffer[e]) \in Nat /\ Len(submitted[e]) \in Nat
           /\ txlog[e] \in Seq(LogEntry) /\ message_buffer[e] \in Seq(Request)
           /\ submitted[e] \in Seq(Request)
<1>1. /\ txlog[e] \in Seq(LogEntry) /\ message_buffer[e] \in Seq(Request)
      /\ submitted[e] \in Seq(Request)
  BY ConnTypes DEF LinkTypeOK, LoopTypeOK
<1>2. SentOnA(txlog[e]) \in Nat
  BY <1>1, SentFact
<1>3. OnA(request_tlmsg[e]) \in {0, 1}
  BY OnAFact
<1>4. Asked(e) = SentOnA(txlog[e]) + OnA(request_tlmsg[e]) + Len(message_buffer[e])
  BY DEF Asked, SentOnA, OnA
<1> QED BY <1>1, <1>2, <1>3, <1>4

\* An endpoint whose queue, message at hand and logs are left alone.
LEMMA SameBalance ==
    ASSUME Balanced, NEW e \in Endpoint,
           txlog'[e] = txlog[e], request_tlmsg'[e] = request_tlmsg[e],
           message_buffer'[e] = message_buffer[e], submitted'[e] = submitted[e]
    PROVE  Asked(e)' - Len(submitted'[e]) \in {0, 1}
<1>1. Asked(e)' = Asked(e)
  BY DEF Asked
<1>2. Asked(e) - Len(submitted[e]) \in {0, 1}
  BY DEF Balanced
<1> QED BY <1>1, <1>2

LEMMA QuietBalance ==
    ASSUME Balanced, UNCHANGED <<txlog, request_tlmsg, message_buffer, submitted>>
    PROVE  Balanced'
<1>1. ASSUME NEW e \in Endpoint PROVE Asked(e)' - Len(submitted'[e]) \in {0, 1}
  BY SameBalance
<1> QED BY <1>1 DEF Balanced

\* A step of one endpoint that keeps its account.
LEMMA StepBalance ==
    ASSUME Balanced, NEW e \in Endpoint,
           Asked(e)' - Len(submitted'[e]) \in {0, 1},
           \A x \in Endpoint \ {e} :
               /\ txlog'[x] = txlog[x] /\ request_tlmsg'[x] = request_tlmsg[x]
               /\ message_buffer'[x] = message_buffer[x] /\ submitted'[x] = submitted[x]
    PROVE  Balanced'
<1>1. ASSUME NEW x \in Endpoint, x # e PROVE Asked(x)' - Len(submitted'[x]) \in {0, 1}
  BY <1>1, SameBalance
<1> QED BY <1>1 DEF Balanced

\* The arithmetic of moving a request on.
LEMMA MovedOn ==
    ASSUME NEW a \in Int, NEW b \in Int, NEW c \in Int, NEW d \in Int,
           NEW a2 \in Int, NEW b2 \in Int, NEW c2 \in Int,
           (a + b + c) - d \in {0, 1}, a2 + b2 + c2 = a + b + c
    PROVE  (a2 + b2 + c2) - d \in {0, 1}
OBVIOUS

\* The channels of requests and answers.
LEMMA OnAValues ==
    /\ OnA(NULL) = 0
    /\ \A m \in Request : OnA(m) = 1
    /\ \A m \in Answer : OnA(m) = 0
<1>1. NULL.chan # CHANNEL_A
  BY DEF NULL, CHANNEL_0, CHANNEL_A
<1>2. \A m \in Request : m.chan = CHANNEL_A
  BY DEF Request, Get, PutFullData
<1>3. \A m \in Answer : m.chan # CHANNEL_A
  BY DEF Answer, AccessAck, AccessAckData, CHANNEL_A, CHANNEL_D
<1> QED BY <1>1, <1>2, <1>3, OnAFact

\* select_buffer takes a request from the queue exactly when it makes it the
\* message at hand.
LEMMA SelectBalance ==
    ASSUME ConnInv, NEW e \in Endpoint, select_buffer(e)
    PROVE  /\ OnA(Selected(e)) \in {0, 1} /\ Len(message_buffer'[e]) \in Nat
           /\ OnA(Selected(e)) + Len(message_buffer'[e])
                = OnA(request_tlmsg[e]) + Len(message_buffer[e])
           /\ \A x \in Endpoint \ {e} : message_buffer'[x] = message_buffer[x]
<1> DEFINE m == Selected(e)
           q == message_buffer[e]
           q2 == message_buffer'[e]
<1>1. message_buffer \in [Endpoint -> Seq(Request)] /\ response_buffer[e] \in Seq(Answer)
  BY ConnTypes DEF LoopTypeOK
<1>2. /\ q2 = IF FromMessages(e) /\ q # <<>> THEN Tail(q) ELSE q
      /\ \A x \in Endpoint \ {e} : message_buffer'[x] = message_buffer[x]
  BY <1>1 DEF select_buffer
<1>3. q \in Seq(Request)
  BY <1>1
<1> HIDE DEF m, q, q2
<1>4. CASE request_tlmsg[e] # NULL
  <2>1. m = request_tlmsg[e] /\ q2 = q
    BY <1>2, <1>4 DEF Selected, FromResponses, FromMessages, m
  <2>2. OnA(m) \in {0, 1} /\ Len(q) \in Nat
    BY <1>3, OnAFact
  <2>3. OnA(m) + Len(q2) = OnA(request_tlmsg[e]) + Len(q)
    BY <2>1
  <2> QED BY <1>2, <2>1, <2>2, <2>3 DEF m, q, q2
<1>5. CASE FromResponses(e)
  <2>1. /\ request_tlmsg[e] = NULL /\ response_buffer[e] # <<>>
        /\ m = Head(response_buffer[e]) /\ ~FromMessages(e)
    BY <1>5 DEF Selected, FromResponses, FromMessages, m
  <2>2. m \in Answer /\ q2 = q
    BY <1>1, <1>2, <2>1
  <2>3. OnA(m) = 0 /\ OnA(request_tlmsg[e]) = 0 /\ Len(q) \in Nat
    BY <1>3, <2>1, <2>2, OnAValues
  <2> QED BY <1>2, <2>2, <2>3 DEF m, q, q2
<1>6. CASE request_tlmsg[e] = NULL /\ ~FromResponses(e) /\ q # <<>>
  <2>1. FromMessages(e) /\ m = Head(q)
    BY <1>6 DEF Selected, FromMessages, m, q
  <2>2. m \in Request /\ Len(q2) = Len(q) - 1 /\ Len(q) \in Nat /\ Len(q2) \in Nat
    BY <1>2, <1>3, <1>6, <2>1
  <2>3. OnA(m) = 1 /\ OnA(request_tlmsg[e]) = 0
    BY <1>6, <2>2, OnAValues
  <2> QED BY <1>2, <2>2, <2>3 DEF m, q, q2
<1>7. CASE request_tlmsg[e] = NULL /\ ~FromResponses(e) /\ q = <<>>
  <2>1. m = NULL /\ q2 = q
    BY <1>2, <1>7 DEF Selected, m, q
  <2> QED BY <1>2, <1>3, <1>7, <2>1, OnAFact DEF m, q, q2
<1> QED BY <1>4, <1>5, <1>6, <1>7

\* A pass through TX, given what it adds to txlog and leaves at hand.
LEMMA PassBalance ==
    ASSUME ConnInv, Balanced, NEW e \in Endpoint, select_buffer(e), UNCHANGED submitted,
           \A x \in Endpoint \ {e} :
               txlog'[x] = txlog[x] /\ request_tlmsg'[x] = request_tlmsg[x],
           SentOnA(txlog'[e]) \in Nat, OnA(request_tlmsg'[e]) \in {0, 1},
           SentOnA(txlog'[e]) + OnA(request_tlmsg'[e]) = SentOnA(txlog[e]) + OnA(Selected(e))
    PROVE  Balanced'
<1> DEFINE a == SentOnA(txlog[e])
           b == OnA(request_tlmsg[e])
           c == Len(message_buffer[e])
           d == Len(submitted[e])
           a2 == SentOnA(txlog'[e])
           b2 == OnA(request_tlmsg'[e])
           c2 == Len(message_buffer'[e])
           s == OnA(Selected(e))
<1>1. a \in Int /\ b \in Int /\ c \in Int /\ d \in Int
  BY BalanceFact
<1>2. a2 \in Int /\ b2 \in Int
  OBVIOUS
<1>3. c2 \in Int /\ s \in Int /\ s + c2 = b + c
  BY SelectBalance
<1>4. (a + b + c) - d \in {0, 1}
  <2>1. Asked(e) = a + b + c
    BY BalanceFact
  <2> QED BY <2>1 DEF Balanced
<1>5. Asked(e)' = a2 + b2 + c2
  BY DEF Asked, SentOnA, OnA
<1>6. Len(submitted'[e]) = d
  OBVIOUS
<1>7. a2 + b2 = a + s
  OBVIOUS
<1>8. \A x \in Endpoint \ {e} :
        /\ txlog'[x] = txlog[x] /\ request_tlmsg'[x] = request_tlmsg[x]
        /\ message_buffer'[x] = message_buffer[x] /\ submitted'[x] = submitted[x]
  BY SelectBalance
<1> HIDE DEF a, b, c, d, a2, b2, c2, s
<1>9. a2 + b2 + c2 = a + b + c
  BY <1>1, <1>2, <1>3, <1>7
<1>10. (a2 + b2 + c2) - d \in {0, 1}
  BY <1>1, <1>2, <1>3, <1>4, <1>9, MovedOn
<1>11. Asked(e)' - Len(submitted'[e]) \in {0, 1}
  BY <1>5, <1>6, <1>10
<1> QED BY <1>8, <1>11, StepBalance

\* A numbered frame enters txlog.
LEMMA NumberBalance ==
    ASSUME ConnInv, Balanced, NEW e \in Endpoint, NEW elapsed, NEW tlmsg \in TLMsg \cup {NULL},
           SendNormalFrame(e, elapsed, tlmsg), NEW rest,
           request_tlmsg' = [request_tlmsg EXCEPT ![e] = rest],
           OnA(tlmsg) + OnA(rest) = OnA(Selected(e))
    PROVE  Balanced'
<1> DEFINE x == Payload(NormalFrame(e, tlmsg))
<1>1. select_buffer(e) /\ UNCHANGED submitted
  BY DEF SendNormalFrame, TXCommon
<1>2. txlog' = [txlog EXCEPT ![e] = Append(@, x)]
  BY DEF SendNormalFrame
<1>3. x.tlmsg = tlmsg
  BY DEF Payload, NormalFrame
<1> HIDE DEF x
<1>4. txlog \in [Endpoint -> Seq(LogEntry)] /\ request_tlmsg \in [Endpoint -> TLMsg \cup {NULL}]
  BY ConnTypes DEF LinkTypeOK, LoopTypeOK
<1>5. /\ txlog'[e] = Append(txlog[e], x) /\ request_tlmsg'[e] = rest
      /\ \A y \in Endpoint \ {e} : txlog'[y] = txlog[y] /\ request_tlmsg'[y] = request_tlmsg[y]
  BY <1>2, <1>4
<1>6. SentOnA(Append(txlog[e], x)) = SentOnA(txlog[e]) + OnA(tlmsg) /\ SentOnA(txlog[e]) \in Nat
  <2> DEFINE R == LogEntry \cup {x}
  <2>1. txlog[e] \in Seq(R) /\ x \in R
    BY <1>4
  <2> HIDE DEF R
  <2> QED BY <1>3, <2>1, SentFact
<1>7. OnA(tlmsg) \in {0, 1} /\ OnA(rest) \in {0, 1} /\ OnA(Selected(e)) \in {0, 1}
  BY OnAFact
<1>8. /\ SentOnA(txlog'[e]) \in Nat /\ OnA(request_tlmsg'[e]) \in {0, 1}
      /\ SentOnA(txlog'[e]) + OnA(request_tlmsg'[e]) = SentOnA(txlog[e]) + OnA(Selected(e))
  BY <1>5, <1>6, <1>7
<1> QED BY <1>1, <1>5, <1>8, PassBalance

LEMMA TXBalance ==
    ASSUME ConnInv, Balanced, NEW e \in Endpoint, TX(e)
    PROVE  Balanced'
<1> PICK elapsed \in Elapsed(e) :
            TX_Hold(e, elapsed) \/ TX_Message(e, elapsed) \/ TX_Zero(e, elapsed)
  BY DEF TX
<1>1. request_tlmsg \in [Endpoint -> TLMsg \cup {NULL}] /\ txlog \in [Endpoint -> Seq(LogEntry)]
  BY ConnTypes DEF LinkTypeOK, LoopTypeOK
<1>2. OnA(Selected(e)) \in {0, 1} /\ SentOnA(txlog[e]) \in Nat
  BY OnAFact, BalanceFact
<1>3. CASE TX_Hold(e, elapsed)
  <2>1. /\ select_buffer(e) /\ UNCHANGED <<submitted, txlog>>
        /\ request_tlmsg' = [request_tlmsg EXCEPT ![e] = Selected(e)]
    BY <1>3 DEF TX_Hold, TXCommon
  <2>2. /\ request_tlmsg'[e] = Selected(e) /\ txlog' = txlog
        /\ \A y \in Endpoint \ {e} : request_tlmsg'[y] = request_tlmsg[y]
    BY <1>1, <2>1
  <2> QED BY <1>2, <2>1, <2>2, PassBalance
<1>4. CASE TX_Message(e, elapsed)
  <2>1. /\ SendNormalFrame(e, elapsed, Selected(e))
        /\ request_tlmsg' = [request_tlmsg EXCEPT ![e] = NULL]
    BY <1>4 DEF TX_Message
  <2>2. OnA(Selected(e)) + OnA(NULL) = OnA(Selected(e))
    BY <1>2, OnAValues
  <2>3. Selected(e) \in TLMsg \cup {NULL}
    BY SelectedType, ConnTypes
  <2> QED BY <2>1, <2>2, <2>3, NumberBalance
<1>5. CASE TX_Zero(e, elapsed)
  <2>1. /\ SendNormalFrame(e, elapsed, NULL)
        /\ request_tlmsg' = [request_tlmsg EXCEPT ![e] = Selected(e)]
    BY <1>5 DEF TX_Zero
  <2>2. OnA(NULL) + OnA(Selected(e)) = OnA(Selected(e))
    BY <1>2, OnAValues
  <2> QED BY <2>1, <2>2, NumberBalance
<1> QED BY <1>3, <1>4, <1>5

\* RX and tl_handler touch no request of the user's.
LEMMA RXBalance ==
    ASSUME Balanced, NEW e \in Endpoint, RX(e) \/ tl_handler(e)
    PROVE  Balanced'
<1> DEFINE f == Head(fabric[e])
           m == Head(tl_msg_buffer[e])
<1>1. ASSUME RXCommon(e, f) PROVE Balanced'
  BY <1>1, QuietBalance DEF RXCommon, loopVars, userVars
<1>2. ASSUME TLCommon(e, m) PROVE Balanced'
  BY <1>2, QuietBalance DEF TLCommon, loopVars, linkVars
<1>3. CASE RX_Idle(e) \/ TL_Skip(e)
  BY <1>3, QuietBalance DEF RX_Idle, TL_Skip, loopVars, linkVars, userVars
<1>4. CASE RX(e) /\ ~RX_Idle(e)
  BY <1>1, <1>4 DEF RX, RX_Ackonly, Accept, serve_normal_request, serve_zero_tlmsg_request,
     serve_duplicate_request, serve_oos_request, QueueAck
<1>5. CASE tl_handler(e) /\ ~TL_Skip(e)
  BY <1>2, <1>5 DEF tl_handler, handle_A_PUTFULLDATA_opcode, handle_A_GET_opcode, handle_D_opcode
<1> QED BY <1>3, <1>4, <1>5

\* A request enters the queue.
LEMMA SubmitBalance ==
    ASSUME ConnInv, Balanced, NEW e \in Endpoint, NEW m \in Request, Submit(e, m)
    PROVE  Balanced'
<1> DEFINE a == SentOnA(txlog[e])
           b == OnA(request_tlmsg[e])
           c == Len(message_buffer[e])
           d == Len(submitted[e])
<1>1. /\ message_buffer \in [Endpoint -> Seq(Request)] /\ submitted \in [Endpoint -> Seq(Request)]
  BY ConnTypes DEF LoopTypeOK
<1>2. /\ message_buffer' = [message_buffer EXCEPT ![e] = Append(message_buffer[e], m)]
      /\ submitted' = [submitted EXCEPT ![e] = Append(submitted[e], m)]
      /\ UNCHANGED <<txlog, request_tlmsg>>
  BY DEF Submit, loopVars, linkVars
<1>3. /\ message_buffer'[e] = Append(message_buffer[e], m)
      /\ submitted'[e] = Append(submitted[e], m)
      /\ \A x \in Endpoint \ {e} :
            message_buffer'[x] = message_buffer[x] /\ submitted'[x] = submitted[x]
  BY <1>1, <1>2
<1>4. Len(message_buffer'[e]) = c + 1 /\ Len(submitted'[e]) = d + 1
  BY <1>1, <1>3
<1>5. Asked(e)' = SentOnA(txlog'[e]) + OnA(request_tlmsg'[e]) + Len(message_buffer'[e])
  BY DEF Asked, SentOnA, OnA
<1>6. SentOnA(txlog'[e]) = a /\ OnA(request_tlmsg'[e]) = b
  BY <1>2
<1>7. a \in Int /\ b \in Int /\ c \in Int /\ d \in Int /\ Asked(e) = a + b + c
  BY BalanceFact
<1>8. Asked(e) - d \in {0, 1}
  BY DEF Balanced
<1> HIDE DEF a, b, c, d
<1>9. Asked(e)' - Len(submitted'[e]) \in {0, 1}
  BY <1>4, <1>5, <1>6, <1>7, <1>8
<1> QED BY <1>2, <1>3, <1>9, StepBalance

\* open_conn_master numbers a frame without a message.
LEMMA OpenMasterBalance ==
    ASSUME ConnInv, Balanced, NEW f, open_conn_master(f)
    PROVE  Balanced'
<1> DEFINE e == "master"
           last == send_frame(TYPE_NORMAL, next_tx_seq[e], tloe_seqnum_prev(next_rx_seq'[e]),
                              CHANNEL_0, 0)
           x == Payload(last)
<1>1. e \in Endpoint
  BY DEF Endpoint
<1>2. /\ txlog' = [txlog EXCEPT ![e] = Append(txlog[e], x)]
      /\ UNCHANGED <<request_tlmsg, message_buffer, submitted>>
  BY DEF open_conn_master, recv_conn, loopVars, userVars
<1>3. x.tlmsg = NULL
  BY DEF Payload, send_frame
<1> HIDE DEF e, last, x
<1>4. txlog \in [Endpoint -> Seq(LogEntry)]
  BY ConnTypes DEF LinkTypeOK
<1>5. txlog'[e] = Append(txlog[e], x) /\ \A y \in Endpoint \ {e} : txlog'[y] = txlog[y]
  BY <1>1, <1>2, <1>4
<1>6. SentOnA(txlog'[e]) = SentOnA(txlog[e])
  <2> DEFINE R == LogEntry \cup {x}
  <2>1. txlog[e] \in Seq(R) /\ x \in R
    BY <1>1, <1>4
  <2> HIDE DEF R
  <2> QED BY <1>3, <1>5, <2>1, SentFact, OnAValues
<1>7. Asked(e)' = Asked(e)
  BY <1>2, <1>6 DEF Asked, SentOnA
<1>8. Asked(e) - Len(submitted[e]) \in {0, 1}
  BY <1>1 DEF Balanced
<1>9. Asked(e)' - Len(submitted'[e]) \in {0, 1}
  BY <1>2, <1>7, <1>8
<1> QED BY <1>1, <1>2, <1>5, <1>9, StepBalance

\* tloe_endpoint_init discards all but the message at hand.
LEMMA ResetBalance ==
    ASSUME ConnInv, Balanced, NEW e \in Endpoint, tloe_endpoint_init(e)
    PROVE  Balanced'
<1>1. /\ txlog' = [txlog EXCEPT ![e] = <<>>]
      /\ message_buffer' = [message_buffer EXCEPT ![e] = <<>>]
      /\ submitted' = [submitted EXCEPT ![e] = <<>>]
      /\ UNCHANGED request_tlmsg
  BY DEF tloe_endpoint_init, ResetQueues, loopVars
<1>2. /\ txlog \in [Endpoint -> Seq(LogEntry)] /\ message_buffer \in [Endpoint -> Seq(Request)]
      /\ submitted \in [Endpoint -> Seq(Request)]
  BY ConnTypes DEF LinkTypeOK, LoopTypeOK
<1>3. /\ txlog'[e] = <<>> /\ message_buffer'[e] = <<>> /\ submitted'[e] = <<>>
      /\ \A x \in Endpoint \ {e} :
            /\ txlog'[x] = txlog[x] /\ request_tlmsg'[x] = request_tlmsg[x]
            /\ message_buffer'[x] = message_buffer[x] /\ submitted'[x] = submitted[x]
  BY <1>1, <1>2
<1>4. Asked(e)' = SentOnA(txlog'[e]) + OnA(request_tlmsg'[e]) + Len(message_buffer'[e])
  BY DEF Asked, SentOnA, OnA
<1>5. SentOnA(txlog'[e]) = 0
  BY <1>2, <1>3, SentFact
<1>6. OnA(request_tlmsg'[e]) \in {0, 1}
  BY OnAFact
<1>7. Len(message_buffer'[e]) = 0 /\ Len(submitted'[e]) = 0
  BY <1>3
<1>8. Asked(e)' - Len(submitted'[e]) \in {0, 1}
  BY <1>4, <1>5, <1>6, <1>7
<1> QED BY <1>3, <1>8, StepBalance

LEMMA HandshakeBalance ==
    ASSUME ConnInv, Balanced, NEW e \in Endpoint, Handshake(e)
    PROVE  Balanced'
<1> DEFINE f == Head(fabric[e])
<1>1. CASE serve_conn(e) \/ serve_close_conn(e) \/ recv_close_conn(e, f)
  BY <1>1, QuietBalance DEF serve_conn, serve_close_conn, recv_close_conn, loopVars, linkVars,
     userVars
<1>2. CASE open_conn_wait(e, f) \/ (e = "slave" /\ open_conn_slave(f))
  BY <1>2, QuietBalance DEF open_conn_wait, open_conn_slave, recv_conn, loopVars, userVars
<1>3. CASE e = "master" /\ open_conn_master(f)
  BY <1>3, OpenMasterBalance
<1>4. CASE (e = "master" /\ close_conn_master(f)) \/ (e = "slave" /\ close_conn_slave)
  <2>1. tloe_endpoint_init(e)
    BY <1>4 DEF close_conn_master, close_conn_slave
  <2> QED BY <2>1, ResetBalance
<1>5. CASE Opening(e)
  BY <1>1, <1>2, <1>3, <1>5 DEF Opening
<1>6. CASE Closing(e)
  BY <1>1, <1>4, <1>6 DEF Closing
<1> QED BY <1>5, <1>6 DEF Handshake

LEMMA InitBalance == ConnInit => Balanced
<1> SUFFICES ASSUME ConnInit, NEW e \in Endpoint
             PROVE  Asked(e) - Len(submitted[e]) \in {0, 1}
  BY DEF Balanced
<1>1. /\ txlog[e] = <<>> /\ request_tlmsg[e] = NULL /\ message_buffer[e] = <<>>
      /\ submitted[e] = <<>>
  BY DEF ConnInit, Fresh
<1>2. Asked(e) = SentOnA(txlog[e]) + OnA(request_tlmsg[e]) + Len(message_buffer[e])
  BY DEF Asked, SentOnA, OnA
<1>3. SentOnA(<<>>) = 0
  <2>1. <<>> \in Seq(LogEntry)
    OBVIOUS
  <2> QED BY <2>1, SentFact
<1>4. SentOnA(txlog[e]) = 0 /\ OnA(request_tlmsg[e]) = 0
  BY <1>1, <1>3, OnAValues
<1>5. Len(message_buffer[e]) = 0 /\ Len(submitted[e]) = 0
  BY <1>1
<1> QED BY <1>2, <1>4, <1>5

LEMMA NextBalance == ConnInv /\ Balanced /\ [ConnNext]_allVars => Balanced'
<1> SUFFICES ASSUME ConnInv, Balanced, [ConnNext]_allVars PROVE Balanced'
  OBVIOUS
<1>1. CASE UNCHANGED allVars
  BY <1>1, QuietBalance DEF allVars, vars, loopVars, linkVars, userVars
<1>2. ASSUME NEW e \in Endpoint, open_conn(e) \/ close_conn(e) \/ quit(e)
      PROVE  Balanced'
  BY <1>2, QuietBalance DEF open_conn, close_conn, quit, vars, loopVars, linkVars, userVars
<1>3. ASSUME NEW e \in Endpoint, Handshake(e)
      PROVE  Balanced'
  BY <1>3, HandshakeBalance
<1>4. ASSUME NEW e \in Endpoint, Loop(e)
      PROVE  Balanced'
  BY <1>4, TXBalance, RXBalance DEF Loop
<1>5. ASSUME NEW e \in Endpoint, Requests(e)
      PROVE  Balanced'
  <2>1. PICK m \in Request : Submit(e, m)
    BY <1>5, DataAssumption DEF Requests, User, read_memory, write_memory,
       create_and_enqueue_message, Request
  <2> QED BY <2>1, SubmitBalance
<1>6. ASSUME NEW e \in Endpoint, LoseFrame(e)
      PROVE  Balanced'
  BY <1>6, QuietBalance DEF LoseFrame, Lose, loopVars, linkVars, userVars
<1> QED BY <1>1, <1>2, <1>3, <1>4, <1>5, <1>6 DEF ConnNext

\* A connection carries every request made on it, and at most the one more that
\* the endpoint thread held when the connection before was closed: whatever is
\* lost, wherever in its loop the thread is when tloe_endpoint_init empties the
\* queues, and however often this happens (tloe_endpoint, tloe_endpoint_init).
THEOREM RequestsCarried == ConnSpec => []SessionRequests
<1>1. ConnInit => ConnInv /\ Balanced
  BY InitConn, InitBalance
<1>2. ConnInv /\ Balanced /\ [ConnNext]_allVars => (ConnInv /\ Balanced)'
  BY NextConn, NextBalance
<1>3. Balanced => SessionRequests
  BY DEF Balanced, SessionRequests
<1> QED BY <1>1, <1>2, <1>3, PTL DEF ConnSpec
===============================================================================
