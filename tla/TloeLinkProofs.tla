---------------------------- MODULE TloeLinkProofs ----------------------------
(***************************************************************************)
(* LinkInv is inductive, and implies the two promises of the link.  The    *)
(* proof has one lemma per kind of step (HoldStep, SendStep, AckonlyStep,  *)
(* AcceptStep, DuplicateStep, OosStep, LoseStep, OtherStep), over lemmas   *)
(* about the circle of sequence numbers, sequences, and what Carry,        *)
(* retransmit and slide_window do to frames of the history.                *)
(*                                                                         *)
(* Each direction of the link implements ReliableChannel.  LinkInv ties    *)
(* the retransmit buffer to what the peer lacks, which bounds how far the  *)
(* sender is ahead, and the number of a frame to the payload it carries,   *)
(* so that the frame expected next carries the payload expected next.      *)
(*                                                                         *)
(* Type correctness.  The part with content is the credit: the counters    *)
(* are unsigned, get_largest_pow is undefined for 0, and the header has 5  *)
(* bits for the exponent.  That the exponent exists needs a bound on what  *)
(* an endpoint has to return, which CreditBound takes from the number of   *)
(* frames it has accepted.                                                 *)
(***************************************************************************)
EXTENDS TloeLinkInv, SequenceTheorems, WellFoundedInduction, TLAPS

-------------------------------------------------------------------------------
\* Sequence numbers.

\* The sequence space has two equal halves.
LEMMA HalfFact ==
    /\ HALF_MAX_SEQ_NUM \in Nat \ {0}
    /\ MAX_SEQ_NUM + 1 = 2 * HALF_MAX_SEQ_NUM
    /\ MAX_SEQ_NUM \in Nat
BY MaxSeqNumAssumption DEF HALF_MAX_SEQ_NUM

\* tloe_seqnum_next without the remainder.
LEMMA NextFact ==
    ASSUME NEW s \in SeqNum
    PROVE  tloe_seqnum_next(s) = IF s = MAX_SEQ_NUM THEN 0 ELSE s + 1
<1>1. CASE s = MAX_SEQ_NUM
  BY <1>1, HalfFact DEF tloe_seqnum_next, SeqNum
<1>2. CASE s # MAX_SEQ_NUM
  BY <1>2, HalfFact DEF tloe_seqnum_next, SeqNum
<1> QED BY <1>1, <1>2

\* SeqOf gives a sequence number; tloe_seqnum_next and tloe_seqnum_prev move
\* by one frame.
LEMMA SeqOfFacts ==
    ASSUME NEW e \in Endpoint, NEW n \in -1 .. MaxTx
    PROVE  /\ SeqOf(e, n) \in SeqNum
           /\ n < MaxTx => tloe_seqnum_next(SeqOf(e, n)) = SeqOf(e, n + 1)
           /\ n >= 0 => tloe_seqnum_prev(SeqOf(e, n)) = SeqOf(e, n - 1)
<1>0. /\ StartSeq[e] \in 0 .. MAX_SEQ_NUM
      /\ MaxTx \in Nat
      /\ MaxTx < HALF_MAX_SEQ_NUM
  BY StartAssumption, BoundAssumption DEF SeqNum
<1>1. SeqOf(e, n) \in SeqNum
  BY <1>0, HalfFact DEF SeqOf, SeqNum
<1>2. n < MaxTx => tloe_seqnum_next(SeqOf(e, n)) = SeqOf(e, n + 1)
  BY <1>0, <1>1, HalfFact, NextFact DEF SeqOf
<1>3. n >= 0 => tloe_seqnum_prev(SeqOf(e, n)) = SeqOf(e, n - 1)
  BY <1>0, HalfFact DEF SeqOf, tloe_seqnum_prev
<1> QED BY <1>1, <1>2, <1>3

\* tloe_seqnum_cmp orders frames less than half the space apart as they were
\* numbered.
LEMMA CmpFacts ==
    ASSUME NEW e \in Endpoint, NEW m \in -1 .. MaxTx, NEW n \in -1 .. MaxTx,
           m - n < HALF_MAX_SEQ_NUM, n - m < HALF_MAX_SEQ_NUM
    PROVE  /\ m < n => tloe_seqnum_cmp(SeqOf(e, m), SeqOf(e, n)) = -1
           /\ m = n => tloe_seqnum_cmp(SeqOf(e, m), SeqOf(e, n)) = 0
           /\ m > n => tloe_seqnum_cmp(SeqOf(e, m), SeqOf(e, n)) = 1
<1>0. /\ StartSeq[e] \in 0 .. MAX_SEQ_NUM
      /\ MaxTx \in Nat
      /\ MaxTx < HALF_MAX_SEQ_NUM
  BY StartAssumption, BoundAssumption DEF SeqNum
<1>1. CASE m < n
  BY <1>0, <1>1, HalfFact DEF SeqOf, tloe_seqnum_cmp
<1>2. CASE m = n
  BY <1>0, <1>2, HalfFact DEF SeqOf, tloe_seqnum_cmp
<1>3. CASE m > n
  BY <1>0, <1>3, HalfFact DEF SeqOf, tloe_seqnum_cmp
<1> QED BY <1>1, <1>2, <1>3
-------------------------------------------------------------------------------
\* Sequences of anything.

\* A sequence over any set is one over the set of its own elements.
LEMMA IsSeqIntro ==
    ASSUME NEW S, NEW s \in Seq(S)
    PROVE  IsSeq(s)
BY DEF IsSeq

\* The length and the domain of a sequence.
LEMMA IsSeqLen ==
    ASSUME NEW s, IsSeq(s)
    PROVE  Len(s) \in Nat /\ DOMAIN s = 1 .. Len(s) /\ (s = <<>> <=> Len(s) = 0)
BY DEF IsSeq

\* Append adds one element at the end and keeps the others.
LEMMA AppendFact ==
    ASSUME NEW s, IsSeq(s), NEW x
    PROVE  /\ IsSeq(Append(s, x))
           /\ Len(Append(s, x)) = Len(s) + 1
           /\ \A i \in 1 .. Len(s) : Append(s, x)[i] = s[i]
           /\ Append(s, x)[Len(s) + 1] = x
<1> DEFINE S == {s[i] : i \in DOMAIN s} \cup {x}
<1>1. s \in Seq(S) /\ x \in S
  BY DEF IsSeq
<1>2. Append(s, x) \in Seq(S)
  BY <1>1
<1>3. IsSeq(Append(s, x))
  BY <1>2, IsSeqIntro
<1> HIDE DEF S
<1> QED BY <1>1, <1>3, AppendProperties

\* The elements of a concatenation, by position.
LEMMA ConcatFact ==
    ASSUME NEW s, IsSeq(s), NEW t, IsSeq(t)
    PROVE  /\ IsSeq(s \o t)
           /\ Len(s \o t) = Len(s) + Len(t)
           /\ \A i \in 1 .. Len(s \o t) :
                (s \o t)[i] = IF i <= Len(s) THEN s[i] ELSE t[i - Len(s)]
<1> DEFINE S == {s[i] : i \in DOMAIN s} \cup {t[i] : i \in DOMAIN t}
<1>1. s \in Seq(S) /\ t \in Seq(S)
  BY DEF IsSeq
<1> QED BY <1>1, IsSeqIntro, ConcatProperties

\* The elements of a part of a sequence, by position.
LEMMA SubSeqFact ==
    ASSUME NEW s, IsSeq(s), NEW m \in Nat \ {0}, NEW n \in Nat, m <= n + 1, n <= Len(s)
    PROVE  /\ IsSeq(SubSeq(s, m, n))
           /\ Len(SubSeq(s, m, n)) = n + 1 - m
           /\ \A i \in 1 .. n + 1 - m : SubSeq(s, m, n)[i] = s[m + i - 1]
<1> DEFINE S == {s[i] : i \in DOMAIN s}
<1>1. s \in Seq(S)
  BY DEF IsSeq
<1>2. SubSeq(s, m, n) = [i \in 1 .. n + 1 - m |-> s[m + i - 1]]
  BY <1>1
<1>3. n + 1 - m \in Nat
  OBVIOUS
<1>4. \A i \in 1 .. n + 1 - m : s[m + i - 1] \in S
  BY <1>1
<1>5. SubSeq(s, m, n) \in Seq(S)
  BY <1>2, <1>3, <1>4
<1>6. IsSeq(SubSeq(s, m, n))
  BY <1>5, IsSeqIntro
<1> HIDE DEF S
<1> QED BY <1>2, <1>3, <1>5, <1>6

\* Tail drops the first element and shifts the others.
LEMMA TailFact ==
    ASSUME NEW s, IsSeq(s), s # <<>>
    PROVE  /\ IsSeq(Tail(s))
           /\ Len(Tail(s)) = Len(s) - 1
           /\ \A i \in 1 .. Len(s) - 1 : Tail(s)[i] = s[i + 1]
           /\ Head(s) = s[1]
           /\ Len(s) >= 1
<1> DEFINE S == {s[i] : i \in DOMAIN s}
<1>1. s \in Seq(S)
  BY DEF IsSeq
<1>2. Tail(s) \in Seq(S)
  BY <1>1
<1>3. IsSeq(Tail(s))
  BY <1>2, IsSeqIntro
<1> HIDE DEF S
<1> QED BY <1>1, <1>3, HeadTailProperties

\* The empty sequence.
LEMMA EmptyFact == IsSeq(<<>>) /\ Len(<<>>) = 0
BY DEF IsSeq

\* A sequence of one element.
LEMMA SingletonFact ==
    ASSUME NEW x
    PROVE  IsSeq(<<x>>) /\ Len(<<x>>) = 1 /\ <<x>>[1] = x
<1>1. <<x>> \in Seq({x})
  OBVIOUS
<1> QED BY <1>1, IsSeqIntro

\* A function on 1..n is a sequence of that length.
LEMMA FunctionFact ==
    ASSUME NEW s, NEW n \in Nat, DOMAIN s = 1 .. n, s = [i \in 1 .. n |-> s[i]]
    PROVE  IsSeq(s) /\ Len(s) = n
<1> DEFINE S == {s[i] : i \in DOMAIN s}
<1>1. \A i \in 1 .. n : s[i] \in S
  OBVIOUS
<1>2. s \in [1 .. n -> S]
  BY <1>1
<1>3. s \in Seq(S) /\ Len(s) = n
  BY <1>2
<1>4. IsSeq(s)
  BY <1>3, IsSeqIntro
<1> QED BY <1>3, <1>4
-------------------------------------------------------------------------------
\* Queues of frames on their way.

\* Each endpoint is its peer's peer.
LEMMA PeerFact ==
    ASSUME NEW e \in Endpoint
    PROVE  Peer(e) \in Endpoint /\ Peer(Peer(e)) = e /\ Peer(e) # e /\ Endpoint = {e, Peer(e)}
BY DEF Endpoint, Peer

\* Good frames put behind good frames are good frames.
LEMMA ConcatGood ==
    ASSUME NEW q, NEW r, NEW e, NEW log, NEW accepted,
           GoodQueue(q, e, log, accepted), GoodQueue(r, e, log, accepted)
    PROVE  GoodQueue(q \o r, e, log, accepted)
<1>1. IsSeq(q) /\ IsSeq(r) /\ Len(q) \in Nat /\ Len(r) \in Nat
  BY IsSeqLen DEF GoodQueue
<1>2. \A i \in 1 .. Len(q) : GoodFrame(q[i], e, log, accepted)
  BY DEF GoodQueue
<1>3. \A i \in 1 .. Len(r) : GoodFrame(r[i], e, log, accepted)
  BY DEF GoodQueue
<1>4. /\ IsSeq(q \o r)
      /\ Len(q \o r) = Len(q) + Len(r)
      /\ \A i \in 1 .. Len(q \o r) :
            (q \o r)[i] = IF i <= Len(q) THEN q[i] ELSE r[i - Len(q)]
  BY <1>1, ConcatFact
<1>5. ASSUME NEW i \in 1 .. Len(q \o r)
      PROVE  GoodFrame((q \o r)[i], e, log, accepted)
  <2>1. CASE i <= Len(q)
    BY <1>1, <1>2, <1>4, <2>1
  <2>2. CASE i > Len(q)
    BY <1>1, <1>3, <1>4, <2>2
  <2> QED BY <1>1, <1>4, <2>1, <2>2
<1> QED BY <1>4, <1>5 DEF GoodQueue

\* A part of a good queue is good.
LEMMA SubSeqGood ==
    ASSUME NEW q, NEW e, NEW log, NEW accepted, GoodQueue(q, e, log, accepted),
           NEW m \in Nat \ {0}, NEW n \in Nat, m <= n + 1, n <= Len(q)
    PROVE  GoodQueue(SubSeq(q, m, n), e, log, accepted)
<1>1. IsSeq(q) /\ Len(q) \in Nat
  BY IsSeqLen DEF GoodQueue
<1>2. /\ IsSeq(SubSeq(q, m, n))
      /\ Len(SubSeq(q, m, n)) = n + 1 - m
      /\ \A i \in 1 .. n + 1 - m : SubSeq(q, m, n)[i] = q[m + i - 1]
  BY <1>1, SubSeqFact
<1>3. ASSUME NEW i \in 1 .. Len(SubSeq(q, m, n))
      PROVE  GoodFrame(SubSeq(q, m, n)[i], e, log, accepted)
  <2>1. m + i - 1 \in 1 .. Len(q)
    BY <1>1, <1>2
  <2> QED BY <1>2, <2>1 DEF GoodQueue
<1> QED BY <1>2, <1>3 DEF GoodQueue

\* A good queue stays good when RX takes its first frame.
LEMMA TailGood ==
    ASSUME NEW q, NEW e, NEW log, NEW accepted, GoodQueue(q, e, log, accepted), q # <<>>
    PROVE  GoodFrame(Head(q), e, log, accepted) /\ GoodQueue(Tail(q), e, log, accepted)
<1>1. IsSeq(q) /\ Len(q) \in Nat
  BY IsSeqLen DEF GoodQueue
<1>2. /\ IsSeq(Tail(q))
      /\ Len(Tail(q)) = Len(q) - 1
      /\ \A i \in 1 .. Len(q) - 1 : Tail(q)[i] = q[i + 1]
      /\ Head(q) = q[1]
      /\ Len(q) >= 1
  BY <1>1, TailFact
<1>3. GoodFrame(q[1], e, log, accepted)
  BY <1>1, <1>2 DEF GoodQueue
<1>4. ASSUME NEW i \in 1 .. Len(Tail(q))
      PROVE  GoodFrame(Tail(q)[i], e, log, accepted)
  BY <1>1, <1>2 DEF GoodQueue
<1> QED BY <1>2, <1>3, <1>4 DEF GoodQueue

\* What the fabric drops for want of room does no harm.
LEMMA CarryGood ==
    ASSUME NEW q, NEW r, NEW e, NEW log, NEW accepted,
           GoodQueue(q, e, log, accepted), GoodQueue(r, e, log, accepted)
    PROVE  GoodQueue(Carry(q, r), e, log, accepted)
<1> DEFINE all == q \o r
<1>1. GoodQueue(all, e, log, accepted)
  BY ConcatGood
<1>2. Carry(q, r) = IF Len(all) <= FABRIC_BUF THEN all ELSE SubSeq(all, 1, FABRIC_BUF)
  BY DEF Carry
<1> HIDE DEF all
<1>3. FABRIC_BUF \in Nat \ {0} /\ Len(all) \in Nat
  BY <1>1, SizeAssumption, IsSeqLen DEF GoodQueue
<1>4. Len(all) > FABRIC_BUF => GoodQueue(SubSeq(all, 1, FABRIC_BUF), e, log, accepted)
  BY <1>1, <1>3, SubSeqGood
<1> QED BY <1>1, <1>2, <1>3, <1>4

\* Nothing on its way is nothing wrong on its way.
LEMMA EmptyGood == \A e, log, accepted : GoodQueue(<<>>, e, log, accepted)
BY EmptyFact DEF GoodQueue

\* A queue of one good frame is good.
LEMMA SingletonGood ==
    ASSUME NEW f, NEW e, NEW log, NEW accepted, GoodFrame(f, e, log, accepted)
    PROVE  GoodQueue(<<f>>, e, log, accepted)
BY SingletonFact DEF GoodQueue

\* An acknowledgement stays one when more frames have been accepted.
LEMMA AckMono ==
    ASSUME NEW a, NEW e, NEW m \in Nat, NEW n \in Nat, m <= n, AckOf(a, e, m)
    PROVE  AckOf(a, e, n)
BY DEF AckOf

\* A frame stays good when its sender has numbered more frames and accepted more.
LEMMA GoodMono ==
    ASSUME NEW q, NEW e, NEW log, NEW longer, NEW m \in Nat, NEW n \in Nat, m <= n,
           Len(log) \in Nat, Len(longer) \in Nat, Len(log) <= Len(longer),
           \A i \in 1 .. Len(log) : longer[i] = log[i],
           GoodQueue(q, e, log, m)
    PROVE  GoodQueue(q, e, longer, n)
<1>1. ASSUME NEW f, GoodFrame(f, e, log, m)
      PROVE  GoodFrame(f, e, longer, n)
  <2>1. AckOf(f.seq_num_ack, e, n)
    BY <1>1, AckMono DEF GoodFrame
  <2>2. ASSUME f.type = TYPE_NORMAL
        PROVE  \E k \in 1 .. Len(longer) : Carries(f, Peer(e), longer, k)
    <3>1. PICK k \in 1 .. Len(log) : Carries(f, Peer(e), log, k)
      BY <1>1, <2>2 DEF GoodFrame
    <3>2. Carries(f, Peer(e), longer, k)
      BY <3>1 DEF Carries
    <3> QED BY <3>2
  <2> QED BY <1>1, <2>1, <2>2 DEF GoodFrame
<1> QED BY <1>1 DEF GoodQueue
-------------------------------------------------------------------------------
\* The retransmit buffer.

\* A record update of the acknowledgement keeps what the frame carries.
LEMMA RefreshGood ==
    ASSUME NEW f, NEW e \in Endpoint, NEW log, NEW n \in 1 .. Len(log), NEW a, NEW accepted,
           Carries(f, e, log, n), AckOf(a, Peer(e), accepted)
    PROVE  GoodFrame([f EXCEPT !.seq_num_ack = a], Peer(e), log, accepted)
<1> DEFINE g == [f EXCEPT !.seq_num_ack = a]
<1>1. f = [type |-> f.type, seq_num |-> f.seq_num, seq_num_ack |-> f.seq_num_ack,
           ack |-> f.ack, chan |-> f.chan, credit |-> f.credit, tlmsg |-> f.tlmsg]
  BY DEF Carries, IsFrame
<1>2. g = [type |-> f.type, seq_num |-> f.seq_num, seq_num_ack |-> a,
           ack |-> f.ack, chan |-> f.chan, credit |-> f.credit, tlmsg |-> f.tlmsg]
  BY <1>1
<1> HIDE DEF g
<1>3. IsFrame(g)
  BY <1>2 DEF IsFrame
<1>4. /\ g.type = TYPE_NORMAL
      /\ g.ack = TLOE_ACK
      /\ g.seq_num = SeqOf(e, n - 1)
      /\ Payload(g) = log[n]
      /\ g.seq_num_ack = a
  BY <1>2 DEF Carries, Payload
<1>5. Carries(g, e, log, n)
  BY <1>3, <1>4 DEF Carries
<1>6. GoodFrame(g, Peer(e), log, accepted)
  BY <1>4, <1>5, PeerFact DEF GoodFrame
<1> QED BY <1>6 DEF g

\* retransmit from the front of the buffer sends frames of the history: the
\* last ones of the buffer with their acknowledgement refreshed.
LEMMA RetransmitGood ==
    ASSUME NEW buffer, NEW e \in Endpoint, NEW log, IsSeq(log), Len(log) <= MaxTx,
           GoodBuffer(buffer, e, log), buffer # <<>>,
           NEW a, NEW accepted, AckOf(a, Peer(e), accepted)
    PROVE  /\ GoodQueue(retransmit(buffer, buffer[1].seq_num, a), Peer(e), log, accepted)
           /\ \E k \in 0 .. Len(buffer) :
                 retransmit(buffer, buffer[1].seq_num, a)
                     = [i \in 1 .. Len(buffer) - k |-> [buffer[k + i] EXCEPT !.seq_num_ack = a]]
<1> DEFINE Older(i) == tloe_seqnum_cmp(buffer[i].seq_num, buffer[1].seq_num) < 0
           P(k) == /\ \A i \in 1 .. k : Older(i)
                   /\ k < Len(buffer) => ~Older(k + 1)
           n == CHOOSE k \in 0 .. Len(buffer) : P(k)
           again == [i \in 1 .. Len(buffer) - n |-> [buffer[n + i] EXCEPT !.seq_num_ack = a]]
<1>1. retransmit(buffer, buffer[1].seq_num, a) = again
  BY DEF retransmit
<1>2. /\ Len(buffer) \in Nat \ {0} /\ Len(log) \in Nat /\ Len(buffer) <= Len(log)
      /\ \A i \in 1 .. Len(buffer) : Carries(buffer[i], e, log, Len(log) - Len(buffer) + i)
  BY IsSeqLen DEF GoodBuffer
<1>3. P(0)
  <2>1. PICK m \in 1 .. Len(log) : buffer[1].seq_num = SeqOf(e, m - 1)
    BY <1>2 DEF Carries
  <2>2. m - 1 \in -1 .. MaxTx /\ MaxTx < HALF_MAX_SEQ_NUM /\ HALF_MAX_SEQ_NUM \in Nat \ {0}
    BY <1>2, HalfFact, BoundAssumption
  <2>3. tloe_seqnum_cmp(SeqOf(e, m - 1), SeqOf(e, m - 1)) = 0
    BY <2>2, CmpFacts
  <2> QED BY <2>1, <2>3
<1>4. n \in 0 .. Len(buffer)
  <2> HIDE DEF P
  <2> QED BY <1>2, <1>3
<1> HIDE DEF n
<1>5. IsSeq(again) /\ Len(again) = Len(buffer) - n
  <2>1. Len(buffer) - n \in Nat
    BY <1>2, <1>4
  <2>2. DOMAIN again = 1 .. Len(buffer) - n /\ again = [i \in 1 .. Len(buffer) - n |-> again[i]]
    OBVIOUS
  <2> HIDE DEF again
  <2> QED BY <2>1, <2>2, FunctionFact
<1>6. ASSUME NEW i \in 1 .. Len(buffer) - n
      PROVE  GoodFrame(again[i], Peer(e), log, accepted)
  <2>1. /\ n + i \in 1 .. Len(buffer)
        /\ Len(log) - Len(buffer) + (n + i) \in 1 .. Len(log)
    BY <1>2, <1>4
  <2>2. GoodFrame([buffer[n + i] EXCEPT !.seq_num_ack = a], Peer(e), log, accepted)
    BY <1>2, <2>1, RefreshGood
  <2> QED BY <2>2
<1> DEFINE Last(k) == [i \in 1 .. Len(buffer) - k |-> [buffer[k + i] EXCEPT !.seq_num_ack = a]]
<1>7. \E k \in 0 .. Len(buffer) : retransmit(buffer, buffer[1].seq_num, a) = Last(k)
  <2>1. again = Last(n)
    OBVIOUS
  <2> HIDE DEF Last, again
  <2> QED BY <1>1, <1>4, <2>1
<1> HIDE DEF again
<1>8. GoodQueue(retransmit(buffer, buffer[1].seq_num, a), Peer(e), log, accepted)
  BY <1>1, <1>5, <1>6 DEF GoodQueue
<1> QED BY <1>7, <1>8

\* slide_window pops none but accepted frames, from the front.
LEMMA SlideGood ==
    ASSUME NEW buffer, NEW e \in Endpoint, NEW log, IsSeq(log), Len(log) <= MaxTx,
           GoodBuffer(buffer, e, log), NEW accepted \in Nat, accepted <= Len(log),
           Len(log) - Len(buffer) <= accepted, NEW a, AckOf(a, e, accepted)
    PROVE  /\ GoodBuffer(slide_window(buffer, a), e, log)
           /\ Len(log) - Len(slide_window(buffer, a)) <= accepted
           /\ \E k \in 0 .. Len(buffer) :
                 slide_window(buffer, a) = SubSeq(buffer, k + 1, Len(buffer))
<1> DEFINE Acked(i) == tloe_seqnum_cmp(buffer[i].seq_num, a) <= 0
           P(k) == /\ \A i \in 1 .. k : Acked(i)
                   /\ k < Len(buffer) => ~Acked(k + 1)
           n == CHOOSE k \in 0 .. Len(buffer) : P(k)
           base == Len(log) - Len(buffer)
           rest == SubSeq(buffer, n + 1, Len(buffer))
<1>1. slide_window(buffer, a) = rest
  BY DEF slide_window
<1>2. /\ IsSeq(buffer) /\ Len(buffer) \in Nat /\ Len(log) \in Nat /\ base \in Nat
      /\ \A i \in 1 .. Len(buffer) : Carries(buffer[i], e, log, base + i)
  BY IsSeqLen DEF GoodBuffer
<1>3. PICK k \in 0 .. accepted : a = SeqOf(e, k - 1)
  BY DEF AckOf
<1>4. ASSUME NEW i \in 1 .. Len(buffer)
      PROVE  Acked(i) <=> base + i <= k
  <2>1. buffer[i].seq_num = SeqOf(e, base + i - 1)
    BY <1>2 DEF Carries
  <2>2. /\ base + i - 1 \in -1 .. MaxTx /\ k - 1 \in -1 .. MaxTx
        /\ (base + i - 1) - (k - 1) < HALF_MAX_SEQ_NUM
        /\ (k - 1) - (base + i - 1) < HALF_MAX_SEQ_NUM
    BY <1>2, <1>3, HalfFact, BoundAssumption
  <2> HIDE DEF base
  <2> DEFINE c == tloe_seqnum_cmp(SeqOf(e, base + i - 1), SeqOf(e, k - 1))
  <2>3. /\ base + i - 1 < k - 1 => c = -1
        /\ base + i - 1 = k - 1 => c = 0
        /\ base + i - 1 > k - 1 => c = 1
    BY <2>2, CmpFacts
  <2>4. Acked(i) <=> c <= 0
    BY <1>3, <2>1
  <2> HIDE DEF c, Acked
  <2> QED BY <1>2, <1>3, <2>3, <2>4
<1>5. \E j \in 0 .. Len(buffer) : P(j)
  <2> HIDE DEF Acked
  <2>1. CASE k <= base
    <3>1. P(0)
      BY <1>2, <1>3, <1>4, <2>1
    <3> QED BY <1>2, <3>1
  <2>2. CASE k > base
    <3> DEFINE j == k - base
    <3>1. j \in 0 .. Len(buffer) /\ base + j = k
      BY <1>2, <1>3, <2>2
    <3> HIDE DEF j, base
    <3>2. P(j)
      BY <1>2, <1>3, <1>4, <3>1
    <3> QED BY <3>1, <3>2
  <2> QED BY <1>2, <1>3, <2>1, <2>2
<1>6. n \in 0 .. Len(buffer) /\ P(n)
  <2> HIDE DEF P
  <2> QED BY <1>5
<1> HIDE DEF n
<1>7. base + n <= accepted
  <2>1. CASE n = 0
    BY <1>2, <2>1
  <2>2. CASE n # 0
    <3>1. n \in 1 .. Len(buffer) /\ Acked(n)
      BY <1>2, <1>6, <2>2
    <3> QED BY <1>2, <1>3, <1>4, <3>1
  <2> QED BY <2>1, <2>2
<1>8. /\ IsSeq(rest)
      /\ Len(rest) = Len(buffer) - n
      /\ \A i \in 1 .. Len(buffer) - n : rest[i] = buffer[n + i]
  <2>1. /\ n + 1 \in Nat \ {0} /\ Len(buffer) \in Nat /\ n + 1 <= Len(buffer) + 1
        /\ Len(buffer) <= Len(buffer)
    BY <1>2, <1>6
  <2>2. /\ IsSeq(rest)
        /\ Len(rest) = Len(buffer) + 1 - (n + 1)
        /\ \A i \in 1 .. Len(buffer) + 1 - (n + 1) : rest[i] = buffer[(n + 1) + i - 1]
    BY <1>2, <2>1, SubSeqFact
  <2> HIDE DEF rest
  <2> QED BY <1>2, <1>6, <2>2
<1> HIDE DEF rest
<1>9. ASSUME NEW i \in 1 .. Len(rest)
      PROVE  Carries(rest[i], e, log, Len(log) - Len(rest) + i)
  <2>1. n + i \in 1 .. Len(buffer) /\ Len(log) - Len(rest) + i = base + (n + i)
    BY <1>2, <1>6, <1>8
  <2>2. Carries(buffer[n + i], e, log, base + (n + i))
    BY <1>2, <2>1
  <2> QED BY <1>6, <1>8, <2>1, <2>2
<1>10. Len(rest) <= Len(log) /\ Len(log) - Len(rest) <= accepted
  BY <1>2, <1>6, <1>7, <1>8
<1>11. \E j \in 0 .. Len(buffer) : slide_window(buffer, a) = SubSeq(buffer, j + 1, Len(buffer))
  BY <1>1, <1>6 DEF rest
<1>12. GoodBuffer(slide_window(buffer, a), e, log)
  BY <1>1, <1>8, <1>9, <1>10 DEF GoodBuffer
<1> QED BY <1>1, <1>10, <1>11, <1>12
-------------------------------------------------------------------------------
\* The initial state, and facts about every state.

\* The quiescent connection satisfies the invariant.
LEMMA InitLink == Init => LinkInv
<1> SUFFICES ASSUME Init PROVE LinkInv
  OBVIOUS
<1>1. \A e \in Endpoint : StartSeq[e] \in 0 .. MAX_SEQ_NUM
  BY StartAssumption DEF SeqNum
<1>2. Arrays
  BY StartAssumption DEF Init, Fresh, Arrays, IsArray
<1>3. ASSUME NEW e \in Endpoint
      PROVE  LinkOK(e)
  <2>1. /\ txlog[e] = <<>> /\ rxlog[e] = <<>> /\ txlog[Peer(e)] = <<>> /\ rxlog[Peer(e)] = <<>>
        /\ retransmit_buffer[e] = <<>> /\ ack_buffer[e] = <<>> /\ fabric[e] = <<>>
        /\ next_tx_seq[e] = StartSeq[e] /\ next_rx_seq[e] = StartSeq[Peer(e)]
    BY PeerFact DEF Init, Fresh
  <2>2. SeqOf(e, 0) = StartSeq[e] /\ SeqOf(Peer(e), 0) = StartSeq[Peer(e)]
    BY <1>1, PeerFact, HalfFact DEF SeqOf
  <2> QED BY <2>1, <2>2, EmptyFact, EmptyGood, BoundAssumption
          DEF LinkOK, Prefix, GoodBuffer, GoodAcks
<1> QED BY <1>2, <1>3 DEF LinkInv

\* The lengths of the histories.
LEMMA LinkLen ==
    ASSUME LinkInv, NEW e \in Endpoint
    PROVE  /\ Len(txlog[e]) \in 0 .. MaxTx
           /\ Len(rxlog[e]) \in 0 .. MaxTx
           /\ Len(rxlog[e]) <= Len(txlog[Peer(e)])
           /\ MaxTx \in Nat
           /\ MaxTx < HALF_MAX_SEQ_NUM
<1>1. LinkOK(e) /\ LinkOK(Peer(e))
  BY PeerFact DEF LinkInv
<1>2. IsSeq(txlog[e]) /\ IsSeq(rxlog[e]) /\ IsSeq(txlog[Peer(e)])
  BY <1>1 DEF LinkOK, Prefix
<1>3. Len(txlog[e]) \in Nat /\ Len(rxlog[e]) \in Nat /\ Len(txlog[Peer(e)]) \in Nat
  BY <1>2, IsSeqLen
<1>4. /\ Len(txlog[e]) <= MaxTx /\ Len(txlog[Peer(e)]) <= MaxTx
      /\ Len(rxlog[e]) <= Len(txlog[Peer(e)])
  BY <1>1 DEF LinkOK, Prefix
<1> QED BY <1>3, <1>4, BoundAssumption

\* The acknowledgement TX and retransmit put into a frame.
LEMMA OwnAck ==
    ASSUME LinkInv, NEW e \in Endpoint
    PROVE  AckOf(tloe_seqnum_prev(next_rx_seq[e]), Peer(e), Len(rxlog[e]))
<1>1. next_rx_seq[e] = SeqOf(Peer(e), Len(rxlog[e]))
  BY DEF LinkInv, LinkOK
<1>2. Len(rxlog[e]) \in 0 .. MaxTx /\ MaxTx \in Nat
  BY LinkLen
<1>3. tloe_seqnum_prev(next_rx_seq[e]) = SeqOf(Peer(e), Len(rxlog[e]) - 1)
  BY <1>1, <1>2, PeerFact, SeqOfFacts
<1> QED BY <1>2, <1>3 DEF AckOf

\* The ACKONLY frames TX sends acknowledge accepted frames only.
LEMMA AckonlyGood ==
    ASSUME LinkInv, NEW e \in Endpoint, NEW elapsed, NEW log
    PROVE  GoodQueue(AckonlyFrames(e, elapsed), Peer(e), log, Len(rxlog[e]))
<1>1. GoodFrame(AckonlyFrame(e), Peer(e), log, Len(rxlog[e]))
  BY OwnAck DEF GoodFrame, AckonlyFrame, TYPE_ACKONLY, TYPE_NORMAL
<1>2. GoodQueue(<<AckonlyFrame(e)>>, Peer(e), log, Len(rxlog[e]))
  BY <1>1, SingletonGood
<1>3. GoodQueue(<<>>, Peer(e), log, Len(rxlog[e]))
  BY EmptyGood
<1> DEFINE asked == IF should_send_ackonly_frame[e] THEN <<AckonlyFrame(e)>> ELSE <<>>
           half == IF AckonlyAtHalf(e, elapsed) THEN <<AckonlyFrame(e)>> ELSE <<>>
<1>4. GoodQueue(asked, Peer(e), log, Len(rxlog[e])) /\ GoodQueue(half, Peer(e), log, Len(rxlog[e]))
  BY <1>2, <1>3
<1>5. AckonlyFrames(e, elapsed) = asked \o half
  BY DEF AckonlyFrames
<1> HIDE DEF asked, half
<1> QED BY <1>4, <1>5, ConcatGood

\* The frames TX sends again after a timeout are frames of the history.
LEMMA TimeoutGood ==
    ASSUME LinkInv, NEW e \in Endpoint, NEW buffer, NEW log, IsSeq(log), Len(log) <= MaxTx,
           GoodBuffer(buffer, e, log), NEW elapsed, elapsed = "due" => buffer # <<>>
    PROVE  GoodQueue(TimeoutFrames(e, buffer, elapsed), Peer(e), log, Len(rxlog[e]))
<1>1. CASE elapsed = "due"
  <2>1. GoodQueue(retransmit(buffer, buffer[1].seq_num, tloe_seqnum_prev(next_rx_seq[e])),
                  Peer(e), log, Len(rxlog[e]))
    BY <1>1, OwnAck, RetransmitGood
  <2> QED BY <1>1, <2>1 DEF TimeoutFrames
<1>2. CASE elapsed # "due"
  BY <1>2, EmptyGood DEF TimeoutFrames
<1> QED BY <1>1, <1>2

\* A step that only puts good frames into the fabric, or takes frames out.
LEMMA FabricStep ==
    ASSUME LinkInv,
           UNCHANGED <<retransmit_buffer, ack_buffer, txlog, rxlog, next_tx_seq, next_rx_seq>>,
           IsArray(fabric'),
           \A e \in Endpoint : GoodQueue(fabric'[e], e, txlog[Peer(e)], Len(rxlog[Peer(e)]))
    PROVE  LinkInv'
<1>1. Arrays'
  BY DEF LinkInv, Arrays
<1>2. ASSUME NEW e \in Endpoint
      PROVE  LinkOK(e)'
  BY DEF LinkInv, LinkOK
<1> QED BY <1>1, <1>2 DEF LinkInv
-------------------------------------------------------------------------------
\* The steps of the transmitter.

\* TX with nothing to number preserves the invariant.
LEMMA HoldStep ==
    ASSUME LinkInv, NEW e \in Endpoint, NEW elapsed \in Elapsed(e), TX_Hold(e, elapsed)
    PROVE  LinkInv'
<1> DEFINE p == Peer(e)
           frames == AckonlyFrames(e, elapsed) \o TimeoutFrames(e, retransmit_buffer[e], elapsed)
<1>1. LinkOK(e) /\ LinkOK(p) /\ IsArray(fabric)
  BY PeerFact DEF LinkInv, Arrays
<1>2. elapsed = "due" => retransmit_buffer[e] # <<>>
  BY DEF Elapsed
<1>3. /\ IsSeq(txlog[e]) /\ Len(txlog[e]) <= MaxTx /\ GoodBuffer(retransmit_buffer[e], e, txlog[e])
      /\ GoodQueue(fabric[p], p, txlog[e], Len(rxlog[e]))
      /\ GoodQueue(fabric[e], e, txlog[p], Len(rxlog[p]))
  BY <1>1, PeerFact DEF LinkOK
<1>4. GoodQueue(frames, p, txlog[e], Len(rxlog[e]))
  <2>1. GoodQueue(AckonlyFrames(e, elapsed), p, txlog[e], Len(rxlog[e]))
    BY AckonlyGood
  <2>2. GoodQueue(TimeoutFrames(e, retransmit_buffer[e], elapsed), p, txlog[e], Len(rxlog[e]))
    BY <1>2, <1>3, TimeoutGood
  <2> QED BY <2>1, <2>2, ConcatGood
<1>5. /\ UNCHANGED <<retransmit_buffer, ack_buffer, txlog, rxlog, next_tx_seq, next_rx_seq>>
      /\ fabric' = [fabric EXCEPT ![p] = Carry(fabric[p], frames)]
  BY DEF TX_Hold, TXCommon
<1> HIDE DEF frames
<1>6. GoodQueue(Carry(fabric[p], frames), p, txlog[e], Len(rxlog[e]))
  BY <1>3, <1>4, CarryGood
<1>7. IsArray(fabric') /\ fabric'[p] = Carry(fabric[p], frames) /\ fabric'[e] = fabric[e]
  BY <1>1, <1>5, PeerFact DEF IsArray
<1>8. \A x \in Endpoint : GoodQueue(fabric'[x], x, txlog[Peer(x)], Len(rxlog[Peer(x)]))
  BY <1>3, <1>6, <1>7, PeerFact
<1> QED BY <1>5, <1>7, <1>8, FabricStep

\* Appending the frame and its payload keeps the buffer the history's tail.
LEMMA AppendGood ==
    ASSUME NEW buffer, NEW e, NEW log, IsSeq(log), GoodBuffer(buffer, e, log), NEW f,
           IsFrame(f), f.type = TYPE_NORMAL, f.ack = TLOE_ACK, f.seq_num = SeqOf(e, Len(log))
    PROVE  /\ Carries(f, e, Append(log, Payload(f)), Len(log) + 1)
           /\ GoodBuffer(Append(buffer, f), e, Append(log, Payload(f)))
<1> DEFINE longer == Append(log, Payload(f))
           more == Append(buffer, f)
<1>1. /\ IsSeq(buffer) /\ Len(buffer) \in Nat /\ Len(log) \in Nat /\ Len(buffer) <= Len(log)
      /\ \A i \in 1 .. Len(buffer) : Carries(buffer[i], e, log, Len(log) - Len(buffer) + i)
  BY IsSeqLen DEF GoodBuffer
<1>2. /\ Len(longer) = Len(log) + 1
      /\ \A i \in 1 .. Len(log) : longer[i] = log[i]
      /\ longer[Len(log) + 1] = Payload(f)
  BY AppendFact
<1>3. /\ IsSeq(more) /\ Len(more) = Len(buffer) + 1
      /\ \A i \in 1 .. Len(buffer) : more[i] = buffer[i]
      /\ more[Len(buffer) + 1] = f
  BY <1>1, AppendFact
<1> HIDE DEF longer, more
<1>4. Carries(f, e, longer, Len(log) + 1)
  <2>1. (Len(log) + 1) - 1 = Len(log)
    BY <1>1
  <2> QED BY <1>2, <2>1 DEF Carries
<1>5. ASSUME NEW i \in 1 .. Len(more)
      PROVE  Carries(more[i], e, longer, Len(longer) - Len(more) + i)
  <2>1. CASE i <= Len(buffer)
    <3> DEFINE n == Len(log) - Len(buffer) + i
    <3>1. n \in 1 .. Len(log) /\ Len(longer) - Len(more) + i = n
      BY <1>1, <1>2, <1>3, <2>1
    <3>2. Carries(buffer[i], e, log, n)
      BY <1>1, <1>3, <2>1
    <3> HIDE DEF n
    <3>3. longer[n] = log[n] /\ more[i] = buffer[i]
      BY <1>1, <1>2, <1>3, <2>1, <3>1
    <3> QED BY <3>1, <3>2, <3>3 DEF Carries
  <2>2. CASE i = Len(buffer) + 1
    <3>1. Len(longer) - Len(more) + i = Len(log) + 1
      BY <1>1, <1>2, <1>3, <2>2
    <3> QED BY <1>3, <1>4, <2>2, <3>1
  <2> QED BY <1>1, <1>3, <2>1, <2>2
<1>6. GoodBuffer(more, e, longer)
  BY <1>1, <1>2, <1>3, <1>5 DEF GoodBuffer
<1> QED BY <1>4, <1>6 DEF longer, more

\* The acknowledgement of a frame that TX numbers, and the queue it leaves.
LEMMA FrameAck ==
    ASSUME LinkInv, NEW e \in Endpoint, NEW tlmsg
    PROVE  /\ AckOf(NormalFrame(e, tlmsg).seq_num_ack, Peer(e), Len(rxlog[e]))
           /\ GoodAcks(IF ack_buffer[e] = <<>> THEN ack_buffer[e] ELSE Tail(ack_buffer[e]),
                       Peer(e), Len(rxlog[e]))
<1>1. GoodAcks(ack_buffer[e], Peer(e), Len(rxlog[e]))
  BY DEF LinkInv, LinkOK
<1>2. CASE ack_buffer[e] = <<>>
  <2>1. NormalFrame(e, tlmsg).seq_num_ack = tloe_seqnum_prev(next_rx_seq[e])
    BY <1>2 DEF NormalFrame
  <2> QED BY <1>1, <1>2, <2>1, OwnAck
<1>3. CASE ack_buffer[e] # <<>>
  <2> DEFINE q == ack_buffer[e]
  <2>1. NormalFrame(e, tlmsg).seq_num_ack = Head(q).seq_num_ack
    BY <1>3 DEF NormalFrame
  <2>2. IsSeq(q) /\ Len(q) \in Nat
    BY <1>1, IsSeqLen DEF GoodAcks
  <2>3. /\ IsSeq(Tail(q))
        /\ Len(Tail(q)) = Len(q) - 1
        /\ \A i \in 1 .. Len(q) - 1 : Tail(q)[i] = q[i + 1]
        /\ Head(q) = q[1]
        /\ Len(q) >= 1
    BY <1>3, <2>2, TailFact
  <2>4. \A i \in 1 .. Len(q) : AckOf(q[i].seq_num_ack, Peer(e), Len(rxlog[e]))
    BY <1>1 DEF GoodAcks
  <2>5. AckOf(q[1].seq_num_ack, Peer(e), Len(rxlog[e]))
    BY <2>2, <2>3, <2>4
  <2>6. \A i \in 1 .. Len(Tail(q)) : AckOf(Tail(q)[i].seq_num_ack, Peer(e), Len(rxlog[e]))
    BY <2>2, <2>3, <2>4
  <2>7. GoodAcks(Tail(q), Peer(e), Len(rxlog[e]))
    BY <2>3, <2>6 DEF GoodAcks
  <2> QED BY <1>3, <2>1, <2>3, <2>5, <2>7
<1> QED BY <1>2, <1>3

\* TX numbering a frame, with a message or without, preserves the invariant.
LEMMA SendStep ==
    ASSUME LinkInv, NEW e \in Endpoint, NEW elapsed, NEW tlmsg, SendNormalFrame(e, elapsed, tlmsg)
    PROVE  LinkInv'
<1> DEFINE p == Peer(e)
           f == NormalFrame(e, tlmsg)
           buffer == Append(retransmit_buffer[e], f)
           log == Append(txlog[e], Payload(f))
           acks == IF ack_buffer[e] = <<>> THEN ack_buffer[e] ELSE Tail(ack_buffer[e])
           frames == AckonlyFrames(e, elapsed) \o (<<f>> \o TimeoutFrames(e, buffer, elapsed))
<1>0. p \in Endpoint /\ Peer(p) = e /\ p # e /\ Endpoint = {e, p}
  BY PeerFact
<1>1. LinkOK(e) /\ LinkOK(p) /\ Arrays
  BY <1>0 DEF LinkInv
<1>2. /\ Len(txlog[e]) < MaxTx
      /\ fabric' = [fabric EXCEPT ![p] = Carry(fabric[p], frames)]
      /\ ack_buffer' = [ack_buffer EXCEPT ![e] = acks]
      /\ retransmit_buffer' = [retransmit_buffer EXCEPT ![e] = buffer]
      /\ next_tx_seq' = [next_tx_seq EXCEPT ![e] = tloe_seqnum_next(next_tx_seq[e])]
      /\ txlog' = [txlog EXCEPT ![e] = log]
      /\ next_rx_seq' = next_rx_seq
      /\ rxlog' = rxlog
  <2>1. /\ Len(txlog[e]) < MaxTx
        /\ TXCommon(e, elapsed, <<f>> \o TimeoutFrames(e, buffer, elapsed))
        /\ ack_buffer' = [ack_buffer EXCEPT ![e] = acks]
        /\ retransmit_buffer' = [retransmit_buffer EXCEPT ![e] = buffer]
        /\ next_tx_seq' = [next_tx_seq EXCEPT ![e] = tloe_seqnum_next(next_tx_seq[e])]
        /\ txlog' = [txlog EXCEPT ![e] = log]
    BY DEF SendNormalFrame
  <2> HIDE DEF f, buffer, log, acks
  <2> QED BY <2>1 DEF TXCommon
<1>3. /\ Len(txlog[e]) \in 0 .. MaxTx /\ Len(rxlog[e]) \in 0 .. MaxTx
      /\ Len(rxlog[p]) \in 0 .. MaxTx /\ MaxTx \in Nat
  BY <1>0, LinkLen
<1>4. /\ IsFrame(f) /\ f.type = TYPE_NORMAL /\ f.ack = TLOE_ACK
      /\ f.seq_num = SeqOf(e, Len(txlog[e]))
  BY <1>1 DEF NormalFrame, IsFrame, LinkOK
<1>5. AckOf(f.seq_num_ack, p, Len(rxlog[e])) /\ GoodAcks(acks, p, Len(rxlog[e]))
  BY FrameAck
<1> HIDE DEF f, acks
<1>6. /\ Carries(f, e, log, Len(txlog[e]) + 1)
      /\ GoodBuffer(buffer, e, log)
  BY <1>1, <1>4, AppendGood DEF LinkOK
<1>7. /\ IsSeq(log) /\ Len(log) = Len(txlog[e]) + 1
      /\ \A i \in 1 .. Len(txlog[e]) : log[i] = txlog[e][i]
  BY <1>1, AppendFact DEF LinkOK
<1>8. Len(buffer) = Len(retransmit_buffer[e]) + 1 /\ Len(retransmit_buffer[e]) \in Nat /\ buffer # <<>>
  <2>1. IsSeq(retransmit_buffer[e])
    BY <1>1 DEF LinkOK, GoodBuffer
  <2>2. IsSeq(buffer) /\ Len(buffer) = Len(retransmit_buffer[e]) + 1
    BY <2>1, AppendFact
  <2> HIDE DEF buffer
  <2> QED BY <2>1, <2>2, IsSeqLen
<1> HIDE DEF buffer, log
<1>9. GoodQueue(frames, p, log, Len(rxlog[e]))
  <2>1. GoodFrame(f, p, log, Len(rxlog[e]))
    BY <1>0, <1>3, <1>4, <1>5, <1>6, <1>7 DEF GoodFrame
  <2>2. GoodQueue(<<f>>, p, log, Len(rxlog[e]))
    BY <2>1, SingletonGood
  <2>3. Len(log) <= MaxTx
    BY <1>2, <1>3, <1>7
  <2>4. GoodQueue(TimeoutFrames(e, buffer, elapsed), p, log, Len(rxlog[e]))
    BY <1>6, <1>7, <1>8, <2>3, TimeoutGood
  <2>5. GoodQueue(AckonlyFrames(e, elapsed), p, log, Len(rxlog[e]))
    BY AckonlyGood
  <2> DEFINE later == <<f>> \o TimeoutFrames(e, buffer, elapsed)
  <2>6. GoodQueue(later, p, log, Len(rxlog[e]))
    BY <2>2, <2>4, ConcatGood
  <2> HIDE DEF later
  <2>7. GoodQueue(AckonlyFrames(e, elapsed) \o later, p, log, Len(rxlog[e]))
    BY <2>5, <2>6, ConcatGood
  <2> QED BY <2>7 DEF later
<1> HIDE DEF frames
<1>10. GoodQueue(Carry(fabric[p], frames), p, log, Len(rxlog[e]))
  <2>1. GoodQueue(fabric[p], p, txlog[e], Len(rxlog[e]))
    BY <1>0, <1>1 DEF LinkOK
  <2>2. /\ Len(rxlog[e]) \in Nat /\ Len(rxlog[e]) <= Len(rxlog[e])
        /\ Len(txlog[e]) \in Nat /\ Len(log) \in Nat /\ Len(txlog[e]) <= Len(log)
    BY <1>3, <1>7
  <2>3. GoodQueue(fabric[p], p, log, Len(rxlog[e]))
    BY <1>7, <2>1, <2>2, GoodMono
  <2> QED BY <1>9, <2>3, CarryGood
<1>11. Arrays'
  BY <1>0, <1>1, <1>2 DEF Arrays, IsArray
<1> HIDE DEF p
<1>12. /\ txlog'[e] = log /\ txlog'[p] = txlog[p] /\ rxlog' = rxlog /\ next_rx_seq' = next_rx_seq
       /\ retransmit_buffer'[e] = buffer /\ retransmit_buffer'[p] = retransmit_buffer[p]
       /\ ack_buffer'[e] = acks /\ ack_buffer'[p] = ack_buffer[p]
       /\ fabric'[p] = Carry(fabric[p], frames) /\ fabric'[e] = fabric[e]
       /\ next_tx_seq'[e] = tloe_seqnum_next(next_tx_seq[e]) /\ next_tx_seq'[p] = next_tx_seq[p]
  BY <1>0, <1>1, <1>2 DEF Arrays, IsArray
<1>13. next_tx_seq'[e] = SeqOf(e, Len(log))
  <2>1. next_tx_seq[e] = SeqOf(e, Len(txlog[e]))
    BY <1>1 DEF LinkOK
  <2>2. Len(txlog[e]) \in -1 .. MaxTx
    BY <1>3
  <2>3. tloe_seqnum_next(SeqOf(e, Len(txlog[e]))) = SeqOf(e, Len(txlog[e]) + 1)
    BY <1>2, <2>2, SeqOfFacts
  <2> QED BY <1>7, <1>12, <2>1, <2>3
<1>14. Peer(e) = p
  BY DEF p
<1>15. LinkOK(e)'
  <2>1. Len(log) <= MaxTx
    BY <1>2, <1>3, <1>7
  <2>2. Len(log) - Len(buffer) <= Len(rxlog[p])
    <3>1. Len(txlog[e]) - Len(retransmit_buffer[e]) <= Len(rxlog[p])
      BY <1>1, <1>14 DEF LinkOK
    <3>2. Len(log) - Len(buffer) = Len(txlog[e]) - Len(retransmit_buffer[e])
      BY <1>3, <1>7, <1>8
    <3> QED BY <3>1, <3>2
  <2> QED BY <1>1, <1>5, <1>6, <1>7, <1>12, <1>13, <1>14, <2>1, <2>2 DEF LinkOK
<1>16. Prefix(rxlog[p], log)
  BY <1>0, <1>1, <1>3, <1>7 DEF LinkOK, Prefix
<1>17. LinkOK(p)'
  BY <1>0, <1>1, <1>10, <1>12, <1>14, <1>16 DEF LinkOK
<1> QED BY <1>0, <1>11, <1>15, <1>17 DEF LinkInv
-------------------------------------------------------------------------------
\* The steps of the receiver.

\* serve_ack takes a frame from the fabric and slides the window; no frame in
\* flight is a NAK, so it sends nothing.
LEMMA ServeAckForm ==
    ASSUME LinkInv, NEW e \in Endpoint, fabric[e] # <<>>, serve_ack(e, Head(fabric[e]))
    PROVE  /\ retransmit_buffer' = [retransmit_buffer EXCEPT
                 ![e] = slide_window(retransmit_buffer[e], Head(fabric[e]).seq_num_ack)]
           /\ fabric' = [fabric EXCEPT ![e] = Tail(fabric[e]),
                                       ![Peer(e)] = Carry(fabric[Peer(e)], <<>>)]
<1> DEFINE p == Peer(e)
           f == Head(fabric[e])
<1>0. p \in Endpoint /\ Peer(p) = e /\ p # e /\ Endpoint = {e, p}
  BY PeerFact
<1>1. LinkOK(e) /\ Arrays
  BY <1>0 DEF LinkInv
<1>2. GoodFrame(f, e, txlog[p], Len(rxlog[p]))
  BY <1>1, TailGood DEF LinkOK
<1>3. f.ack = TLOE_ACK /\ TLOE_ACK # TLOE_NAK
  BY <1>2 DEF GoodFrame, TLOE_ACK, TLOE_NAK
<1> QED BY <1>0, <1>1, <1>3 DEF serve_ack, Arrays, IsArray

\* What serve_ack leaves in the fabric and in the buffer is good.
LEMMA ServeAckFacts ==
    ASSUME LinkInv, NEW e \in Endpoint, fabric[e] # <<>>, serve_ack(e, Head(fabric[e]))
    PROVE  /\ IsArray(fabric') /\ IsArray(retransmit_buffer')
           /\ GoodQueue(fabric'[e], e, txlog[Peer(e)], Len(rxlog[Peer(e)]))
           /\ GoodQueue(fabric'[Peer(e)], Peer(e), txlog[e], Len(rxlog[e]))
           /\ retransmit_buffer'[Peer(e)] = retransmit_buffer[Peer(e)]
           /\ GoodBuffer(retransmit_buffer'[e], e, txlog[e])
           /\ Len(txlog[e]) - Len(retransmit_buffer'[e]) <= Len(rxlog[Peer(e)])
<1> DEFINE p == Peer(e)
           f == Head(fabric[e])
           buffer == slide_window(retransmit_buffer[e], f.seq_num_ack)
<1>0. p \in Endpoint /\ Peer(p) = e /\ p # e /\ Endpoint = {e, p}
  BY PeerFact
<1>1. LinkOK(e) /\ LinkOK(p) /\ Arrays
  BY <1>0 DEF LinkInv
<1>2. /\ GoodFrame(f, e, txlog[p], Len(rxlog[p]))
      /\ GoodQueue(Tail(fabric[e]), e, txlog[p], Len(rxlog[p]))
  BY <1>1, TailGood DEF LinkOK
<1>3. AckOf(f.seq_num_ack, e, Len(rxlog[p]))
  BY <1>2 DEF GoodFrame
<1>4. /\ retransmit_buffer' = [retransmit_buffer EXCEPT ![e] = buffer]
      /\ fabric' = [fabric EXCEPT ![e] = Tail(fabric[e]), ![p] = Carry(fabric[p], <<>>)]
  BY ServeAckForm
<1>5. /\ GoodBuffer(buffer, e, txlog[e])
      /\ Len(txlog[e]) - Len(buffer) <= Len(rxlog[p])
  <2>1. /\ IsSeq(txlog[e]) /\ Len(txlog[e]) <= MaxTx
        /\ GoodBuffer(retransmit_buffer[e], e, txlog[e])
        /\ Len(txlog[e]) - Len(retransmit_buffer[e]) <= Len(rxlog[p])
    BY <1>1 DEF LinkOK
  <2>2. Len(rxlog[p]) \in Nat /\ Len(rxlog[p]) <= Len(txlog[e])
    BY <1>0, LinkLen
  <2> HIDE DEF f
  <2> QED BY <1>3, <2>1, <2>2, SlideGood
<1>6. GoodQueue(Carry(fabric[p], <<>>), p, txlog[e], Len(rxlog[e]))
  <2>1. GoodQueue(fabric[p], p, txlog[e], Len(rxlog[e]))
    BY <1>0, <1>1 DEF LinkOK
  <2> QED BY <2>1, EmptyGood, CarryGood
<1> HIDE DEF p, f, buffer
<1>7. /\ IsArray(fabric') /\ IsArray(retransmit_buffer')
      /\ fabric'[e] = Tail(fabric[e]) /\ fabric'[p] = Carry(fabric[p], <<>>)
      /\ retransmit_buffer'[e] = buffer /\ retransmit_buffer'[p] = retransmit_buffer[p]
  BY <1>0, <1>1, <1>4 DEF Arrays, IsArray
<1> QED BY <1>2, <1>5, <1>6, <1>7 DEF p

\* Arithmetic of the lengths of buffer and history.
LEMMA DifferenceFact ==
    ASSUME NEW a \in Nat, NEW b \in Nat, NEW c \in Nat, b <= a, a - b <= c
    PROVE  a - b \in 0 .. c
OBVIOUS

\* Transitivity of <= on lengths.
LEMMA LeqTrans ==
    ASSUME NEW a \in Nat, NEW b \in Nat, NEW c \in Nat, NEW d \in Nat, a - b <= c, c <= d
    PROVE  a - b <= d
OBVIOUS

\* What remains to be shown of a step of RX after serve_ack.
LEMMA ReceiveStep ==
    ASSUME LinkInv, NEW e \in Endpoint, fabric[e] # <<>>, serve_ack(e, Head(fabric[e])),
           UNCHANGED <<next_tx_seq, txlog>>,
           IsArray(ack_buffer'), IsArray(next_rx_seq'), IsArray(rxlog'),
           ack_buffer'[Peer(e)] = ack_buffer[Peer(e)],
           next_rx_seq'[Peer(e)] = next_rx_seq[Peer(e)],
           rxlog'[Peer(e)] = rxlog[Peer(e)],
           Prefix(rxlog'[e], txlog[Peer(e)]),
           Len(rxlog[e]) <= Len(rxlog'[e]),
           next_rx_seq'[e] = SeqOf(Peer(e), Len(rxlog'[e])),
           GoodAcks(ack_buffer'[e], Peer(e), Len(rxlog'[e]))
    PROVE  LinkInv'
<1> DEFINE p == Peer(e)
<1>0. p \in Endpoint /\ Peer(p) = e /\ p # e /\ Endpoint = {e, p}
  BY PeerFact
<1>1. LinkOK(e) /\ LinkOK(p) /\ Arrays
  BY <1>0 DEF LinkInv
<1>2. /\ IsArray(fabric') /\ IsArray(retransmit_buffer')
      /\ GoodQueue(fabric'[e], e, txlog[p], Len(rxlog[p]))
      /\ GoodQueue(fabric'[p], p, txlog[e], Len(rxlog[e]))
      /\ retransmit_buffer'[p] = retransmit_buffer[p]
      /\ GoodBuffer(retransmit_buffer'[e], e, txlog[e])
      /\ Len(txlog[e]) - Len(retransmit_buffer'[e]) <= Len(rxlog[p])
  BY ServeAckFacts
<1>3. Arrays'
  BY <1>1, <1>2 DEF Arrays
<1>4. LinkOK(e)'
  BY <1>1, <1>2 DEF LinkOK
<1>5. Len(rxlog[e]) \in Nat /\ Len(rxlog'[e]) \in Nat /\ Len(txlog[e]) \in Nat
  BY LinkLen, IsSeqLen DEF Prefix
<1>6. GoodQueue(fabric'[p], p, txlog[e], Len(rxlog'[e]))
  <2>1. Len(txlog[e]) <= Len(txlog[e]) /\ \A i \in 1 .. Len(txlog[e]) : txlog[e][i] = txlog[e][i]
    BY <1>5
  <2> QED BY <1>2, <1>5, <2>1, GoodMono
<1>7. Len(txlog[p]) - Len(retransmit_buffer[p]) <= Len(rxlog'[e])
  <2>1. Len(txlog[p]) - Len(retransmit_buffer[p]) <= Len(rxlog[e])
    BY <1>0, <1>1 DEF LinkOK
  <2>2. Len(txlog[p]) \in Nat
    BY <1>0, LinkLen
  <2>3. Len(retransmit_buffer[p]) \in Nat
    BY <1>1, IsSeqLen DEF LinkOK, GoodBuffer
  <2>4. Len(rxlog[e]) <= Len(rxlog'[e])
    OBVIOUS
  <2> QED BY <1>5, <2>1, <2>2, <2>3, <2>4, LeqTrans
<1>8. LinkOK(p)'
  BY <1>0, <1>1, <1>2, <1>6, <1>7 DEF LinkOK
<1> QED BY <1>0, <1>3, <1>4, <1>8 DEF LinkInv

\* RX of an ACKONLY frame preserves the invariant.
LEMMA AckonlyStep ==
    ASSUME LinkInv, NEW e \in Endpoint, fabric[e] # <<>>, RX_Ackonly(e, Head(fabric[e]))
    PROVE  LinkInv'
<1>1. /\ serve_ack(e, Head(fabric[e]))
      /\ UNCHANGED <<next_tx_seq, txlog, ack_buffer, next_rx_seq, rxlog>>
  BY DEF RX_Ackonly, RXCommon
<1>2. /\ IsArray(ack_buffer) /\ IsArray(next_rx_seq) /\ IsArray(rxlog)
      /\ LinkOK(e)
  BY DEF LinkInv, Arrays
<1>3. Len(rxlog[e]) <= Len(rxlog[e])
  BY LinkLen
<1> QED BY <1>1, <1>2, <1>3, ReceiveStep DEF LinkOK

\* Which frame of the peer's history has arrived, and how its number compares
\* with next_rx_seq.
LEMMA ArrivedFacts ==
    ASSUME LinkInv, NEW e \in Endpoint, fabric[e] # <<>>, Head(fabric[e]).type # TYPE_ACKONLY
    PROVE  \E n \in 1 .. Len(txlog[Peer(e)]) :
              /\ n <= MaxTx
              /\ Head(fabric[e]).seq_num = SeqOf(Peer(e), n - 1)
              /\ Payload(Head(fabric[e])) = txlog[Peer(e)][n]
              /\ n - 1 = Len(rxlog[e])
                    <=> tloe_rx_get_req_type(e, Head(fabric[e])) = REQ_NORMAL
              /\ n - 1 < Len(rxlog[e])
                    <=> tloe_rx_get_req_type(e, Head(fabric[e])) = REQ_DUPLICATE
<1> DEFINE p == Peer(e)
           f == Head(fabric[e])
           r == Len(rxlog[e])
<1>1. LinkOK(e) /\ p \in Endpoint
  BY PeerFact DEF LinkInv
<1>2. GoodFrame(f, e, txlog[p], Len(rxlog[p]))
  BY <1>1, TailGood DEF LinkOK
<1>3. PICK n \in 1 .. Len(txlog[p]) : Carries(f, p, txlog[p], n)
  BY <1>2 DEF GoodFrame
<1>4. f.seq_num = SeqOf(p, n - 1) /\ Payload(f) = txlog[p][n] /\ next_rx_seq[e] = SeqOf(p, r)
  BY <1>1, <1>3 DEF Carries, LinkOK
<1>5. /\ r \in 0 .. MaxTx /\ n <= MaxTx /\ MaxTx \in Nat /\ MaxTx < HALF_MAX_SEQ_NUM
      /\ HALF_MAX_SEQ_NUM \in Nat
  <2>1. Len(txlog[p]) \in 0 .. MaxTx /\ r \in 0 .. MaxTx /\ MaxTx \in Nat
        /\ MaxTx < HALF_MAX_SEQ_NUM
    BY <1>1, LinkLen
  <2> QED BY <2>1, HalfFact
<1> HIDE DEF r, f
<1> DEFINE c == tloe_seqnum_cmp(SeqOf(p, n - 1), SeqOf(p, r))
<1>6. /\ n - 1 < r => c = -1
      /\ n - 1 = r => c = 0
      /\ n - 1 > r => c = 1
  BY <1>1, <1>5, CmpFacts
<1>7. tloe_rx_get_req_type(e, f) = CASE c = 0 -> REQ_NORMAL
                                     [] c < 0 -> REQ_DUPLICATE
                                     [] c > 0 -> REQ_OOS
  BY <1>4 DEF tloe_rx_get_req_type
<1> HIDE DEF c
<1>8. /\ n - 1 = r <=> tloe_rx_get_req_type(e, f) = REQ_NORMAL
      /\ n - 1 < r <=> tloe_rx_get_req_type(e, f) = REQ_DUPLICATE
  BY <1>5, <1>6, <1>7 DEF REQ_NORMAL, REQ_DUPLICATE, REQ_OOS
<1> QED BY <1>3, <1>4, <1>5, <1>8 DEF f, r

\* RX of the frame expected next preserves the invariant.
LEMMA AcceptStep ==
    ASSUME LinkInv, NEW e \in Endpoint, fabric[e] # <<>>, Accept(e, Head(fabric[e]))
    PROVE  LinkInv'
<1> DEFINE p == Peer(e)
           f == Head(fabric[e])
           received == Append(rxlog[e], Payload(f))
<1>0. p \in Endpoint /\ Peer(p) = e /\ p # e
  BY PeerFact
<1>1. LinkOK(e) /\ Arrays
  BY DEF LinkInv
<1>2. /\ serve_ack(e, f)
      /\ UNCHANGED <<next_tx_seq, txlog, ack_buffer>>
      /\ f.type # TYPE_ACKONLY /\ tloe_rx_get_req_type(e, f) = REQ_NORMAL
      /\ next_rx_seq' = [next_rx_seq EXCEPT ![e] = tloe_seqnum_next(f.seq_num)]
      /\ rxlog' = [rxlog EXCEPT ![e] = received]
  BY DEF Accept, RXCommon
<1>3. PICK n \in 1 .. Len(txlog[p]) :
        /\ n <= MaxTx
        /\ f.seq_num = SeqOf(p, n - 1)
        /\ Payload(f) = txlog[p][n]
        /\ n - 1 = Len(rxlog[e])
  BY <1>2, ArrivedFacts
<1>4. Len(rxlog[e]) \in Nat /\ Len(txlog[p]) \in Nat /\ MaxTx \in Nat
  BY <1>0, LinkLen
<1>5. /\ IsSeq(received) /\ Len(received) = Len(rxlog[e]) + 1
      /\ \A i \in 1 .. Len(rxlog[e]) : received[i] = rxlog[e][i]
      /\ received[Len(rxlog[e]) + 1] = Payload(f)
  BY <1>1, AppendFact DEF LinkOK, Prefix
<1> HIDE DEF received, f
<1>6. Prefix(received, txlog[p])
  <2>1. Len(received) = n /\ n <= Len(txlog[p])
    BY <1>3, <1>4, <1>5
  <2>2. ASSUME NEW i \in 1 .. Len(received)
        PROVE  received[i] = txlog[p][i]
    <3>1. CASE i = n
      BY <1>3, <1>4, <1>5, <3>1
    <3>2. CASE i # n
      <4>1. i \in 1 .. Len(rxlog[e])
        BY <1>3, <1>4, <1>5, <3>2
      <4> QED BY <1>1, <1>5, <4>1 DEF LinkOK, Prefix
    <3> QED BY <3>1, <3>2
  <2> QED BY <1>5, <2>1, <2>2 DEF Prefix
<1>7. tloe_seqnum_next(f.seq_num) = SeqOf(p, Len(received))
  <2>1. n - 1 \in -1 .. MaxTx /\ n - 1 < MaxTx /\ (n - 1) + 1 = Len(received)
    BY <1>3, <1>4, <1>5
  <2>2. tloe_seqnum_next(SeqOf(p, n - 1)) = SeqOf(p, (n - 1) + 1)
    BY <1>0, <2>1, SeqOfFacts
  <2> QED BY <1>3, <2>1, <2>2
<1>8. GoodAcks(ack_buffer[e], p, Len(received))
  <2>1. Len(received) \in Nat /\ Len(rxlog[e]) <= Len(received)
    BY <1>4, <1>5
  <2>2. GoodAcks(ack_buffer[e], p, Len(rxlog[e]))
    BY <1>1 DEF LinkOK
  <2> QED BY <1>4, <2>1, <2>2, AckMono DEF GoodAcks
<1>9. /\ IsArray(ack_buffer') /\ IsArray(next_rx_seq') /\ IsArray(rxlog')
      /\ ack_buffer' = ack_buffer
      /\ next_rx_seq'[e] = tloe_seqnum_next(f.seq_num) /\ next_rx_seq'[p] = next_rx_seq[p]
      /\ rxlog'[e] = received /\ rxlog'[p] = rxlog[p]
  BY <1>0, <1>1, <1>2 DEF Arrays, IsArray
<1>10. Len(rxlog[e]) <= Len(rxlog'[e])
  BY <1>4, <1>5, <1>9
<1> QED BY <1>2, <1>6, <1>7, <1>8, <1>9, <1>10, ReceiveStep DEF f

\* A duplicate and a frame out of sequence queue an acknowledgement of frames
\* that have been accepted.
LEMMA QueueAckStep ==
    ASSUME LinkInv, NEW e \in Endpoint, fabric[e] # <<>>, RXCommon(e, Head(fabric[e])),
           NEW entry, AckOf(entry.seq_num_ack, Peer(e), Len(rxlog[e])), QueueAck(e, entry)
    PROVE  LinkInv'
<1> DEFINE p == Peer(e)
<1>0. p \in Endpoint /\ Peer(p) = e /\ p # e
  BY PeerFact
<1>1. LinkOK(e) /\ Arrays
  BY DEF LinkInv
<1>2. /\ serve_ack(e, Head(fabric[e]))
      /\ UNCHANGED <<next_tx_seq, txlog, next_rx_seq, rxlog>>
      /\ \/ ack_buffer' = ack_buffer
         \/ ack_buffer' = [ack_buffer EXCEPT ![e] = Append(ack_buffer[e], entry)]
  BY DEF RXCommon, QueueAck
<1>3. /\ IsArray(ack_buffer') /\ ack_buffer'[p] = ack_buffer[p]
      /\ ack_buffer'[e] = ack_buffer[e] \/ ack_buffer'[e] = Append(ack_buffer[e], entry)
  BY <1>0, <1>1, <1>2 DEF Arrays, IsArray
<1>4. GoodAcks(ack_buffer[e], p, Len(rxlog[e]))
  BY <1>1 DEF LinkOK
<1>5. GoodAcks(Append(ack_buffer[e], entry), p, Len(rxlog[e]))
  <2> DEFINE q == ack_buffer[e]
             more == Append(q, entry)
  <2>1. IsSeq(q) /\ Len(q) \in Nat
    BY <1>4, IsSeqLen DEF GoodAcks
  <2>2. /\ IsSeq(more) /\ Len(more) = Len(q) + 1
        /\ \A i \in 1 .. Len(q) : more[i] = q[i]
        /\ more[Len(q) + 1] = entry
    BY <2>1, AppendFact
  <2> HIDE DEF more
  <2>3. ASSUME NEW i \in 1 .. Len(more)
        PROVE  AckOf(more[i].seq_num_ack, p, Len(rxlog[e]))
    <3>1. CASE i = Len(q) + 1
      BY <2>2, <3>1
    <3>2. CASE i \in 1 .. Len(q)
      BY <1>4, <2>2, <3>2 DEF GoodAcks
    <3> QED BY <2>1, <2>2, <3>1, <3>2
  <2> QED BY <2>2, <2>3 DEF GoodAcks, more
<1>6. /\ GoodAcks(ack_buffer'[e], p, Len(rxlog'[e]))
      /\ IsArray(next_rx_seq') /\ IsArray(rxlog')
  BY <1>1, <1>2, <1>3, <1>4, <1>5 DEF Arrays
<1>7. /\ Len(rxlog[e]) <= Len(rxlog'[e])
      /\ Prefix(rxlog'[e], txlog[p])
      /\ next_rx_seq'[e] = SeqOf(p, Len(rxlog'[e]))
  BY <1>1, <1>2, LinkLen DEF LinkOK
<1> QED BY <1>2, <1>3, <1>6, <1>7, ReceiveStep

\* RX of a duplicate preserves the invariant: its number is that of an
\* accepted frame.
LEMMA DuplicateStep ==
    ASSUME LinkInv, NEW e \in Endpoint, fabric[e] # <<>>,
           serve_duplicate_request(e, Head(fabric[e]))
    PROVE  LinkInv'
<1> DEFINE p == Peer(e)
           f == Head(fabric[e])
           entry == [seq_num_ack |-> f.seq_num, ack |-> TLOE_ACK]
<1>1. /\ RXCommon(e, f) /\ QueueAck(e, entry)
      /\ f.type # TYPE_ACKONLY /\ tloe_rx_get_req_type(e, f) = REQ_DUPLICATE
  BY DEF serve_duplicate_request
<1>2. PICK n \in 1 .. Len(txlog[p]) : f.seq_num = SeqOf(p, n - 1) /\ n - 1 < Len(rxlog[e])
  BY <1>1, ArrivedFacts
<1>3. Len(rxlog[e]) \in Nat /\ Len(txlog[p]) \in Nat
  BY LinkLen, PeerFact
<1>4. n \in 0 .. Len(rxlog[e])
  BY <1>2, <1>3
<1>5. AckOf(entry.seq_num_ack, p, Len(rxlog[e]))
  BY <1>2, <1>4 DEF AckOf
<1> HIDE DEF entry
<1> QED BY <1>1, <1>5, QueueAckStep

\* RX of a frame out of sequence preserves the invariant.
LEMMA OosStep ==
    ASSUME LinkInv, NEW e \in Endpoint, fabric[e] # <<>>,
           serve_oos_request(e, Head(fabric[e]))
    PROVE  LinkInv'
<1> DEFINE entry == [seq_num_ack |-> tloe_seqnum_prev(next_rx_seq[e]), ack |-> TLOE_NAK]
<1>1. RXCommon(e, Head(fabric[e])) /\ QueueAck(e, entry)
  BY DEF serve_oos_request
<1>2. AckOf(entry.seq_num_ack, Peer(e), Len(rxlog[e]))
  BY OwnAck
<1> HIDE DEF entry
<1> QED BY <1>1, <1>2, QueueAckStep
-------------------------------------------------------------------------------
\* The fabric, and the steps that touch nothing of the link.

\* The loss of a frame preserves the invariant.
LEMMA LoseStep ==
    ASSUME LinkInv, NEW e \in Endpoint, Lose(e)
    PROVE  LinkInv'
<1> DEFINE p == Peer(e)
           q == fabric[e]
<1>0. p \in Endpoint /\ Peer(p) = e /\ p # e /\ Endpoint = {e, p}
  BY PeerFact
<1>1. LinkOK(e) /\ LinkOK(p) /\ Arrays
  BY <1>0 DEF LinkInv
<1>2. PICK i \in 1 .. Len(q) :
        fabric' = [fabric EXCEPT ![e] = SubSeq(q, 1, i - 1) \o SubSeq(q, i + 1, Len(q))]
  BY DEF Lose
<1>3. UNCHANGED <<retransmit_buffer, ack_buffer, txlog, rxlog, next_tx_seq, next_rx_seq>>
  BY DEF Lose, linkVars, seqVars
<1>4. GoodQueue(q, e, txlog[p], Len(rxlog[p])) /\ GoodQueue(fabric[p], p, txlog[e], Len(rxlog[e]))
  BY <1>0, <1>1 DEF LinkOK
<1>5. Len(q) \in Nat
  BY <1>4, IsSeqLen DEF GoodQueue
<1>6. GoodQueue(SubSeq(q, 1, i - 1), e, txlog[p], Len(rxlog[p]))
  <2>1. 1 \in Nat \ {0} /\ i - 1 \in Nat /\ 1 <= (i - 1) + 1 /\ i - 1 <= Len(q)
    BY <1>5
  <2> HIDE DEF q
  <2> QED BY <1>4, <2>1, SubSeqGood
<1>7. GoodQueue(SubSeq(q, i + 1, Len(q)), e, txlog[p], Len(rxlog[p]))
  <2>1. i + 1 \in Nat \ {0} /\ i + 1 <= Len(q) + 1 /\ Len(q) <= Len(q)
    BY <1>5
  <2> HIDE DEF q
  <2> QED BY <1>4, <1>5, <2>1, SubSeqGood
<1> DEFINE rest == SubSeq(q, 1, i - 1) \o SubSeq(q, i + 1, Len(q))
<1>8. GoodQueue(rest, e, txlog[p], Len(rxlog[p]))
  BY <1>6, <1>7, ConcatGood
<1> HIDE DEF rest
<1>9. IsArray(fabric') /\ fabric'[e] = rest /\ fabric'[p] = fabric[p]
  BY <1>0, <1>1, <1>2 DEF Arrays, IsArray, rest
<1>10. \A x \in Endpoint : GoodQueue(fabric'[x], x, txlog[Peer(x)], Len(rxlog[Peer(x)]))
  BY <1>0, <1>4, <1>8, <1>9
<1> QED BY <1>3, <1>9, <1>10, FabricStep

\* Steps that leave the link alone preserve the invariant.
LEMMA OtherStep ==
    ASSUME LinkInv,
           UNCHANGED <<retransmit_buffer, ack_buffer, txlog, rxlog, next_tx_seq, next_rx_seq, fabric>>
    PROVE  LinkInv'
<1>1. IsArray(fabric)
  BY DEF LinkInv, Arrays
<1>2. \A e \in Endpoint : GoodQueue(fabric[e], e, txlog[Peer(e)], Len(rxlog[Peer(e)]))
  BY DEF LinkInv, LinkOK
<1> QED BY <1>1, <1>2, FabricStep

\* Every step preserves the invariant.
LEMMA NextLink == LinkInv /\ [Next]_vars => LinkInv'
<1> SUFFICES ASSUME LinkInv, [Next]_vars PROVE LinkInv'
  OBVIOUS
<1>1. CASE UNCHANGED vars
  BY <1>1, OtherStep DEF vars, linkVars, seqVars, envVars
<1>2. ASSUME NEW e \in Endpoint, TX(e)
      PROVE  LinkInv'
  <2>1. PICK elapsed \in Elapsed(e) :
          TX_Hold(e, elapsed) \/ TX_Message(e, elapsed) \/ TX_Zero(e, elapsed)
    BY <1>2 DEF TX
  <2>2. CASE TX_Hold(e, elapsed)
    BY <2>2, HoldStep
  <2>3. CASE TX_Message(e, elapsed)
    BY <2>3, SendStep DEF TX_Message
  <2>4. CASE TX_Zero(e, elapsed)
    BY <2>4, SendStep DEF TX_Zero
  <2> QED BY <2>1, <2>2, <2>3, <2>4
<1>3. ASSUME NEW e \in Endpoint, RX(e)
      PROVE  LinkInv'
  <2>1. CASE RX_Idle(e)
    BY <2>1, OtherStep DEF RX_Idle, linkVars, seqVars, envVars
  <2>2. CASE fabric[e] # <<>> /\ RX_Ackonly(e, Head(fabric[e]))
    BY <2>2, AckonlyStep
  <2>3. CASE fabric[e] # <<>> /\ serve_normal_request(e, Head(fabric[e]))
    BY <2>3, AcceptStep DEF serve_normal_request
  <2>4. CASE fabric[e] # <<>> /\ serve_zero_tlmsg_request(e, Head(fabric[e]))
    BY <2>4, AcceptStep DEF serve_zero_tlmsg_request
  <2>5. CASE fabric[e] # <<>> /\ serve_duplicate_request(e, Head(fabric[e]))
    BY <2>5, DuplicateStep
  <2>6. CASE fabric[e] # <<>> /\ serve_oos_request(e, Head(fabric[e]))
    BY <2>6, OosStep
  <2> QED BY <1>3, <2>1, <2>2, <2>3, <2>4, <2>5, <2>6 DEF RX
<1>4. ASSUME NEW e \in Endpoint, tl_handler(e)
      PROVE  LinkInv'
  <2>1. UNCHANGED <<linkVars, fabric>>
    BY <1>4 DEF tl_handler, TL_Skip, handle_A_PUTFULLDATA_opcode, handle_A_GET_opcode,
                handle_D_opcode, TLCommon, envVars
  <2> QED BY <2>1, OtherStep DEF linkVars, seqVars
<1>5. ASSUME NEW e \in Endpoint, User(e)
      PROVE  LinkInv'
  <2>1. UNCHANGED <<linkVars, fabric>>
    BY <1>5 DEF User, read_memory, write_memory, create_and_enqueue_message, Submit, envVars
  <2> QED BY <2>1, OtherStep DEF linkVars, seqVars
<1>6. ASSUME NEW e \in Endpoint, Lose(e)
      PROVE  LinkInv'
  BY <1>6, LoseStep
<1> QED BY <1>1, <1>2, <1>3, <1>4, <1>5, <1>6 DEF Next, Thread

\* The invariant gives delivery once and in order.
LEMMA LinkInvDelivers == LinkInv => InOrderDelivery
<1> SUFFICES ASSUME LinkInv, NEW e \in Endpoint
             PROVE  /\ Len(rxlog[e]) <= Len(txlog[Peer(e)])
                    /\ \A i \in 1 .. Len(rxlog[e]) : rxlog[e][i] = txlog[Peer(e)][i]
  BY DEF InOrderDelivery
<1> QED BY DEF LinkInv, LinkOK, Prefix

\* The invariant gives that unaccepted frames are retained.
LEMMA LinkInvRetains == LinkInv => UnackedRetained
<1> SUFFICES ASSUME LinkInv, NEW e \in Endpoint
             PROVE  LET popped == Len(txlog[e]) - Len(retransmit_buffer[e])
                    IN  /\ popped \in 0 .. Len(rxlog[Peer(e)])
                        /\ \A i \in 1 .. Len(retransmit_buffer[e]) :
                              Payload(retransmit_buffer[e][i]) = txlog[e][popped + i]
  BY DEF UnackedRetained
<1>1. LinkOK(e)
  BY DEF LinkInv
<1>2. /\ IsSeq(retransmit_buffer[e]) /\ Len(retransmit_buffer[e]) <= Len(txlog[e])
      /\ Len(txlog[e]) - Len(retransmit_buffer[e]) <= Len(rxlog[Peer(e)])
      /\ \A i \in 1 .. Len(retransmit_buffer[e]) :
            Payload(retransmit_buffer[e][i])
                = txlog[e][Len(txlog[e]) - Len(retransmit_buffer[e]) + i]
  BY <1>1 DEF LinkOK, GoodBuffer, Carries
<1>3. Len(retransmit_buffer[e]) \in Nat /\ Len(txlog[e]) \in Nat /\ Len(rxlog[Peer(e)]) \in Nat
  BY <1>2, LinkLen, IsSeqLen, PeerFact
<1> DEFINE popped == Len(txlog[e]) - Len(retransmit_buffer[e])
<1>4. popped \in 0 .. Len(rxlog[Peer(e)])
  BY <1>2, <1>3, DifferenceFact
<1>5. \A i \in 1 .. Len(retransmit_buffer[e]) :
        Payload(retransmit_buffer[e][i]) = txlog[e][popped + i]
  BY <1>2
<1> QED BY <1>4, <1>5
-------------------------------------------------------------------------------
\* Every sequence number in the system, in next_tx_seq and next_rx_seq, in the
\* retransmit buffers, in ack_buffer and in the frames in flight, stands for
\* the frame the histories say, whatever is lost and sent again.
THEOREM LinkInvariant == Spec => []LinkInv
<1>1. Init => LinkInv
  BY InitLink
<1>2. LinkInv /\ [Next]_vars => LinkInv'
  BY NextLink
<1> QED BY <1>1, <1>2, PTL DEF Spec

\* tloe_rx_get_req_type accepts exactly the frames the peer numbered, each one
\* once and in order, for every window, buffer size, start and loss pattern.
THEOREM LinkDelivers == Spec => []InOrderDelivery
<1>1. LinkInv => InOrderDelivery
  BY LinkInvDelivers
<1> QED BY <1>1, LinkInvariant, PTL

\* slide_window never discards a frame the peer has not accepted.
THEOREM LinkRetains == Spec => []UnackedRetained
<1>1. LinkInv => UnackedRetained
  BY LinkInvRetains
<1> QED BY <1>1, LinkInvariant, PTL

-------------------------------------------------------------------------------
\* Each direction of the link is a reliable channel.

\* A step of the direction from e to its peer, as ReliableChannel allows it.
NumbersPayload(e) ==
    /\ Len(txlog[e]) - Len(rxlog[Peer(e)]) < WINDOW_SIZE
    /\ Len(txlog'[e]) = Len(txlog[e]) + 1
    /\ txlog'[e] = Append(txlog[e], txlog'[e][Len(txlog[e]) + 1])
    /\ rxlog'[Peer(e)] = rxlog[Peer(e)]

AcceptsPayload(e) ==
    /\ Len(rxlog[Peer(e)]) < Len(txlog[e])
    /\ rxlog'[Peer(e)] = Append(rxlog[Peer(e)], txlog[e][Len(rxlog[Peer(e)]) + 1])
    /\ txlog'[e] = txlog[e]

ChannelRests(e) == txlog'[e] = txlog[e] /\ rxlog'[Peer(e)] = rxlog[Peer(e)]

\* How far the sender is ahead, given what it keeps.
LEMMA AheadFact ==
    ASSUME NEW numbered \in Nat, NEW kept \in Nat, NEW accepted \in Nat, NEW window \in Nat,
           numbered - kept <= accepted, ~(kept >= window)
    PROVE  numbered - accepted < window
OBVIOUS

\* TX of a normal frame numbers one payload, inside the window.
LEMMA SendNumbers ==
    ASSUME LinkInv, NEW e \in Endpoint, NEW elapsed, NEW tlmsg, SendNormalFrame(e, elapsed, tlmsg)
    PROVE  NumbersPayload(e) /\ ChannelRests(Peer(e))
<1> DEFINE p == Peer(e)
           x == Payload(NormalFrame(e, tlmsg))
<1>0. p \in Endpoint /\ Peer(p) = e /\ p # e
  BY PeerFact
<1>1. txlog' = [txlog EXCEPT ![e] = Append(txlog[e], x)] /\ rxlog' = rxlog
  <2>1. /\ txlog' = [txlog EXCEPT ![e] = Append(txlog[e], x)]
        /\ TXCommon(e, elapsed, <<NormalFrame(e, tlmsg)>>
              \o TimeoutFrames(e, Append(retransmit_buffer[e], NormalFrame(e, tlmsg)), elapsed))
    BY DEF SendNormalFrame
  <2> HIDE DEF x
  <2> QED BY <2>1 DEF TXCommon
<1>2. ~(Len(retransmit_buffer[e]) >= WINDOW_SIZE)
  BY DEF SendNormalFrame, WindowFull
<1> HIDE DEF x
<1>3. /\ IsSeq(txlog[e]) /\ IsSeq(retransmit_buffer[e]) /\ IsArray(txlog)
      /\ Len(txlog[e]) - Len(retransmit_buffer[e]) <= Len(rxlog[p])
  BY DEF LinkInv, LinkOK, Arrays, GoodBuffer
<1>4. Len(txlog[e]) \in Nat /\ Len(rxlog[p]) \in Nat /\ Len(retransmit_buffer[e]) \in Nat
  <2>1. Len(rxlog[p]) \in 0 .. MaxTx /\ MaxTx \in Nat
    BY <1>0, LinkLen
  <2> QED BY <1>3, <2>1, IsSeqLen
<1>5. Len(txlog[e]) - Len(rxlog[p]) < WINDOW_SIZE
  <2>1. WINDOW_SIZE \in Nat
    BY SizeAssumption
  <2> QED BY <1>2, <1>3, <1>4, <2>1, AheadFact
<1>6. txlog'[e] = Append(txlog[e], x) /\ txlog'[p] = txlog[p]
  BY <1>0, <1>1, <1>3 DEF IsArray
<1>7. Len(txlog'[e]) = Len(txlog[e]) + 1 /\ txlog'[e][Len(txlog[e]) + 1] = x
  BY <1>3, <1>6, AppendFact
<1> QED BY <1>0, <1>1, <1>5, <1>6, <1>7 DEF NumbersPayload, ChannelRests

\* RX of the frame expected next accepts the payload expected next.
LEMMA AcceptDelivers ==
    ASSUME LinkInv, NEW e \in Endpoint, fabric[e] # <<>>, Accept(e, Head(fabric[e]))
    PROVE  AcceptsPayload(Peer(e)) /\ ChannelRests(e)
<1> DEFINE p == Peer(e)
           f == Head(fabric[e])
<1>0. p \in Endpoint /\ Peer(p) = e /\ p # e
  BY PeerFact
<1>1. /\ f.type # TYPE_ACKONLY /\ tloe_rx_get_req_type(e, f) = REQ_NORMAL
      /\ txlog' = txlog
      /\ rxlog' = [rxlog EXCEPT ![e] = Append(rxlog[e], Payload(f))]
  BY DEF Accept, RXCommon
<1>2. PICK n \in 1 .. Len(txlog[p]) : Payload(f) = txlog[p][n] /\ n - 1 = Len(rxlog[e])
  BY <1>1, ArrivedFacts
<1>3. Len(rxlog[e]) \in Nat /\ Len(txlog[p]) \in Nat /\ IsArray(rxlog)
  BY <1>0, LinkLen DEF LinkInv, Arrays
<1>4. n = Len(rxlog[e]) + 1 /\ Len(rxlog[e]) < Len(txlog[p])
  BY <1>2, <1>3
<1> HIDE DEF f
<1>5. rxlog'[e] = Append(rxlog[e], txlog[p][Len(rxlog[e]) + 1]) /\ rxlog'[p] = rxlog[p]
  BY <1>0, <1>1, <1>2, <1>3, <1>4 DEF IsArray
<1> QED BY <1>0, <1>1, <1>4, <1>5 DEF AcceptsPayload, ChannelRests

\* Every step is one of the two in one direction and none in the other, or none
\* in both.
LEMMA ChannelStep ==
    ASSUME LinkInv, [Next]_vars, NEW x \in Endpoint
    PROVE  NumbersPayload(x) \/ AcceptsPayload(x) \/ ChannelRests(x)
<1>0. ASSUME UNCHANGED <<txlog, rxlog>> PROVE ChannelRests(x)
  BY <1>0 DEF ChannelRests
<1>1. CASE UNCHANGED vars
  BY <1>0, <1>1 DEF vars, linkVars
<1>2. ASSUME NEW e \in Endpoint, NEW elapsed, NEW tlmsg, SendNormalFrame(e, elapsed, tlmsg)
      PROVE  NumbersPayload(x) \/ ChannelRests(x)
  BY <1>2, SendNumbers, PeerFact
<1>3. ASSUME NEW e \in Endpoint, fabric[e] # <<>>, Accept(e, Head(fabric[e]))
      PROVE  AcceptsPayload(x) \/ ChannelRests(x)
  BY <1>3, AcceptDelivers, PeerFact
<1>4. ASSUME NEW e \in Endpoint, TX(e)
      PROVE  NumbersPayload(x) \/ ChannelRests(x)
  <2>1. PICK elapsed \in Elapsed(e) :
          TX_Hold(e, elapsed) \/ TX_Message(e, elapsed) \/ TX_Zero(e, elapsed)
    BY <1>4 DEF TX
  <2>2. CASE TX_Hold(e, elapsed)
    BY <1>0, <2>2 DEF TX_Hold, TXCommon
  <2>3. CASE TX_Message(e, elapsed)
    BY <1>2, <2>3 DEF TX_Message
  <2>4. CASE TX_Zero(e, elapsed)
    BY <1>2, <2>4 DEF TX_Zero
  <2> QED BY <2>1, <2>2, <2>3, <2>4
<1>5. ASSUME NEW e \in Endpoint, RX(e)
      PROVE  AcceptsPayload(x) \/ ChannelRests(x)
  <2>1. CASE RX_Idle(e)
    BY <1>0, <2>1 DEF RX_Idle, linkVars
  <2>2. CASE fabric[e] # <<>> /\ RX_Ackonly(e, Head(fabric[e]))
    BY <1>0, <2>2 DEF RX_Ackonly, RXCommon
  <2>3. CASE fabric[e] # <<>> /\ serve_normal_request(e, Head(fabric[e]))
    BY <1>3, <2>3 DEF serve_normal_request
  <2>4. CASE fabric[e] # <<>> /\ serve_zero_tlmsg_request(e, Head(fabric[e]))
    BY <1>3, <2>4 DEF serve_zero_tlmsg_request
  <2>5. CASE fabric[e] # <<>> /\ serve_duplicate_request(e, Head(fabric[e]))
    BY <1>0, <2>5 DEF serve_duplicate_request, RXCommon, QueueAck
  <2>6. CASE fabric[e] # <<>> /\ serve_oos_request(e, Head(fabric[e]))
    BY <1>0, <2>6 DEF serve_oos_request, RXCommon, QueueAck
  <2> QED BY <1>5, <2>1, <2>2, <2>3, <2>4, <2>5, <2>6 DEF RX
<1>6. ASSUME NEW e \in Endpoint, tl_handler(e)
      PROVE  ChannelRests(x)
  <2>1. UNCHANGED linkVars
    BY <1>6 DEF tl_handler, TL_Skip, handle_A_PUTFULLDATA_opcode, handle_A_GET_opcode,
                handle_D_opcode, TLCommon
  <2> QED BY <1>0, <2>1 DEF linkVars
<1>7. ASSUME NEW e \in Endpoint, User(e)
      PROVE  ChannelRests(x)
  <2>1. UNCHANGED linkVars
    BY <1>7 DEF User, read_memory, write_memory, create_and_enqueue_message, Submit
  <2> QED BY <1>0, <2>1 DEF linkVars
<1>8. ASSUME NEW e \in Endpoint, Lose(e)
      PROVE  ChannelRests(x)
  BY <1>0, <1>8 DEF Lose, linkVars
<1> QED BY <1>1, <1>4, <1>5, <1>6, <1>7, <1>8 DEF Next, Thread

\* Whatever the fabric loses and however often TX sends a frame again, each
\* direction of the link accepts the payloads one by one, once and in order,
\* and the sender is never more than WINDOW_SIZE ahead (TX, RX).
THEOREM LinkReliable == Spec => LinkIsReliable
<1>1. Init => FromMaster!ChannelInit /\ FromSlave!ChannelInit
  BY DEF Init, Fresh, FromMaster!ChannelInit, FromSlave!ChannelInit, Endpoint
<1>2. LinkInv /\ [Next]_vars => [FromMaster!ChannelNext]_(FromMaster!channelVars)
  <2> SUFFICES ASSUME LinkInv, [Next]_vars
               PROVE  [FromMaster!ChannelNext]_(FromMaster!channelVars)
    OBVIOUS
  <2>1. NumbersPayload("master") \/ AcceptsPayload("master") \/ ChannelRests("master")
    BY ChannelStep DEF Endpoint
  <2> QED BY <2>1 DEF NumbersPayload, AcceptsPayload, ChannelRests, Peer,
                      FromMaster!ChannelNext, FromMaster!Number, FromMaster!Deliver, FromMaster!channelVars
<1>3. LinkInv /\ [Next]_vars => [FromSlave!ChannelNext]_(FromSlave!channelVars)
  <2> SUFFICES ASSUME LinkInv, [Next]_vars
               PROVE  [FromSlave!ChannelNext]_(FromSlave!channelVars)
    OBVIOUS
  <2>1. NumbersPayload("slave") \/ AcceptsPayload("slave") \/ ChannelRests("slave")
    BY ChannelStep DEF Endpoint
  <2> QED BY <2>1 DEF NumbersPayload, AcceptsPayload, ChannelRests, Peer,
                      FromSlave!ChannelNext, FromSlave!Number, FromSlave!Deliver, FromSlave!channelVars
<1> QED BY <1>1, <1>2, <1>3, LinkInvariant, PTL
        DEF Spec, LinkIsReliable, FromMaster!ChannelSpec, FromSlave!ChannelSpec
-------------------------------------------------------------------------------
\* Types.

\* Each message accepted is waiting for tl_handler or has added at most three
\* flits to what the endpoint has to return.
CreditBound ==
    \A e \in Endpoint, c \in Channel :
        tx_flow_credits[e][c] + 3 * Len(tl_msg_buffer[e]) <= 3 * Len(rxlog[e])

TypeInv == TypeOK /\ CreditBound

\* A connection carries fewer payloads than half the sequence numbers; the
\* margin is for what is left of a handshake.
AcceptedBound == \A e \in Endpoint : Len(rxlog[e]) <= HALF_MAX_SEQ_NUM + 2 * CHANNEL_NUM
-------------------------------------------------------------------------------
\* Credit.

\* Powers of two.
LEMMA PowFact ==
    ASSUME NEW k \in 0 .. 31
    PROVE  2^k \in Nat \ {0}
<1>1. k = 0 \/ k = 1 \/ k = 2 \/ k = 3 \/ k = 4 \/ k = 5 \/ k = 6 \/ k = 7 \/ k = 8
      \/ k = 9 \/ k = 10 \/ k = 11 \/ k = 12 \/ k = 13 \/ k = 14 \/ k = 15 \/ k = 16 \/ k = 17
      \/ k = 18 \/ k = 19 \/ k = 20 \/ k = 21 \/ k = 22 \/ k = 23 \/ k = 24 \/ k = 25 \/ k = 26
      \/ k = 27 \/ k = 28 \/ k = 29 \/ k = 30 \/ k = 31
  OBVIOUS
<1>2. 2^0 \in Nat \ {0} /\ 2^1 \in Nat \ {0} /\ 2^2 \in Nat \ {0} /\ 2^3 \in Nat \ {0}
      /\ 2^4 \in Nat \ {0} /\ 2^5 \in Nat \ {0} /\ 2^6 \in Nat \ {0} /\ 2^7 \in Nat \ {0}
      /\ 2^8 \in Nat \ {0} /\ 2^9 \in Nat \ {0} /\ 2^10 \in Nat \ {0} /\ 2^11 \in Nat \ {0}
      /\ 2^12 \in Nat \ {0} /\ 2^13 \in Nat \ {0} /\ 2^14 \in Nat \ {0} /\ 2^15 \in Nat \ {0}
      /\ 2^16 \in Nat \ {0} /\ 2^17 \in Nat \ {0} /\ 2^18 \in Nat \ {0} /\ 2^19 \in Nat \ {0}
      /\ 2^20 \in Nat \ {0} /\ 2^21 \in Nat \ {0} /\ 2^22 \in Nat \ {0} /\ 2^23 \in Nat \ {0}
      /\ 2^24 \in Nat \ {0} /\ 2^25 \in Nat \ {0} /\ 2^26 \in Nat \ {0} /\ 2^27 \in Nat \ {0}
      /\ 2^28 \in Nat \ {0} /\ 2^29 \in Nat \ {0} /\ 2^30 \in Nat \ {0} /\ 2^31 \in Nat \ {0}
  OBVIOUS
<1> QED BY <1>1, <1>2

\* get_largest_pow finds an exponent for what an endpoint has to return.
LEMMA LargestPow ==
    ASSUME NEW v \in Nat \ {0}, v < 2^23
    PROVE  get_largest_pow(v) \in 0 .. 31 /\ 2^get_largest_pow(v) <= v
<1> DEFINE Within(k) == 2^k <= v /\ v < 2^(k + 1)
<1>1. Within(0) \/ Within(1) \/ Within(2) \/ Within(3) \/ Within(4) \/ Within(5)
      \/ Within(6) \/ Within(7) \/ Within(8) \/ Within(9) \/ Within(10) \/ Within(11)
      \/ Within(12) \/ Within(13) \/ Within(14) \/ Within(15) \/ Within(16) \/ Within(17)
      \/ Within(18) \/ Within(19) \/ Within(20) \/ Within(21) \/ Within(22)
  OBVIOUS
<1>2. \E k \in 0 .. 31 : Within(k)
  <2> HIDE DEF Within
  <2> QED BY <1>1
<1> DEFINE n == CHOOSE k \in 0 .. 31 : Within(k)
<1>3. n \in 0 .. 31 /\ Within(n)
  <2> HIDE DEF Within
  <2> QED BY <1>2
<1>4. get_largest_pow(v) = n
  BY DEF get_largest_pow
<1> HIDE DEF n
<1> QED BY <1>3, <1>4

\* select_max_credit_channel finds a channel, and one with something to return
\* unless it is channel 0.
LEMMA SelectFact ==
    ASSUME NEW f \in [Channel -> Nat]
    PROVE  /\ select_max_credit_channel(f) \in Channel
           /\ select_max_credit_channel(f) # CHANNEL_0 => f[select_max_credit_channel(f)] > 0
<1> DEFINE First(i) == /\ \A j \in Channel : f[j] <= f[i]
                       /\ \A j \in Channel : j < i => f[j] < f[i]
           chan == CHOOSE i \in Channel : First(i)
<1>1. Channel = {0, 1, 2, 3, 4, 5}
  BY DEF Channel, CHANNEL_NUM
<1>2. First(0) \/ First(1) \/ First(2) \/ First(3) \/ First(4) \/ First(5)
  BY <1>1
<1>3. chan \in Channel /\ First(chan)
  <2> HIDE DEF First
  <2> QED BY <1>1, <1>2
<1>4. select_max_credit_channel(f) = chan
  BY DEF select_max_credit_channel
<1> HIDE DEF chan
<1>5. chan # 0 => f[chan] > 0
  BY <1>1, <1>3
<1> QED BY <1>3, <1>4, <1>5 DEF CHANNEL_0

\* A message is on channel A or D and has one to three flits.
LEMMA FlitsFact ==
    ASSUME NEW m \in TLMsg
    PROVE  /\ m.chan \in Channel
           /\ tlmsg_get_flits_cnt(m) \in 1 .. 3
<1> USE DEF tlmsg_get_flits_cnt, convert_size_to_flits, tlmsg_get_header_size,
            tlmsg_get_data_size, Channel, CHANNEL_NUM, CHANNEL_A, CHANNEL_B, CHANNEL_C,
            CHANNEL_D, CHANNEL_E, A_GET_OPCODE, A_PUTFULLDATA_OPCODE, D_ACCESSACK_OPCODE,
            D_ACCESSACKDATA_OPCODE
<1>0. 2^3 = 8 /\ 2^0 = 1
  OBVIOUS
<1>1. ASSUME NEW a \in Addr, NEW s \in {0, 3}, m = Get(a, s)
      PROVE  m.chan \in Channel /\ tlmsg_get_flits_cnt(m) \in 1 .. 3
  BY <1>1 DEF Get
<1>2. ASSUME NEW a \in Addr, NEW v \in Val, m = PutFullData(a, v)
      PROVE  m.chan \in Channel /\ tlmsg_get_flits_cnt(m) \in 1 .. 3
  BY <1>0, <1>2 DEF PutFullData
<1>3. ASSUME m = AccessAck
      PROVE  m.chan \in Channel /\ tlmsg_get_flits_cnt(m) \in 1 .. 3
  BY <1>3 DEF AccessAck
<1>4. ASSUME NEW s \in {0, 3}, NEW v \in Val \cup {0}, m = AccessAckData(s, v)
      PROVE  m.chan \in Channel /\ tlmsg_get_flits_cnt(m) \in 1 .. 3
  <2>1. CASE s = 0
    <3>1. m = AccessAckData(0, v)
      BY <1>4, <2>1
    <3> QED BY <3>1 DEF AccessAckData
  <2>2. CASE s = 3
    <3>1. m = AccessAckData(3, v)
      BY <1>4, <2>2
    <3> QED BY <3>1 DEF AccessAckData
  <2> QED BY <2>1, <2>2
<1> QED BY <1>1, <1>2, <1>3, <1>4 DEF TLMsg, Request, Answer
-------------------------------------------------------------------------------
\* Messages, frames and sequence numbers.

\* Requests and responses are messages, and none is NULL.
LEMMA MsgFact ==
    /\ Request \subseteq TLMsg /\ Answer \subseteq TLMsg
    /\ NULL \notin TLMsg
<1>1. \A m \in TLMsg : m.chan # 0
  BY DEF TLMsg, Request, Answer, Get, PutFullData, AccessAck, AccessAckData, CHANNEL_A, CHANNEL_D
<1>2. NULL.chan = 0
  BY DEF NULL, CHANNEL_0
<1> QED BY <1>1, <1>2 DEF TLMsg

\* The operators on sequence numbers give sequence numbers.
LEMMA SeqNumFact ==
    ASSUME NEW s \in SeqNum, NEW r \in SeqNum
    PROVE  /\ tloe_seqnum_prev(s) \in SeqNum
           /\ tloe_seqnum_next(s) \in SeqNum
           /\ tloe_seqnum_update_acked_seq(s, r) \in SeqNum
<1>1. tloe_seqnum_prev(s) \in SeqNum
  BY HalfFact DEF tloe_seqnum_prev, SeqNum
<1>2. tloe_seqnum_next(s) \in SeqNum
  BY HalfFact, NextFact DEF SeqNum
<1>3. tloe_seqnum_update_acked_seq(s, r) \in SeqNum
  BY DEF tloe_seqnum_update_acked_seq
<1> QED BY <1>1, <1>2, <1>3

\* The fields of a frame.
LEMMA FrameFact ==
    ASSUME NEW f \in Frame
    PROVE  /\ f.seq_num \in SeqNum /\ f.seq_num_ack \in SeqNum
           /\ f.chan \in Channel /\ f.credit \in 0 .. 31 /\ f.tlmsg \in TLMsg \cup {NULL}
           /\ Payload(f) \in LogEntry
           /\ \A a \in SeqNum : [f EXCEPT !.seq_num_ack = a] \in Frame
BY DEF Frame, LogEntry, Payload

\* The first of the numbers up to n that are in a set, if there is one.
LEMMA FirstFact ==
    ASSUME NEW n \in Nat, NEW S \in SUBSET (1 .. n)
    PROVE  \E k \in 0 .. n : (\A i \in 1 .. k : i \notin S) /\ (k < n => k + 1 \in S)
<1>1. CASE S = {}
  <2>1. n \in 0 .. n
    OBVIOUS
  <2> QED BY <1>1, <2>1
<1>2. CASE S # {}
  <2>1. S \subseteq Nat
    OBVIOUS
  <2>2. PICK x \in S : \A y \in S : ~(<<y, x>> \in OpToRel(<, Nat))
    BY <1>2, <2>1, WFMin, NatLessThanWellFounded
  <2>3. \A y \in S : ~(y < x)
    BY <2>1, <2>2 DEF OpToRel
  <2>4. x - 1 \in 0 .. n /\ (x - 1) + 1 = x
    OBVIOUS
  <2> QED BY <2>3, <2>4
<1> QED BY <1>1, <1>2

\* What the fabric carries stays within its size.
LEMMA CarryType ==
    ASSUME NEW S, NEW queue \in Seq(S), NEW frames \in Seq(S)
    PROVE  Carry(queue, frames) \in Seq(S) /\ Len(Carry(queue, frames)) <= FABRIC_BUF
<1> DEFINE all == queue \o frames
<1>1. all \in Seq(S) /\ Len(all) \in Nat
  OBVIOUS
<1>2. Carry(queue, frames) = IF Len(all) <= FABRIC_BUF THEN all ELSE SubSeq(all, 1, FABRIC_BUF)
  BY DEF Carry
<1> HIDE DEF all
<1>3. CASE Len(all) <= FABRIC_BUF
  BY <1>1, <1>2, <1>3
<1>4. CASE ~(Len(all) <= FABRIC_BUF)
  <2>1. FABRIC_BUF \in Nat /\ FABRIC_BUF <= Len(all)
    BY <1>1, <1>4, SizeAssumption
  <2>2. SubSeq(all, 1, FABRIC_BUF) \in Seq(S) /\ Len(SubSeq(all, 1, FABRIC_BUF)) = FABRIC_BUF
    BY <1>1, <2>1
  <2> QED BY <1>2, <1>4, <2>1, <2>2
<1> QED BY <1>3, <1>4

\* What slide_window leaves is part of the buffer.
LEMMA SlideType ==
    ASSUME NEW S, NEW buffer \in Seq(S), NEW a
    PROVE  LET rest == slide_window(buffer, a)
           IN  rest \in Seq(S) /\ Len(rest) <= Len(buffer)
<1> DEFINE Acked(i) == tloe_seqnum_cmp(buffer[i].seq_num, a) <= 0
           Until(k) == /\ \A i \in 1 .. k : Acked(i)
                       /\ k < Len(buffer) => ~Acked(k + 1)
           n == CHOOSE k \in 0 .. Len(buffer) : Until(k)
<1>1. Len(buffer) \in Nat
  OBVIOUS
<1>2. \E k \in 0 .. Len(buffer) : Until(k)
  <2> DEFINE N == {i \in 1 .. Len(buffer) : ~Acked(i)}
  <2>1. N \in SUBSET (1 .. Len(buffer))
    OBVIOUS
  <2>2. \A i \in 1 .. Len(buffer) : i \in N <=> ~Acked(i)
    OBVIOUS
  <2> HIDE DEF N, Acked
  <2>3. PICK k \in 0 .. Len(buffer) :
          (\A i \in 1 .. k : i \notin N) /\ (k < Len(buffer) => k + 1 \in N)
    BY <1>1, <2>1, FirstFact
  <2> QED BY <1>1, <2>2, <2>3
<1>3. n \in 0 .. Len(buffer)
  <2> HIDE DEF Until
  <2> QED BY <1>2
<1>4. slide_window(buffer, a) = SubSeq(buffer, n + 1, Len(buffer))
  BY DEF slide_window
<1> HIDE DEF n
<1>5. CASE n = Len(buffer)
  <2>1. SubSeq(buffer, n + 1, Len(buffer)) = <<>>
    BY <1>1, <1>5
  <2>2. <<>> \in Seq(S) /\ Len(<<>>) = 0
    OBVIOUS
  <2>3. Len(<<>>) <= Len(buffer)
    BY <1>1, <2>2
  <2> QED BY <1>4, <2>1, <2>2, <2>3
<1>6. CASE n # Len(buffer)
  BY <1>1, <1>3, <1>4, <1>6
<1> QED BY <1>5, <1>6

\* The frames sent again are those of the buffer, but for the acknowledgement.
LEMMA RetransmitType ==
    ASSUME NEW S, NEW buffer \in Seq(S), NEW s, NEW a,
           \A f \in S : [f EXCEPT !.seq_num_ack = a] \in S
    PROVE  retransmit(buffer, s, a) \in Seq(S)
<1> DEFINE Older(i) == tloe_seqnum_cmp(buffer[i].seq_num, s) < 0
           Until(k) == /\ \A i \in 1 .. k : Older(i)
                       /\ k < Len(buffer) => ~Older(k + 1)
           n == CHOOSE k \in 0 .. Len(buffer) : Until(k)
           again == [i \in 1 .. Len(buffer) - n |-> [buffer[n + i] EXCEPT !.seq_num_ack = a]]
<1>1. Len(buffer) \in Nat /\ \A i \in 1 .. Len(buffer) : buffer[i] \in S
  OBVIOUS
<1>2. \E k \in 0 .. Len(buffer) : Until(k)
  <2> DEFINE N == {i \in 1 .. Len(buffer) : ~Older(i)}
  <2>1. N \in SUBSET (1 .. Len(buffer))
    OBVIOUS
  <2>2. \A i \in 1 .. Len(buffer) : i \in N <=> ~Older(i)
    OBVIOUS
  <2> HIDE DEF N, Older
  <2>3. PICK k \in 0 .. Len(buffer) :
          (\A i \in 1 .. k : i \notin N) /\ (k < Len(buffer) => k + 1 \in N)
    BY <1>1, <2>1, FirstFact
  <2> QED BY <1>1, <2>2, <2>3
<1>3. n \in 0 .. Len(buffer)
  <2> HIDE DEF Until
  <2> QED BY <1>2
<1>4. retransmit(buffer, s, a) = again
  BY DEF retransmit
<1> HIDE DEF n
<1>5. ASSUME NEW i \in 1 .. Len(buffer) - n
      PROVE  [buffer[n + i] EXCEPT !.seq_num_ack = a] \in S
  <2>1. buffer[n + i] \in S
    BY <1>1, <1>3
  <2> QED BY <2>1
<1>6. again \in [1 .. Len(buffer) - n -> S] /\ Len(buffer) - n \in Nat
  BY <1>1, <1>3, <1>5
<1> HIDE DEF again
<1>7. again \in Seq(S)
  BY <1>6
<1> QED BY <1>4, <1>7

\* The frames TX sends again are frames.
LEMMA TimeoutType ==
    ASSUME NEW S, NEW e \in Endpoint, NEW buffer \in Seq(S), NEW elapsed,
           \A f \in S : [f EXCEPT !.seq_num_ack = tloe_seqnum_prev(next_rx_seq[e])] \in S
    PROVE  TimeoutFrames(e, buffer, elapsed) \in Seq(S)
<1> DEFINE a == tloe_seqnum_prev(next_rx_seq[e])
           s == buffer[1].seq_num
<1>1. TimeoutFrames(e, buffer, elapsed) = IF elapsed = "due" THEN retransmit(buffer, s, a) ELSE <<>>
  BY DEF TimeoutFrames
<1>2. \A f \in S : [f EXCEPT !.seq_num_ack = a] \in S
  OBVIOUS
<1> HIDE DEF a, s
<1>3. retransmit(buffer, s, a) \in Seq(S) /\ <<>> \in Seq(S)
  BY <1>2, RetransmitType
<1> QED BY <1>1, <1>3

\* Frame is closed under a new acknowledgement.
LEMMA RefreshType ==
    ASSUME LinkTypeOK, NEW e \in Endpoint
    PROVE  \A f \in Frame : [f EXCEPT !.seq_num_ack = tloe_seqnum_prev(next_rx_seq[e])] \in Frame
<1>1. tloe_seqnum_prev(next_rx_seq[e]) \in SeqNum
  BY SeqNumFact DEF LinkTypeOK
<1> QED BY <1>1, FrameFact

\* The ACKONLY frames TX sends are frames.
LEMMA AckonlyType ==
    ASSUME LinkTypeOK, NEW e \in Endpoint, NEW elapsed
    PROVE  AckonlyFrames(e, elapsed) \in Seq(Frame)
<1>1. next_tx_seq[e] \in SeqNum /\ tloe_seqnum_prev(next_rx_seq[e]) \in SeqNum
  BY SeqNumFact DEF LinkTypeOK
<1>2. AckonlyFrame(e) \in Frame
  BY <1>1 DEF AckonlyFrame, Frame, Channel, CHANNEL_NUM, CHANNEL_0
<1> HIDE DEF Frame
<1>3. <<AckonlyFrame(e)>> \in Seq(Frame) /\ <<>> \in Seq(Frame)
  BY <1>2
<1> QED BY <1>3 DEF AckonlyFrames
-------------------------------------------------------------------------------
\* The steps of the transmitter.

\* The message an iteration is about.
LEMMA SelectedType ==
    ASSUME LoopTypeOK, NEW e \in Endpoint
    PROVE  Selected(e) \in TLMsg \cup {NULL}
<1>1. /\ request_tlmsg[e] \in TLMsg \cup {NULL}
      /\ response_buffer[e] \in Seq(Answer) /\ message_buffer[e] \in Seq(Request)
  BY DEF LoopTypeOK
<1>2. response_buffer[e] # <<>> => Head(response_buffer[e]) \in TLMsg
  BY <1>1, MsgFact
<1>3. message_buffer[e] # <<>> => Head(message_buffer[e]) \in TLMsg
  BY <1>1, MsgFact
<1> QED BY <1>1, <1>2, <1>3 DEF Selected, FromResponses, FromMessages

\* select_buffer leaves the two queues it takes from within their sizes.
LEMMA SelectType ==
    ASSUME LoopTypeOK, NEW e \in Endpoint, select_buffer(e)
    PROVE  /\ response_buffer' \in [Endpoint -> Seq(Answer)]
           /\ message_buffer' \in [Endpoint -> Seq(Request)]
           /\ buffer_select_counter' \in [Endpoint -> 1 .. 4]
           /\ \A x \in Endpoint : /\ Len(message_buffer'[x]) < MESSAGE_BUF
                                  /\ Len(response_buffer'[x]) < RESPONSE_BUF
<1>1. /\ response_buffer \in [Endpoint -> Seq(Answer)]
      /\ message_buffer \in [Endpoint -> Seq(Request)]
      /\ buffer_select_counter \in [Endpoint -> 1 .. 4]
      /\ \A x \in Endpoint : /\ Len(message_buffer[x]) < MESSAGE_BUF
                             /\ Len(response_buffer[x]) < RESPONSE_BUF
      /\ MESSAGE_BUF \in Nat /\ RESPONSE_BUF \in Nat
  BY SizeAssumption DEF LoopTypeOK
<1>2. /\ response_buffer' \in [Endpoint -> Seq(Answer)]
      /\ \A x \in Endpoint : Len(response_buffer'[x]) < RESPONSE_BUF
  <2> DEFINE q == IF FromResponses(e) THEN Tail(response_buffer[e]) ELSE response_buffer[e]
  <2>1. response_buffer' = [response_buffer EXCEPT ![e] = q]
    BY DEF select_buffer
  <2>2. q \in Seq(Answer) /\ Len(q) < RESPONSE_BUF
    BY <1>1 DEF FromResponses
  <2> HIDE DEF q
  <2> QED BY <1>1, <2>1, <2>2
<1>3. /\ message_buffer' \in [Endpoint -> Seq(Request)]
      /\ \A x \in Endpoint : Len(message_buffer'[x]) < MESSAGE_BUF
  <2> DEFINE q == IF FromMessages(e) /\ message_buffer[e] # <<>>
                  THEN Tail(message_buffer[e]) ELSE message_buffer[e]
  <2>1. message_buffer' = [message_buffer EXCEPT ![e] = q]
    BY DEF select_buffer
  <2>2. q \in Seq(Request) /\ Len(q) < MESSAGE_BUF
    BY <1>1
  <2> HIDE DEF q
  <2> QED BY <1>1, <2>1, <2>2
<1>4. buffer_select_counter' \in [Endpoint -> 1 .. 4]
  <2> DEFINE c == CASE FromResponses(e) -> buffer_select_counter[e] - 1
                    [] FromMessages(e)  -> 4
                    [] OTHER            -> buffer_select_counter[e]
  <2>1. buffer_select_counter' = [buffer_select_counter EXCEPT ![e] = c]
    BY DEF select_buffer
  <2>2. c \in 1 .. 4
    BY <1>1 DEF FromResponses, FromMessages
  <2> HIDE DEF c
  <2> QED BY <1>1, <2>1, <2>2
<1> QED BY <1>2, <1>3, <1>4

\* What every pass through TX does to the types.
LEMMA TXCommonType ==
    ASSUME TypeOK, NEW e \in Endpoint, NEW elapsed \in Elapsed(e),
           NEW frames \in Seq(Frame), TXCommon(e, elapsed, frames)
    PROVE  /\ fabric' \in [Endpoint -> Seq(Frame)]
           /\ \A x \in Endpoint : Len(fabric'[x]) <= FABRIC_BUF
           /\ should_send_ackonly_frame' \in [Endpoint -> BOOLEAN]
           /\ ackonly_frame_sent' \in [Endpoint -> BOOLEAN]
           /\ pc' \in [Endpoint -> {"tx", "rx", "tl"}]
           /\ expiries' \in 0 .. MaxExpiry
           /\ lead' \in [Endpoint -> 0 .. MaxLead]
<1> USE DEF TypeOK
<1>1. /\ fabric \in [Endpoint -> Seq(Frame)] /\ (\A x \in Endpoint : Len(fabric[x]) <= FABRIC_BUF)
      /\ should_send_ackonly_frame \in [Endpoint -> BOOLEAN]
      /\ ackonly_frame_sent \in [Endpoint -> BOOLEAN]
  BY DEF LinkTypeOK
<1>2. /\ pc \in [Endpoint -> {"tx", "rx", "tl"}] /\ expiries \in 0 .. MaxExpiry
      /\ lead \in [Endpoint -> 0 .. MaxLead]
      /\ MaxExpiry \in Nat /\ MaxLead \in Nat \ {0}
  BY BoundAssumption DEF LoopTypeOK
<1>3. Peer(e) \in Endpoint
  BY PeerFact
<1>4. fabric' \in [Endpoint -> Seq(Frame)] /\ \A x \in Endpoint : Len(fabric'[x]) <= FABRIC_BUF
  <2> DEFINE sent == AckonlyFrames(e, elapsed) \o frames
             queue == Carry(fabric[Peer(e)], sent)
  <2>1. AckonlyFrames(e, elapsed) \in Seq(Frame)
    BY AckonlyType
  <2>2. sent \in Seq(Frame)
    BY <2>1
  <2>3. fabric' = [fabric EXCEPT ![Peer(e)] = queue]
    BY DEF TXCommon
  <2> HIDE DEF sent
  <2>4. queue \in Seq(Frame) /\ Len(queue) <= FABRIC_BUF
    BY <1>1, <1>3, <2>2, CarryType
  <2> HIDE DEF queue
  <2> QED BY <1>1, <1>3, <2>3, <2>4
<1>5. should_send_ackonly_frame' \in [Endpoint -> BOOLEAN]
  BY <1>1 DEF TXCommon
<1>6. ackonly_frame_sent' \in [Endpoint -> BOOLEAN]
  <2> DEFINE b == ackonly_frame_sent[e] \/ AckonlyAtHalf(e, elapsed)
  <2>1. ackonly_frame_sent' = [ackonly_frame_sent EXCEPT ![e] = b]
    BY DEF TXCommon
  <2>2. b \in BOOLEAN
    OBVIOUS
  <2> HIDE DEF b
  <2> QED BY <1>1, <2>1, <2>2
<1>7. pc' \in [Endpoint -> {"tx", "rx", "tl"}]
  BY <1>2 DEF TXCommon, Goto
<1>8. expiries' \in 0 .. MaxExpiry
  <2>1. CASE elapsed = "early" \/ Overdue(e)
    BY <1>2, <2>1 DEF TXCommon
  <2>2. CASE ~(elapsed = "early" \/ Overdue(e))
    <3>1. expiries < MaxExpiry
      BY <2>2 DEF Elapsed
    <3>2. expiries' = expiries + 1
      BY <2>2 DEF TXCommon
    <3> QED BY <1>2, <3>1, <3>2
  <2> QED BY <2>1, <2>2
<1>9. lead' \in [Endpoint -> 0 .. MaxLead]
  <2>1. CASE elapsed # "due"
    BY <1>2, <2>1 DEF TXCommon
  <2>2. CASE elapsed = "due"
    <3> DEFINE n == IF retransmit_buffer[Peer(e)] = <<>> \/ lead[e] = MaxLead
                    THEN lead[e] ELSE lead[e] + 1
    <3>1. n \in 0 .. MaxLead
      BY <1>2
    <3>2. lead' = [lead EXCEPT ![Peer(e)] = 0, ![e] = n]
      BY <1>2, <2>2, PeerFact DEF TXCommon
    <3> HIDE DEF n
    <3> QED BY <1>2, <3>1, <3>2
  <2> QED BY <2>1, <2>2
<1> QED BY <1>4, <1>5, <1>6, <1>7, <1>8, <1>9

\* TX with nothing to number keeps the types.
LEMMA HoldType ==
    ASSUME TypeInv, NEW e \in Endpoint, NEW elapsed \in Elapsed(e), TX_Hold(e, elapsed)
    PROVE  TypeInv'
<1> DEFINE frames == TimeoutFrames(e, retransmit_buffer[e], elapsed)
<1>1. TypeOK /\ LinkTypeOK /\ LoopTypeOK /\ CreditTypeOK /\ CreditBound
  BY DEF TypeInv, TypeOK
<1>2. frames \in Seq(Frame)
  <2>1. retransmit_buffer[e] \in Seq(Frame)
    BY <1>1 DEF LinkTypeOK
  <2> HIDE DEF Frame
  <2> QED BY <1>1, <2>1, RefreshType, TimeoutType
<1>3. /\ TXCommon(e, elapsed, frames)
      /\ request_tlmsg' = [request_tlmsg EXCEPT ![e] = Selected(e)]
      /\ UNCHANGED <<retransmit_buffer, ack_buffer, next_tx_seq, txlog, fcVars>>
  BY DEF TX_Hold
<1> HIDE DEF frames
<1>4. /\ select_buffer(e)
      /\ UNCHANGED <<next_rx_seq, acked_seq, rxlog, tl_msg_buffer, mem, submitted, results,
                     losses, exited>>
  BY <1>3 DEF TXCommon
<1>5. request_tlmsg' \in [Endpoint -> TLMsg \cup {NULL}]
  BY <1>1, <1>3, SelectedType DEF LoopTypeOK
<1>6. /\ fabric' \in [Endpoint -> Seq(Frame)]
      /\ \A x \in Endpoint : Len(fabric'[x]) <= FABRIC_BUF
      /\ should_send_ackonly_frame' \in [Endpoint -> BOOLEAN]
      /\ ackonly_frame_sent' \in [Endpoint -> BOOLEAN]
      /\ pc' \in [Endpoint -> {"tx", "rx", "tl"}]
      /\ expiries' \in 0 .. MaxExpiry
      /\ lead' \in [Endpoint -> 0 .. MaxLead]
  BY <1>1, <1>2, <1>3, TXCommonType
<1>7. LinkTypeOK'
  BY <1>1, <1>3, <1>4, <1>6 DEF LinkTypeOK
<1>8. LoopTypeOK'
  BY <1>1, <1>4, <1>5, <1>6, SelectType DEF LoopTypeOK
<1>9. CreditTypeOK' /\ CreditBound'
  BY <1>1, <1>3, <1>4 DEF CreditTypeOK, CreditBound, fcVars
<1> QED BY <1>7, <1>8, <1>9 DEF TypeInv, TypeOK

\* What an endpoint has to return is small enough for get_largest_pow.
LEMMA ReturnBound ==
    ASSUME TypeInv, AcceptedBound, NEW e \in Endpoint, NEW c \in Channel
    PROVE  tx_flow_credits[e][c] \in Nat /\ tx_flow_credits[e][c] < 2^23
<1>1. /\ tx_flow_credits[e][c] \in Nat
      /\ tl_msg_buffer[e] \in Seq(TLMsg)
      /\ tx_flow_credits[e][c] + 3 * Len(tl_msg_buffer[e]) <= 3 * Len(rxlog[e])
  BY DEF TypeInv, TypeOK, CreditTypeOK, LoopTypeOK, CreditBound
<1>2. Len(tl_msg_buffer[e]) \in Nat
  BY <1>1
<1>3. rxlog[e] \in Seq(LogEntry) /\ Len(rxlog[e]) <= HALF_MAX_SEQ_NUM + 12
  BY DEF AcceptedBound, CHANNEL_NUM, TypeInv, TypeOK, LinkTypeOK
<1>4. HALF_MAX_SEQ_NUM <= 2097152
  BY HalfFact, MaxSeqNumAssumption
<1>5. tx_flow_credits[e][c] < 8388608
  <2>1. Len(rxlog[e]) \in Nat
    BY <1>3
  <2> QED BY <1>1, <1>2, <1>3, <1>4, <2>1, HalfFact
<1> QED BY <1>1, <1>5

\* The frame TX numbers is a frame, and the credit it returns leaves what
\* remains to be returned at least zero.
LEMMA NormalType ==
    ASSUME TypeInv, AcceptedBound, NEW e \in Endpoint, NEW tlmsg \in TLMsg \cup {NULL}
    PROVE  /\ NormalFrame(e, tlmsg) \in Frame
           /\ LET chan == NormalFrame(e, tlmsg).chan
              IN  chan # CHANNEL_0 =>
                    /\ chan \in Channel
                    /\ get_outgoing_credits(tx_flow_credits[e], chan) \in [Channel -> Nat]
                    /\ \A c \in Channel :
                         get_outgoing_credits(tx_flow_credits[e], chan)[c] <= tx_flow_credits[e][c]
<1> DEFINE f == NormalFrame(e, tlmsg)
           owed == tx_flow_credits[e]
           chan == select_max_credit_channel(owed)
           k == get_largest_pow(owed[chan])
<1>1. LinkTypeOK /\ owed \in [Channel -> Nat]
  BY DEF TypeInv, TypeOK, CreditTypeOK
<1>2. chan \in Channel /\ (chan # CHANNEL_0 => owed[chan] > 0)
  BY <1>1, SelectFact
<1>3. chan # CHANNEL_0 => k \in 0 .. 31 /\ 2^k <= owed[chan]
  <2>1. owed[chan] \in Nat /\ owed[chan] < 2^23
    BY <1>2, ReturnBound
  <2> HIDE DEF chan, owed
  <2> QED BY <1>2, <2>1, LargestPow
<1>4. /\ next_tx_seq[e] \in SeqNum
      /\ tloe_seqnum_prev(next_rx_seq[e]) \in SeqNum
      /\ ack_buffer[e] # <<>> => Head(ack_buffer[e]).seq_num_ack \in SeqNum
  <2>1. next_tx_seq[e] \in SeqNum /\ next_rx_seq[e] \in SeqNum /\ ack_buffer[e] \in Seq(Entry)
    BY <1>1 DEF LinkTypeOK
  <2>2. ack_buffer[e] # <<>> => Head(ack_buffer[e]) \in Entry
    BY <2>1
  <2>3. ack_buffer[e] # <<>> => Head(ack_buffer[e]).seq_num_ack \in SeqNum
    BY <2>2 DEF Entry
  <2> QED BY <2>1, <2>3, SeqNumFact
<1> HIDE DEF k
<1>5. f = [type |-> TYPE_NORMAL, seq_num |-> next_tx_seq[e],
           seq_num_ack |-> IF ack_buffer[e] = <<>> THEN tloe_seqnum_prev(next_rx_seq[e])
                           ELSE Head(ack_buffer[e]).seq_num_ack,
           ack |-> TLOE_ACK, chan |-> chan,
           credit |-> IF chan = CHANNEL_0 THEN 0 ELSE k, tlmsg |-> tlmsg]
  BY DEF NormalFrame, k
<1> HIDE DEF chan, f
<1>6. f \in Frame /\ f.chan = chan
  BY <1>2, <1>3, <1>4, <1>5 DEF Frame
<1>7. ASSUME chan # CHANNEL_0
      PROVE  /\ get_outgoing_credits(owed, chan) \in [Channel -> Nat]
             /\ \A c \in Channel : get_outgoing_credits(owed, chan)[c] <= owed[c]
  <2> HIDE DEF owed
  <2>1. 2^k \in Nat /\ 2^k <= owed[chan] /\ owed[chan] \in Nat
    BY <1>1, <1>2, <1>3, <1>7, PowFact
  <2> DEFINE amount == 2^k
             left == owed[chan] - amount
  <2> HIDE DEF amount
  <2>2. left \in Nat /\ left <= owed[chan]
    BY <2>1 DEF amount
  <2>3. get_outgoing_credits(owed, chan) = [owed EXCEPT ![chan] = left]
    BY DEF get_outgoing_credits, k, amount
  <2> HIDE DEF left
  <2> QED BY <1>1, <1>2, <2>2, <2>3
<1> QED BY <1>2, <1>6, <1>7 DEF f

\* TX numbering a frame keeps the types; credits and request_tlmsg are the
\* concern of its two callers.
LEMMA SendType ==
    ASSUME TypeInv, AcceptedBound, NEW e \in Endpoint, NEW elapsed \in Elapsed(e),
           NEW tlmsg \in TLMsg \cup {NULL}, SendNormalFrame(e, elapsed, tlmsg),
           request_tlmsg' \in [Endpoint -> TLMsg \cup {NULL}],
           credits' \in [Endpoint -> [Channel -> Nat]]
    PROVE  TypeInv'
<1> DEFINE f == NormalFrame(e, tlmsg)
           buffer == Append(retransmit_buffer[e], f)
           log == Append(txlog[e], Payload(f))
           acks == IF ack_buffer[e] = <<>> THEN ack_buffer[e] ELSE Tail(ack_buffer[e])
           owed == get_outgoing_credits(tx_flow_credits[e], f.chan)
           frames == <<f>> \o TimeoutFrames(e, buffer, elapsed)
<1>1. TypeOK /\ LinkTypeOK /\ LoopTypeOK /\ CreditTypeOK /\ CreditBound
  BY DEF TypeInv, TypeOK
<1>2. /\ Len(txlog[e]) < MaxTx
      /\ ~WindowFull(e)
      /\ TXCommon(e, elapsed, frames)
      /\ ack_buffer' = [ack_buffer EXCEPT ![e] = acks]
      /\ tx_flow_credits' = IF f.chan = CHANNEL_0 THEN tx_flow_credits
                            ELSE [tx_flow_credits EXCEPT ![e] = owed]
      /\ retransmit_buffer' = [retransmit_buffer EXCEPT ![e] = buffer]
      /\ next_tx_seq' = [next_tx_seq EXCEPT ![e] = tloe_seqnum_next(next_tx_seq[e])]
      /\ txlog' = [txlog EXCEPT ![e] = log]
  BY DEF SendNormalFrame
<1>3. f \in Frame /\ Payload(f) \in LogEntry
  BY NormalType, FrameFact
<1>4. f.chan # CHANNEL_0 =>
        /\ owed \in [Channel -> Nat]
        /\ \A c \in Channel : owed[c] <= tx_flow_credits[e][c]
  BY NormalType
<1> HIDE DEF f, owed
<1>7. log \in Seq(LogEntry) /\ Len(log) <= MaxTx
  <2>1. txlog[e] \in Seq(LogEntry) /\ MaxTx \in Nat
    BY <1>1, BoundAssumption DEF LinkTypeOK
  <2>2. log \in Seq(LogEntry) /\ Len(log) = Len(txlog[e]) + 1 /\ Len(txlog[e]) \in Nat
    BY <1>3, <2>1
  <2> HIDE DEF log
  <2> QED BY <1>2, <2>1, <2>2
<1>8. buffer \in Seq(Frame) /\ Len(buffer) <= WINDOW_SIZE
  <2>1. retransmit_buffer[e] \in Seq(Frame) /\ Len(retransmit_buffer[e]) < WINDOW_SIZE
        /\ WINDOW_SIZE \in Nat
    BY <1>1, <1>2, SizeAssumption DEF LinkTypeOK, WindowFull
  <2>2. buffer \in Seq(Frame) /\ Len(buffer) = Len(retransmit_buffer[e]) + 1
    BY <1>3, <2>1
  <2>3. Len(retransmit_buffer[e]) \in Nat
    BY <2>1
  <2> HIDE DEF buffer
  <2> QED BY <2>1, <2>2, <2>3
<1>9. acks \in Seq(Entry) /\ Len(acks) < ACK_BUF
  <2>1. ack_buffer[e] \in Seq(Entry) /\ Len(ack_buffer[e]) < ACK_BUF /\ ACK_BUF \in Nat
    BY <1>1, SizeAssumption DEF LinkTypeOK
  <2> QED BY <2>1
<1>10. tloe_seqnum_next(next_tx_seq[e]) \in SeqNum
  <2>1. next_tx_seq[e] \in SeqNum
    BY <1>1 DEF LinkTypeOK
  <2> QED BY <2>1, SeqNumFact
<1> HIDE DEF buffer, log, acks
<1>11. frames \in Seq(Frame)
  <2> HIDE DEF Frame
  <2>1. TimeoutFrames(e, buffer, elapsed) \in Seq(Frame)
    BY <1>1, <1>8, RefreshType, TimeoutType
  <2> QED BY <1>3, <2>1
<1> HIDE DEF frames
<1>12. /\ select_buffer(e)
       /\ UNCHANGED <<next_rx_seq, acked_seq, rxlog, tl_msg_buffer, mem, submitted, results,
                      losses, exited>>
  BY <1>2 DEF TXCommon
<1>13. /\ fabric' \in [Endpoint -> Seq(Frame)]
       /\ \A x \in Endpoint : Len(fabric'[x]) <= FABRIC_BUF
       /\ should_send_ackonly_frame' \in [Endpoint -> BOOLEAN]
       /\ ackonly_frame_sent' \in [Endpoint -> BOOLEAN]
       /\ pc' \in [Endpoint -> {"tx", "rx", "tl"}]
       /\ expiries' \in 0 .. MaxExpiry
       /\ lead' \in [Endpoint -> 0 .. MaxLead]
  BY <1>1, <1>2, <1>11, TXCommonType
<1>14. LinkTypeOK'
  BY <1>1, <1>2, <1>7, <1>8, <1>9, <1>10, <1>12, <1>13 DEF LinkTypeOK
<1>15. LoopTypeOK'
  BY <1>1, <1>12, <1>13, SelectType DEF LoopTypeOK
<1>16. CreditTypeOK'
  BY <1>1, <1>2, <1>4 DEF CreditTypeOK
<1>17. CreditBound'
  <2> SUFFICES ASSUME NEW x \in Endpoint, NEW c \in Channel
               PROVE  tx_flow_credits'[x][c] + 3 * Len(tl_msg_buffer[x]) <= 3 * Len(rxlog[x])
    BY <1>12 DEF CreditBound
  <2>1. /\ tx_flow_credits[x][c] \in Nat
        /\ tx_flow_credits[x][c] + 3 * Len(tl_msg_buffer[x]) <= 3 * Len(rxlog[x])
        /\ Len(tl_msg_buffer[x]) \in Nat /\ Len(rxlog[x]) \in Nat
    <3>1. tl_msg_buffer[x] \in Seq(TLMsg) /\ rxlog[x] \in Seq(LogEntry)
      BY <1>1 DEF LoopTypeOK, LinkTypeOK
    <3>2. tx_flow_credits[x][c] \in Nat
      BY <1>1 DEF CreditTypeOK
    <3>3. tx_flow_credits[x][c] + 3 * Len(tl_msg_buffer[x]) <= 3 * Len(rxlog[x])
      BY <1>1 DEF CreditBound
    <3> QED BY <3>1, <3>2, <3>3
  <2>2. tx_flow_credits'[x][c] \in Nat /\ tx_flow_credits'[x][c] <= tx_flow_credits[x][c]
    <3>1. CASE x = e /\ f.chan # CHANNEL_0
      BY <1>1, <1>2, <1>4, <3>1 DEF CreditTypeOK
    <3>2. CASE ~(x = e /\ f.chan # CHANNEL_0)
      BY <1>1, <1>2, <2>1, <3>2 DEF CreditTypeOK
    <3> QED BY <3>1, <3>2
  <2> QED BY <2>1, <2>2
<1> QED BY <1>14, <1>15, <1>16, <1>17 DEF TypeInv, TypeOK

\* TX with a message keeps the types: try_dec_credits has found enough credit.
LEMMA MessageType ==
    ASSUME TypeInv, AcceptedBound, NEW e \in Endpoint, NEW elapsed \in Elapsed(e), TX_Message(e, elapsed)
    PROVE  TypeInv'
<1> DEFINE m == Selected(e)
           n == tlmsg_get_flits_cnt(m)
<1>1. LoopTypeOK /\ CreditTypeOK
  BY DEF TypeInv, TypeOK
<1>2. m \in TLMsg /\ SendNormalFrame(e, elapsed, m) /\ try_dec_credits(credits[e], m)
  BY <1>1, SelectedType DEF TX_Message, NoCredit
<1>3. credits' = [credits EXCEPT ![e] = fc_credit_dec(credits[e], m)]
  BY DEF TX_Message
<1>4. request_tlmsg' \in [Endpoint -> TLMsg \cup {NULL}]
  BY <1>1 DEF TX_Message, LoopTypeOK
<1>5. m.chan \in Channel /\ n \in 1 .. 3
  BY <1>2, FlitsFact
<1>6. credits[e][m.chan] >= n
  BY <1>2 DEF try_dec_credits
<1> HIDE DEF m
<1>7. fc_credit_dec(credits[e], m) = [credits[e] EXCEPT ![m.chan] = credits[e][m.chan] - n]
  BY DEF fc_credit_dec
<1> HIDE DEF n
<1>8. fc_credit_dec(credits[e], m) \in [Channel -> Nat]
  <2>1. credits[e] \in [Channel -> Nat] /\ credits[e][m.chan] - n \in Nat
    BY <1>1, <1>5, <1>6 DEF CreditTypeOK
  <2> QED BY <1>5, <1>7, <2>1
<1>9. credits' \in [Endpoint -> [Channel -> Nat]]
  BY <1>1, <1>3, <1>8 DEF CreditTypeOK
<1> QED BY <1>2, <1>4, <1>9, SendType

\* TX with a zero-tlmsg frame keeps the types.
LEMMA ZeroType ==
    ASSUME TypeInv, AcceptedBound, NEW e \in Endpoint, NEW elapsed \in Elapsed(e), TX_Zero(e, elapsed)
    PROVE  TypeInv'
<1>1. LoopTypeOK /\ CreditTypeOK
  BY DEF TypeInv, TypeOK
<1>2. /\ SendNormalFrame(e, elapsed, NULL)
      /\ request_tlmsg' = [request_tlmsg EXCEPT ![e] = Selected(e)]
      /\ credits' = credits
  BY DEF TX_Zero
<1>3. request_tlmsg' \in [Endpoint -> TLMsg \cup {NULL}]
  BY <1>1, <1>2, SelectedType DEF LoopTypeOK
<1>4. credits' \in [Endpoint -> [Channel -> Nat]]
  BY <1>1, <1>2 DEF CreditTypeOK
<1> QED BY <1>2, <1>3, <1>4, SendType
-------------------------------------------------------------------------------
\* The steps of the receiver.

\* The types of an endpoint's state, as the steps of RX need them.
LEMMA EndpointTypes ==
    ASSUME TypeInv, NEW e \in Endpoint
    PROVE  /\ fabric[e] \in Seq(Frame) /\ ack_buffer[e] \in Seq(Entry)
           /\ tl_msg_buffer[e] \in Seq(TLMsg) /\ rxlog[e] \in Seq(LogEntry)
           /\ next_rx_seq[e] \in SeqNum /\ acked_seq[e] \in SeqNum
           /\ credits[e] \in [Channel -> Nat] /\ tx_flow_credits[e] \in [Channel -> Nat]
           /\ Len(tl_msg_buffer[e]) \in Nat /\ Len(rxlog[e]) \in Nat
           /\ \A c \in Channel :
                tx_flow_credits[e][c] + 3 * Len(tl_msg_buffer[e]) <= 3 * Len(rxlog[e])
<1>1. /\ fabric[e] \in Seq(Frame) /\ ack_buffer[e] \in Seq(Entry) /\ rxlog[e] \in Seq(LogEntry)
      /\ next_rx_seq[e] \in SeqNum /\ acked_seq[e] \in SeqNum
  BY DEF TypeInv, TypeOK, LinkTypeOK
<1>2. tl_msg_buffer[e] \in Seq(TLMsg)
  BY DEF TypeInv, TypeOK, LoopTypeOK
<1>3. credits[e] \in [Channel -> Nat] /\ tx_flow_credits[e] \in [Channel -> Nat]
  BY DEF TypeInv, TypeOK, CreditTypeOK
<1>4. \A c \in Channel : tx_flow_credits[e][c] + 3 * Len(tl_msg_buffer[e]) <= 3 * Len(rxlog[e])
  BY DEF TypeInv, CreditBound
<1>5. Len(tl_msg_buffer[e]) \in Nat /\ Len(rxlog[e]) \in Nat
  BY <1>1, <1>2
<1> QED BY <1>1, <1>2, <1>3, <1>4, <1>5

\* What every frame that arrives does to the types.
LEMMA RXCommonType ==
    ASSUME TypeInv, NEW e \in Endpoint, fabric[e] # <<>>, RXCommon(e, Head(fabric[e]))
    PROVE  /\ fabric' \in [Endpoint -> Seq(Frame)]
           /\ retransmit_buffer' \in [Endpoint -> Seq(Frame)]
           /\ \A x \in Endpoint : /\ Len(fabric'[x]) <= FABRIC_BUF
                                  /\ Len(retransmit_buffer'[x]) <= WINDOW_SIZE
           /\ ackonly_frame_sent' \in [Endpoint -> BOOLEAN]
           /\ pc' \in [Endpoint -> {"tx", "rx", "tl"}]
           /\ lead' \in [Endpoint -> 0 .. MaxLead]
<1> DEFINE p == Peer(e)
           f == Head(fabric[e])
           buffer == slide_window(retransmit_buffer[e], f.seq_num_ack)
           again == IF f.ack = TLOE_NAK
                    THEN retransmit(buffer, tloe_seqnum_next(f.seq_num_ack),
                                    tloe_seqnum_prev(next_rx_seq[e]))
                    ELSE <<>>
<1>1. /\ LinkTypeOK /\ LoopTypeOK
      /\ fabric \in [Endpoint -> Seq(Frame)] /\ retransmit_buffer \in [Endpoint -> Seq(Frame)]
      /\ \A x \in Endpoint : /\ Len(fabric[x]) <= FABRIC_BUF
                             /\ Len(retransmit_buffer[x]) <= WINDOW_SIZE
      /\ FABRIC_BUF \in Nat
  BY SizeAssumption DEF TypeInv, TypeOK, LinkTypeOK
<1>2. p \in Endpoint /\ p # e
  BY PeerFact
<1>3. /\ retransmit_buffer' = [retransmit_buffer EXCEPT ![e] = buffer]
      /\ fabric' = [fabric EXCEPT ![e] = Tail(fabric[e]), ![p] = Carry(fabric[p], again)]
  BY <1>1, <1>2 DEF RXCommon, serve_ack
<1>4. buffer \in Seq(Frame) /\ Len(buffer) <= WINDOW_SIZE
  <2>1. retransmit_buffer[e] \in Seq(Frame) /\ Len(retransmit_buffer[e]) <= WINDOW_SIZE
        /\ Len(retransmit_buffer[e]) \in Nat /\ WINDOW_SIZE \in Nat
    BY <1>1, SizeAssumption
  <2>2. buffer \in Seq(Frame) /\ Len(buffer) <= Len(retransmit_buffer[e])
    BY <2>1, SlideType
  <2> HIDE DEF buffer
  <2>3. Len(buffer) \in Nat
    BY <2>2
  <2> QED BY <2>1, <2>2, <2>3
<1>5. Carry(fabric[p], again) \in Seq(Frame) /\ Len(Carry(fabric[p], again)) <= FABRIC_BUF
  <2>1. fabric[p] \in Seq(Frame) /\ <<>> \in Seq(Frame)
    BY <1>1, <1>2
  <2> HIDE DEF buffer, Frame
  <2>2. again \in Seq(Frame)
    BY <1>1, <1>4, <2>1, RefreshType, RetransmitType
  <2> HIDE DEF again
  <2> QED BY <2>1, <2>2, CarryType
<1>6. Tail(fabric[e]) \in Seq(Frame) /\ Len(Tail(fabric[e])) <= FABRIC_BUF
  <2>1. fabric[e] \in Seq(Frame) /\ Len(fabric[e]) <= FABRIC_BUF
    BY <1>1
  <2>2. /\ Tail(fabric[e]) \in Seq(Frame) /\ Len(Tail(fabric[e])) = Len(fabric[e]) - 1
        /\ Len(fabric[e]) \in Nat
    BY <2>1
  <2> QED BY <1>1, <2>1, <2>2
<1> HIDE DEF p, buffer, again
<1>7. retransmit_buffer' \in [Endpoint -> Seq(Frame)]
      /\ \A x \in Endpoint : Len(retransmit_buffer'[x]) <= WINDOW_SIZE
  BY <1>1, <1>3, <1>4
<1>8. fabric' \in [Endpoint -> Seq(Frame)] /\ \A x \in Endpoint : Len(fabric'[x]) <= FABRIC_BUF
  BY <1>1, <1>2, <1>3, <1>5, <1>6
<1>9. ackonly_frame_sent' \in [Endpoint -> BOOLEAN]
  BY <1>1 DEF RXCommon, LinkTypeOK
<1>10. pc' \in [Endpoint -> {"tx", "rx", "tl"}]
  BY <1>1 DEF RXCommon, Goto, LoopTypeOK
<1>11. lead' \in [Endpoint -> 0 .. MaxLead]
  <2>1. lead \in [Endpoint -> 0 .. MaxLead] /\ 0 \in 0 .. MaxLead
    BY <1>1, BoundAssumption DEF LoopTypeOK
  <2>2. lead' = lead \/ lead' = [lead EXCEPT ![p] = 0]
    BY DEF RXCommon, serve_ack, p
  <2> QED BY <2>1, <2>2
<1> QED BY <1>7, <1>8, <1>9, <1>10, <1>11

\* The arithmetic of CreditBound when a message is queued.
LEMMA BoundFact ==
    ASSUME NEW owed \in Nat, NEW waiting \in Nat, NEW accepted \in Nat,
           NEW waiting2 \in Nat, NEW accepted2 \in Nat,
           owed + 3 * waiting <= 3 * accepted, waiting2 - waiting <= accepted2 - accepted
    PROVE  owed + 3 * waiting2 <= 3 * accepted2
OBVIOUS

\* What remains to be shown of a step of RX: the variables its handlers change,
\* and that a message is queued only when one has been accepted.
LEMMA ReceiveType ==
    ASSUME TypeInv, NEW e \in Endpoint, fabric[e] # <<>>, RXCommon(e, Head(fabric[e])),
           ack_buffer' \in [Endpoint -> Seq(Entry)],
           tl_msg_buffer' \in [Endpoint -> Seq(TLMsg)],
           rxlog' \in [Endpoint -> Seq(LogEntry)],
           \A x \in Endpoint :
              /\ Len(ack_buffer'[x]) < ACK_BUF
              /\ Len(tl_msg_buffer'[x]) < TL_MSG_BUF
              /\ Len(tl_msg_buffer'[x]) - Len(tl_msg_buffer[x]) <= Len(rxlog'[x]) - Len(rxlog[x]),
           next_rx_seq' \in [Endpoint -> SeqNum],
           acked_seq' \in [Endpoint -> SeqNum],
           should_send_ackonly_frame' \in [Endpoint -> BOOLEAN],
           credits' \in [Endpoint -> [Channel -> Nat]],
           exited' \in [Endpoint -> {"no", "tl_msg_buffer", "ack_buffer", "bounds"}]
    PROVE  TypeInv'
<1>1. LinkTypeOK /\ LoopTypeOK /\ CreditTypeOK
  BY DEF TypeInv, TypeOK
<1>2. UNCHANGED <<request_tlmsg, buffer_select_counter, next_tx_seq, txlog, tx_flow_credits,
                  response_buffer, mem, message_buffer, submitted, results, losses, expiries>>
  BY DEF RXCommon, loopVars, userVars
<1>3. /\ fabric' \in [Endpoint -> Seq(Frame)]
      /\ retransmit_buffer' \in [Endpoint -> Seq(Frame)]
      /\ \A x \in Endpoint : /\ Len(fabric'[x]) <= FABRIC_BUF
                             /\ Len(retransmit_buffer'[x]) <= WINDOW_SIZE
      /\ ackonly_frame_sent' \in [Endpoint -> BOOLEAN]
      /\ pc' \in [Endpoint -> {"tx", "rx", "tl"}]
      /\ lead' \in [Endpoint -> 0 .. MaxLead]
  BY RXCommonType
<1>4. LinkTypeOK'
  BY <1>1, <1>2, <1>3 DEF LinkTypeOK
<1>5. LoopTypeOK'
  BY <1>1, <1>2, <1>3 DEF LoopTypeOK
<1>6. CreditTypeOK'
  BY <1>1, <1>2 DEF CreditTypeOK
<1>7. CreditBound'
  <2> SUFFICES ASSUME NEW x \in Endpoint, NEW c \in Channel
               PROVE  tx_flow_credits[x][c] + 3 * Len(tl_msg_buffer'[x]) <= 3 * Len(rxlog'[x])
    BY <1>2 DEF CreditBound
  <2>1. /\ tx_flow_credits[x][c] \in Nat
        /\ Len(tl_msg_buffer[x]) \in Nat /\ Len(rxlog[x]) \in Nat
        /\ tx_flow_credits[x][c] + 3 * Len(tl_msg_buffer[x]) <= 3 * Len(rxlog[x])
    BY EndpointTypes
  <2>2. tl_msg_buffer'[x] \in Seq(TLMsg) /\ rxlog'[x] \in Seq(LogEntry)
    OBVIOUS
  <2>3. Len(tl_msg_buffer'[x]) \in Nat /\ Len(rxlog'[x]) \in Nat
    BY <2>2
  <2>4. Len(tl_msg_buffer'[x]) - Len(tl_msg_buffer[x]) <= Len(rxlog'[x]) - Len(rxlog[x])
    OBVIOUS
  <2> QED BY <2>1, <2>3, <2>4, BoundFact
<1> QED BY <1>4, <1>5, <1>6, <1>7 DEF TypeInv, TypeOK

\* RX of an ACKONLY frame keeps the types.
LEMMA AckonlyRXType ==
    ASSUME TypeInv, NEW e \in Endpoint, fabric[e] # <<>>, RX_Ackonly(e, Head(fabric[e]))
    PROVE  TypeInv'
<1> DEFINE f == Head(fabric[e])
           acked == tloe_seqnum_update_acked_seq(acked_seq[e], f.seq_num_ack)
<1>1. LinkTypeOK /\ LoopTypeOK /\ CreditTypeOK
  BY DEF TypeInv, TypeOK
<1>2. /\ RXCommon(e, f)
      /\ acked_seq' = [acked_seq EXCEPT ![e] = acked]
      /\ UNCHANGED <<ack_buffer, tl_msg_buffer, next_rx_seq, should_send_ackonly_frame,
                     credits, rxlog, exited>>
  BY DEF RX_Ackonly, UpdateAckedSeq
<1>3. acked \in SeqNum
  <2>1. f \in Frame /\ acked_seq[e] \in SeqNum
    BY EndpointTypes
  <2> QED BY <2>1, FrameFact, SeqNumFact
<1> HIDE DEF acked
<1>4. acked_seq' \in [Endpoint -> SeqNum]
  BY <1>1, <1>2, <1>3 DEF LinkTypeOK
<1>5. \A x \in Endpoint :
        /\ Len(ack_buffer'[x]) < ACK_BUF
        /\ Len(tl_msg_buffer'[x]) < TL_MSG_BUF
        /\ Len(tl_msg_buffer'[x]) - Len(tl_msg_buffer[x]) <= Len(rxlog'[x]) - Len(rxlog[x])
  BY <1>1, <1>2, EndpointTypes DEF LinkTypeOK, LoopTypeOK
<1>6. /\ ack_buffer' \in [Endpoint -> Seq(Entry)] /\ rxlog' \in [Endpoint -> Seq(LogEntry)]
      /\ next_rx_seq' \in [Endpoint -> SeqNum]
      /\ should_send_ackonly_frame' \in [Endpoint -> BOOLEAN]
  BY <1>1, <1>2 DEF LinkTypeOK
<1>7. /\ tl_msg_buffer' \in [Endpoint -> Seq(TLMsg)]
      /\ exited' \in [Endpoint -> {"no", "tl_msg_buffer", "ack_buffer", "bounds"}]
  BY <1>1, <1>2 DEF LoopTypeOK
<1>8. credits' \in [Endpoint -> [Channel -> Nat]]
  BY <1>1, <1>2 DEF CreditTypeOK
<1> QED BY <1>2, <1>4, <1>5, <1>6, <1>7, <1>8, ReceiveType

\* What the two handlers of the frame expected next have in common.
LEMMA AcceptType ==
    ASSUME TypeInv, NEW e \in Endpoint, fabric[e] # <<>>, Accept(e, Head(fabric[e])),
           tl_msg_buffer' \in [Endpoint -> Seq(TLMsg)],
           \A x \in Endpoint : Len(tl_msg_buffer'[x]) < TL_MSG_BUF,
           Len(tl_msg_buffer'[e]) - Len(tl_msg_buffer[e]) <= 1,
           tl_msg_buffer'[Peer(e)] = tl_msg_buffer[Peer(e)],
           should_send_ackonly_frame' \in [Endpoint -> BOOLEAN],
           exited' \in [Endpoint -> {"no", "tl_msg_buffer", "ack_buffer", "bounds"}]
    PROVE  TypeInv'
<1> DEFINE f == Head(fabric[e])
           acked == tloe_seqnum_update_acked_seq(acked_seq[e], f.seq_num_ack)
           filled == fc_credit_inc(credits[e], f.chan, f.credit)
           log == Append(rxlog[e], Payload(f))
<1>1. LinkTypeOK /\ LoopTypeOK /\ CreditTypeOK
  BY DEF TypeInv, TypeOK
<1>2. /\ RXCommon(e, f)
      /\ next_rx_seq' = [next_rx_seq EXCEPT ![e] = tloe_seqnum_next(f.seq_num)]
      /\ acked_seq' = [acked_seq EXCEPT ![e] = acked]
      /\ credits' = [credits EXCEPT ![e] = filled]
      /\ rxlog' = [rxlog EXCEPT ![e] = log]
      /\ ack_buffer' = ack_buffer
  BY DEF Accept, UpdateAckedSeq
<1>3. /\ f \in Frame /\ acked_seq[e] \in SeqNum /\ credits[e] \in [Channel -> Nat]
      /\ rxlog[e] \in Seq(LogEntry)
  BY EndpointTypes
<1>4. /\ f.seq_num \in SeqNum /\ f.seq_num_ack \in SeqNum /\ f.chan \in Channel
      /\ f.credit \in 0 .. 31 /\ Payload(f) \in LogEntry
  BY <1>3, FrameFact
<1>5. tloe_seqnum_next(f.seq_num) \in SeqNum /\ acked \in SeqNum
  BY <1>3, <1>4, SeqNumFact
<1>6. filled \in [Channel -> Nat]
  <2> DEFINE amount == 2^f.credit
  <2>1. amount \in Nat
    BY <1>4, PowFact
  <2>2. filled = IF f.chan = CHANNEL_0 THEN credits[e]
                 ELSE [credits[e] EXCEPT ![f.chan] = credits[e][f.chan] + amount]
    BY DEF fc_credit_inc
  <2> HIDE DEF amount, filled, f
  <2> QED BY <1>3, <1>4, <2>1, <2>2
<1>7. log \in Seq(LogEntry) /\ Len(log) = Len(rxlog[e]) + 1
  BY <1>3, <1>4
<1> HIDE DEF acked, filled, log
<1>8. /\ next_rx_seq' \in [Endpoint -> SeqNum] /\ acked_seq' \in [Endpoint -> SeqNum]
      /\ rxlog' \in [Endpoint -> Seq(LogEntry)] /\ ack_buffer' \in [Endpoint -> Seq(Entry)]
      /\ \A x \in Endpoint : Len(ack_buffer'[x]) < ACK_BUF
  BY <1>1, <1>2, <1>5, <1>7 DEF LinkTypeOK
<1>9. credits' \in [Endpoint -> [Channel -> Nat]]
  BY <1>1, <1>2, <1>6 DEF CreditTypeOK
<1>10. ASSUME NEW x \in Endpoint
       PROVE  Len(tl_msg_buffer'[x]) - Len(tl_msg_buffer[x]) <= Len(rxlog'[x]) - Len(rxlog[x])
  <2>1. Len(tl_msg_buffer[x]) \in Nat /\ Len(rxlog[x]) \in Nat
    BY EndpointTypes
  <2>2. CASE x = e
    <3>1. Len(rxlog'[e]) = Len(rxlog[e]) + 1
      BY <1>1, <1>2, <1>7 DEF LinkTypeOK
    <3>2. Len(tl_msg_buffer'[e]) - Len(tl_msg_buffer[e]) <= 1
      OBVIOUS
    <3>3. Len(rxlog'[e]) - Len(rxlog[e]) = 1
      BY <2>1, <2>2, <3>1
    <3> QED BY <2>2, <3>2, <3>3
  <2>3. CASE x # e
    <3>1. x = Peer(e)
      BY <2>3, PeerFact
    <3>2. tl_msg_buffer'[x] = tl_msg_buffer[x] /\ rxlog'[x] = rxlog[x]
      BY <1>1, <1>2, <2>3, <3>1 DEF LinkTypeOK
    <3> QED BY <2>1, <3>2
  <2> QED BY <2>2, <2>3
<1> QED BY <1>2, <1>8, <1>9, <1>10, ReceiveType

\* RX of a message keeps the types, also when tl_msg_buffer is full.
LEMMA NormalRXType ==
    ASSUME TypeInv, NEW e \in Endpoint, fabric[e] # <<>>,
           serve_normal_request(e, Head(fabric[e]))
    PROVE  TypeInv'
<1> DEFINE m == Head(fabric[e]).tlmsg
           queue == Append(tl_msg_buffer[e], m)
<1>1. LinkTypeOK /\ LoopTypeOK
  BY DEF TypeInv, TypeOK
<1>2. /\ Accept(e, Head(fabric[e])) /\ m # NULL
      /\ should_send_ackonly_frame' = should_send_ackonly_frame
  BY DEF serve_normal_request
<1>3. m \in TLMsg
  <2>1. Head(fabric[e]) \in Frame
    BY EndpointTypes
  <2> QED BY <1>2, <2>1, FrameFact
<1>4. should_send_ackonly_frame' \in [Endpoint -> BOOLEAN]
  BY <1>1, <1>2 DEF LinkTypeOK
<1>5. /\ tl_msg_buffer \in [Endpoint -> Seq(TLMsg)]
      /\ \A x \in Endpoint : Len(tl_msg_buffer[x]) < TL_MSG_BUF
      /\ exited \in [Endpoint -> {"no", "tl_msg_buffer", "ack_buffer", "bounds"}]
      /\ TL_MSG_BUF \in Nat
  BY <1>1, SizeAssumption DEF LoopTypeOK
<1>6. Len(tl_msg_buffer[e]) \in Nat /\ e # Peer(e)
  BY EndpointTypes, PeerFact
<1>7. CASE IsFull(tl_msg_buffer[e], TL_MSG_BUF)
  <2>1. tl_msg_buffer' = tl_msg_buffer /\ exited' = [exited EXCEPT ![e] = "tl_msg_buffer"]
    BY <1>7 DEF serve_normal_request
  <2>2. exited' \in [Endpoint -> {"no", "tl_msg_buffer", "ack_buffer", "bounds"}]
    BY <1>5, <2>1
  <2>3. Len(tl_msg_buffer'[e]) - Len(tl_msg_buffer[e]) <= 1
    BY <1>6, <2>1
  <2> QED BY <1>2, <1>4, <1>5, <2>1, <2>2, <2>3, AcceptType
<1>8. CASE ~IsFull(tl_msg_buffer[e], TL_MSG_BUF)
  <2>1. tl_msg_buffer' = [tl_msg_buffer EXCEPT ![e] = queue] /\ exited' = exited
    BY <1>8 DEF serve_normal_request
  <2>2. queue \in Seq(TLMsg) /\ Len(queue) = Len(tl_msg_buffer[e]) + 1
    BY <1>3, <1>5
  <2>3. Len(queue) < TL_MSG_BUF
    BY <1>5, <1>6, <1>8, <2>2 DEF IsFull
  <2> HIDE DEF queue
  <2>4. /\ tl_msg_buffer' \in [Endpoint -> Seq(TLMsg)]
        /\ \A x \in Endpoint : Len(tl_msg_buffer'[x]) < TL_MSG_BUF
        /\ tl_msg_buffer'[e] = queue /\ tl_msg_buffer'[Peer(e)] = tl_msg_buffer[Peer(e)]
    BY <1>5, <1>6, <2>1, <2>2, <2>3
  <2>5. Len(tl_msg_buffer'[e]) - Len(tl_msg_buffer[e]) <= 1
    BY <1>6, <2>2, <2>4
  <2> QED BY <1>2, <1>4, <1>5, <2>1, <2>4, <2>5, AcceptType
<1> QED BY <1>7, <1>8

\* RX of a zero-tlmsg frame keeps the types.
LEMMA ZeroRXType ==
    ASSUME TypeInv, NEW e \in Endpoint, fabric[e] # <<>>,
           serve_zero_tlmsg_request(e, Head(fabric[e]))
    PROVE  TypeInv'
<1>1. LinkTypeOK /\ LoopTypeOK
  BY DEF TypeInv, TypeOK
<1>2. /\ Accept(e, Head(fabric[e]))
      /\ should_send_ackonly_frame' = [should_send_ackonly_frame EXCEPT ![e] = TRUE]
      /\ UNCHANGED <<tl_msg_buffer, exited>>
  BY DEF serve_zero_tlmsg_request
<1>3. should_send_ackonly_frame' \in [Endpoint -> BOOLEAN]
  BY <1>1, <1>2 DEF LinkTypeOK
<1>4. /\ tl_msg_buffer' \in [Endpoint -> Seq(TLMsg)]
      /\ \A x \in Endpoint : Len(tl_msg_buffer'[x]) < TL_MSG_BUF
      /\ exited' \in [Endpoint -> {"no", "tl_msg_buffer", "ack_buffer", "bounds"}]
  BY <1>1, <1>2 DEF LoopTypeOK
<1>5. Len(tl_msg_buffer'[e]) - Len(tl_msg_buffer[e]) <= 1
  BY <1>2, EndpointTypes
<1> QED BY <1>2, <1>3, <1>4, <1>5, AcceptType

\* Queueing an acknowledgement keeps the types, also when ack_buffer is full.
LEMMA QueueAckType ==
    ASSUME TypeInv, NEW e \in Endpoint, fabric[e] # <<>>, RXCommon(e, Head(fabric[e])),
           NEW entry \in Entry, QueueAck(e, entry)
    PROVE  TypeInv'
<1> DEFINE queue == Append(ack_buffer[e], entry)
<1>1. LinkTypeOK /\ LoopTypeOK /\ CreditTypeOK
  BY DEF TypeInv, TypeOK
<1>2. UNCHANGED <<tl_msg_buffer, next_rx_seq, acked_seq, should_send_ackonly_frame,
                  credits, rxlog>>
  BY DEF QueueAck
<1>3. /\ ack_buffer \in [Endpoint -> Seq(Entry)]
      /\ \A x \in Endpoint : Len(ack_buffer[x]) < ACK_BUF
      /\ exited \in [Endpoint -> {"no", "tl_msg_buffer", "ack_buffer", "bounds"}]
      /\ ACK_BUF \in Nat
  BY <1>1, SizeAssumption DEF LinkTypeOK, LoopTypeOK
<1>4. /\ ack_buffer' \in [Endpoint -> Seq(Entry)]
      /\ \A x \in Endpoint : Len(ack_buffer'[x]) < ACK_BUF
      /\ exited' \in [Endpoint -> {"no", "tl_msg_buffer", "ack_buffer", "bounds"}]
  <2>1. CASE IsFull(ack_buffer[e], ACK_BUF)
    BY <1>3, <2>1 DEF QueueAck
  <2>2. CASE ~IsFull(ack_buffer[e], ACK_BUF)
    <3>1. ack_buffer' = [ack_buffer EXCEPT ![e] = queue] /\ exited' = exited
      BY <2>2 DEF QueueAck
    <3>2. /\ queue \in Seq(Entry) /\ Len(queue) = Len(ack_buffer[e]) + 1
          /\ Len(ack_buffer[e]) \in Nat
      BY <1>3
    <3>3. Len(queue) < ACK_BUF
      BY <1>3, <2>2, <3>2 DEF IsFull
    <3> HIDE DEF queue
    <3> QED BY <1>3, <3>1, <3>2, <3>3
  <2> QED BY <2>1, <2>2
<1>5. /\ tl_msg_buffer' \in [Endpoint -> Seq(TLMsg)]
      /\ \A x \in Endpoint : Len(tl_msg_buffer'[x]) < TL_MSG_BUF
  BY <1>1, <1>2 DEF LoopTypeOK
<1>6. \A x \in Endpoint :
        Len(tl_msg_buffer'[x]) - Len(tl_msg_buffer[x]) <= Len(rxlog'[x]) - Len(rxlog[x])
  BY <1>2, EndpointTypes
<1>7. /\ rxlog' \in [Endpoint -> Seq(LogEntry)] /\ next_rx_seq' \in [Endpoint -> SeqNum]
      /\ acked_seq' \in [Endpoint -> SeqNum]
      /\ should_send_ackonly_frame' \in [Endpoint -> BOOLEAN]
  BY <1>1, <1>2 DEF LinkTypeOK
<1>8. credits' \in [Endpoint -> [Channel -> Nat]]
  BY <1>1, <1>2 DEF CreditTypeOK
<1> QED BY <1>4, <1>5, <1>6, <1>7, <1>8, ReceiveType

\* RX of a duplicate keeps the types.
LEMMA DuplicateRXType ==
    ASSUME TypeInv, NEW e \in Endpoint, fabric[e] # <<>>,
           serve_duplicate_request(e, Head(fabric[e]))
    PROVE  TypeInv'
<1> DEFINE entry == [seq_num_ack |-> Head(fabric[e]).seq_num, ack |-> TLOE_ACK]
<1>1. RXCommon(e, Head(fabric[e])) /\ QueueAck(e, entry)
  BY DEF serve_duplicate_request
<1>2. Head(fabric[e]) \in Frame
  BY EndpointTypes
<1>3. entry \in Entry
  BY <1>2, FrameFact DEF Entry
<1> HIDE DEF entry
<1> QED BY <1>1, <1>3, QueueAckType

\* RX of a frame out of sequence keeps the types.
LEMMA OosRXType ==
    ASSUME TypeInv, NEW e \in Endpoint, fabric[e] # <<>>,
           serve_oos_request(e, Head(fabric[e]))
    PROVE  TypeInv'
<1> DEFINE entry == [seq_num_ack |-> tloe_seqnum_prev(next_rx_seq[e]), ack |-> TLOE_NAK]
<1>1. RXCommon(e, Head(fabric[e])) /\ QueueAck(e, entry)
  BY DEF serve_oos_request
<1>2. tloe_seqnum_prev(next_rx_seq[e]) \in SeqNum
  BY EndpointTypes, SeqNumFact
<1>3. entry \in Entry
  BY <1>2 DEF Entry
<1> HIDE DEF entry
<1> QED BY <1>1, <1>3, QueueAckType
-------------------------------------------------------------------------------
\* The TileLink handler.

\* What is in a message of channel A.
LEMMA RequestFact ==
    ASSUME NEW m \in TLMsg, m.chan = CHANNEL_A
    PROVE  /\ m.addr \in Addr /\ m.size \in {0, 3}
           /\ m.opcode = A_PUTFULLDATA_OPCODE => m.data \in Val
<1>1. m \in Request
  BY DEF TLMsg, Answer, AccessAck, AccessAckData, CHANNEL_A, CHANNEL_D
<1> QED BY <1>1 DEF Request, Get, PutFullData, A_GET_OPCODE, A_PUTFULLDATA_OPCODE

\* Handling a message keeps the types: its flits are added to what the endpoint
\* has to return when it leaves tl_msg_buffer.
LEMMA HandleType ==
    ASSUME TypeInv, NEW e \in Endpoint, tl_msg_buffer[e] # <<>>,
           TLCommon(e, Head(tl_msg_buffer[e])),
           response_buffer' \in [Endpoint -> Seq(Answer)],
           \A x \in Endpoint : Len(response_buffer'[x]) < RESPONSE_BUF,
           mem' \in [Endpoint -> [Addr -> Val \cup {0}]],
           results' \in [Endpoint -> Seq(Answer)],
           exited' \in [Endpoint -> {"no", "tl_msg_buffer", "ack_buffer", "bounds"}]
    PROVE  TypeInv'
<1> DEFINE m == Head(tl_msg_buffer[e])
           n == tlmsg_get_flits_cnt(m)
           queue == Tail(tl_msg_buffer[e])
           owed == add_channel_flow_credits(tx_flow_credits[e], m.chan, n)
<1>1. LinkTypeOK /\ LoopTypeOK /\ CreditTypeOK
  BY DEF TypeInv, TypeOK
<1>2. /\ tl_msg_buffer' = [tl_msg_buffer EXCEPT ![e] = queue]
      /\ tx_flow_credits' = [tx_flow_credits EXCEPT ![e] = owed]
      /\ pc' = [pc EXCEPT ![e] = "tx"]
      /\ UNCHANGED <<request_tlmsg, buffer_select_counter, linkVars, credits,
                     message_buffer, submitted, fabric, losses, expiries, lead>>
  BY DEF TLCommon, Goto, loopVars, envVars
<1>3. /\ tl_msg_buffer \in [Endpoint -> Seq(TLMsg)]
      /\ \A x \in Endpoint : Len(tl_msg_buffer[x]) < TL_MSG_BUF
      /\ TL_MSG_BUF \in Nat
      /\ tx_flow_credits \in [Endpoint -> [Channel -> Nat]]
  BY <1>1, SizeAssumption DEF LoopTypeOK, CreditTypeOK
<1>4. m \in TLMsg /\ queue \in Seq(TLMsg) /\ Len(queue) = Len(tl_msg_buffer[e]) - 1
      /\ Len(tl_msg_buffer[e]) \in Nat \ {0}
  <2>1. tl_msg_buffer[e] \in Seq(TLMsg)
    BY <1>3
  <2> QED BY <2>1
<1>5. m.chan \in Channel /\ n \in 1 .. 3
  BY <1>4, FlitsFact
<1>6. owed = [tx_flow_credits[e] EXCEPT ![m.chan] = tx_flow_credits[e][m.chan] + n]
  BY DEF add_channel_flow_credits
<1> HIDE DEF n, m, queue
<1>7. /\ owed \in [Channel -> Nat]
      /\ \A c \in Channel : owed[c] <= tx_flow_credits[e][c] + 3
  <2>1. tx_flow_credits[e] \in [Channel -> Nat]
    BY <1>3
  <2> HIDE DEF owed
  <2> QED BY <1>5, <1>6, <2>1
<1> HIDE DEF owed
<1>8. /\ tl_msg_buffer' \in [Endpoint -> Seq(TLMsg)]
      /\ \A x \in Endpoint : Len(tl_msg_buffer'[x]) < TL_MSG_BUF
  <2>1. Len(queue) < TL_MSG_BUF
    BY <1>3, <1>4
  <2> QED BY <1>2, <1>3, <1>4, <2>1
<1>9. LinkTypeOK'
  BY <1>1, <1>2 DEF LinkTypeOK, linkVars, seqVars, flagVars
<1>10. LoopTypeOK'
  BY <1>1, <1>2, <1>8 DEF LoopTypeOK
<1>11. CreditTypeOK'
  BY <1>1, <1>2, <1>7 DEF CreditTypeOK
<1>12. CreditBound'
  <2> SUFFICES ASSUME NEW x \in Endpoint, NEW c \in Channel
               PROVE  tx_flow_credits'[x][c] + 3 * Len(tl_msg_buffer'[x]) <= 3 * Len(rxlog[x])
    BY <1>2 DEF CreditBound, linkVars
  <2>1. /\ tx_flow_credits[x][c] \in Nat
        /\ Len(tl_msg_buffer[x]) \in Nat /\ Len(rxlog[x]) \in Nat
        /\ tx_flow_credits[x][c] + 3 * Len(tl_msg_buffer[x]) <= 3 * Len(rxlog[x])
    BY EndpointTypes
  <2>2. CASE x = e
    <3>1. tx_flow_credits'[x] = owed /\ tl_msg_buffer'[x] = queue
      BY <1>2, <1>3, <2>2
    <3>2. owed[c] \in Nat /\ owed[c] <= tx_flow_credits[x][c] + 3
      BY <1>7, <2>2
    <3>3. Len(queue) = Len(tl_msg_buffer[x]) - 1
      BY <1>4, <2>2
    <3>4. ASSUME NEW held \in Nat, NEW now \in Nat, NEW waiting \in Nat, NEW seen \in Nat,
                 held + 3 * waiting <= 3 * seen, now <= held + 3
          PROVE  now + 3 * (waiting - 1) <= 3 * seen
      BY <3>4
    <3>5. owed[c] + 3 * (Len(tl_msg_buffer[x]) - 1) <= 3 * Len(rxlog[x])
      BY <2>1, <3>2, <3>4
    <3> QED BY <3>1, <3>3, <3>5
  <2>3. CASE x # e
    <3>1. tx_flow_credits'[x] = tx_flow_credits[x] /\ tl_msg_buffer'[x] = tl_msg_buffer[x]
      BY <1>2, <1>3, <2>3
    <3> QED BY <2>1, <3>1
  <2> QED BY <2>2, <2>3
<1> QED BY <1>9, <1>10, <1>11, <1>12 DEF TypeInv, TypeOK

\* tl_handler keeps the types.
LEMMA HandlerType ==
    ASSUME TypeInv, NEW e \in Endpoint, tl_msg_buffer[e] # <<>>,
           NEW m, m = Head(tl_msg_buffer[e]),
           \/ handle_A_PUTFULLDATA_opcode(e, m)
           \/ handle_A_GET_opcode(e, m)
           \/ handle_D_opcode(e, m)
    PROVE  TypeInv'
<1>1. /\ response_buffer \in [Endpoint -> Seq(Answer)]
      /\ \A x \in Endpoint : Len(response_buffer[x]) < RESPONSE_BUF
      /\ mem \in [Endpoint -> [Addr -> Val \cup {0}]]
      /\ results \in [Endpoint -> Seq(Answer)]
      /\ exited \in [Endpoint -> {"no", "tl_msg_buffer", "ack_buffer", "bounds"}]
      /\ RESPONSE_BUF \in Nat
      /\ m \in TLMsg
  <2>1. tl_msg_buffer[e] \in Seq(TLMsg)
    BY EndpointTypes
  <2> QED BY <2>1, SizeAssumption DEF TypeInv, TypeOK, LoopTypeOK
<1>2. TLCommon(e, m) /\ ~IsFull(response_buffer[e], RESPONSE_BUF)
  BY DEF handle_A_PUTFULLDATA_opcode, handle_A_GET_opcode, handle_D_opcode, TLCommon
<1>3. ASSUME NEW a \in Answer, Respond(e, a)
      PROVE  /\ response_buffer' \in [Endpoint -> Seq(Answer)]
             /\ \A x \in Endpoint : Len(response_buffer'[x]) < RESPONSE_BUF
  <2> DEFINE queue == Append(response_buffer[e], a)
  <2>1. response_buffer' = [response_buffer EXCEPT ![e] = queue]
    BY <1>3 DEF Respond
  <2>2. /\ queue \in Seq(Answer) /\ Len(queue) = Len(response_buffer[e]) + 1
        /\ Len(response_buffer[e]) \in Nat
    BY <1>1
  <2>3. Len(queue) < RESPONSE_BUF
    BY <1>1, <1>2, <2>2 DEF IsFull
  <2> HIDE DEF queue
  <2> QED BY <1>1, <2>1, <2>2, <2>3
<1>4. CASE handle_A_PUTFULLDATA_opcode(e, m)
  <2>1. m.addr \in Addr /\ m.data \in Val /\ AccessAck \in Answer
    BY <1>1, <1>4, RequestFact DEF handle_A_PUTFULLDATA_opcode, Is, Answer
  <2>2. results' = results
    BY <1>4 DEF handle_A_PUTFULLDATA_opcode
  <2>3. CASE BeyondEnd(m)
    <3>1. exited' = [exited EXCEPT ![e] = "bounds"] /\ mem' = mem
          /\ response_buffer' = response_buffer
      BY <1>4, <2>3 DEF handle_A_PUTFULLDATA_opcode
    <3>2. exited' \in [Endpoint -> {"no", "tl_msg_buffer", "ack_buffer", "bounds"}]
      BY <1>1, <3>1
    <3> QED BY <1>1, <1>2, <2>2, <3>1, <3>2, HandleType
  <2>4. CASE ~BeyondEnd(m)
    <3>1. mem' = [mem EXCEPT ![e][m.addr] = m.data] /\ exited' = exited /\ Respond(e, AccessAck)
      BY <1>4, <2>4 DEF handle_A_PUTFULLDATA_opcode
    <3>2. mem' \in [Endpoint -> [Addr -> Val \cup {0}]]
      BY <1>1, <2>1, <3>1
    <3>3. /\ response_buffer' \in [Endpoint -> Seq(Answer)]
          /\ \A x \in Endpoint : Len(response_buffer'[x]) < RESPONSE_BUF
      BY <1>3, <2>1, <3>1
    <3> QED BY <1>1, <1>2, <2>2, <3>1, <3>2, <3>3, HandleType
  <2> QED BY <2>3, <2>4
<1>5. CASE handle_A_GET_opcode(e, m)
  <2>1. m.addr \in Addr /\ m.size \in {0, 3}
    BY <1>1, <1>5, RequestFact DEF handle_A_GET_opcode, Is
  <2>2. mem[e][m.addr] \in Val \cup {0}
    BY <1>1, <2>1
  <2>3. AccessAckData(m.size, mem[e][m.addr]) \in Answer
    BY <2>1, <2>2 DEF Answer
  <2>4. results' = results /\ mem' = mem
    BY <1>5 DEF handle_A_GET_opcode
  <2>5. CASE BeyondEnd(m)
    <3>1. exited' = [exited EXCEPT ![e] = "bounds"] /\ response_buffer' = response_buffer
      BY <1>5, <2>5 DEF handle_A_GET_opcode
    <3>2. exited' \in [Endpoint -> {"no", "tl_msg_buffer", "ack_buffer", "bounds"}]
      BY <1>1, <3>1
    <3> QED BY <1>1, <1>2, <2>4, <3>1, <3>2, HandleType
  <2>6. CASE ~BeyondEnd(m)
    <3>1. exited' = exited /\ Respond(e, AccessAckData(m.size, mem[e][m.addr]))
      BY <1>5, <2>6 DEF handle_A_GET_opcode
    <3>2. /\ response_buffer' \in [Endpoint -> Seq(Answer)]
          /\ \A x \in Endpoint : Len(response_buffer'[x]) < RESPONSE_BUF
      BY <1>3, <2>3, <3>1
    <3> QED BY <1>1, <1>2, <2>4, <3>1, <3>2, HandleType
  <2> QED BY <2>5, <2>6
<1>6. CASE handle_D_opcode(e, m)
  <2>1. m.chan = CHANNEL_D
    BY <1>6 DEF handle_D_opcode, Is
  <2>2. m \in Answer
    BY <1>1, <2>1 DEF TLMsg, Request, Get, PutFullData, CHANNEL_A, CHANNEL_D
  <2>3. /\ results' = [results EXCEPT ![e] = Append(results[e], m)]
        /\ UNCHANGED <<mem, response_buffer, exited>>
    BY <1>6 DEF handle_D_opcode
  <2>4. Append(results[e], m) \in Seq(Answer)
    BY <1>1, <2>2
  <2>5. results' \in [Endpoint -> Seq(Answer)]
    BY <1>1, <2>3, <2>4
  <2> QED BY <1>1, <1>2, <2>3, <2>5, HandleType
<1> QED BY <1>4, <1>5, <1>6
-------------------------------------------------------------------------------
\* The user, the fabric, and the invariant.

\* A user's command keeps the types.
LEMMA SubmitType ==
    ASSUME TypeInv, NEW e \in Endpoint, NEW m \in Request, Submit(e, m)
    PROVE  TypeInv'
<1> DEFINE queue == Append(message_buffer[e], m)
<1>1. LinkTypeOK /\ LoopTypeOK /\ CreditTypeOK /\ CreditBound
  BY DEF TypeInv, TypeOK
<1>2. /\ message_buffer' = [message_buffer EXCEPT ![e] = queue]
      /\ submitted' = [submitted EXCEPT ![e] = Append(submitted[e], m)]
      /\ UNCHANGED <<pc, loopVars, linkVars, fcVars, tlVars, results, envVars, exited>>
      /\ ~IsFull(message_buffer[e], MESSAGE_BUF)
  BY DEF Submit
<1>3. /\ message_buffer \in [Endpoint -> Seq(Request)]
      /\ \A x \in Endpoint : Len(message_buffer[x]) < MESSAGE_BUF
      /\ submitted \in [Endpoint -> Seq(Request)]
      /\ MESSAGE_BUF \in Nat
  BY <1>1, SizeAssumption DEF LoopTypeOK
<1>4. /\ queue \in Seq(Request) /\ Len(queue) = Len(message_buffer[e]) + 1
      /\ Len(message_buffer[e]) \in Nat
      /\ Append(submitted[e], m) \in Seq(Request)
  BY <1>3
<1>5. Len(queue) < MESSAGE_BUF
  BY <1>2, <1>3, <1>4 DEF IsFull
<1> HIDE DEF queue
<1>6. /\ message_buffer' \in [Endpoint -> Seq(Request)]
      /\ \A x \in Endpoint : Len(message_buffer'[x]) < MESSAGE_BUF
      /\ submitted' \in [Endpoint -> Seq(Request)]
  BY <1>2, <1>3, <1>4, <1>5
<1>7. LinkTypeOK'
  BY <1>1, <1>2 DEF LinkTypeOK, linkVars, seqVars, flagVars, envVars
<1>8. LoopTypeOK'
  BY <1>1, <1>2, <1>6 DEF LoopTypeOK, loopVars, tlVars, envVars
<1>9. CreditTypeOK' /\ CreditBound'
  BY <1>1, <1>2 DEF CreditTypeOK, CreditBound, fcVars, tlVars, linkVars
<1> QED BY <1>7, <1>8, <1>9 DEF TypeInv, TypeOK

\* The loss of a frame keeps the types.
LEMMA LoseType ==
    ASSUME TypeInv, NEW e \in Endpoint, Lose(e)
    PROVE  TypeInv'
<1> DEFINE q == fabric[e]
<1>1. LinkTypeOK /\ LoopTypeOK /\ CreditTypeOK /\ CreditBound
  BY DEF TypeInv, TypeOK
<1>2. PICK i \in 1 .. Len(q) :
        fabric' = [fabric EXCEPT ![e] = SubSeq(q, 1, i - 1) \o SubSeq(q, i + 1, Len(q))]
  BY DEF Lose
<1>3. /\ losses < MaxLoss /\ losses' = losses + 1
      /\ UNCHANGED <<pc, loopVars, linkVars, fcVars, tlVars, userVars, expiries, lead, exited>>
  BY DEF Lose
<1>4. /\ fabric \in [Endpoint -> Seq(Frame)] /\ (\A x \in Endpoint : Len(fabric[x]) <= FABRIC_BUF)
      /\ losses \in 0 .. MaxLoss /\ MaxLoss \in Nat /\ FABRIC_BUF \in Nat
  BY <1>1, SizeAssumption, BoundAssumption DEF LinkTypeOK, LoopTypeOK
<1>5. q \in Seq(Frame) /\ Len(q) <= FABRIC_BUF /\ Len(q) \in Nat
  BY <1>4
<1> DEFINE front == SubSeq(q, 1, i - 1)
           back == SubSeq(q, i + 1, Len(q))
<1> HIDE DEF q
<1>6. front \in Seq(Frame) /\ Len(front) = i - 1
  <2>1. CASE i = 1
    <3>1. front = <<>>
      BY <1>5, <2>1
    <3> QED BY <2>1, <3>1
  <2>2. CASE i # 1
    BY <1>5, <2>2
  <2> QED BY <2>1, <2>2
<1>7. back \in Seq(Frame) /\ Len(back) = Len(q) - i
  <2>1. CASE i = Len(q)
    <3>1. back = <<>>
      BY <1>5, <2>1
    <3> QED BY <1>5, <2>1, <3>1
  <2>2. CASE i # Len(q)
    BY <1>5, <2>2
  <2> QED BY <2>1, <2>2
<1> HIDE DEF front, back
<1> DEFINE rest == front \o back
<1>8. rest \in Seq(Frame) /\ Len(rest) = (i - 1) + (Len(q) - i)
  BY <1>6, <1>7
<1> HIDE DEF rest
<1>9. Len(rest) <= FABRIC_BUF
  BY <1>4, <1>5, <1>8
<1>10. fabric' = [fabric EXCEPT ![e] = rest]
  BY <1>2 DEF rest, front, back
<1>11. fabric' \in [Endpoint -> Seq(Frame)] /\ \A x \in Endpoint : Len(fabric'[x]) <= FABRIC_BUF
  BY <1>4, <1>8, <1>9, <1>10
<1>12. LinkTypeOK'
  BY <1>1, <1>3, <1>11 DEF LinkTypeOK, linkVars, seqVars, flagVars
<1>13. LoopTypeOK'
  BY <1>1, <1>3, <1>4 DEF LoopTypeOK, loopVars, tlVars, userVars
<1>14. CreditTypeOK' /\ CreditBound'
  BY <1>1, <1>3 DEF CreditTypeOK, CreditBound, fcVars, tlVars, linkVars
<1> QED BY <1>12, <1>13, <1>14 DEF TypeInv, TypeOK

\* A step that only moves the endpoint thread, or none, keeps the types.
LEMMA IdleType ==
    ASSUME TypeInv, pc' \in [Endpoint -> {"tx", "rx", "tl"}],
           UNCHANGED <<loopVars, linkVars, fcVars, tlVars, userVars, envVars, exited>>
    PROVE  TypeInv'
<1>1. LinkTypeOK /\ LoopTypeOK /\ CreditTypeOK /\ CreditBound
  BY DEF TypeInv, TypeOK
<1>2. LinkTypeOK'
  BY <1>1 DEF LinkTypeOK, linkVars, seqVars, flagVars, envVars
<1>3. LoopTypeOK'
  BY <1>1 DEF LoopTypeOK, loopVars, tlVars, userVars, envVars
<1>4. CreditTypeOK' /\ CreditBound'
  BY <1>1 DEF CreditTypeOK, CreditBound, fcVars, tlVars, linkVars
<1> QED BY <1>2, <1>3, <1>4 DEF TypeInv, TypeOK

\* The quiescent connection has the types.
LEMMA InitType == Init => TypeInv
<1> SUFFICES ASSUME Init PROVE TypeInv
  OBVIOUS
<1>1. \A e \in Endpoint : Peer(e) \in Endpoint /\ StartSeq[e] \in SeqNum
  BY PeerFact, StartAssumption
<1>2. LinkTypeOK
  <2>1. \A e \in Endpoint : tloe_seqnum_prev(StartSeq[e]) \in SeqNum
    BY <1>1, SeqNumFact
  <2>2. /\ WINDOW_SIZE \in Nat /\ FABRIC_BUF \in Nat /\ MaxTx \in Nat /\ ACK_BUF \in Nat \ {0}
    BY SizeAssumption, BoundAssumption
  <2> QED BY <1>1, <2>1, <2>2, StartAssumption DEF Init, Fresh, LinkTypeOK
<1>3. LoopTypeOK
  <2>1. /\ MESSAGE_BUF \in Nat \ {0} /\ RESPONSE_BUF \in Nat \ {0} /\ TL_MSG_BUF \in Nat \ {0}
        /\ MaxLoss \in Nat /\ MaxExpiry \in Nat /\ MaxLead \in Nat
    BY SizeAssumption, BoundAssumption
  <2> QED BY <2>1 DEF Init, Fresh, LoopTypeOK
<1>4. CreditTypeOK
  <2> DEFINE grant == 2^CREDIT_DEFAULT
  <2>1. grant \in Nat
    BY SizeAssumption, PowFact
  <2>2. credits = [e \in Endpoint |-> [c \in Channel |-> grant]]
        /\ tx_flow_credits = [e \in Endpoint |-> [c \in Channel |-> 0]]
    BY DEF Init, Fresh
  <2> HIDE DEF grant
  <2> QED BY <2>1, <2>2 DEF CreditTypeOK
<1>5. CreditBound
  BY DEF Init, Fresh, CreditBound
<1> QED BY <1>2, <1>3, <1>4, <1>5 DEF TypeInv, TypeOK

\* What the link promises bounds what RX has accepted.
LEMMA LinkBound == LinkInv => AcceptedBound
<1> SUFFICES ASSUME LinkInv, NEW e \in Endpoint
             PROVE  Len(rxlog[e]) <= HALF_MAX_SEQ_NUM + 12
  BY DEF AcceptedBound, CHANNEL_NUM
<1>1. Len(rxlog[e]) \in 0 .. MaxTx /\ MaxTx \in Nat /\ MaxTx < HALF_MAX_SEQ_NUM
  BY LinkLen
<1> QED BY <1>1, HalfFact

\* Every step keeps the types.
LEMMA NextType == TypeInv /\ AcceptedBound /\ [Next]_vars => TypeInv'
<1> SUFFICES ASSUME TypeInv, AcceptedBound, [Next]_vars PROVE TypeInv'
  OBVIOUS
<1>0. pc \in [Endpoint -> {"tx", "rx", "tl"}]
  BY DEF TypeInv, TypeOK, LoopTypeOK
<1>1. CASE UNCHANGED vars
  BY <1>0, <1>1, IdleType DEF vars
<1>2. ASSUME NEW e \in Endpoint, TX(e)
      PROVE  TypeInv'
  BY <1>2, HoldType, MessageType, ZeroType DEF TX
<1>3. ASSUME NEW e \in Endpoint, RX(e)
      PROVE  TypeInv'
  <2>1. CASE RX_Idle(e)
    BY <1>0, <2>1, IdleType DEF RX_Idle, Goto
  <2>2. CASE fabric[e] # <<>> /\ RX_Ackonly(e, Head(fabric[e]))
    BY <2>2, AckonlyRXType
  <2>3. CASE fabric[e] # <<>> /\ serve_normal_request(e, Head(fabric[e]))
    BY <2>3, NormalRXType
  <2>4. CASE fabric[e] # <<>> /\ serve_zero_tlmsg_request(e, Head(fabric[e]))
    BY <2>4, ZeroRXType
  <2>5. CASE fabric[e] # <<>> /\ serve_duplicate_request(e, Head(fabric[e]))
    BY <2>5, DuplicateRXType
  <2>6. CASE fabric[e] # <<>> /\ serve_oos_request(e, Head(fabric[e]))
    BY <2>6, OosRXType
  <2> QED BY <1>3, <2>1, <2>2, <2>3, <2>4, <2>5, <2>6 DEF RX
<1>4. ASSUME NEW e \in Endpoint, tl_handler(e)
      PROVE  TypeInv'
  <2>1. CASE TL_Skip(e)
    BY <1>0, <2>1, IdleType DEF TL_Skip, Goto
  <2>2. CASE ~TL_Skip(e)
    BY <1>4, <2>2, HandlerType DEF tl_handler
  <2> QED BY <2>1, <2>2
<1>5. ASSUME NEW e \in Endpoint, User(e)
      PROVE  TypeInv'
  <2>1. PICK m \in Request : Submit(e, m)
    <3>1. CASE read_memory(e)
      BY <3>1 DEF read_memory, Request
    <3>2. CASE write_memory(e)
      BY <3>2 DEF write_memory, Request
    <3>3. CASE create_and_enqueue_message(e)
      BY <3>3, DataAssumption DEF create_and_enqueue_message, Request
    <3> QED BY <1>5, <3>1, <3>2, <3>3 DEF User
  <2> QED BY <2>1, SubmitType
<1>6. ASSUME NEW e \in Endpoint, Lose(e)
      PROVE  TypeInv'
  BY <1>6, LoseType
<1> QED BY <1>1, <1>2, <1>3, <1>4, <1>5, <1>6 DEF Next, Thread

\* Type correctness: every queue stays within the size create_queue gave it,
\* every sequence number within its header field, no credit counter falls below
\* zero, and TX never takes get_largest_pow of zero, for which it is undefined.
THEOREM TypeCorrect == Spec => []TypeOK
<1>1. Init => TypeInv
  BY InitType
<1>2. TypeInv /\ LinkInv /\ [Next]_vars => TypeInv'
  BY NextType, LinkBound
<1>3. TypeInv => TypeOK
  BY DEF TypeInv
<1> QED BY <1>1, <1>2, <1>3, LinkInvariant, PTL DEF Spec
===============================================================================
