-------------------------- MODULE TloeDeliveryProofs --------------------------
(***************************************************************************)
(* While nothing is lost, both ends of a connection accept what the other  *)
(* has numbered in it, once and in order, however often a handshake is     *)
(* sent again, and the credit of both is accounted for.  SessionInv has    *)
(* the direction to the master; DeliveryInv adds the direction to the      *)
(* slave, and CreditInv the credit.                                        *)
(***************************************************************************)
EXTENDS TloeSessionProofs, TloeDataProofs

\* What the steps do to the queue of frames to the slave.

\* Nothing of a round is torn apart behind its first frame.
LEMMA AppendedChained ==
    ASSUME NEW F, NEW q \in Seq(F), NEW p \in Seq(F), NEW S, Appended(p, q, S), Chained(q),
           \A f \in S : ~Later(f)
    PROVE  Chained(p)
<1>1. Len(q) \in Nat /\ Len(p) \in Nat
  OBVIOUS
<1> SUFFICES ASSUME NEW i \in 1 .. Len(p) - 1, Later(p[i + 1])
             PROVE  InRound(p[i]) /\ p[i + 1].seq_num = p[i].seq_num + 1
  BY DEF Chained
<1>2. i + 1 \in 1 .. Len(p) /\ i \in 1 .. Len(p)
  BY <1>1
<1>3. ~(i + 1 \in (Len(q) + 1) .. Len(p))
  BY DEF Appended
<1>4. i + 1 \in 1 .. Len(q) /\ i \in 1 .. Len(q) /\ i \in 1 .. Len(q) - 1
  BY <1>1, <1>2, <1>3
<1>5. p[i] = q[i] /\ p[i + 1] = q[i + 1]
  BY <1>4 DEF Appended
<1> QED BY <1>4, <1>5 DEF Chained

LEMMA TailChained ==
    ASSUME NEW F, NEW q \in Seq(F), q # <<>>, Chained(q)
    PROVE  /\ Chained(Tail(q))
           /\ Tail(q) # <<>> /\ Later(Tail(q)[1]) =>
                 InRound(Head(q)) /\ Tail(q)[1].seq_num = Head(q).seq_num + 1
<1> DEFINE p == Tail(q)
<1>1. /\ Len(q) \in Nat \ {0} /\ Len(p) = Len(q) - 1 /\ Head(q) = q[1]
      /\ \A i \in 1 .. Len(p) : p[i] = q[i + 1]
      /\ p # <<>> => Len(p) >= 1
  OBVIOUS
<1> HIDE DEF p
<1>2. ASSUME NEW i \in 1 .. Len(p) - 1, Later(p[i + 1])
      PROVE  InRound(p[i]) /\ p[i + 1].seq_num = p[i].seq_num + 1
  <2>1. i + 1 \in 1 .. Len(q) - 1 /\ i \in 1 .. Len(p) /\ i + 1 \in 1 .. Len(p)
    BY <1>1
  <2>2. p[i] = q[i + 1] /\ p[i + 1] = q[(i + 1) + 1]
    BY <1>1, <2>1
  <2> QED BY <1>2, <2>1, <2>2 DEF Chained
<1>3. ASSUME p # <<>>, Later(p[1])
      PROVE  InRound(Head(q)) /\ p[1].seq_num = Head(q).seq_num + 1
  <2>1. 1 \in 1 .. Len(q) - 1 /\ 1 \in 1 .. Len(p) /\ 1 + 1 = 2
    BY <1>1, <1>3
  <2>2. p[1] = q[1 + 1]
    BY <1>1, <2>1
  <2> QED BY <1>1, <1>3, <2>1, <2>2 DEF Chained
<1>4. Chained(p)
  BY <1>2 DEF Chained
<1> QED BY <1>3, <1>4 DEF p

\* A whole round is sent, or its beginning.
LEMMA RoundChained ==
    ASSUME ConnInv, NEW q \in Seq(Frame), Len(q) <= FABRIC_BUF, Chained(q)
    PROVE  Chained(Carry(q, OpenFrames("master")))
<1> DEFINE frames == OpenFrames("master")
           p == Carry(q, frames)
           n == Len(q)
<1>1. /\ frames \in Seq(Frame) /\ Len(frames) = 5
      /\ \A i \in 1 .. 5 : /\ frames[i].seq_num = i - 1
                           /\ frames[i].type \in {TYPE_OPEN_CONNECTION, TYPE_NORMAL}
  BY OpenFramesFact, Ends
<1> HIDE DEF frames, Frame
<1>2. /\ n \in Nat /\ Len(p) \in Nat /\ n <= Len(p) /\ Len(p) <= n + 5
      /\ \A i \in 1 .. Len(p) : p[i] = IF i <= n THEN q[i] ELSE frames[i - n]
  <2>1. /\ Len(q) \in Nat /\ Len(frames) \in Nat /\ Len(p) \in Nat
        /\ Len(q) <= Len(p) /\ Len(p) <= Len(q) + Len(frames)
        /\ \A i \in 1 .. Len(p) : p[i] = IF i <= Len(q) THEN q[i] ELSE frames[i - Len(q)]
    <3>1. frames \in Seq(Frame) /\ q \in Seq(Frame) /\ Len(q) <= FABRIC_BUF
      BY <1>1
    <3> QED BY ONLY <3>1, CarryFact
  <2> HIDE DEF p
  <2> QED BY <1>1, <2>1
<1> HIDE DEF p
<1> SUFFICES ASSUME NEW i \in 1 .. Len(p) - 1, Later(p[i + 1])
             PROVE  InRound(p[i]) /\ p[i + 1].seq_num = p[i].seq_num + 1
  BY DEF Chained, p, frames
<1>3. i \in 1 .. Len(p) /\ i + 1 \in 1 .. Len(p)
  BY <1>2
<1>4. CASE i + 1 <= n
  <2>1. i \in 1 .. Len(q) - 1 /\ p[i] = q[i] /\ p[i + 1] = q[i + 1]
    BY <1>2, <1>3, <1>4
  <2> QED BY <2>1 DEF Chained
<1>5. CASE ~(i + 1 <= n)
  <2>1. p[i + 1] = frames[i + 1 - n] /\ i + 1 - n \in 1 .. 5
    BY <1>2, <1>3, <1>5
  <2>2. i + 1 - n # 1
    BY <1>1, <2>1 DEF Later
  <2>3. i - n \in 1 .. 5 /\ p[i] = frames[i - n] /\ (i + 1 - n) - 1 = i - n /\ i - n < 5
    <3>1. n \in Nat /\ i \in Nat
      BY <1>2, <1>3
    <3>2. i + 1 - n \in 1 .. 5 /\ i + 1 - n # 1
      BY <2>1, <2>2
    <3> HIDE DEF n
    <3>3. i - n \in 1 .. 5 /\ (i + 1 - n) - 1 = i - n /\ i - n < 5 /\ ~(i <= n)
      BY ONLY <3>1, <3>2
    <3>4. p[i] = frames[i - n]
      BY ONLY <1>2, <1>3, <3>3
    <3> QED BY <3>3, <3>4
  <2>4. p[i + 1].seq_num = i - n /\ p[i].seq_num = i - n - 1
    BY <1>1, <2>1, <2>3
  <2>5. p[i].type # TYPE_ACKONLY /\ p[i].type # TYPE_CLOSE_CONNECTION
    BY <1>1, <2>3 DEF TYPE_OPEN_CONNECTION, TYPE_NORMAL, TYPE_ACKONLY, TYPE_CLOSE_CONNECTION
  <2>6. i - n - 1 < 5 /\ i - n = (i - n - 1) + 1
    BY <1>2, <2>3
  <2> QED BY <2>4, <2>5, <2>6 DEF InRound
<1> QED BY <1>4, <1>5

\* CLOSE frames only behind CLOSE frames.
LEMMA FollowsCloses ==
    ASSUME NEW F, NEW q \in Seq(F), NEW p \in Seq(F), NEW S, Follows(p, q, S), ClosesLast(q),
           \A f \in S : f.type = TYPE_CLOSE_CONNECTION
    PROVE  ClosesLast(p)
<1>0. PICK n \in 0 .. Len(p) : \E g \in [1 .. n -> 1 .. Len(q)] :
        /\ \A i, j \in 1 .. n : i < j => g[i] < g[j]
        /\ \A i \in 1 .. n : p[i] = q[g[i]]
        /\ \A i \in (n + 1) .. Len(p) : p[i] \in S
  BY DEF Follows
<1>1. PICK g \in [1 .. n -> 1 .. Len(q)] :
        /\ \A i, j \in 1 .. n : i < j => g[i] < g[j]
        /\ \A i \in 1 .. n : p[i] = q[g[i]]
        /\ \A i \in (n + 1) .. Len(p) : p[i] \in S
  BY <1>0
<1>2. Len(p) \in Nat /\ Len(q) \in Nat /\ n \in Nat
  BY <1>0
<1> SUFFICES ASSUME NEW i \in 1 .. Len(p), NEW j \in 1 .. Len(p), i < j,
                    p[i].type = TYPE_CLOSE_CONNECTION
             PROVE  p[j].type = TYPE_CLOSE_CONNECTION
  BY DEF ClosesLast
<1>3. CASE j \in 1 .. n
  <2>1. i \in 1 .. n
    BY <1>2, <1>3
  <2>2. g[i] \in 1 .. Len(q) /\ g[j] \in 1 .. Len(q) /\ g[i] < g[j]
        /\ p[i] = q[g[i]] /\ p[j] = q[g[j]]
    BY <1>1, <1>3, <2>1
  <2> QED BY <2>2 DEF ClosesLast
<1>4. CASE ~(j \in 1 .. n)
  <2>1. j \in (n + 1) .. Len(p)
    BY <1>2, <1>4
  <2> QED BY <1>1, <2>1
<1> QED BY <1>3, <1>4

\* The rest behind a CLOSE frame.
LEMMA ClosesTail ==
    ASSUME NEW q \in Seq(Frame), q # <<>>, ClosesLast(q), Head(q).type = TYPE_CLOSE_CONNECTION
    PROVE  Tail(q) \in Seq(CloseFrames)
<1> DEFINE p == Tail(q)
<1>1. /\ Len(q) \in Nat \ {0} /\ Len(p) = Len(q) - 1 /\ Head(q) = q[1] /\ p \in Seq(Frame)
      /\ \A i \in 1 .. Len(p) : p[i] = q[i + 1]
  OBVIOUS
<1> HIDE DEF p, Frame
<1>2. ASSUME NEW i \in 1 .. Len(p) PROVE p[i] \in CloseFrames
  <2>1. 1 \in 1 .. Len(q) /\ i + 1 \in 1 .. Len(q) /\ 1 < i + 1 /\ p[i] = q[i + 1]
    BY <1>1
  <2>2. p[i].type = TYPE_CLOSE_CONNECTION /\ p[i] \in Frame
    BY <1>1, <2>1 DEF ClosesLast
  <2> QED BY <2>2 DEF CloseFrames
<1>3. p \in Seq(CloseFrames)
  <2> HIDE DEF CloseFrames
  <2> QED BY <1>1, <1>2, SeqOver
<1> QED BY <1>3 DEF p

\* A queue of CLOSE frames, and a queue without.
LEMMA OnlyCloses ==
    ASSUME NEW q \in Seq(CloseFrames)
    PROVE  Chained(q) /\ ClosesLast(q) /\ q \in Seq(Frame)
<1>1. \A i \in 1 .. Len(q) : q[i] \in CloseFrames
  OBVIOUS
<1>2. \A i \in 1 .. Len(q) : q[i].type = TYPE_CLOSE_CONNECTION /\ q[i] \in Frame
  BY <1>1 DEF CloseFrames
<1>3. \A i \in 1 .. Len(q) - 1 : i + 1 \in 1 .. Len(q)
  OBVIOUS
<1>4. Chained(q)
  BY <1>2, <1>3 DEF Chained, Later, InRound
<1>5. ClosesLast(q)
  BY <1>2 DEF ClosesLast
<1>6. q \in Seq(Frame)
  <2> HIDE DEF CloseFrames, Frame
  <2> QED BY <1>2, SeqOver
<1> QED BY <1>4, <1>5, <1>6

LEMMA NoCloses ==
    ASSUME NEW q \in Seq(Without(TYPE_CLOSE_CONNECTION))
    PROVE  ClosesLast(q)
<1>1. \A i \in 1 .. Len(q) : q[i] \in Without(TYPE_CLOSE_CONNECTION)
  OBVIOUS
<1>2. \A i \in 1 .. Len(q) : q[i].type # TYPE_CLOSE_CONNECTION
  BY <1>1 DEF Without
<1> QED BY <1>2 DEF ClosesLast
-------------------------------------------------------------------------------
\* The frames of the master.

\* What it keeps for retransmission, and what it sends outside of a round.
KeptOf(log) == {f \in MasterFrame(log) : f.type # TYPE_ACKONLY /\ f.seq_num >= 5}
OutsideOf(log) == {f \in MasterFrame(log) : ~InRound(f)}

LEMMA FrameKinds ==
    ASSUME NEW log
    PROVE  /\ KeptOf(log) \subseteq OutsideOf(log) /\ OutsideOf(log) \subseteq MasterFrame(log)
           /\ MasterFrame(log) \subseteq Frame
           /\ \A f \in OutsideOf(log) : ~Later(f)
<1>1. MasterFrame(log) \subseteq Frame
  BY DEF MasterFrame
<1>2. \A f \in Frame : f.seq_num \in Int
  BY DEF Frame, SeqNum
<1>3. \A f \in KeptOf(log) : f \in MasterFrame(log) /\ ~(f.seq_num < 5)
  BY <1>1, <1>2 DEF KeptOf
<1> QED BY <1>1, <1>3 DEF KeptOf, OutsideOf, InRound, Later

\* One more frame in the log.
LEMMA MasterFrameMore ==
    ASSUME NEW log \in Seq(LogEntry), NEW entry \in LogEntry
    PROVE  /\ MasterFrame(log) \subseteq MasterFrame(Append(log, entry))
           /\ KeptOf(log) \subseteq KeptOf(Append(log, entry))
           /\ OutsideOf(log) \subseteq OutsideOf(Append(log, entry))
           /\ Len(Append(log, entry)) = Len(log) + 1
           /\ Append(log, entry)[Len(log) + 1] = entry
           /\ \A i \in 1 .. Len(log) : Append(log, entry)[i] = log[i]
           /\ \A f \in Frame : /\ f.type = TYPE_NORMAL /\ f.seq_num = Len(log) + 5
                               /\ Payload(f) = entry
                               => f \in KeptOf(Append(log, entry))
<1> DEFINE more == Append(log, entry)
           n == Len(log)
<1>1. /\ n \in Nat /\ Len(more) = n + 1 /\ more[n + 1] = entry
      /\ \A i \in 1 .. n : more[i] = log[i]
  OBVIOUS
<1>2. \A f \in Frame : f.seq_num \in Int
  BY DEF Frame, SeqNum
<1>3. \A i \in 1 .. n : i \in 1 .. n + 1
  BY <1>1
<1> HIDE DEF more, Frame
<1>4. ASSUME NEW f \in MasterFrame(log) PROVE f \in MasterFrame(more)
  <2>1. f \in Frame
    BY DEF MasterFrame
  <2>2. f.type # TYPE_ACKONLY /\ f.seq_num >= 5 =>
            f.seq_num - 4 \in 1 .. n /\ Payload(f) = log[f.seq_num - 4]
    BY DEF MasterFrame
  <2> DEFINE i == f.seq_num - 4
             data == Payload(f)
  <2>3. f.type # TYPE_ACKONLY /\ f.seq_num >= 5 => i \in 1 .. Len(more) /\ data = more[i]
    <3> SUFFICES ASSUME i \in 1 .. n, data = log[i]
                 PROVE  i \in 1 .. Len(more) /\ data = more[i]
      BY <2>2
    <3> HIDE DEF i, data, n
    <3> QED BY <1>1, <1>3
  <2> QED BY <2>1, <2>3 DEF MasterFrame
<1>5. ASSUME NEW f \in Frame, f.type = TYPE_NORMAL, f.seq_num = n + 5, Payload(f) = entry
      PROVE  f \in KeptOf(more)
  <2>1. f.seq_num - 4 = n + 1 /\ f.seq_num >= 5 /\ ~(f.seq_num < 5) /\ n + 1 \in 1 .. n + 1
    BY <1>1, <1>5
  <2>2. f.seq_num - 4 \in 1 .. Len(more) /\ Payload(f) = more[f.seq_num - 4]
    BY <1>1, <1>5, <2>1
  <2>3. f.type # TYPE_ACKONLY /\ f.type # TYPE_CLOSE_CONNECTION /\ f.type # TYPE_OPEN_CONNECTION
    BY <1>5 DEF TYPE_NORMAL, TYPE_ACKONLY, TYPE_CLOSE_CONNECTION, TYPE_OPEN_CONNECTION
  <2>4. f \in MasterFrame(more)
    BY <2>1, <2>2, <2>3 DEF MasterFrame
  <2> QED BY <2>1, <2>3, <2>4 DEF KeptOf
<1> QED BY <1>1, <1>4, <1>5 DEF more, KeptOf, OutsideOf

\* Frames sent again.
LEMMA AgainMaster ==
    ASSUME ConnInv, NEW e \in Endpoint, NEW log
    PROVE  Again(KeptOf(log), e) /\ Again(OutsideOf(log), e)
<1> DEFINE a == tloe_seqnum_prev(next_rx_seq[e])
           R(f) == [f EXCEPT !.seq_num_ack = a]
<1>1. LinkTypeOK
  BY ConnTypes
<1>2. \A f \in Frame : R(f) \in Frame
  BY <1>1, RefreshType
<1>3. ASSUME NEW f \in Frame
      PROVE  /\ R(f).type = f.type /\ R(f).seq_num = f.seq_num /\ R(f).chan = f.chan
             /\ R(f).credit = f.credit /\ R(f).tlmsg = f.tlmsg
  <2> HIDE DEF a
  <2> QED BY DEF Frame
<1>4. \A f \in Frame : Payload(R(f)) = Payload(f)
  <2> HIDE DEF R
  <2> QED BY <1>3 DEF Payload
<1> HIDE DEF R
<1>5. (\A S : (\A f \in S : R(f) \in S) => Again(S, e))
  BY DEF Again, R
<1> HIDE DEF a, Frame
<1>6. ASSUME NEW f \in MasterFrame(log) PROVE R(f) \in MasterFrame(log) /\ f \in Frame
  <2>1. f \in Frame
    BY DEF MasterFrame
  <2> QED BY <1>2, <1>3, <1>4, <2>1 DEF MasterFrame
<1>7. \A f \in KeptOf(log) : R(f) \in KeptOf(log)
  BY <1>3, <1>6 DEF KeptOf
<1>8. \A f \in OutsideOf(log) : R(f) \in OutsideOf(log)
  BY <1>3, <1>6 DEF OutsideOf, InRound
<1> QED BY <1>5, <1>7, <1>8
-------------------------------------------------------------------------------
\* What the slave receives, when the master sends.

\* The first frame stays, or a new one does not continue a round.
HeadKept(p, q) == IF q = <<>> THEN p # <<>> => ~Later(p[1]) ELSE p # <<>> /\ p[1] = q[1]

Grows(more, log) == Len(log) <= Len(more) /\ \A i \in 1 .. Len(log) : more[i] = log[i]

\* The master returns no credit and has returned none.
Silent == NothingOwed("master") /\ \A i \in 1 .. Len(txlog["master"]) : txlog["master"][i].chan = CHANNEL_0

LEMMA AppendedHead ==
    ASSUME NEW F, NEW q \in Seq(F), NEW p \in Seq(F), NEW S, Appended(p, q, S),
           \A f \in S : ~Later(f)
    PROVE  HeadKept(p, q)
<1>1. Len(q) \in Nat /\ Len(p) \in Nat
  OBVIOUS
<1>2. CASE q = <<>>
  <2> SUFFICES ASSUME p # <<>> PROVE ~Later(p[1])
    BY <1>2 DEF HeadKept
  <2>1. Len(q) = 0 /\ Len(p) >= 1
    BY <1>2
  <2>2. 1 \in (Len(q) + 1) .. Len(p)
    BY <1>1, <2>1
  <2> QED BY <2>2 DEF Appended
<1>3. CASE q # <<>>
  <2>1. Len(q) >= 1
    BY <1>3
  <2>2. 1 \in 1 .. Len(q) /\ Len(p) >= 1
    BY <1>1, <2>1 DEF Appended
  <2>3. p # <<>>
    BY <2>2
  <2> QED BY <1>3, <2>2, <2>3 DEF Appended, HeadKept
<1> QED BY <1>2, <1>3

LEMMA SameHead == \A q : HeadKept(q, q)
BY DEF HeadKept

LEMMA SameGrows ==
    ASSUME NEW log \in Seq(LogEntry)
    PROVE  Grows(log, log)
<1>1. Len(log) \in Nat
  OBVIOUS
<1> QED BY <1>1 DEF Grows

\* The slave where it was.
LEMMA ReceivesKept ==
    ASSUME ConnInv, ConnInv', SlaveReceives,
           user'["slave"] = user["slave"], connection'["slave"] = connection["slave"],
           conn_flag'["slave"] = conn_flag["slave"], rxlog'["slave"] = rxlog["slave"],
           next_rx_seq'["slave"] = next_rx_seq["slave"],
           credits'["slave"] = credits["slave"] \/ user["slave"] # "open",
           user'["master"] = "close" \/ user["master"] # "close",
           HeadKept(fabric'["slave"], fabric["slave"]),
           Grows(txlog'["master"], txlog["master"]),
           user["slave"] = "open" /\ conn_flag["slave"] /\ Silent => Silent'
    PROVE  SlaveReceives'
<1>1. ~connection'["slave"] /\ user'["slave"] \notin {"close", "last"} => rxlog'["slave"] = <<>>
  BY DEF SlaveReceives
<1>2. ASSUME user'["master"] # "close", user["slave"] = "open", conn_flag["slave"] PROVE SlaveTakes'
  <2>1. SlaveTakes
    BY <1>2 DEF SlaveReceives
  <2>2. Silent'
    BY <1>2, <2>1 DEF Silent, SlaveTakes
  <2>3. PICK n \in 1 .. 4 : SlaveGranted(n)
    BY <2>1 DEF SlaveTakes
  <2>4. \A c \in CHANNEL_A .. CHANNEL_E :
            credits'["slave"][c] = 2^(IF c <= n THEN CREDIT_DEFAULT ELSE CREDIT_INIT)
    BY <1>2, <2>3 DEF SlaveGranted
  <2>5. fabric'["slave"] # <<>> /\ Later(fabric'["slave"][1]) => fabric'["slave"][1].seq_num <= n
    BY <2>3 DEF SlaveGranted, HeadKept
  <2>6. SlaveGranted(n)'
    BY <2>4, <2>5 DEF SlaveGranted
  <2> QED BY <2>2, <2>6 DEF SlaveTakes, Silent
<1>3. ASSUME user'["master"] # "close", connection["slave"] PROVE SlaveInOrder'
  <2> DEFINE got == rxlog["slave"]
             log == txlog["master"]
             more == txlog'["master"]
  <2>1. SlaveInOrder
    BY <1>3 DEF SlaveReceives
  <2>2. /\ Len(got) \in Nat /\ Len(log) \in Nat /\ Len(more) \in Nat
    <3>1. got \in Seq(LogEntry) /\ log \in Seq(LogEntry) /\ more \in Seq(LogEntry)
      BY Ends DEF ConnInv, TypeInv, TypeOK, LinkTypeOK
    <3> QED BY <3>1
  <2>3. /\ Len(got) <= Len(log) /\ \A i \in 1 .. Len(got) : got[i] = log[i]
    BY <2>1 DEF SlaveInOrder
  <2>4. /\ Len(log) <= Len(more) /\ \A i \in 1 .. Len(log) : more[i] = log[i]
    BY DEF Grows
  <2> HIDE DEF got, log, more
  <2>5. /\ Len(got) <= Len(more) /\ \A i \in 1 .. Len(got) : got[i] = more[i]
    BY <2>2, <2>3, <2>4
  <2> QED BY <2>1, <2>5 DEF SlaveInOrder, got, more
<1> QED BY <1>1, <1>2, <1>3 DEF SlaveReceives

\* A step that neither changes what the master sends nor what the slave reads.
LEMMA CalmDelivery ==
    ASSUME ConnInv, ConnInv', DeliveryInv, losses' = losses,
           UNCHANGED <<user, connection, conn_flag["slave"], fabric["slave"], txlog["master"],
                       retransmit_buffer["master"], next_tx_seq["master"], start["master"],
                       rxlog["slave"], next_rx_seq["slave"]>>,
           credits'["slave"] = credits["slave"] \/ user["slave"] # "open",
           pc'["master"] = pc["master"] \/ pc["master"] # "tx",
           NothingOwed("master") => NothingOwed("master")'
    PROVE  DeliveryInv'
<1> SUFFICES ASSUME losses = 0 PROVE MasterSends' /\ ToSlave' /\ SlaveReceives'
  BY DEF DeliveryInv
<1>1. MasterSends /\ ToSlave /\ SlaveReceives
  BY DEF DeliveryInv
<1>2. MasterSends'
  BY <1>1 DEF MasterSends
<1>3. Speaking' <=> Speaking
  BY DEF Speaking
<1>4. ToSlave'
  BY <1>1, <1>3 DEF ToSlave, ThreadParked
<1>5. Grows(txlog'["master"], txlog["master"])
  BY SameGrows, QueueTypes, Ends
<1>6. Silent => Silent'
  BY DEF Silent
<1> QED BY <1>1, <1>2, <1>4, <1>5, <1>6, SameHead, ReceivesKept
-------------------------------------------------------------------------------
\* Steps that leave this direction alone.

LEMMA StutterDelivery ==
    ASSUME ConnInv, ConnInv', DeliveryInv, UNCHANGED allVars
    PROVE  DeliveryInv'
<1>1. UNCHANGED <<linkVars, envVars, pc, fcVars, tlVars, connVars>>
  BY DEF allVars, vars
<1>2. NothingOwed("master") => NothingOwed("master")'
  BY <1>1 DEF NothingOwed, tlVars, fcVars
<1> QED BY <1>1, <1>2, CalmDelivery DEF linkVars, seqVars, envVars, fcVars, connVars

LEMMA UserDelivery ==
    ASSUME ConnInv, ConnInv', DeliveryInv, NEW e \in Endpoint, User(e), UNCHANGED connVars
    PROVE  DeliveryInv'
<1>1. UNCHANGED <<linkVars, envVars, pc, fcVars, tlVars>>
  BY DEF User, read_memory, write_memory, create_and_enqueue_message, Submit
<1>2. NothingOwed("master") => NothingOwed("master")'
  BY <1>1 DEF NothingOwed, tlVars, fcVars
<1> QED BY <1>1, <1>2, CalmDelivery DEF linkVars, seqVars, envVars, fcVars, connVars

\* After a loss nothing is claimed.
LEMMA LoseDelivery ==
    ASSUME ConnInv, NEW e \in Endpoint, Lose(e)
    PROVE  DeliveryInv'
<1>1. losses \in Nat
  BY ConnTypes, BoundAssumption DEF LoopTypeOK
<1>2. losses' = losses + 1
  BY DEF Lose
<1> QED BY <1>1, <1>2 DEF DeliveryInv

\* Without a message to handle there is nothing to return credit for.
LEMMA HandlerDelivery ==
    ASSUME ConnInv, ConnInv', DeliveryInv, NEW e \in Endpoint, tl_handler(e),
           UNCHANGED <<user, connection, conn_flag, start>>
    PROVE  DeliveryInv'
<1> DEFINE m == Head(tl_msg_buffer[e])
           rest == Tail(tl_msg_buffer[e])
           owed == add_channel_flow_credits(tx_flow_credits[e], m.chan, tlmsg_get_flits_cnt(m))
<1>1. /\ UNCHANGED linkVars /\ UNCHANGED envVars /\ UNCHANGED credits
      /\ pc' = [pc EXCEPT ![e] = "tx"] /\ pc[e] = "tl"
      /\ \/ UNCHANGED <<tl_msg_buffer, tx_flow_credits>>
         \/ /\ tl_msg_buffer[e] # <<>>
            /\ tl_msg_buffer' = [tl_msg_buffer EXCEPT ![e] = rest]
            /\ tx_flow_credits' = [tx_flow_credits EXCEPT ![e] = owed]
  BY DEF tl_handler, TL_Skip, TLCommon, Goto, At, handle_A_PUTFULLDATA_opcode,
         handle_A_GET_opcode, handle_D_opcode, fcVars, tlVars
<1> HIDE DEF m, rest, owed
<1>2. /\ pc \in [Endpoint -> {"tx", "rx", "tl"}] /\ tl_msg_buffer \in [Endpoint -> Seq(TLMsg)]
      /\ tx_flow_credits \in [Endpoint -> [Channel -> Nat]]
  BY ConnTypes, HandshakeTypes DEF LoopTypeOK
<1>3. pc'["master"] = pc["master"] \/ pc["master"] # "tx"
  BY <1>1, <1>2, Ends
<1>4. ASSUME NothingOwed("master") PROVE NothingOwed("master")'
  <2>1. tl_msg_buffer["master"] = <<>> /\ \A c \in Channel : tx_flow_credits["master"][c] = 0
    BY <1>4 DEF NothingOwed
  <2>2. tl_msg_buffer'["master"] = tl_msg_buffer["master"]
        /\ tx_flow_credits'["master"] = tx_flow_credits["master"]
    BY <1>1, <1>2, <2>1, Ends
  <2> QED BY <2>1, <2>2 DEF NothingOwed
<1> QED BY <1>1, <1>3, <1>4, CalmDelivery DEF linkVars, seqVars, envVars

LEMMA IdleDelivery ==
    ASSUME ConnInv, ConnInv', DeliveryInv, NEW e \in Endpoint, RX_Idle(e),
           UNCHANGED <<user, connection, conn_flag, start>>
    PROVE  DeliveryInv'
<1>1. /\ UNCHANGED <<linkVars, envVars, fcVars, tlVars>>
      /\ pc' = [pc EXCEPT ![e] = "tl"] /\ pc[e] = "rx"
  BY DEF RX_Idle, Goto, At
<1>2. pc \in [Endpoint -> {"tx", "rx", "tl"}]
  BY ConnTypes DEF LoopTypeOK
<1>3. pc'["master"] = pc["master"] \/ pc["master"] # "tx"
  BY <1>1, <1>2, Ends
<1>4. NothingOwed("master") => NothingOwed("master")'
  BY <1>1 DEF NothingOwed, tlVars, fcVars
<1> QED BY <1>1, <1>3, <1>4, CalmDelivery DEF linkVars, seqVars, envVars, fcVars

\* What TX does not touch.
LEMMA TXMore ==
    ASSUME NEW e \in Endpoint, TX(e)
    PROVE  UNCHANGED <<losses, tl_msg_buffer>>
BY DEF TX, TX_Hold, TX_Message, TX_Zero, SendNormalFrame, TXCommon

LEMMA TXSlaveDelivery ==
    ASSUME ConnInv, ConnInv', SessionInv, DeliveryInv, connection["slave"], TX("slave"),
           UNCHANGED <<user, connection, conn_flag, start>>
    PROVE  DeliveryInv'
<1>1. /\ pc' = [pc EXCEPT !["slave"] = "rx"] /\ UNCHANGED <<next_rx_seq, rxlog>>
  BY TXShape, Ends
<1>2. /\ fabric'["slave"] = fabric["slave"]
      /\ retransmit_buffer'["master"] = retransmit_buffer["master"]
      /\ next_tx_seq'["master"] = next_tx_seq["master"] /\ txlog'["master"] = txlog["master"]
  BY TXParts, Ends
<1>3. UNCHANGED <<losses, tl_msg_buffer>>
  BY TXMore, Ends
<1>4. tx_flow_credits'["master"] = tx_flow_credits["master"]
  <2>1. PICK elapsed :
        \/ /\ TX_Hold("slave", elapsed)
           /\ UNCHANGED <<retransmit_buffer, next_tx_seq, txlog, tx_flow_credits>>
        \/ \E tlmsg \in TLMsg \cup {NULL} : SendNormalFrame("slave", elapsed, tlmsg)
    BY TXShape, Ends
  <2>2. ASSUME NEW tlmsg \in TLMsg \cup {NULL}, SendNormalFrame("slave", elapsed, tlmsg)
        PROVE  tx_flow_credits'["master"] = tx_flow_credits["master"]
    BY <2>2, SendShape, Ends
  <2> QED BY <2>1, <2>2
<1>5. NothingOwed("master") => NothingOwed("master")'
  BY <1>3, <1>4 DEF NothingOwed
<1>6. pc \in [Endpoint -> {"tx", "rx", "tl"}] /\ user["slave"] # "open"
  BY ConnTypes, Ends DEF LoopTypeOK, Phases
<1>7. pc'["master"] = pc["master"]
  BY <1>1, <1>6, Ends
<1> QED BY <1>1, <1>2, <1>3, <1>5, <1>6, <1>7, CalmDelivery

LEMMA ServeSlaveDelivery ==
    ASSUME ConnInv, ConnInv', DeliveryInv, serve_conn("slave")
    PROVE  DeliveryInv'
<1> DEFINE frames == OpenFrames("slave")
<1>1. /\ Serve("slave", frames)
      /\ next_tx_seq' = [next_tx_seq EXCEPT !["slave"] = CHANNEL_NUM - 1]
      /\ UNCHANGED <<pc, retransmit_buffer, next_rx_seq, txlog, rxlog, fcVars, tlVars, losses,
                     user, connection, conn_flag>>
      /\ start' = [start EXCEPT !["slave"] = "now"]
  BY DEF serve_conn, Serve
<1>2. frames \in Seq(Frame)
  BY OpenFramesFact, Ends
<1> HIDE DEF frames
<1>3. fabric'["slave"] = fabric["slave"]
  <2>1. Frame \subseteq Frame
    OBVIOUS
  <2> HIDE DEF Frame
  <2> QED BY <1>1, <1>2, <2>1, Ends, ServeFabric
<1>4. next_tx_seq'["master"] = next_tx_seq["master"] /\ start'["master"] = start["master"]
  <2>1. next_tx_seq \in [Endpoint -> SeqNum] /\ start \in [Endpoint -> {"past", "now", "future"}]
    BY HandshakeTypes, ConnTypes DEF ConnVarsOK
  <2> QED BY <1>1, <2>1, Ends
<1>5. NothingOwed("master") => NothingOwed("master")'
  BY <1>1 DEF NothingOwed, tlVars, fcVars
<1> QED BY <1>1, <1>3, <1>4, <1>5, CalmDelivery DEF fcVars

\* What a frame read by the master leaves alone, besides.
LEMMA MasterReadsMore ==
    ASSUME ConnInv, recv_conn("master", Head(fabric["master"]))
    PROVE  /\ next_rx_seq'["slave"] = next_rx_seq["slave"] /\ UNCHANGED <<losses, start>>
           /\ NothingOwed("master") => NothingOwed("master")'
<1> DEFINE f == Head(fabric["master"])
           old == tx_flow_credits["master"]
           owed == clear_flow_credit(old, f.chan)
           n == tloe_seqnum_next(f.seq_num)
<1>1. /\ \/ /\ tx_flow_credits' = [tx_flow_credits EXCEPT !["master"] = owed]
            /\ next_rx_seq' = [next_rx_seq EXCEPT !["master"] = n]
         \/ UNCHANGED <<tx_flow_credits, next_rx_seq>>
      /\ UNCHANGED <<losses, start, tl_msg_buffer>>
  BY DEF recv_conn, tlVars
<1>2. /\ next_rx_seq \in [Endpoint -> SeqNum] /\ tx_flow_credits \in [Endpoint -> [Channel -> Nat]]
      /\ old \in [Channel -> Nat]
  BY HandshakeTypes, Ends
<1>3. \A c \in Channel : old[c] = 0 => owed[c] = 0
  <2>1. owed = [old EXCEPT ![f.chan] = 0]
    BY DEF clear_flow_credit
  <2> HIDE DEF f, owed, old
  <2> QED BY <1>2, <2>1
<1> HIDE DEF f, owed, n
<1>4. next_rx_seq'["slave"] = next_rx_seq["slave"]
      /\ (tx_flow_credits'["master"] = owed \/ tx_flow_credits'["master"] = old)
  BY <1>1, <1>2, Ends
<1>5. ASSUME NothingOwed("master") PROVE NothingOwed("master")'
  <2>1. tl_msg_buffer'["master"] = <<>> /\ \A c \in Channel : old[c] = 0
    BY <1>1, <1>5 DEF NothingOwed
  <2> HIDE DEF old
  <2>2. \A c \in Channel : tx_flow_credits'["master"][c] = 0
    BY <1>3, <1>4, <2>1
  <2> QED BY <2>1, <2>2 DEF NothingOwed
<1> QED BY <1>1, <1>4, <1>5

LEMMA WaitMasterDelivery ==
    ASSUME ConnInv, ConnInv', SessionInv, DeliveryInv, fabric["master"] # <<>>,
           open_conn_wait("master", Head(fabric["master"]))
    PROVE  DeliveryInv'
<1>1. /\ recv_conn("master", Head(fabric["master"]))
      /\ fabric' = [fabric EXCEPT !["master"] = Tail(fabric["master"])]
      /\ UNCHANGED <<next_tx_seq, txlog, user, connection>>
  BY DEF open_conn_wait
<1>2. /\ UNCHANGED <<pc, retransmit_buffer, rxlog>>
      /\ conn_flag'["slave"] = conn_flag["slave"] /\ credits'["slave"] = credits["slave"]
  BY <1>1, RecvMaster
<1>3. fabric'["slave"] = fabric["slave"]
  BY <1>1, Ends, ReadFabric
<1>4. next_rx_seq'["slave"] = next_rx_seq["slave"] /\ UNCHANGED <<losses, start>>
      /\ (NothingOwed("master") => NothingOwed("master")')
  BY <1>1, MasterReadsMore
<1> QED BY <1>1, <1>2, <1>3, <1>4, CalmDelivery
-------------------------------------------------------------------------------
\* Closing.

\* A master that closes: what counts is that its CLOSE frames stay last.
LEMMA ClosingDelivery ==
    ASSUME ConnInv', user'["master"] = "close",
           ~connection'["slave"] /\ user'["slave"] \notin {"close", "last"} =>
               rxlog'["slave"] = <<>>,
           ClosesLast(fabric'["slave"]),
           ~Speaking' \/ (user'["slave"] = "close" /\ conn_flag'["slave"]) =>
               fabric'["slave"] \in Seq(CloseFrames) /\ ThreadParked("master")',
           ~ThreadParked("master")' =>
               fabric'["slave"] \in Seq(Without(TYPE_CLOSE_CONNECTION))
    PROVE  DeliveryInv'
<1>1. Phases'
  BY ConnTypes DEF ConnInv
<1>2. ~connection'["master"]
  BY <1>1, Ends DEF Phases
<1>3. MasterSends' /\ ToSlave' /\ SlaveReceives'
  BY <1>2 DEF MasterSends, ToSlave, SlaveReceives
<1> QED BY <1>3 DEF DeliveryInv

LEMMA ServeCloseMasterDelivery ==
    ASSUME Prompt, ConnInv, ConnInv', SessionInv, DeliveryInv, losses = 0,
           serve_close_conn("master")
    PROVE  DeliveryInv'
<1> DEFINE T == CloseFrames
           f == CloseFrame("master")
           frames == <<f>>
           q == fabric["slave"]
           p == fabric'["slave"]
<1>1. /\ user["master"] = "close" /\ Serve("master", frames) /\ ThreadParked("master")
      /\ user' = [user EXCEPT !["master"] = "close"]
      /\ UNCHANGED linkVars /\ UNCHANGED <<pc, connection, conn_flag>>
  BY DEF serve_close_conn, UserIn, CloseMayProceed
<1>2. UNCHANGED <<pc, rxlog, connection, conn_flag>>
  BY <1>1 DEF linkVars
<1>3. user' = user
  BY <1>1, ConnTypes DEF ConnVarsOK
<1>4. frames \in Seq(T) /\ T \subseteq Frame /\ \A x \in T : x.type = TYPE_CLOSE_CONNECTION
  <2>1. f \in T /\ T \subseteq Frame /\ \A x \in T : x.type = TYPE_CLOSE_CONNECTION
    BY CloseFrameFact, Ends DEF CloseFrames
  <2> HIDE DEF f, T
  <2> QED BY <2>1
<1> HIDE DEF T, frames
<1>5. Follows(p, q, T)
  BY <1>1, <1>4, Ends, ServeFabric
<1>6. p \in Seq(Frame) /\ q \in Seq(Frame)
  BY FabricTypes
<1>7. /\ ClosesLast(q)
      /\ ~Speaking \/ (user["slave"] = "close" /\ conn_flag["slave"]) => q \in Seq(CloseFrames)
  BY <1>1 DEF DeliveryInv, ToSlave
<1>8. Speaking' <=> Speaking
  BY <1>2, <1>3 DEF Speaking
<1> HIDE DEF p, q, Frame
<1>9. ClosesLast(p)
  BY <1>4, <1>5, <1>6, <1>7, FollowsCloses
<1>10. q \in Seq(T) => p \in Seq(T)
  BY <1>5, <1>6, FollowsOver
<1>11. ~Speaking' \/ (user'["slave"] = "close" /\ conn_flag'["slave"]) => p \in Seq(CloseFrames)
  BY <1>2, <1>3, <1>7, <1>8, <1>10 DEF T
<1>12. ThreadParked("master")'
  BY <1>1, <1>2 DEF ThreadParked
<1>13. ~connection'["slave"] /\ user'["slave"] \notin {"close", "last"} => rxlog'["slave"] = <<>>
  BY <1>2, <1>3 DEF DeliveryInv, SlaveReceives
<1>14. user'["master"] = "close"
  BY <1>1, <1>3
<1> QED BY <1>9, <1>11, <1>12, <1>13, <1>14, ClosingDelivery DEF p

LEMMA ServeCloseSlaveDelivery ==
    ASSUME ConnInv, ConnInv', SessionInv, DeliveryInv, losses = 0, serve_close_conn("slave")
    PROVE  DeliveryInv'
<1> DEFINE f == CloseFrame("slave")
<1>1. /\ user["slave"] = "close" /\ conn_flag["slave"] /\ Serve("slave", <<f>>)
      /\ user' = [user EXCEPT !["slave"] = "last"]
      /\ UNCHANGED pc
  BY DEF serve_close_conn, UserIn, Serve, MaySpeak
<1>2. /\ user'["slave"] = "last" /\ user'["master"] = user["master"]
  BY <1>1, ConnTypes, Ends DEF ConnVarsOK
<1>3. Speaking /\ Turns
  BY <1>1, SessionParts DEF Speaking
<1>4. user["master"] = "close"
  BY <1>1, <1>3 DEF Turns
<1>5. fabric["slave"] \in Seq(CloseFrames) /\ ThreadParked("master") /\ ClosesLast(fabric["slave"])
  BY <1>1, <1>4 DEF DeliveryInv, ToSlave
<1>6. fabric'["slave"] = fabric["slave"]
  <2>1. f \in Frame
    BY CloseFrameFact, Ends
  <2>2. <<f>> \in Seq(Frame) /\ Frame \subseteq Frame
    <3> HIDE DEF f, Frame
    <3> QED BY <2>1
  <2> HIDE DEF f, Frame
  <2> QED BY <1>1, <2>2, Ends, ServeFabric
<1>7. ThreadParked("master")'
  BY <1>1, <1>5 DEF ThreadParked
<1> QED BY <1>2, <1>4, <1>5, <1>6, <1>7, ClosingDelivery

LEMMA RecvCloseMasterDelivery ==
    ASSUME ConnInv, ConnInv', DeliveryInv, fabric["master"] # <<>>,
           recv_close_conn("master", Head(fabric["master"]))
    PROVE  DeliveryInv'
<1> DEFINE f == Head(fabric["master"])
           flag == f.type = TYPE_CLOSE_CONNECTION
           n == tloe_seqnum_next(f.seq_num)
<1>1. /\ fabric' = [fabric EXCEPT !["master"] = Tail(fabric["master"])]
      /\ conn_flag' = [conn_flag EXCEPT !["master"] = flag]
      /\ \/ next_rx_seq' = [next_rx_seq EXCEPT !["master"] = n]
         \/ UNCHANGED next_rx_seq
      /\ UNCHANGED <<pc, retransmit_buffer, next_tx_seq, txlog, rxlog, user, connection, losses,
                     start, credits, tx_flow_credits, tl_msg_buffer>>
  BY DEF recv_close_conn, fcVars, tlVars
<1> HIDE DEF f, flag, n
<1>2. conn_flag'["slave"] = conn_flag["slave"] /\ next_rx_seq'["slave"] = next_rx_seq["slave"]
  <2>1. next_rx_seq \in [Endpoint -> SeqNum] /\ conn_flag \in [Endpoint -> BOOLEAN]
    BY HandshakeTypes, ConnTypes DEF ConnVarsOK
  <2> QED BY <1>1, <2>1, Ends
<1>3. fabric'["slave"] = fabric["slave"]
  BY <1>1, Ends, ReadFabric
<1>4. NothingOwed("master") => NothingOwed("master")'
  BY <1>1 DEF NothingOwed
<1> QED BY <1>1, <1>2, <1>3, <1>4, CalmDelivery

\* The slave has said nothing yet, has ended, or knows that the master closes.
Through == ~Speaking \/ (user["slave"] = "close" /\ conn_flag["slave"])

\* A frame is read by the slave.
LEMMA ReadToSlave ==
    ASSUME ConnInv, ConnInv', ToSlave, fabric["slave"] # <<>>,
           fabric'["slave"] = Tail(fabric["slave"]),
           user'["master"] = user["master"], txlog'["master"] = txlog["master"],
           pc'["master"] = pc["master"],
           Through' => Through \/ Head(fabric["slave"]).type = TYPE_CLOSE_CONNECTION
    PROVE  ToSlave'
<1> DEFINE q == fabric["slave"]
           p == Tail(q)
           F == MasterFrame(txlog["master"]) \cup CloseFrames
           T == Without(TYPE_CLOSE_CONNECTION)
<1>1. q \in Seq(Frame) /\ p \in Seq(Frame) /\ q # <<>>
  BY FabricTypes
<1>2. Follows(p, q, {}) /\ Head(q) = q[1] /\ 1 \in 1 .. Len(q)
  <2> HIDE DEF q, p, Frame
  <2>1. Follows(Tail(q), q, {})
    BY <1>1, FollowsTail
  <2>2. Head(q) = q[1] /\ 1 \in 1 .. Len(q)
    BY <1>1
  <2> QED BY <2>1, <2>2 DEF p
<1>3. ASSUME user["master"] # "close" PROVE p \in Seq(F) /\ Chained(p)
  <2>1. q \in Seq(F) /\ Chained(q)
    BY <1>3 DEF ToSlave
  <2> HIDE DEF q, F, Frame
  <2>2. p \in Seq(F)
    BY <1>1, <2>1
  <2> QED BY <1>1, <2>1, <2>2, TailChained
<1>4. ASSUME user["master"] = "close"
      PROVE  /\ ClosesLast(p)
             /\ Through' => p \in Seq(CloseFrames) /\ ThreadParked("master")
             /\ ~ThreadParked("master") => p \in Seq(T)
  <2>1. /\ ClosesLast(q)
        /\ Through => q \in Seq(CloseFrames) /\ ThreadParked("master")
        /\ ~ThreadParked("master") => q \in Seq(T)
    BY <1>4 DEF ToSlave, Through
  <2> HIDE DEF Frame
  <2>2. ClosesLast(p)
    <3> HIDE DEF p, q
    <3>1. \A f \in {} : f.type = TYPE_CLOSE_CONNECTION
      OBVIOUS
    <3> QED BY <1>1, <1>2, <2>1, <3>1, FollowsCloses
  <2>3. ~ThreadParked("master") => p \in Seq(T)
    <3> HIDE DEF q, T
    <3> QED BY <1>1, <2>1
  <2>4. ASSUME Through PROVE p \in Seq(CloseFrames) /\ ThreadParked("master")
    <3>1. q \in Seq(CloseFrames) /\ ThreadParked("master") /\ q # <<>>
      BY <1>1, <2>1, <2>4
    <3> HIDE DEF q, CloseFrames
    <3> QED BY <3>1
  <2>5. ASSUME Head(q).type = TYPE_CLOSE_CONNECTION
        PROVE  p \in Seq(CloseFrames) /\ ThreadParked("master")
    <3> HIDE DEF q, T
    <3>1. ~(q \in Seq(T))
      BY <1>2, <2>5, HeadOther DEF T
    <3> QED BY <1>1, <2>1, <2>5, <3>1, ClosesTail
  <2> QED BY <2>2, <2>3, <2>4, <2>5
<1>5. ThreadParked("master")' <=> ThreadParked("master")
  BY DEF ThreadParked
<1> HIDE DEF q
<1>6. fabric'["slave"] = p /\ (MasterFrame(txlog["master"]) \cup CloseFrames)' = F
  BY DEF q, MasterFrame, CloseFrames
<1> HIDE DEF p, F
<1> QED BY <1>3, <1>4, <1>5, <1>6 DEF ToSlave, Through, T

\* What is on its way to the slave, when nothing happens to it.
LEMMA SameToSlave ==
    ASSUME ToSlave, fabric'["slave"] = fabric["slave"], user'["master"] = user["master"],
           txlog'["master"] = txlog["master"], pc'["master"] = pc["master"],
           Through' => Through
    PROVE  ToSlave'
BY DEF ToSlave, Through, ThreadParked

LEMMA RecvCloseSlaveDelivery ==
    ASSUME ConnInv, ConnInv', DeliveryInv, losses = 0, fabric["slave"] # <<>>,
           recv_close_conn("slave", Head(fabric["slave"]))
    PROVE  DeliveryInv'
<1> DEFINE f == Head(fabric["slave"])
           flag == f.type = TYPE_CLOSE_CONNECTION
<1>1. /\ fabric' = [fabric EXCEPT !["slave"] = Tail(fabric["slave"])]
      /\ conn_flag' = [conn_flag EXCEPT !["slave"] = flag]
      /\ UNCHANGED <<pc, retransmit_buffer, next_tx_seq, txlog, rxlog, user, connection, losses,
                     start, credits, tx_flow_credits, tl_msg_buffer>>
      /\ user["slave"] = "close"
  BY DEF recv_close_conn, fcVars, tlVars, UserIn
<1>2. conn_flag'["slave"] = flag
  <2>1. conn_flag \in [Endpoint -> BOOLEAN]
    BY ConnTypes DEF ConnVarsOK
  <2> HIDE DEF flag
  <2> QED BY <1>1, <2>1, Ends
<1>3. fabric'["slave"] = Tail(fabric["slave"])
  BY <1>1, Ends, ReadFabric
<1>4. MasterSends /\ ToSlave /\ SlaveReceives
  BY DEF DeliveryInv
<1>5. MasterSends'
  BY <1>1, <1>4 DEF MasterSends, NothingOwed
<1>6. Through' => flag
  BY <1>1, <1>2 DEF Through, Speaking
<1>7. ToSlave'
  BY <1>1, <1>3, <1>4, <1>6, ReadToSlave
<1>8. ~connection["slave"]
  BY <1>1, ConnTypes, Ends DEF Phases
<1>9. SlaveReceives'
  BY <1>1, <1>8 DEF SlaveReceives
<1> QED BY <1>5, <1>7, <1>9 DEF DeliveryInv

\* What else tloe_endpoint_init does.
LEMMA ResetMore ==
    ASSUME ConnInv, NEW e \in Endpoint, tloe_endpoint_init(e)
    PROVE  /\ tl_msg_buffer'[e] = <<>> /\ txlog'[e] = <<>>
           /\ \A x \in Endpoint \ {e} : tl_msg_buffer'[x] = tl_msg_buffer[x]
           /\ UNCHANGED <<losses, start>>
<1>1. /\ tl_msg_buffer' = [tl_msg_buffer EXCEPT ![e] = <<>>]
      /\ txlog' = [txlog EXCEPT ![e] = <<>>]
      /\ UNCHANGED <<losses, start>>
  BY DEF tloe_endpoint_init, ResetQueues
<1>2. tl_msg_buffer \in [Endpoint -> Seq(TLMsg)] /\ txlog \in [Endpoint -> Seq(LogEntry)]
  BY ConnTypes, HandshakeTypes DEF LoopTypeOK
<1> QED BY <1>1, <1>2

LEMMA CloseMasterDelivery ==
    ASSUME ConnInv, ConnInv', SessionInv, DeliveryInv, losses = 0, fabric["master"] # <<>>,
           close_conn_master(Head(fabric["master"]))
    PROVE  DeliveryInv'
<1> DEFINE q == fabric["master"]
<1>1. /\ user["master"] = "close" /\ Head(q).type = TYPE_CLOSE_CONNECTION
      /\ fabric' = [fabric EXCEPT !["master"] = Tail(q)]
      /\ tloe_endpoint_init("master")
  BY DEF close_conn_master, UserIn
<1>2. /\ user'["master"] = "idle" /\ retransmit_buffer'["master"] = <<>>
      /\ tx_flow_credits'["master"] = [c \in Channel |-> 0]
      /\ user'["slave"] = user["slave"] /\ rxlog'["slave"] = rxlog["slave"]
      /\ UNCHANGED <<pc, connection, conn_flag>>
  BY <1>1, Ends, ResetFact
<1>3. tl_msg_buffer'["master"] = <<>> /\ txlog'["master"] = <<>>
  BY <1>1, Ends, ResetMore
<1>4. /\ fabric'["slave"] = fabric["slave"]
      /\ Head(q) = q[1] /\ 1 \in 1 .. Len(q)
  BY <1>1, Ends, ReadFabric
<1>5. ~Speaking
  <2> SUFFICES ASSUME Speaking PROVE FALSE
    OBVIOUS
  <2>1. q \in Seq(Without(TYPE_CLOSE_CONNECTION))
    BY SessionParts DEF Turns
  <2> HIDE DEF q
  <2> QED BY <1>1, <1>4, <2>1, HeadOther
<1>6. ToSlave /\ SlaveReceives
  BY DEF DeliveryInv
<1>7. fabric["slave"] \in Seq(CloseFrames)
  BY <1>1, <1>5, <1>6 DEF ToSlave
<1>8. ~connection["master"]
  BY <1>1, ConnTypes, Ends DEF Phases
<1>9. NothingOwed("master")'
  <2>1. \A c \in Channel : tx_flow_credits'["master"][c] = 0
    BY <1>2
  <2> QED BY <1>3, <2>1 DEF NothingOwed
<1>10. MasterSends'
  BY <1>2, <1>3, <1>8, <1>9 DEF MasterSends
<1>11. ToSlave'
  <2> DEFINE F == MasterFrame(txlog'["master"]) \cup CloseFrames
             r == fabric["slave"]
  <2>1. Chained(r) /\ r \in Seq(Frame)
    BY <1>7, OnlyCloses
  <2>2. r \in Seq(F)
    <3>1. CloseFrames \subseteq F /\ r \in Seq(CloseFrames)
      BY <1>7
    <3> HIDE DEF F, r, CloseFrames
    <3> QED BY <3>1, SeqWider
  <2>3. (MasterFrame(txlog["master"]) \cup CloseFrames)' = F
    BY DEF MasterFrame, CloseFrames
  <2> HIDE DEF F
  <2> QED BY <1>2, <1>4, <2>1, <2>2, <2>3 DEF ToSlave
<1>12. SlaveReceives'
  BY <1>2, <1>5, <1>6 DEF SlaveReceives, Speaking
<1> QED BY <1>10, <1>11, <1>12 DEF DeliveryInv

LEMMA CloseSlaveDelivery ==
    ASSUME ConnInv, ConnInv', DeliveryInv, losses = 0, close_conn_slave
    PROVE  DeliveryInv'
<1> DEFINE q == fabric["slave"]
           p == fabric'["slave"]
<1>1. /\ user["slave"] = "last"
      /\ fabric' = [fabric EXCEPT !["slave"] = IF q = <<>> THEN q ELSE Tail(q)]
      /\ tloe_endpoint_init("slave")
  BY DEF close_conn_slave, UserIn
<1>2. /\ user'["slave"] = "idle" /\ rxlog'["slave"] = <<>>
      /\ user'["master"] = user["master"] /\ retransmit_buffer'["master"] = retransmit_buffer["master"]
      /\ next_tx_seq'["master"] = next_tx_seq["master"] /\ txlog'["master"] = txlog["master"]
      /\ tx_flow_credits'["master"] = tx_flow_credits["master"]
      /\ UNCHANGED <<pc, connection, conn_flag>>
  BY <1>1, Ends, ResetFact
<1>3. tl_msg_buffer'["master"] = tl_msg_buffer["master"] /\ UNCHANGED <<losses, start>>
  BY <1>1, Ends, ResetMore
<1>4. MasterSends /\ ToSlave /\ SlaveReceives
  BY DEF DeliveryInv
<1>5. MasterSends'
  BY <1>2, <1>3, <1>4 DEF MasterSends, NothingOwed
<1>6. ~connection["slave"] /\ Through
  BY <1>1, ConnTypes, Ends DEF Phases, Through, Speaking
<1>7. ToSlave'
  <2>1. CASE q = <<>>
    <3>1. fabric' = [fabric EXCEPT !["slave"] = q] /\ fabric \in [Endpoint -> Seq(LowFrame)]
      BY <1>1, <2>1, HandshakeTypes
    <3>2. fabric' = fabric
      BY <3>1, Ends
    <3> QED BY <1>2, <1>4, <1>6, <3>2, SameToSlave
  <2>2. CASE q # <<>>
    <3>1. fabric' = [fabric EXCEPT !["slave"] = Tail(fabric["slave"])] /\ fabric["slave"] # <<>>
      BY <1>1, <2>2
    <3>2. fabric'["slave"] = Tail(fabric["slave"])
      BY <3>1, Ends, ReadFabric
    <3> QED BY <1>2, <1>4, <1>6, <3>1, <3>2, ReadToSlave
  <2> QED BY <2>1, <2>2
<1>8. SlaveReceives'
  BY <1>2, <1>6 DEF SlaveReceives
<1> QED BY <1>5, <1>7, <1>8 DEF DeliveryInv
-------------------------------------------------------------------------------
\* The commands.

LEMMA CommandMore ==
    ASSUME UNCHANGED vars
    PROVE  /\ UNCHANGED <<losses, fabric, pc, txlog, rxlog, retransmit_buffer, next_tx_seq>>
           /\ (NothingOwed("master")' <=> NothingOwed("master")) /\ (SlaveTakes' <=> SlaveTakes)
           /\ (SlaveInOrder' <=> SlaveInOrder)
<1>1. UNCHANGED <<losses, fabric, pc, txlog, rxlog, retransmit_buffer, next_tx_seq, next_rx_seq,
                  credits, tx_flow_credits, tl_msg_buffer>>
  BY DEF vars, linkVars, seqVars, envVars, fcVars, tlVars
<1>2. NothingOwed("master")' <=> NothingOwed("master")
  BY <1>1 DEF NothingOwed
<1>3. \A n \in 1 .. 4 : SlaveGranted(n)' <=> SlaveGranted(n)
  BY <1>1 DEF SlaveGranted
<1>4. SlaveTakes' <=> SlaveTakes
  BY <1>1, <1>2, <1>3 DEF SlaveTakes
<1>5. SlaveInOrder' <=> SlaveInOrder
  BY <1>1 DEF SlaveInOrder
<1> QED BY <1>1, <1>2, <1>4, <1>5

LEMMA OpenCommandDelivery ==
    ASSUME ConnInv, ConnInv', DeliveryInv, losses = 0, NEW e \in Endpoint, open_conn(e)
    PROVE  DeliveryInv'
<1>1. /\ UNCHANGED vars /\ user[e] = "idle" /\ ~connection[e] /\ UNCHANGED connection
      /\ user' = [user EXCEPT ![e] = "open"]
      /\ conn_flag' = [conn_flag EXCEPT ![e] = FALSE]
      /\ \E s : start' = [start EXCEPT ![e] = s]
      /\ e = "master" => start' = [start EXCEPT ![e] = "past"]
  BY DEF open_conn, UserIn
<1>2. /\ user \in [Endpoint -> {"idle", "open", "close", "last", "quit"}]
      /\ conn_flag \in [Endpoint -> BOOLEAN] /\ start \in [Endpoint -> {"past", "now", "future"}]
  BY ConnTypes DEF ConnVarsOK
<1>3. /\ UNCHANGED <<losses, fabric, pc, txlog, rxlog, retransmit_buffer, next_tx_seq>>
      /\ (NothingOwed("master")' <=> NothingOwed("master")) /\ (SlaveTakes' <=> SlaveTakes)
      /\ (SlaveInOrder' <=> SlaveInOrder)
  BY <1>1, CommandMore
<1>4. MasterSends /\ ToSlave /\ SlaveReceives
  BY DEF DeliveryInv
<1>5. CASE e = "master"
  <2>1. /\ user'["master"] = "open" /\ user'["slave"] = user["slave"] /\ start'["master"] = "past"
        /\ conn_flag'["slave"] = conn_flag["slave"]
    BY <1>1, <1>2, <1>5, Ends
  <2>2. MasterSends'
    BY <1>1, <1>3, <1>4, <1>5, <2>1 DEF MasterSends
  <2>3. ToSlave'
    BY <1>1, <1>3, <1>4, <1>5, <2>1 DEF ToSlave
  <2>4. SlaveReceives'
    BY <1>1, <1>3, <1>4, <1>5, <2>1 DEF SlaveReceives
  <2> QED BY <2>2, <2>3, <2>4 DEF DeliveryInv
<1>6. CASE e = "slave"
  <2>1. /\ user'["slave"] = "open" /\ user'["master"] = user["master"] /\ ~conn_flag'["slave"]
        /\ start'["master"] = start["master"]
    BY <1>1, <1>2, <1>6, Ends
  <2>2. MasterSends'
    BY <1>1, <1>3, <1>4, <2>1 DEF MasterSends
  <2>3. Through
    BY <1>1, <1>6 DEF Through, Speaking
  <2>4. ToSlave'
    BY <1>3, <1>4, <2>1, <2>3, SameToSlave
  <2>5. SlaveReceives'
    BY <1>1, <1>3, <1>4, <1>6, <2>1 DEF SlaveReceives
  <2> QED BY <2>2, <2>4, <2>5 DEF DeliveryInv
<1> QED BY <1>5, <1>6, Ends

LEMMA CloseCommandDelivery ==
    ASSUME ConnInv, ConnInv', SessionInv, DeliveryInv, losses = 0, NEW e \in Endpoint, close_conn(e)
    PROVE  DeliveryInv'
<1>1. /\ UNCHANGED vars /\ user[e] = "idle" /\ connection[e]
      /\ user' = [user EXCEPT ![e] = "close"]
      /\ connection' = [connection EXCEPT ![e] = FALSE]
      /\ conn_flag' = [conn_flag EXCEPT ![e] = FALSE]
      /\ start' = [start EXCEPT ![e] = "past"]
  BY DEF close_conn, UserIn
<1>2. /\ user \in [Endpoint -> {"idle", "open", "close", "last", "quit"}]
      /\ connection \in [Endpoint -> BOOLEAN]
      /\ conn_flag \in [Endpoint -> BOOLEAN] /\ start \in [Endpoint -> {"past", "now", "future"}]
  BY ConnTypes DEF ConnVarsOK
<1>3. /\ UNCHANGED <<losses, fabric, pc, txlog, rxlog, retransmit_buffer, next_tx_seq>>
      /\ (NothingOwed("master")' <=> NothingOwed("master"))
  BY <1>1, CommandMore
<1>4. MasterSends /\ ToSlave /\ SlaveReceives /\ Turns
  BY SessionParts DEF DeliveryInv
<1>5. CASE e = "master"
  <2>1. /\ user'["master"] = "close" /\ user'["slave"] = user["slave"]
        /\ conn_flag'["slave"] = conn_flag["slave"] /\ connection'["slave"] = connection["slave"]
    BY <1>1, <1>2, <1>5, Ends
  <2>2. Speaking
    BY <1>1, <1>4, <1>5 DEF Turns
  <2>3. fabric["slave"] \in Seq(Without(TYPE_CLOSE_CONNECTION))
    BY <1>1, <1>4, <1>5, <2>2 DEF Turns
  <2>4. ClosesLast(fabric["slave"])
    BY <2>3, NoCloses
  <2>5. ~(user["slave"] = "close" /\ conn_flag["slave"])
    BY <1>1, <1>4, <1>5, <2>2 DEF Turns
  <2>6. Speaking'
    BY <2>1, <2>2 DEF Speaking
  <2>7. ~connection'["slave"] /\ user'["slave"] \notin {"close", "last"} => rxlog'["slave"] = <<>>
    BY <1>3, <1>4, <2>1 DEF SlaveReceives
  <2> QED BY <1>3, <2>1, <2>3, <2>4, <2>5, <2>6, <2>7, ClosingDelivery
<1>6. CASE e = "slave"
  <2>1. /\ user'["slave"] = "close" /\ user'["master"] = user["master"] /\ ~conn_flag'["slave"]
        /\ start'["master"] = start["master"] /\ ~connection'["slave"]
        /\ connection'["master"] = connection["master"]
    BY <1>1, <1>2, <1>6, Ends
  <2>2. MasterSends'
    BY <1>3, <1>4, <2>1 DEF MasterSends
  <2>3. ~Through'
    BY <2>1 DEF Through, Speaking
  <2>4. ToSlave'
    BY <1>3, <1>4, <2>1, <2>3, SameToSlave
  <2>5. SlaveReceives'
    BY <2>1 DEF SlaveReceives
  <2> QED BY <2>2, <2>4, <2>5 DEF DeliveryInv
<1> QED BY <1>5, <1>6, Ends

LEMMA QuitDelivery ==
    ASSUME ConnInv, ConnInv', DeliveryInv, losses = 0, NEW e \in Endpoint, quit(e)
    PROVE  DeliveryInv'
<1>1. /\ UNCHANGED vars /\ user[e] = "idle" /\ UNCHANGED <<connection, conn_flag, start>>
      /\ user' = [user EXCEPT ![e] = "quit"]
  BY DEF quit, UserIn
<1>2. user \in [Endpoint -> {"idle", "open", "close", "last", "quit"}]
  BY ConnTypes DEF ConnVarsOK
<1>3. \A x \in Endpoint : user'[x] = user[x] \/ (user[x] = "idle" /\ user'[x] = "quit")
  BY <1>1, <1>2
<1>4. /\ \/ user'["master"] = user["master"]
         \/ user["master"] = "idle" /\ user'["master"] = "quit"
      /\ \/ user'["slave"] = user["slave"]
         \/ user["slave"] = "idle" /\ user'["slave"] = "quit"
  BY <1>3, Ends
<1>5. /\ UNCHANGED <<losses, fabric, pc, txlog, rxlog, retransmit_buffer, next_tx_seq>>
      /\ (NothingOwed("master")' <=> NothingOwed("master")) /\ (SlaveTakes' <=> SlaveTakes)
      /\ (SlaveInOrder' <=> SlaveInOrder)
  BY <1>1, CommandMore
<1>6. MasterSends /\ ToSlave /\ SlaveReceives
  BY DEF DeliveryInv
<1>7. MasterSends'
  BY <1>1, <1>4, <1>5, <1>6 DEF MasterSends
<1>8. Speaking' <=> Speaking
  BY <1>1, <1>4 DEF Speaking
<1>9. ToSlave'
  BY <1>1, <1>4, <1>5, <1>6, <1>8 DEF ToSlave, ThreadParked
<1>10. SlaveReceives'
  BY <1>1, <1>4, <1>5, <1>6 DEF SlaveReceives
<1> QED BY <1>7, <1>9, <1>10 DEF DeliveryInv
-------------------------------------------------------------------------------
\* Opening, at the master.

\* The handshake consists of frames of the master's connection.
LEMMA MasterHandshake ==
    ASSUME ConnInv, NEW log
    PROVE  OpenFrames("master") \in Seq(MasterFrame(log))
<1> DEFINE frames == OpenFrames("master")
           T == MasterFrame(log)
<1>1. /\ frames \in Seq(Frame) /\ Len(frames) = 5
      /\ \A i \in 1 .. 5 :
           /\ frames[i].type = IF i = 1 THEN TYPE_OPEN_CONNECTION ELSE TYPE_NORMAL
           /\ frames[i].seq_num = i - 1 /\ frames[i].chan = i /\ frames[i].credit = CREDIT_DEFAULT
  BY Ends, OpenFramesFact
<1> HIDE DEF frames
<1>2. frames \in Seq(Frame)
  BY <1>1
<1>3. ASSUME NEW i \in 1 .. Len(frames) PROVE frames[i] \in T
  <2>1. frames[i] \in Frame
    <3> HIDE DEF Frame
    <3> QED BY <1>2
  <2>2. /\ frames[i].type = IF i = 1 THEN TYPE_OPEN_CONNECTION ELSE TYPE_NORMAL
        /\ frames[i].seq_num = i - 1 /\ frames[i].chan = i /\ frames[i].credit = CREDIT_DEFAULT
        /\ i \in 1 .. 5
    BY <1>1
  <2>3. /\ frames[i].type # TYPE_CLOSE_CONNECTION /\ frames[i].type # TYPE_ACKONLY
        /\ frames[i].type = TYPE_OPEN_CONNECTION => i = 1
    BY <2>2 DEF TYPE_OPEN_CONNECTION, TYPE_NORMAL, TYPE_CLOSE_CONNECTION, TYPE_ACKONLY
  <2>4. /\ frames[i].type = TYPE_OPEN_CONNECTION => frames[i].seq_num = 0
        /\ frames[i].chan = frames[i].seq_num + 1 /\ ~(frames[i].seq_num >= 5)
    BY <2>2, <2>3
  <2> QED BY <2>1, <2>2, <2>3, <2>4 DEF MasterFrame
<1> HIDE DEF T, Frame
<1>4. frames \in Seq(T)
  BY <1>2, <1>3, SeqOver
<1> QED BY <1>4 DEF frames, T

\* The first frame of a round continues nothing.
LEMMA RoundHead ==
    ASSUME ConnInv, NEW q \in Seq(Frame), Len(q) <= FABRIC_BUF, NEW p \in Seq(Frame),
           p = Carry(q, OpenFrames("master"))
    PROVE  HeadKept(p, q)
<1> DEFINE frames == OpenFrames("master")
<1>1. frames \in Seq(Frame) /\ frames[1].seq_num = 0
  <2>1. /\ frames \in Seq(Frame) /\ \A i \in 1 .. 5 : frames[i].seq_num = i - 1
    BY OpenFramesFact, Ends
  <2>2. frames[1].seq_num = 1 - 1
    BY <2>1
  <2> QED BY <2>1, <2>2
<1> HIDE DEF frames, Frame
<1>2. /\ Len(q) \in Nat /\ Len(p) \in Nat /\ Len(q) <= Len(p)
      /\ \A i \in 1 .. Len(p) : p[i] = IF i <= Len(q) THEN q[i] ELSE frames[i - Len(q)]
  <2>1. frames \in Seq(Frame) /\ q \in Seq(Frame) /\ Len(q) <= FABRIC_BUF /\ p = Carry(q, frames)
    BY <1>1 DEF frames
  <2> QED BY ONLY <2>1, CarryFact
<1>3. CASE q = <<>>
  <2> SUFFICES ASSUME p # <<>> PROVE ~Later(p[1])
    BY <1>3 DEF HeadKept
  <2>1. Len(q) = 0
    BY <1>3
  <2>2. Len(p) # 0
    OBVIOUS
  <2>3. 1 \in 1 .. Len(p) /\ ~(1 <= Len(q)) /\ 1 - Len(q) = 1
    BY <1>2, <2>1, <2>2
  <2>4. p[1] = frames[1]
    BY <1>2, <2>3
  <2> QED BY <1>1, <2>4 DEF Later
<1>4. CASE q # <<>>
  <2>1. Len(q) >= 1
    BY <1>4
  <2>2. 1 \in 1 .. Len(p) /\ 1 <= Len(q) /\ Len(p) # 0
    BY <1>2, <2>1
  <2>3. p[1] = q[1] /\ p # <<>>
    BY <1>2, <2>2
  <2> QED BY <1>4, <2>3 DEF HeadKept
<1> QED BY <1>3, <1>4

LEMMA ServeMasterDelivery ==
    ASSUME ConnInv, ConnInv', DeliveryInv, losses = 0, serve_conn("master")
    PROVE  DeliveryInv'
<1> DEFINE frames == OpenFrames("master")
           q == fabric["slave"]
           p == fabric'["slave"]
           M == MasterFrame(txlog["master"])
           F == M \cup CloseFrames
<1>1. /\ user["master"] = "open" /\ Serve("master", frames)
      /\ next_tx_seq' = [next_tx_seq EXCEPT !["master"] = CHANNEL_NUM - 1]
      /\ UNCHANGED <<pc, retransmit_buffer, next_rx_seq, txlog, rxlog, user, connection, conn_flag,
                     credits, tx_flow_credits, tl_msg_buffer, losses>>
  BY DEF serve_conn, UserIn, fcVars, tlVars
<1>2. next_tx_seq'["master"] = 5
  <2>1. CHANNEL_NUM - 1 = 5
    BY DEF CHANNEL_NUM
  <2> QED BY <1>1, <2>1, HandshakeTypes, Ends
<1>3. frames \in Seq(M)
  BY MasterHandshake
<1>4. M \subseteq Frame /\ M \subseteq F
  BY FrameKinds
<1> HIDE DEF M, frames
<1>5. Follows(p, q, M) /\ p = Carry(q, frames)
  BY <1>1, <1>3, <1>4, Ends, ServeFabric
<1>6. MasterSends /\ ToSlave /\ SlaveReceives
  BY DEF DeliveryInv
<1>7. p \in Seq(Frame) /\ q \in Seq(Frame) /\ Len(q) <= FABRIC_BUF
  BY FabricTypes, QueueTypes, Ends
<1>8. ~connection["master"]
  BY <1>1, ConnTypes, Ends DEF Phases
<1>9. NothingOwed("master")' <=> NothingOwed("master")
  BY <1>1 DEF NothingOwed
<1>10. MasterSends'
  BY <1>1, <1>2, <1>6, <1>8, <1>9 DEF MasterSends
<1>11. q \in Seq(F) /\ Chained(q)
  BY <1>1, <1>6 DEF ToSlave, M
<1> HIDE DEF p, q, F, Frame
<1>12. p \in Seq(F)
  BY <1>4, <1>5, <1>7, <1>11, FollowsOver
<1>13. Chained(p) /\ HeadKept(p, q)
  BY <1>5, <1>7, <1>11, RoundChained, RoundHead DEF frames
<1>14. ToSlave'
  <2>1. (MasterFrame(txlog["master"]) \cup CloseFrames)' = F
    BY <1>1 DEF MasterFrame, CloseFrames, F, M
  <2> QED BY <1>1, <1>12, <1>13, <2>1 DEF ToSlave, p
<1>15. Silent => Silent'
  BY <1>1, <1>9 DEF Silent
<1>16. Grows(txlog'["master"], txlog["master"])
  BY <1>1, SameGrows, QueueTypes, Ends
<1>17. SlaveReceives'
  BY <1>1, <1>6, <1>13, <1>15, <1>16, ReceivesKept DEF p, q
<1> QED BY <1>10, <1>14, <1>17 DEF DeliveryInv

\* The master sends outside of a round.
LEMMA SentDelivery ==
    ASSUME ConnInv, ConnInv', ToSlave, SlaveReceives,
           user["master"] # "close", user'["master"] # "close",
           MasterFrame(txlog["master"]) \subseteq MasterFrame(txlog'["master"]),
           Grows(txlog'["master"], txlog["master"]),
           Follows(fabric'["slave"], fabric["slave"], OutsideOf(txlog'["master"])),
           Appended(fabric'["slave"], fabric["slave"], OutsideOf(txlog'["master"])),
           user'["slave"] = user["slave"], connection'["slave"] = connection["slave"],
           conn_flag'["slave"] = conn_flag["slave"], rxlog'["slave"] = rxlog["slave"],
           next_rx_seq'["slave"] = next_rx_seq["slave"], credits'["slave"] = credits["slave"],
           user["slave"] = "open" /\ conn_flag["slave"] /\ Silent => Silent'
    PROVE  ToSlave' /\ SlaveReceives'
<1> DEFINE q == fabric["slave"]
           p == fabric'["slave"]
           S == OutsideOf(txlog'["master"])
           F == MasterFrame(txlog["master"]) \cup CloseFrames
           G == MasterFrame(txlog'["master"]) \cup CloseFrames
<1>1. q \in Seq(F) /\ Chained(q) /\ q \in Seq(Frame) /\ p \in Seq(Frame)
  BY FabricTypes DEF ToSlave
<1>2. F \subseteq G
  OBVIOUS
<1>3. S \subseteq G /\ (\A f \in S : ~Later(f)) /\ Follows(p, q, S) /\ Appended(p, q, S)
  <2>1. S \subseteq MasterFrame(txlog'["master"]) /\ \A f \in S : ~Later(f)
    BY FrameKinds
  <2> QED BY <2>1
<1>4. (MasterFrame(txlog["master"]) \cup CloseFrames)' = G
  BY DEF MasterFrame, CloseFrames
<1> HIDE DEF p, q, S, F, G, Frame
<1>5. q \in Seq(G)
  BY <1>1, <1>2, SeqWider
<1>6. p \in Seq(G)
  BY <1>1, <1>3, <1>5, FollowsOver
<1>7. Chained(p) /\ HeadKept(p, q)
  BY <1>1, <1>3, AppendedChained, AppendedHead
<1>8. ToSlave'
  BY <1>4, <1>6, <1>7 DEF ToSlave, p
<1>9. SlaveReceives'
  BY <1>7, ReceivesKept DEF p, q
<1> QED BY <1>8, <1>9

\* The log grows by a frame with this payload.
LEMMA MoreSilent ==
    ASSUME NEW log \in Seq(LogEntry), NEW entry \in LogEntry
    PROVE  /\ Grows(Append(log, entry), log)
           /\ (\A i \in 1 .. Len(log) : log[i].chan = CHANNEL_0) /\ entry.chan = CHANNEL_0 =>
                 \A i \in 1 .. Len(Append(log, entry)) : Append(log, entry)[i].chan = CHANNEL_0
<1> DEFINE more == Append(log, entry)
<1>1. /\ Len(log) \in Nat /\ Len(more) = Len(log) + 1 /\ more[Len(log) + 1] = entry
      /\ \A i \in 1 .. Len(log) : more[i] = log[i]
  OBVIOUS
<1> HIDE DEF more
<1>2. Grows(more, log)
  BY <1>1 DEF Grows
<1>3. ASSUME \A i \in 1 .. Len(log) : log[i].chan = CHANNEL_0, entry.chan = CHANNEL_0,
             NEW i \in 1 .. Len(more)
      PROVE  more[i].chan = CHANNEL_0
  <2>1. i \in 1 .. Len(log) \/ i = Len(log) + 1
    BY <1>1
  <2> QED BY <1>1, <1>3, <2>1
<1> QED BY <1>2, <1>3 DEF more

LEMMA OpenMasterDelivery ==
    ASSUME ConnInv, ConnInv', SessionInv, DeliveryInv, losses = 0, fabric["master"] # <<>>,
           open_conn_master(Head(fabric["master"]))
    PROVE  DeliveryInv'
<1> DEFINE a == tloe_seqnum_prev(next_rx_seq'["master"])
           last == send_frame(TYPE_NORMAL, next_tx_seq["master"], a, CHANNEL_0, 0)
           entry == Payload(last)
           log == txlog["master"]
           more == Append(log, entry)
<1>0. fabric \in [Endpoint -> Seq(LowFrame)] /\ txlog \in [Endpoint -> Seq(LogEntry)]
      /\ next_tx_seq \in [Endpoint -> SeqNum]
  BY HandshakeTypes
<1>1. /\ recv_conn("master", Head(fabric["master"]))
      /\ fabric' = [fabric EXCEPT !["master"] = Tail(fabric["master"]),
                                  !["slave"] = Carry(fabric["slave"], <<last>>)]
      /\ next_tx_seq' = [next_tx_seq EXCEPT !["master"] = tloe_seqnum_next(next_tx_seq["master"])]
      /\ txlog' = [txlog EXCEPT !["master"] = more]
      /\ user' = [user EXCEPT !["master"] = "idle"]
      /\ connection' = [connection EXCEPT !["master"] = TRUE]
  <2>1. fabric' = [fabric EXCEPT !["master"] = Tail(fabric["master"]),
                                 !["slave"] = Carry(fabric["slave"], <<last>>)]
    BY <1>0, Ends DEF open_conn_master
  <2> QED BY <2>1 DEF open_conn_master, Opened
<1>2. /\ user["master"] = "open" /\ ~connection["master"] /\ start["master"] # "past"
      /\ UNCHANGED <<pc, retransmit_buffer, rxlog>>
      /\ conn_flag'["slave"] = conn_flag["slave"] /\ credits'["slave"] = credits["slave"]
  BY <1>1, RecvMaster DEF recv_conn, WillServe, MaySpeak
<1>3. next_rx_seq'["slave"] = next_rx_seq["slave"] /\ (NothingOwed("master") => NothingOwed("master")')
  BY <1>1, MasterReadsMore
<1>4. MasterSends /\ ToSlave /\ SlaveReceives
  BY DEF DeliveryInv
<1>5. log = <<>> /\ retransmit_buffer["master"] = <<>> /\ NothingOwed("master") /\ next_tx_seq["master"] = 5
  BY <1>2, <1>4 DEF MasterSends
<1>6. last \in Frame /\ last.type = TYPE_NORMAL /\ last.seq_num = 5 /\ last.chan = CHANNEL_0
  <2>0. 0 \in 0 .. 31 /\ CHANNEL_0 \in Channel
    BY DEF Channel, CHANNEL_NUM, CHANNEL_0
  <2>1. a \in SeqNum
    <3>1. next_rx_seq'["master"] \in SeqNum
      BY Ends DEF ConnInv, TypeInv, TypeOK, LinkTypeOK
    <3> QED BY <3>1, SeqNumFact
  <2>2. next_tx_seq["master"] \in SeqNum /\ next_tx_seq["master"] <= TopSeq
    BY ConnTypes, TXLow, Ends
  <2>3. last.type = TYPE_NORMAL /\ last.seq_num = next_tx_seq["master"] /\ last.chan = CHANNEL_0
    BY DEF send_frame
  <2>4. last \in LowFrame
    <3> HIDE DEF a
    <3> QED BY <2>0, <2>1, <2>2, SendFrameLow
  <2> HIDE DEF last
  <2> QED BY <1>5, <2>3, <2>4, LowFact
<1>7. /\ next_tx_seq'["master"] = 6 /\ txlog'["master"] = more
      /\ user'["master"] = "idle" /\ user'["slave"] = user["slave"]
      /\ connection'["master"] /\ connection'["slave"] = connection["slave"]
  <2>1. tloe_seqnum_next(next_tx_seq["master"]) = next_tx_seq["master"] + 1
    BY <1>0, ConnTypes, TXLow, NextLow, Ends
  <2>2. tloe_seqnum_next(next_tx_seq["master"]) = 6
    BY <1>5, <2>1
  <2> HIDE DEF more
  <2> QED BY <1>0, <1>1, <2>2, ConnTypes, Ends DEF ConnVarsOK
<1> HIDE DEF last
<1>8. /\ Follows(fabric'["slave"], fabric["slave"], {last})
      /\ Appended(fabric'["slave"], fabric["slave"], {last})
  BY <1>1, Ends, AnswerFabric
<1>9. entry \in LogEntry /\ entry.chan = CHANNEL_0
  BY <1>6, FrameFact DEF Payload
<1>10. log \in Seq(LogEntry) /\ Len(log) = 0
  BY <1>0, <1>5, Ends
<1> HIDE DEF log
<1>11. /\ MasterFrame(log) \subseteq MasterFrame(more)
       /\ Len(more) = 1 /\ last \in KeptOf(more)
  <2>1. last.seq_num = Len(log) + 5 /\ Payload(last) = entry
    BY <1>6, <1>10
  <2> HIDE DEF entry, Frame
  <2>2. /\ MasterFrame(log) \subseteq MasterFrame(more) /\ Len(more) = Len(log) + 1
        /\ \A f \in Frame : /\ f.type = TYPE_NORMAL /\ f.seq_num = Len(log) + 5
                            /\ Payload(f) = entry
                            => f \in KeptOf(more)
    BY <1>9, <1>10, MasterFrameMore
  <2> HIDE DEF more
  <2> QED BY <1>6, <1>10, <2>1, <2>2
<1>12. /\ Grows(more, log)
       /\ (\A i \in 1 .. Len(log) : log[i].chan = CHANNEL_0) =>
              \A i \in 1 .. Len(more) : more[i].chan = CHANNEL_0
  <2> HIDE DEF entry
  <2> QED BY <1>9, <1>10, MoreSilent
<1> HIDE DEF more
<1>13. last \in OutsideOf(more)
  BY <1>11, FrameKinds
<1>14. /\ Follows(fabric'["slave"], fabric["slave"], OutsideOf(more))
       /\ Appended(fabric'["slave"], fabric["slave"], OutsideOf(more))
  <2>1. Appended(fabric'["slave"], fabric["slave"], OutsideOf(more))
    BY <1>8, <1>13 DEF Appended
  <2> DEFINE one == {last}
             S == OutsideOf(more)
  <2>2. one \subseteq S /\ Follows(fabric'["slave"], fabric["slave"], one)
    BY <1>8, <1>13
  <2> HIDE DEF one, S
  <2>3. Follows(fabric'["slave"], fabric["slave"], S)
    BY <2>2, FollowsMore
  <2> QED BY <2>1, <2>3 DEF S
<1>15. Silent => Silent'
  BY <1>3, <1>7, <1>12 DEF Silent, log
<1>16. ToSlave' /\ SlaveReceives'
  BY <1>2, <1>3, <1>4, <1>7, <1>11, <1>12, <1>14, <1>15, SentDelivery DEF log
<1>17. MasterSends'
  <2>1. retransmit_buffer'["master"] = <<>> /\ next_tx_seq'["master"] = Len(txlog'["master"]) + 5
    BY <1>2, <1>5, <1>7, <1>11
  <2>2. <<>> \in Seq({f \in MasterFrame(txlog'["master"]) : f.type # TYPE_ACKONLY /\ f.seq_num >= 5})
    OBVIOUS
  <2> QED BY <1>7, <2>1, <2>2 DEF MasterSends
<1> QED BY <1>16, <1>17 DEF DeliveryInv
-------------------------------------------------------------------------------
\* The endpoint thread of the master.

\* What it sends and keeps.
LEMMA TXMasterSends ==
    ASSUME ConnInv, ConnInv', connection["master"], MasterSends, TX("master")
    PROVE  LET log == txlog["master"]
               more == txlog'["master"]
           IN  /\ next_tx_seq'["master"] = Len(more) + 5
               /\ retransmit_buffer'["master"] \in Seq(KeptOf(more))
               /\ Follows(fabric'["slave"], fabric["slave"], OutsideOf(more))
               /\ Appended(fabric'["slave"], fabric["slave"], OutsideOf(more))
               /\ MasterFrame(log) \subseteq MasterFrame(more) /\ Grows(more, log)
               /\ Silent => Silent'
<1> DEFINE e == "master"
           log == txlog[e]
           more == txlog'[e]
           b == retransmit_buffer[e]
           a == AckonlyFrame(e)
<1>1. PICK elapsed :
        \/ /\ TX_Hold(e, elapsed)
           /\ UNCHANGED <<retransmit_buffer, next_tx_seq, txlog, tx_flow_credits>>
        \/ \E tlmsg \in TLMsg \cup {NULL} : SendNormalFrame(e, elapsed, tlmsg)
  BY TXShape, Ends
<1>2. /\ next_tx_seq[e] = Len(log) + 5 /\ b \in Seq(KeptOf(log)) /\ log \in Seq(LogEntry)
  BY HandshakeTypes, Ends DEF MasterSends, KeptOf
<1>3. Len(log) \in Nat
  BY <1>2
<1>4. tl_msg_buffer' = tl_msg_buffer
  BY TXMore, Ends
<1>5. \A x : a \in OutsideOf(x)
  <2> TAKE x
  <2>1. a \in Frame /\ a.type = TYPE_ACKONLY /\ a.chan = CHANNEL_0
    BY AckonlyFact, Ends
  <2>2. TYPE_ACKONLY # TYPE_CLOSE_CONNECTION /\ TYPE_ACKONLY # TYPE_OPEN_CONNECTION
    BY DEF TYPE_ACKONLY, TYPE_CLOSE_CONNECTION, TYPE_OPEN_CONNECTION
  <2> HIDE DEF a, Frame
  <2> QED BY <2>1, <2>2 DEF OutsideOf, MasterFrame, InRound
<1>6. CASE /\ TX_Hold(e, elapsed)
           /\ UNCHANGED <<retransmit_buffer, next_tx_seq, txlog, tx_flow_credits>>
  <2> DEFINE S == OutsideOf(log)
             K == KeptOf(log)
  <2>1. Again(S, e)
    BY AgainMaster, Ends
  <2>2. b \in Seq(S)
    <3>1. b \in Seq(K) /\ K \subseteq S
      BY <1>2, FrameKinds
    <3> HIDE DEF b, S, K
    <3> QED BY <3>1, SeqWider
  <2>3. a \in S
    BY <1>5
  <2>4. /\ Follows(fabric'["slave"], fabric["slave"], S)
        /\ Appended(fabric'["slave"], fabric["slave"], S)
    <3> HIDE DEF S
    <3> QED BY <1>6, <2>1, <2>2, <2>3, HoldFabric, Ends
  <2>5. more = log
    BY <1>6
  <2>6. Silent => Silent'
    BY <1>4, <1>6 DEF Silent, NothingOwed
  <2> QED BY <1>2, <1>6, <2>4, <2>5, <2>6, SameGrows
<1>7. ASSUME NEW tlmsg \in TLMsg \cup {NULL}, SendNormalFrame(e, elapsed, tlmsg)
      PROVE  /\ next_tx_seq'[e] = Len(more) + 5
             /\ retransmit_buffer'[e] \in Seq(KeptOf(more))
             /\ Follows(fabric'["slave"], fabric["slave"], OutsideOf(more))
             /\ Appended(fabric'["slave"], fabric["slave"], OutsideOf(more))
             /\ MasterFrame(log) \subseteq MasterFrame(more) /\ Grows(more, log)
             /\ Silent => Silent'
  <2> DEFINE f == NormalFrame(e, tlmsg)
             entry == Payload(f)
             S == OutsideOf(more)
             K == KeptOf(log)
             L == KeptOf(more)
  <2>1. /\ f \in Frame /\ f.type = TYPE_NORMAL /\ f.seq_num = next_tx_seq[e]
        /\ retransmit_buffer'[e] = Append(b, f)
        /\ next_tx_seq'[e] = next_tx_seq[e] + 1 /\ more = Append(log, entry)
        /\ \A c \in Channel : tx_flow_credits[e][c] = 0 =>
              tx_flow_credits'[e][c] = 0 /\ (c # CHANNEL_0 => f.chan # c)
    BY <1>7, SendShape, Ends
  <2>2. entry \in LogEntry /\ f.chan \in Channel /\ entry.chan = f.chan
    <3> HIDE DEF f
    <3>1. entry \in LogEntry
      BY <2>1, FrameFact
    <3> QED BY <2>1, <3>1 DEF Payload, Frame
  <2> HIDE DEF f, entry, log
  <2>3. /\ MasterFrame(log) \subseteq MasterFrame(more) /\ K \subseteq L
        /\ Len(more) = Len(log) + 1
        /\ \A x \in Frame : /\ x.type = TYPE_NORMAL /\ x.seq_num = Len(log) + 5
                            /\ Payload(x) = entry
                            => x \in L
    <3> HIDE DEF Frame
    <3> QED BY <1>2, <2>1, <2>2, MasterFrameMore
  <2>4. f \in L /\ L \subseteq S
    <3>1. f.seq_num = Len(log) + 5 /\ Payload(f) = entry
      BY <1>2, <2>1 DEF entry
    <3> HIDE DEF Frame, L, S
    <3>2. f \in L
      BY <2>1, <2>3, <3>1
    <3> QED BY <3>2, FrameKinds DEF L, S
  <2>5. Grows(more, log) /\
          ((\A i \in 1 .. Len(log) : log[i].chan = CHANNEL_0) /\ entry.chan = CHANNEL_0 =>
              \A i \in 1 .. Len(more) : more[i].chan = CHANNEL_0)
    BY <1>2, <2>1, <2>2, MoreSilent
  <2> HIDE DEF more
  <2>6. Append(b, f) \in Seq(L) /\ b \in Seq(S)
    <3>1. b \in Seq(K)
      BY <1>2
    <3> HIDE DEF b, K, L, S
    <3>2. b \in Seq(L)
      BY <2>3, <3>1, SeqWider
    <3>3. b \in Seq(S)
      BY <2>4, <3>2, SeqWider
    <3> QED BY <2>4, <3>2, <3>3
  <2>7. Again(S, e)
    BY AgainMaster, Ends
  <2>8. a \in S /\ f \in S
    BY <1>5, <2>4
  <2>9. /\ Follows(fabric'["slave"], fabric["slave"], S)
        /\ Appended(fabric'["slave"], fabric["slave"], S)
    <3>1. NormalFrame(e, tlmsg) \in S
      BY <2>8 DEF f
    <3> HIDE DEF S
    <3> QED BY <1>7, <2>6, <2>7, <2>8, <3>1, SendFabric, Ends
  <2>10. ASSUME Silent PROVE Silent'
    <3>1. \A c \in Channel : tx_flow_credits[e][c] = 0
      BY <2>10 DEF Silent, NothingOwed
    <3>2. NothingOwed("master")'
      BY <1>4, <2>1, <2>10, <3>1 DEF Silent, NothingOwed
    <3>3. f.chan = CHANNEL_0
      BY <2>1, <2>2, <3>1
    <3>4. \A i \in 1 .. Len(more) : more[i].chan = CHANNEL_0
      BY <2>2, <2>5, <2>10, <3>3 DEF Silent, log
    <3> QED BY <3>2, <3>4 DEF Silent, more
  <2>11. next_tx_seq'[e] = Len(more) + 5
    BY <1>2, <1>3, <2>1, <2>3
  <2> QED BY <2>1, <2>3, <2>5, <2>6, <2>9, <2>10, <2>11
<1> QED BY <1>1, <1>6, <1>7

LEMMA TXMasterDelivery ==
    ASSUME ConnInv, ConnInv', SessionInv, DeliveryInv, losses = 0, connection["master"],
           TX("master"), UNCHANGED <<user, connection, conn_flag, start>>
    PROVE  DeliveryInv'
<1>1. /\ UNCHANGED <<next_rx_seq, rxlog>> /\ credits'["slave"] = credits["slave"]
  BY TXShape, Ends
<1>2. user["master"] \in {"idle", "quit"}
  BY MasterConnected
<1>3. MasterSends /\ ToSlave /\ SlaveReceives
  BY DEF DeliveryInv
<1>4. /\ next_tx_seq'["master"] = Len(txlog'["master"]) + 5
      /\ retransmit_buffer'["master"] \in Seq(KeptOf(txlog'["master"]))
      /\ Follows(fabric'["slave"], fabric["slave"], OutsideOf(txlog'["master"]))
      /\ Appended(fabric'["slave"], fabric["slave"], OutsideOf(txlog'["master"]))
      /\ MasterFrame(txlog["master"]) \subseteq MasterFrame(txlog'["master"])
      /\ Grows(txlog'["master"], txlog["master"])
      /\ Silent => Silent'
  BY <1>3, TXMasterSends
<1>5. ToSlave' /\ SlaveReceives'
  BY <1>1, <1>2, <1>3, <1>4, SentDelivery
<1>6. MasterSends'
  BY <1>4 DEF MasterSends, KeptOf
<1> QED BY <1>5, <1>6 DEF DeliveryInv

\* What RX does besides.
LEMMA RXMore ==
    ASSUME ConnInv, NEW e \in Endpoint, RX(e), ~RX_Idle(e)
    PROVE  /\ UNCHANGED losses /\ tl_msg_buffer'[Peer(e)] = tl_msg_buffer[Peer(e)]
           /\ Accept(e, Head(fabric[e])) \/ UNCHANGED <<next_rx_seq, credits, rxlog, tl_msg_buffer>>
<1> DEFINE f == Head(fabric[e])
           x == Peer(e)
           more == Append(tl_msg_buffer[e], f.tlmsg)
<1>1. /\ fabric[e] # <<>>
      /\ \/ RX_Ackonly(e, f) \/ serve_normal_request(e, f) \/ serve_zero_tlmsg_request(e, f)
         \/ serve_duplicate_request(e, f) \/ serve_oos_request(e, f)
  BY DEF RX
<1> HIDE DEF f
<1>2. /\ UNCHANGED losses
      /\ Accept(e, f) \/ UNCHANGED <<next_rx_seq, credits, rxlog, tl_msg_buffer>>
  BY <1>1 DEF RX_Ackonly, serve_normal_request, serve_zero_tlmsg_request, Accept,
              serve_duplicate_request, serve_oos_request, QueueAck, RXCommon
<1>3. UNCHANGED tl_msg_buffer \/ tl_msg_buffer' = [tl_msg_buffer EXCEPT ![e] = more]
  BY <1>1 DEF RX_Ackonly, serve_normal_request, serve_zero_tlmsg_request,
              serve_duplicate_request, serve_oos_request, QueueAck
<1>4. x \in Endpoint /\ x # e /\ tl_msg_buffer \in [Endpoint -> Seq(TLMsg)]
  BY PeerFact, ConnTypes DEF LoopTypeOK
<1> HIDE DEF more, x
<1>5. tl_msg_buffer'[x] = tl_msg_buffer[x]
  BY <1>3, <1>4
<1> QED BY <1>2, <1>5 DEF f, x

\* Before the slave has a connection the master accepts nothing.
LEMMA MasterWaits ==
    ASSUME ConnInv, SessionInv, connection["master"], user["slave"] = "open",
           fabric["master"] # <<>>, Accept("master", Head(fabric["master"]))
    PROVE  FALSE
<1> DEFINE f == Head(fabric["master"])
           got == rxlog["master"]
           more == Append(got, Payload(f))
<1>1. Served
  BY MasterConnected
<1>2. Len(rxlog'["master"]) <= Len(txlog["slave"])
  BY <1>1, MasterAccepts
<1>3. ~connection["slave"]
  BY ConnTypes, Ends DEF Phases
<1>4. txlog["slave"] = <<>>
  BY <1>3, ConnTypes, Ends DEF Phases, Closed
<1>5. got \in Seq(LogEntry) /\ rxlog \in [Endpoint -> Seq(LogEntry)]
  BY ConnTypes, Ends DEF LinkTypeOK
<1>6. f \in Frame
  BY ConnTypes, ReadLow, Ends
<1>7. rxlog' = [rxlog EXCEPT !["master"] = more]
  BY DEF Accept
<1> HIDE DEF f
<1>8. Payload(f) \in LogEntry
  BY <1>6, FrameFact
<1>9. Len(more) = Len(got) + 1 /\ Len(got) \in Nat
  <2> HIDE DEF got
  <2> QED BY <1>5, <1>8
<1> HIDE DEF more, got
<1>10. rxlog'["master"] = more
  BY <1>5, <1>7, Ends
<1>11. Len(txlog["slave"]) = 0
  BY <1>4
<1> QED BY <1>2, <1>9, <1>10, <1>11

LEMMA RXMasterDelivery ==
    ASSUME ConnInv, ConnInv', SessionInv, DeliveryInv, losses = 0, RX("master"),
           ~RX_Idle("master"), UNCHANGED <<user, connection, conn_flag, start>>
    PROVE  DeliveryInv'
<1> DEFINE q == fabric["slave"]
           p == fabric'["slave"]
           T == Without(TYPE_CLOSE_CONNECTION)
           f == Head(fabric["master"])
           more == fc_credit_inc(credits["master"], f.chan, f.credit)
           n == tloe_seqnum_next(f.seq_num)
           got == Append(rxlog["master"], Payload(f))
<1>1. /\ fabric["master"] # <<>> /\ RXCommon("master", f)
      /\ pc["master"] = "rx" /\ pc' = [pc EXCEPT !["master"] = "tl"]
      /\ UNCHANGED <<next_tx_seq, txlog, tx_flow_credits>>
  BY RXShape, Ends
<1>2. Accept("master", f) \/ UNCHANGED <<next_rx_seq, credits, rxlog, tl_msg_buffer>>
  BY RXMore, Ends
<1>3. /\ credits'["slave"] = credits["slave"] /\ next_rx_seq'["slave"] = next_rx_seq["slave"]
      /\ rxlog'["slave"] = rxlog["slave"]
  <2>1. /\ credits \in [Endpoint -> [Channel -> Nat]] /\ next_rx_seq \in [Endpoint -> SeqNum]
        /\ rxlog \in [Endpoint -> Seq(LogEntry)]
    BY HandshakeTypes, ConnTypes DEF LinkTypeOK
  <2>2. \/ UNCHANGED <<next_rx_seq, credits, rxlog>>
        \/ /\ credits' = [credits EXCEPT !["master"] = more]
           /\ next_rx_seq' = [next_rx_seq EXCEPT !["master"] = n]
           /\ rxlog' = [rxlog EXCEPT !["master"] = got]
    BY <1>2 DEF Accept
  <2> HIDE DEF more, n, got
  <2> QED BY <2>1, <2>2, Ends
<1>4. MasterSends /\ ToSlave /\ SlaveReceives
  BY DEF DeliveryInv
<1>5. connection["master"] \/ user["master"] = "close"
  BY <1>1, RunningFact, Ends
<1> HIDE DEF more, n, got
<1>6. CASE user["master"] = "close"
  <2>1. ~ThreadParked("master")
    BY <1>1 DEF ThreadParked
  <2>2. q \in Seq(T) /\ ~Through
    BY <1>4, <1>6, <2>1 DEF ToSlave, Through
  <2>3. Follows(p, q, Plain)
    BY <1>1, RXParts, Ends
  <2>4. Plain \subseteq T /\ p \in Seq(Frame) /\ q \in Seq(Frame)
    BY FabricTypes DEF Plain, Without, TYPE_NORMAL, TYPE_ACKONLY, TYPE_CLOSE_CONNECTION
  <2>5. p \in Seq(T)
    <3> HIDE DEF p, q, T, Plain, Frame
    <3> QED BY <2>2, <2>3, <2>4, FollowsOver
  <2>6. ClosesLast(p)
    BY <2>5, NoCloses
  <2>7. ~Through'
    BY <2>2 DEF Through, Speaking
  <2>8. ~connection'["slave"] /\ user'["slave"] \notin {"close", "last"} => rxlog'["slave"] = <<>>
    BY <1>3, <1>4 DEF SlaveReceives
  <2> QED BY <1>6, <2>5, <2>6, <2>7, <2>8, ClosingDelivery DEF Through
<1>7. CASE connection["master"]
  <2> DEFINE log == txlog["master"]
             K == KeptOf(log)
             S == OutsideOf(log)
  <2>1. user["master"] \in {"idle", "quit"}
    BY <1>7, MasterConnected
  <2>2. retransmit_buffer["master"] \in Seq(K) /\ Again(K, "master") /\ K \subseteq S
    BY <1>4, <1>7, AgainMaster, FrameKinds, Ends DEF MasterSends, KeptOf
  <2> HIDE DEF K, S
  <2>3. /\ Follows(p, q, K) /\ Appended(p, q, K) /\ retransmit_buffer'["master"] \in Seq(K)
    BY <1>1, <2>2, ServeAckFabric, Ends
  <2>4. Follows(p, q, S) /\ Appended(p, q, S)
    BY <2>2, <2>3, FollowsMore DEF Appended
  <2>5. ASSUME user["slave"] = "open", Silent PROVE Silent'
    <3>1. UNCHANGED tl_msg_buffer
      BY <1>1, <1>2, <1>7, <2>5, MasterWaits
    <3> QED BY <1>1, <2>5, <3>1 DEF Silent, NothingOwed
  <2>6. Grows(txlog'["master"], txlog["master"]) /\ txlog'["master"] = log
    BY <1>1, SameGrows, QueueTypes, Ends
  <2>7. ToSlave' /\ SlaveReceives'
    <3>1. MasterFrame(txlog["master"]) \subseteq MasterFrame(txlog'["master"])
      BY <2>6
    <3>2. /\ Follows(fabric'["slave"], fabric["slave"], OutsideOf(txlog'["master"]))
          /\ Appended(fabric'["slave"], fabric["slave"], OutsideOf(txlog'["master"]))
      BY <2>4, <2>6 DEF S
    <3> QED BY <1>3, <1>4, <2>1, <2>5, <2>6, <3>1, <3>2, SentDelivery
  <2>8. MasterSends'
    BY <1>1, <1>4, <1>7, <2>3, <2>6 DEF MasterSends, K, KeptOf
  <2> QED BY <2>7, <2>8 DEF DeliveryInv
<1> QED BY <1>5, <1>6, <1>7
-------------------------------------------------------------------------------
\* The endpoint thread of the slave.

\* The slave accepts the next payload of the master's log, or none.
LEMMA SlaveAccepts ==
    ASSUME ConnInv, SessionInv, connection["slave"], user["master"] # "close",
           ToSlave, SlaveInOrder, fabric["slave"] # <<>>,
           Accept("slave", Head(fabric["slave"]))
    PROVE  /\ next_rx_seq'["slave"] = Len(rxlog'["slave"]) + 5
           /\ Len(rxlog'["slave"]) <= Len(txlog["master"])
           /\ \A i \in 1 .. Len(rxlog'["slave"]) : rxlog'["slave"][i] = txlog["master"][i]
<1> DEFINE e == "slave"
           f == Head(fabric[e])
           log == txlog["master"]
           got == rxlog[e]
           entry == Payload(f)
           more == Append(got, entry)
           S == MasterFrame(log) \cup CloseFrames
           T == Without(TYPE_CLOSE_CONNECTION)
<1>1. /\ next_rx_seq[e] = Len(got) + 5 /\ Len(got) <= Len(log)
      /\ \A i \in 1 .. Len(got) : got[i] = log[i]
  BY DEF SlaveInOrder
<1>2. /\ got \in Seq(LogEntry) /\ log \in Seq(LogEntry) /\ next_rx_seq[e] \in SeqNum
      /\ rxlog \in [Endpoint -> Seq(LogEntry)] /\ next_rx_seq \in [Endpoint -> SeqNum]
  BY ConnTypes, Ends DEF LinkTypeOK
<1>3. f \in Frame /\ f.seq_num \in SeqNum /\ f.seq_num <= TopSeq
  BY ConnTypes, ReadLow, Ends
<1>4. f \in MasterFrame(log)
  <2>1. fabric[e] \in Seq(S) /\ fabric[e] # <<>> /\ fabric[e] \in Seq(T)
    BY SessionParts DEF ToSlave, Speaking, Turns
  <2>2. f \in S /\ f \in T
    <3> HIDE DEF S, T
    <3> QED BY <2>1
  <2> HIDE DEF f
  <2> QED BY <2>2 DEF Without, CloseFrames
<1>5. /\ f.type # TYPE_ACKONLY /\ tloe_rx_get_req_type(e, f) = REQ_NORMAL
      /\ next_rx_seq' = [next_rx_seq EXCEPT ![e] = tloe_seqnum_next(f.seq_num)]
      /\ rxlog' = [rxlog EXCEPT ![e] = more]
  BY DEF Accept
<1>6. f.seq_num = next_rx_seq[e]
  <2> HIDE DEF f
  <2> QED BY <1>2, <1>3, <1>5, NormalNumber, Ends
<1>7. entry \in LogEntry
  <2> HIDE DEF f
  <2> QED BY <1>3, FrameFact
<1>8. tloe_seqnum_next(f.seq_num) = f.seq_num + 1
  <2> HIDE DEF f
  <2> QED BY <1>3, NextLow
<1>9. Len(got) \in Nat /\ Len(log) \in Nat
  BY <1>2
<1>10. /\ f.seq_num >= 5 => f.seq_num - 4 \in 1 .. Len(log) /\ entry = log[f.seq_num - 4]
  BY <1>4, <1>5 DEF MasterFrame
<1> HIDE DEF f, entry, log
<1>11. /\ Len(more) = Len(got) + 1 /\ more[Len(got) + 1] = entry
       /\ \A i \in 1 .. Len(got) : more[i] = got[i]
  <2> HIDE DEF got
  <2> QED BY <1>2, <1>7
<1>12. next_rx_seq'[e] = f.seq_num + 1 /\ rxlog'[e] = more
  BY <1>2, <1>5, <1>8, Ends
<1> HIDE DEF more
<1>13. f.seq_num = Len(got) + 5
  BY <1>1, <1>6
<1> HIDE DEF got
<1>14. f.seq_num >= 5 /\ f.seq_num - 4 = Len(got) + 1
  BY <1>9, <1>13
<1>15. Len(got) + 1 \in 1 .. Len(log) /\ entry = log[Len(got) + 1]
  BY <1>10, <1>14
<1>16. next_rx_seq'[e] = Len(more) + 5 /\ Len(more) <= Len(log)
  BY <1>9, <1>11, <1>12, <1>13, <1>15
<1>17. ASSUME NEW i \in 1 .. Len(more) PROVE more[i] = log[i]
  <2>1. i \in 1 .. Len(got) \/ i = Len(got) + 1
    BY <1>9, <1>11
  <2>2. \A j \in 1 .. Len(got) : got[j] = log[j]
    BY <1>1 DEF got
  <2> QED BY <1>11, <1>15, <2>1, <2>2
<1> QED BY <1>12, <1>16, <1>17 DEF log

LEMMA RXSlaveDelivery ==
    ASSUME ConnInv, ConnInv', SessionInv, DeliveryInv, losses = 0, RX("slave"),
           ~RX_Idle("slave"), UNCHANGED <<user, connection, conn_flag, start>>
    PROVE  DeliveryInv'
<1>1. /\ fabric["slave"] # <<>> /\ RXCommon("slave", Head(fabric["slave"]))
      /\ pc["slave"] = "rx" /\ pc' = [pc EXCEPT !["slave"] = "tl"]
      /\ UNCHANGED <<next_tx_seq, txlog, tx_flow_credits>>
      /\ Accept("slave", Head(fabric["slave"])) \/ UNCHANGED <<next_rx_seq, credits, rxlog>>
  BY RXShape, Ends
<1>2. connection["slave"] \/ user["slave"] = "close"
  BY <1>1, RunningFact, Ends
<1>3. user["slave"] # "open"
  BY <1>2, SlaveConnected
<1>4. fabric'["slave"] = Tail(fabric["slave"])
      /\ retransmit_buffer'["master"] = retransmit_buffer["master"]
  <2> DEFINE S == {f \in Frame : f.type = TYPE_NORMAL}
  <2>1. retransmit_buffer["slave"] \in Seq(S) /\ Again(S, "slave")
    BY SessionParts, AgainFact, Ends DEF KeptNormal
  <2> HIDE DEF S
  <2> QED BY <1>1, <2>1, ServeAckFabric, Ends
<1>5. tl_msg_buffer'["master"] = tl_msg_buffer["master"]
  BY RXMore, Ends
<1>6. pc'["master"] = pc["master"]
  <2>1. pc \in [Endpoint -> {"tx", "rx", "tl"}]
    BY ConnTypes DEF LoopTypeOK
  <2> QED BY <1>1, <2>1, Ends
<1>7. MasterSends /\ ToSlave /\ SlaveReceives
  BY DEF DeliveryInv
<1>8. MasterSends'
  BY <1>1, <1>4, <1>5, <1>7 DEF MasterSends, NothingOwed
<1>9. Through' => Through
  BY DEF Through, Speaking
<1>10. ToSlave'
  BY <1>1, <1>4, <1>6, <1>7, <1>9, ReadToSlave
<1>11. ASSUME user["master"] # "close", connection["slave"] PROVE SlaveInOrder'
  <2>1. SlaveInOrder
    BY <1>7, <1>11 DEF SlaveReceives
  <2>2. CASE Accept("slave", Head(fabric["slave"]))
    BY <1>1, <1>7, <1>11, <2>1, <2>2, SlaveAccepts DEF SlaveInOrder
  <2>3. CASE UNCHANGED <<next_rx_seq, credits, rxlog>>
    BY <1>1, <2>1, <2>3 DEF SlaveInOrder
  <2> QED BY <1>1, <2>2, <2>3
<1>12. SlaveReceives'
  BY <1>2, <1>3, <1>11 DEF SlaveReceives
<1> QED BY <1>8, <1>10, <1>12 DEF DeliveryInv
-------------------------------------------------------------------------------
\* The slave waits for its credit.

\* The first n channels have their credit.
Given(amounts, n) ==
    \A c \in CHANNEL_A .. CHANNEL_E :
        amounts[c] = 2^(IF c <= n THEN CREDIT_DEFAULT ELSE CREDIT_INIT)

\* What one more frame of the master grants: credit comes channel by channel, and
\* the last one with the frame numbered 4.
LEMMA GrantsNext ==
    ASSUME NEW log, NEW f \in MasterFrame(log), NEW old \in [Channel -> Nat], NEW m \in 0 .. 4,
           \A i \in 1 .. Len(log) : log[i].chan = CHANNEL_0,
           Given(old, m), Later(f) => f.seq_num <= m, m # 0 \/ f.type = TYPE_OPEN_CONNECTION
    PROVE  \E n \in 1 .. 5 :
              /\ Given(set_credit(old, f.chan, f.credit), n)
              /\ InRound(f) => f.seq_num < n
              /\ n = 5 => InRound(f) /\ f.seq_num = 4
<1> DEFINE lo == 2^CREDIT_INIT
           hi == 2^CREDIT_DEFAULT
           k == f.seq_num
           amount == 2^f.credit
           new == [old EXCEPT ![f.chan] = amount]
           Granted(given, n) == \A c \in 1 .. 5 : given[c] = IF c <= n THEN hi ELSE lo
<1>1. /\ f \in Frame /\ f.type # TYPE_CLOSE_CONNECTION
      /\ f.type = TYPE_OPEN_CONNECTION => k = 0
      /\ f.type = TYPE_ACKONLY => f.chan = 0
      /\ f.type # TYPE_ACKONLY /\ k < 5 => f.chan = k + 1 /\ f.credit = CREDIT_DEFAULT
      /\ f.type # TYPE_ACKONLY /\ k >= 5 => k - 4 \in 1 .. Len(log) /\ Payload(f) = log[k - 4]
  BY DEF MasterFrame, CHANNEL_0
<1>2. k \in Nat
  BY <1>1, TopFact DEF Frame, SeqNum
<1>3. set_credit(old, f.chan, f.credit) = new
  BY DEF set_credit
<1>4. Granted(old, m)
  BY GrantedFact DEF Given
<1>5. \A c \in 1 .. 5 : c \in Channel
  BY DEF Channel, CHANNEL_NUM
<1>6. CASE InRound(f)
  <2>1. k < 5 /\ f.type # TYPE_ACKONLY
    BY <1>6 DEF InRound
  <2>2. k \in 0 .. 4 /\ f.chan = k + 1 /\ f.credit = CREDIT_DEFAULT
    BY <1>1, <1>2, <2>1
  <2>3. k <= m
    BY <1>2, <1>6 DEF Later
  <2>4. amount = hi
    BY <2>2
  <2>5. new = [old EXCEPT ![k + 1] = hi]
    BY <2>2, <2>4
  <2> DEFINE n == IF k = m THEN m + 1 ELSE m
  <2> HIDE DEF lo, hi, k, new
  <2>6. n \in 1 .. 5 /\ k < n /\ (n = 5 => k = 4) /\ m <= n
    BY <2>2, <2>3
  <2>7. ASSUME NEW c \in 1 .. 5 PROVE new[c] = IF c <= n THEN hi ELSE lo
    <3>1. c \in Channel /\ k + 1 \in Channel
      BY <1>5, <2>2 DEF Channel, CHANNEL_NUM
    <3>2. CASE c = k + 1
      <4>1. new[c] = hi /\ c <= n
        BY <2>2, <2>5, <2>6, <3>1, <3>2
      <4> QED BY <4>1
    <3>3. CASE c # k + 1
      <4>1. c <= n <=> c <= m
        BY <2>2, <2>3, <3>3
      <4>2. new[c] = old[c]
        BY <2>5, <3>1, <3>3
      <4> QED BY <1>4, <4>1, <4>2
    <3> QED BY <3>2, <3>3
  <2>8. Given(new, n)
    <3> HIDE DEF n
    <3> QED BY <2>7, GrantedFact DEF Given, lo, hi
  <2> HIDE DEF n
  <2> QED BY <1>3, <1>6, <2>6, <2>8 DEF k
<1>7. CASE ~InRound(f)
  <2>1. f.type = TYPE_ACKONLY \/ k >= 5
    BY <1>1, <1>2, <1>7 DEF InRound
  <2>2. f.chan = 0
    <3>1. CASE f.type = TYPE_ACKONLY
      BY <1>1, <3>1
    <3>2. CASE f.type # TYPE_ACKONLY
      <4>1. k - 4 \in 1 .. Len(log) /\ Payload(f) = log[k - 4]
        BY <1>1, <2>1, <3>2
      <4>2. Payload(f).chan = CHANNEL_0
        BY <4>1
      <4> QED BY <4>2 DEF Payload, CHANNEL_0
    <3> QED BY <3>1, <3>2
  <2>3. m # 0
    <3> SUFFICES ASSUME f.type = TYPE_OPEN_CONNECTION PROVE FALSE
      OBVIOUS
    <3>1. k = 0 /\ f.type # TYPE_ACKONLY
      BY <1>1 DEF TYPE_OPEN_CONNECTION, TYPE_ACKONLY
    <3> QED BY <2>1, <3>1
  <2> HIDE DEF amount
  <2>4. ASSUME NEW c \in 1 .. 5 PROVE new[c] = old[c]
    <3> DEFINE d == f.chan
    <3>1. d = 0
      BY ONLY <2>2
    <3> HIDE DEF d
    <3>2. c # 0 /\ c \in Channel
      BY ONLY <1>5, c \in 1 .. 5
    <3>3. c # d
      BY ONLY <3>1, <3>2
    <3>4. [old EXCEPT ![d] = amount][c] = old[c]
      BY <3>2, <3>3
    <3> QED BY <3>4 DEF d
  <2> HIDE DEF lo, hi, new
  <2>5. Granted(new, m)
    BY <1>4, <2>4
  <2>6. Given(new, m)
    BY <2>5, GrantedFact DEF Given, lo, hi
  <2>7. m \in 1 .. 5 /\ m # 5
    BY <2>3
  <2> QED BY <1>3, <1>7, <2>6, <2>7
<1> QED BY <1>6, <1>7

\* All channels have it or the last has not.
LEMMA GivenAll ==
    ASSUME NEW amounts, NEW n \in 1 .. 5, Given(amounts, n)
    PROVE  check_all_channels(amounts, CREDIT_INIT) <=> n = 5
<1> DEFINE lo == 2^CREDIT_INIT
           hi == 2^CREDIT_DEFAULT
<1>1. \A c \in 1 .. 5 : amounts[c] = IF c <= n THEN hi ELSE lo
  BY GrantedFact DEF Given
<1>2. check_all_channels(amounts, CREDIT_INIT) <=> \A c \in 1 .. 5 : amounts[c] > lo
  BY DEF check_all_channels, CHANNEL_A, CHANNEL_E
<1>3. lo < hi /\ lo \in Nat /\ hi \in Nat
  BY InitLess
<1> HIDE DEF lo, hi
<1>4. ASSUME n = 5 PROVE \A c \in 1 .. 5 : amounts[c] > lo
  BY <1>1, <1>3, <1>4
<1>5. ASSUME n # 5 PROVE ~(\A c \in 1 .. 5 : amounts[c] > lo)
  <2>1. ~(5 <= n) /\ 5 \in 1 .. 5
    BY <1>5
  <2>2. amounts[5] = lo
    BY <1>1, <2>1
  <2> QED BY <1>3, <2>1, <2>2
<1> QED BY <1>2, <1>4, <1>5

\* What a frame read by the slave does, besides.
LEMMA SlaveReadsMore ==
    ASSUME ConnInv, recv_conn("slave", Head(fabric["slave"]))
    PROVE  /\ UNCHANGED <<losses, start, tl_msg_buffer>>
           /\ tx_flow_credits'["master"] = tx_flow_credits["master"]
           /\ credits'["slave"] = CreditsAfter("slave", Head(fabric["slave"]))
           /\ Takes("slave", Head(fabric["slave"])) =>
                 next_rx_seq'["slave"] = tloe_seqnum_next(Head(fabric["slave"]).seq_num)
<1> DEFINE f == Head(fabric["slave"])
           owed == clear_flow_credit(tx_flow_credits["slave"], f.chan)
           n == tloe_seqnum_next(f.seq_num)
           after == CreditsAfter("slave", f)
<1>1. /\ \/ /\ tx_flow_credits' = [tx_flow_credits EXCEPT !["slave"] = owed]
            /\ next_rx_seq' = [next_rx_seq EXCEPT !["slave"] = n]
         \/ /\ UNCHANGED <<tx_flow_credits, next_rx_seq>>
            /\ ~Takes("slave", f)
      /\ credits' = [credits EXCEPT !["slave"] = after]
      /\ UNCHANGED <<losses, start, tl_msg_buffer>>
  BY DEF recv_conn, tlVars
<1>2. /\ next_rx_seq \in [Endpoint -> SeqNum] /\ tx_flow_credits \in [Endpoint -> [Channel -> Nat]]
      /\ credits \in [Endpoint -> [Channel -> Nat]]
  BY HandshakeTypes
<1> HIDE DEF f, owed, n, after
<1>3. /\ tx_flow_credits'["master"] = tx_flow_credits["master"] /\ credits'["slave"] = after
      /\ Takes("slave", f) => next_rx_seq'["slave"] = n
  BY <1>1, <1>2, Ends
<1> QED BY <1>1, <1>3 DEF f, n, after

\* A slave that has read the OPEN frame reads on.
LEMMA SlaveGains ==
    ASSUME ConnInv, ConnInv', SessionInv, MasterSends, ToSlave, SlaveReceives,
           user["master"] # "close", fabric["slave"] # <<>>,
           recv_conn("slave", Head(fabric["slave"])), fabric'["slave"] = Tail(fabric["slave"]),
           conn_flag'["slave"], txlog'["master"] = txlog["master"]
    PROVE  /\ Silent'
           /\ \E n \in 1 .. 5 :
                 /\ SlaveGranted(n)'
                 /\ check_all_channels(CreditsAfter("slave", Head(fabric["slave"])), CREDIT_INIT) <=> n = 5
                 /\ n = 5 => next_rx_seq'["slave"] = 5
<1> DEFINE q == fabric["slave"]
           f == Head(q)
           log == txlog["master"]
           old == credits["slave"]
           new == credits'["slave"]
           F == MasterFrame(log) \cup CloseFrames
           T == Without(TYPE_CLOSE_CONNECTION)
<1>1. /\ user["slave"] = "open" /\ ~connection["slave"]
      /\ conn_flag["slave"] \/ f.type = TYPE_OPEN_CONNECTION
      /\ Takes("slave", f)
  BY RecvSlave
<1>2. /\ tl_msg_buffer' = tl_msg_buffer /\ tx_flow_credits'["master"] = tx_flow_credits["master"]
      /\ new = set_credit(old, f.chan, f.credit)
      /\ next_rx_seq'["slave"] = tloe_seqnum_next(f.seq_num)
      /\ new = CreditsAfter("slave", f)
  BY <1>1, SlaveReadsMore DEF CreditsAfter
<1>3. /\ q \in Seq(F) /\ Chained(q) /\ q # <<>> /\ f = q[1] /\ f \in F /\ 1 \in 1 .. Len(q)
  <2>1. q \in Seq(F) /\ Chained(q) /\ q # <<>>
    BY DEF ToSlave
  <2> HIDE DEF q, F
  <2> QED BY <2>1
<1>4. /\ SlaveStarts /\ Turns
  BY SessionParts
<1>5. f \in Frame /\ f.seq_num \in SeqNum /\ f.seq_num <= TopSeq /\ old \in [Channel -> Nat]
  BY ConnTypes, ReadLow, HandshakeTypes, Ends
<1>6. f \in MasterFrame(log)
  <2> HIDE DEF q, F, f
  <2>1. f.type # TYPE_CLOSE_CONNECTION
    <3>1. CASE f.type = TYPE_OPEN_CONNECTION
      BY <3>1 DEF TYPE_OPEN_CONNECTION, TYPE_CLOSE_CONNECTION
    <3>2. CASE conn_flag["slave"]
      <4>1. q \in Seq(T)
        BY <1>1, <1>4, <3>2 DEF Turns, Speaking, q
      <4> QED BY <1>3, <4>1, HeadOther
    <3> QED BY <1>1, <3>1, <3>2
  <2> QED BY <1>3, <2>1 DEF F, CloseFrames
<1>7. \E m \in 0 .. 4 :
        /\ Silent /\ Given(old, m) /\ (Later(f) => f.seq_num <= m)
        /\ m # 0 \/ f.type = TYPE_OPEN_CONNECTION
  <2>1. CASE conn_flag["slave"]
    <3>1. SlaveTakes
      BY <1>1, <2>1 DEF SlaveReceives
    <3>2. PICK m \in 1 .. 4 : SlaveGranted(m)
      BY <3>1 DEF SlaveTakes
    <3>3. Given(old, m) /\ (Later(f) => f.seq_num <= m)
      BY <1>3, <3>2 DEF SlaveGranted, Given
    <3>4. m \in 0 .. 4 /\ m # 0
      OBVIOUS
    <3> QED BY <3>1, <3>3, <3>4 DEF SlaveTakes, Silent
  <2>2. CASE ~conn_flag["slave"]
    <3>0. f.type = TYPE_OPEN_CONNECTION
      BY <1>1, <2>2
    <3>1. ~Speaking
      BY <1>1, <2>2 DEF Speaking
    <3>2. user["master"] = "open"
      <4> SUFFICES ASSUME user["master"] # "open" PROVE FALSE
        OBVIOUS
      <4>1. q \in Seq(Without(TYPE_OPEN_CONNECTION))
        BY <1>4, <3>1 DEF Turns
      <4> HIDE DEF q, f, F
      <4> QED BY <1>3, <3>0, <4>1, HeadOther
    <3>3. ~connection["master"]
      BY <1>4, <3>1 DEF Turns
    <3>4. log = <<>> /\ NothingOwed("master")
      BY <3>2, <3>3 DEF MasterSends
    <3>5. Silent
      BY <3>4 DEF Silent
    <3>6. Given(old, 0)
      <4>1. old = init_flowcontrol(CREDIT_INIT)
        BY <1>1, <1>4, <2>2 DEF SlaveStarts
      <4> DEFINE lo == 2^CREDIT_INIT
                 hi == 2^CREDIT_DEFAULT
      <4>2. old = [c \in Channel |-> lo]
        BY <4>1 DEF init_flowcontrol
      <4>3. \A c \in 1 .. 5 : c \in Channel /\ ~(c <= 0)
        BY DEF Channel, CHANNEL_NUM
      <4> HIDE DEF lo, hi, old
      <4>4. \A c \in 1 .. 5 : old[c] = IF c <= 0 THEN hi ELSE lo
        BY <4>2, <4>3
      <4> QED BY <4>4, GrantedFact DEF Given, lo, hi
    <3>7. ~Later(f)
      <4> HIDE DEF f
      <4> QED BY <1>6, <3>0 DEF MasterFrame, Later
    <3> QED BY <3>0, <3>5, <3>6, <3>7
  <2> QED BY <2>1, <2>2
<1>8. PICK m \in 0 .. 4 :
        /\ Silent /\ Given(old, m) /\ (Later(f) => f.seq_num <= m)
        /\ m # 0 \/ f.type = TYPE_OPEN_CONNECTION
  BY <1>7
<1>9. Silent'
  BY <1>2, <1>8 DEF Silent, NothingOwed
<1>10. \E n \in 1 .. 5 :
          /\ Given(set_credit(old, f.chan, f.credit), n)
          /\ InRound(f) => f.seq_num < n
          /\ n = 5 => InRound(f) /\ f.seq_num = 4
  <2>1. \A i \in 1 .. Len(log) : log[i].chan = CHANNEL_0
    BY <1>8 DEF Silent
  <2> HIDE DEF f, old, log
  <2> QED BY <1>5, <1>6, <1>8, <2>1, GrantsNext
<1>11. PICK n \in 1 .. 5 :
          /\ Given(set_credit(old, f.chan, f.credit), n)
          /\ InRound(f) => f.seq_num < n
          /\ n = 5 => InRound(f) /\ f.seq_num = 4
  BY <1>10
<1>12. Given(new, n) /\ (check_all_channels(new, CREDIT_INIT) <=> n = 5)
  <2>1. Given(new, n)
    BY <1>2, <1>11
  <2> HIDE DEF new
  <2> QED BY <2>1, GivenAll
<1>13. /\ Tail(q) # <<>> /\ Later(Tail(q)[1]) => Tail(q)[1].seq_num <= n
  <2> SUFFICES ASSUME Tail(q) # <<>>, Later(Tail(q)[1]) PROVE Tail(q)[1].seq_num <= n
    OBVIOUS
  <2>1. InRound(f) /\ Tail(q)[1].seq_num = f.seq_num + 1
    <3> HIDE DEF q, F
    <3> QED BY <1>3, TailChained DEF f
  <2> DEFINE k == f.seq_num
             z == Tail(q)[1].seq_num
  <2>2. k < n /\ z = k + 1 /\ k \in Int
    BY <1>5, <1>11, <2>1 DEF SeqNum
  <2> HIDE DEF k, z
  <2>3. z <= n
    BY <2>2
  <2> QED BY <2>3 DEF z
<1>14. SlaveGranted(n)'
  BY <1>12, <1>13 DEF SlaveGranted, Given
<1>15. ASSUME n = 5 PROVE next_rx_seq'["slave"] = 5
  <2>1. f.seq_num = 4
    BY <1>11, <1>15
  <2>2. tloe_seqnum_next(f.seq_num) = f.seq_num + 1
    BY <1>5, NextLow
  <2> QED BY <1>2, <2>1, <2>2
<1> QED BY <1>2, <1>9, <1>12, <1>14, <1>15

LEMMA WaitSlaveDelivery ==
    ASSUME ConnInv, ConnInv', SessionInv, DeliveryInv, losses = 0, fabric["slave"] # <<>>,
           open_conn_wait("slave", Head(fabric["slave"]))
    PROVE  DeliveryInv'
<1>1. /\ recv_conn("slave", Head(fabric["slave"]))
      /\ ~check_all_channels(CreditsAfter("slave", Head(fabric["slave"])), CREDIT_INIT)
      /\ fabric' = [fabric EXCEPT !["slave"] = Tail(fabric["slave"])]
      /\ UNCHANGED <<next_tx_seq, txlog, user, connection>>
  BY DEF open_conn_wait
<1>2. /\ user["slave"] = "open" /\ ~connection["slave"]
      /\ UNCHANGED <<pc, retransmit_buffer, rxlog>>
      /\ conn_flag'["slave"] = (conn_flag["slave"] \/ Head(fabric["slave"]).type = TYPE_OPEN_CONNECTION)
  BY <1>1, RecvSlave
<1>3. /\ UNCHANGED <<losses, start, tl_msg_buffer>>
      /\ tx_flow_credits'["master"] = tx_flow_credits["master"]
  BY <1>1, SlaveReadsMore
<1>4. fabric'["slave"] = Tail(fabric["slave"])
  BY <1>1, Ends, ReadFabric
<1>5. MasterSends /\ ToSlave /\ SlaveReceives
  BY DEF DeliveryInv
<1>6. MasterSends'
  BY <1>1, <1>2, <1>3, <1>5 DEF MasterSends, NothingOwed
<1>7. Through' => Through
  BY <1>1, <1>2 DEF Through, Speaking
<1>8. ToSlave'
  BY <1>1, <1>2, <1>4, <1>5, <1>7, ReadToSlave
<1>9. ASSUME user["master"] # "close", conn_flag'["slave"] PROVE SlaveTakes'
  <2>1. /\ Silent'
        /\ \E n \in 1 .. 5 :
              /\ SlaveGranted(n)'
              /\ check_all_channels(CreditsAfter("slave", Head(fabric["slave"])), CREDIT_INIT) <=> n = 5
              /\ n = 5 => next_rx_seq'["slave"] = 5
    BY <1>1, <1>4, <1>5, <1>9, SlaveGains
  <2>2. PICK n \in 1 .. 5 : SlaveGranted(n)' /\ n # 5
    BY <1>1, <2>1
  <2>3. n \in 1 .. 4
    BY <2>2
  <2> QED BY <2>1, <2>2, <2>3 DEF SlaveTakes, Silent
<1>10. SlaveReceives'
  BY <1>1, <1>2, <1>5, <1>9 DEF SlaveReceives
<1> QED BY <1>6, <1>8, <1>10 DEF DeliveryInv

LEMMA OpenSlaveDelivery ==
    ASSUME ConnInv, ConnInv', SessionInv, DeliveryInv, losses = 0, fabric["slave"] # <<>>,
           open_conn_slave(Head(fabric["slave"]))
    PROVE  DeliveryInv'
<1> DEFINE a == tloe_seqnum_prev(next_rx_seq'["slave"])
           last == send_frame(TYPE_ACKONLY, next_tx_seq["slave"], a, CHANNEL_0, 0)
           frames == <<last>>
<1>0. fabric \in [Endpoint -> Seq(LowFrame)]
  BY HandshakeTypes
<1>1. /\ recv_conn("slave", Head(fabric["slave"]))
      /\ check_all_channels(CreditsAfter("slave", Head(fabric["slave"])), CREDIT_INIT)
      /\ fabric' = [fabric EXCEPT !["slave"] = Tail(fabric["slave"]),
                                  !["master"] = Carry(fabric["master"], frames)]
      /\ UNCHANGED <<next_tx_seq, txlog>>
      /\ user' = [user EXCEPT !["slave"] = "idle"]
      /\ connection' = [connection EXCEPT !["slave"] = TRUE]
  <2>1. fabric' = [fabric EXCEPT !["slave"] = Tail(fabric["slave"]),
                                 !["master"] = Carry(fabric["master"], frames)]
    BY <1>0, Ends DEF open_conn_slave
  <2> QED BY <2>1 DEF open_conn_slave, Opened
<1>2. /\ user["slave"] = "open" /\ ~connection["slave"]
      /\ UNCHANGED <<pc, retransmit_buffer, rxlog>>
      /\ conn_flag'["slave"] = (conn_flag["slave"] \/ Head(fabric["slave"]).type = TYPE_OPEN_CONNECTION)
      /\ conn_flag["slave"]
  BY <1>1, RecvSlave, SlaveSeesOpen
<1>3. /\ UNCHANGED <<losses, start, tl_msg_buffer>>
      /\ tx_flow_credits'["master"] = tx_flow_credits["master"]
  BY <1>1, SlaveReadsMore
<1>4. fabric'["slave"] = Tail(fabric["slave"])
  <2> HIDE DEF frames
  <2> QED BY <1>0, <1>1, Ends
<1>5. /\ user'["slave"] = "idle" /\ user'["master"] = user["master"]
      /\ connection'["slave"] /\ connection'["master"] = connection["master"]
  BY <1>1, ConnTypes, Ends DEF ConnVarsOK
<1>6. MasterSends /\ ToSlave /\ SlaveReceives
  BY DEF DeliveryInv
<1>7. MasterSends'
  BY <1>1, <1>2, <1>3, <1>5, <1>6 DEF MasterSends, NothingOwed
<1>8. ~Through'
  BY <1>5 DEF Through, Speaking
<1>9. ToSlave'
  BY <1>1, <1>2, <1>4, <1>5, <1>6, <1>8, ReadToSlave
<1>10. ASSUME user["master"] # "close" PROVE SlaveInOrder'
  <2>1. \E n \in 1 .. 5 :
            /\ SlaveGranted(n)'
            /\ check_all_channels(CreditsAfter("slave", Head(fabric["slave"])), CREDIT_INIT) <=> n = 5
            /\ n = 5 => next_rx_seq'["slave"] = 5
    BY <1>1, <1>2, <1>4, <1>6, <1>10, SlaveGains
  <2>2. next_rx_seq'["slave"] = 5
    BY <1>1, <2>1
  <2>3. rxlog'["slave"] = <<>> /\ txlog["master"] \in Seq(LogEntry)
    BY <1>2, <1>6, QueueTypes, Ends DEF SlaveReceives
  <2>4. Len(rxlog'["slave"]) = 0 /\ Len(txlog["master"]) >= 0
    BY <2>3
  <2> QED BY <1>1, <2>2, <2>4 DEF SlaveInOrder
<1>11. SlaveReceives'
  BY <1>5, <1>10 DEF SlaveReceives
<1> QED BY <1>7, <1>9, <1>11 DEF DeliveryInv
-------------------------------------------------------------------------------
\* All steps together.

\* A loss is not forgotten.
LEMMA LossesStay ==
    ASSUME ConnInv, [ConnNext]_allVars, losses # 0
    PROVE  losses' # 0
<1>1. losses \in Nat
  BY ConnTypes, BoundAssumption DEF LoopTypeOK
<1>2. CASE UNCHANGED allVars
  BY <1>2 DEF allVars, vars, envVars
<1>3. ASSUME NEW e \in Endpoint, open_conn(e) \/ close_conn(e) \/ quit(e)
      PROVE  UNCHANGED losses
  BY <1>3 DEF open_conn, close_conn, quit, vars, envVars
<1>4. ASSUME NEW e \in Endpoint, Opening(e)
      PROVE  UNCHANGED losses
  BY <1>4 DEF Opening, serve_conn, open_conn_wait, open_conn_master, open_conn_slave, recv_conn
<1>5. ASSUME NEW e \in Endpoint, Closing(e)
      PROVE  UNCHANGED losses
  BY <1>5 DEF Closing, serve_close_conn, close_conn_slave, recv_close_conn, close_conn_master,
              tloe_endpoint_init
<1>6. ASSUME NEW e \in Endpoint, Loop(e)
      PROVE  UNCHANGED losses
  <2>1. CASE TX(e)
    BY <2>1, TXMore
  <2>2. CASE RX(e) /\ RX_Idle(e)
    BY <2>2 DEF RX_Idle, envVars
  <2>3. CASE RX(e) /\ ~RX_Idle(e)
    BY <2>3, RXMore
  <2>4. CASE tl_handler(e)
    BY <2>4 DEF tl_handler, TL_Skip, TLCommon, handle_A_PUTFULLDATA_opcode,
                handle_A_GET_opcode, handle_D_opcode, envVars
  <2> QED BY <1>6, <2>1, <2>2, <2>3, <2>4 DEF Loop
<1>7. ASSUME NEW e \in Endpoint, Requests(e)
      PROVE  UNCHANGED losses
  BY <1>7 DEF Requests, User, read_memory, write_memory, create_and_enqueue_message, Submit, envVars
<1>8. ASSUME NEW e \in Endpoint, LoseFrame(e)
      PROVE  losses' # 0
  BY <1>1, <1>8 DEF LoseFrame, Lose
<1> QED BY <1>2, <1>3, <1>4, <1>5, <1>6, <1>7, <1>8 DEF ConnNext, Handshake

LEMMA LoopDelivery ==
    ASSUME ConnInv, ConnInv', SessionInv, DeliveryInv, losses = 0, NEW e \in Endpoint, Loop(e)
    PROVE  DeliveryInv'
<1>1. UNCHANGED <<user, connection, conn_flag, start>> /\ (e = "master" \/ e = "slave")
  BY Ends DEF Loop
<1>2. CASE connection[e] /\ TX(e)
  BY <1>1, <1>2, TXMasterDelivery, TXSlaveDelivery
<1>3. CASE RX(e) /\ RX_Idle(e)
  BY <1>1, <1>3, IdleDelivery
<1>4. CASE RX(e) /\ ~RX_Idle(e)
  BY <1>1, <1>4, RXMasterDelivery, RXSlaveDelivery
<1>5. CASE tl_handler(e)
  BY <1>1, <1>5, HandlerDelivery
<1> QED BY <1>2, <1>3, <1>4, <1>5 DEF Loop

LEMMA OpeningDelivery ==
    ASSUME ConnInv, ConnInv', SessionInv, DeliveryInv, losses = 0, NEW e \in Endpoint, Opening(e)
    PROVE  DeliveryInv'
<1>1. e = "master" \/ e = "slave"
  BY Ends
<1>2. CASE serve_conn(e)
  BY <1>1, <1>2, ServeMasterDelivery, ServeSlaveDelivery
<1>3. CASE fabric[e] # <<>> /\ open_conn_wait(e, Head(fabric[e]))
  BY <1>1, <1>3, WaitMasterDelivery, WaitSlaveDelivery
<1>4. CASE fabric[e] # <<>> /\ e = "master" /\ open_conn_master(Head(fabric[e]))
  BY <1>4, OpenMasterDelivery
<1>5. CASE fabric[e] # <<>> /\ e = "slave" /\ open_conn_slave(Head(fabric[e]))
  BY <1>5, OpenSlaveDelivery
<1> QED BY <1>2, <1>3, <1>4, <1>5 DEF Opening

LEMMA ClosingStepDelivery ==
    ASSUME Prompt, ConnInv, ConnInv', SessionInv, DeliveryInv, losses = 0,
           NEW e \in Endpoint, Closing(e)
    PROVE  DeliveryInv'
<1>1. e = "master" \/ e = "slave"
  BY Ends
<1>2. CASE serve_close_conn(e)
  BY <1>1, <1>2, ServeCloseMasterDelivery, ServeCloseSlaveDelivery
<1>3. CASE e = "slave" /\ close_conn_slave
  BY <1>3, CloseSlaveDelivery
<1>4. CASE fabric[e] # <<>> /\ recv_close_conn(e, Head(fabric[e]))
  BY <1>1, <1>4, RecvCloseMasterDelivery, RecvCloseSlaveDelivery
<1>5. CASE fabric[e] # <<>> /\ e = "master" /\ close_conn_master(Head(fabric[e]))
  BY <1>5, CloseMasterDelivery
<1> QED BY <1>2, <1>3, <1>4, <1>5 DEF Closing

LEMMA InitDelivery == ConnInit => DeliveryInv
<1> SUFFICES ASSUME ConnInit PROVE DeliveryInv
  OBVIOUS
<1>1. Fresh /\ user = [e \in Endpoint |-> "idle"] /\ connection = [e \in Endpoint |-> FALSE]
  BY DEF ConnInit
<1>2. /\ pc = [e \in Endpoint |-> "tx"] /\ fabric = [e \in Endpoint |-> <<>>]
      /\ retransmit_buffer = [e \in Endpoint |-> <<>>] /\ rxlog = [e \in Endpoint |-> <<>>]
      /\ txlog = [e \in Endpoint |-> <<>>] /\ tl_msg_buffer = [e \in Endpoint |-> <<>>]
      /\ tx_flow_credits = [e \in Endpoint |-> [c \in Channel |-> 0]]
  BY <1>1 DEF Fresh
<1>3. /\ \A e \in Endpoint : /\ pc[e] = "tx" /\ fabric[e] = <<>> /\ retransmit_buffer[e] = <<>>
                             /\ rxlog[e] = <<>> /\ user[e] = "idle" /\ connection[e] = FALSE
                             /\ txlog[e] = <<>> /\ tl_msg_buffer[e] = <<>>
  BY <1>1, <1>2
<1>4. NothingOwed("master")
  BY <1>2, <1>3, Ends DEF NothingOwed
<1>5. MasterSends
  BY <1>3, <1>4, Ends DEF MasterSends
<1>6. ToSlave
  <2> DEFINE F == MasterFrame(txlog["master"]) \cup CloseFrames
  <2>1. fabric["slave"] = <<>> /\ user["master"] = "idle"
    BY <1>3, Ends
  <2>2. <<>> \in Seq(F)
    <3> HIDE DEF F
    <3> QED OBVIOUS
  <2>3. Chained(<<>>)
    BY DEF Chained
  <2> QED BY <2>1, <2>2, <2>3 DEF ToSlave
<1>7. SlaveReceives
  BY <1>3, Ends DEF SlaveReceives
<1> QED BY <1>5, <1>6, <1>7 DEF DeliveryInv

LEMMA NextDelivery ==
    ASSUME Prompt
    PROVE  ConnInv /\ SessionInv /\ DeliveryInv /\ [ConnNext]_allVars => DeliveryInv'
<1> SUFFICES ASSUME ConnInv, SessionInv, DeliveryInv, [ConnNext]_allVars PROVE DeliveryInv'
  OBVIOUS
<1>0. ConnInv'
  BY NextConn
<1>1. CASE losses # 0
  BY <1>1, LossesStay DEF DeliveryInv
<1>2. CASE losses = 0
  <2>1. CASE UNCHANGED allVars
    BY <1>0, <2>1, StutterDelivery
  <2>2. ASSUME NEW e \in Endpoint, open_conn(e) \/ close_conn(e) \/ quit(e)
        PROVE  DeliveryInv'
    BY <1>0, <1>2, <2>2, OpenCommandDelivery, CloseCommandDelivery, QuitDelivery
  <2>3. ASSUME NEW e \in Endpoint, Handshake(e)
        PROVE  DeliveryInv'
    BY <1>0, <1>2, <2>3, OpeningDelivery, ClosingStepDelivery DEF Handshake
  <2>4. ASSUME NEW e \in Endpoint, Loop(e)
        PROVE  DeliveryInv'
    BY <1>0, <1>2, <2>4, LoopDelivery
  <2>5. ASSUME NEW e \in Endpoint, Requests(e)
        PROVE  DeliveryInv'
    BY <1>0, <2>5, UserDelivery DEF Requests
  <2>6. ASSUME NEW e \in Endpoint, LoseFrame(e)
        PROVE  DeliveryInv'
    BY <2>6, LoseDelivery DEF LoseFrame
  <2> QED BY <2>1, <2>2, <2>3, <2>4, <2>5, <2>6 DEF ConnNext
<1> QED BY <1>1, <1>2

\* While nothing is lost, the slave takes the master's handshakes and what follows
\* them in order, although it does not look at the numbers of a handshake: it opens
\* with the frame that bears number 4 (recv_conn_slave, open_conn_slave, serve_conn).
THEOREM DeliveryInvariant == ASSUME Prompt PROVE ConnSpec => []DeliveryInv
<1>1. ConnInit => ConnInv /\ SessionInv /\ DeliveryInv
  BY InitConn, InitSession, InitDelivery
<1>2. ConnInv /\ SessionInv /\ DeliveryInv /\ [ConnNext]_allVars
        => (ConnInv /\ SessionInv /\ DeliveryInv)'
  BY NextConn, NextSession, NextDelivery
<1> QED BY <1>1, <1>2, PTL DEF ConnSpec

\* While nothing is lost, both ends of an open connection accept the beginning of
\* what the other has numbered in it, in order and once: a frame of a handshake
\* that was sent again, or is left over from an earlier connection, is never taken
\* for data, for any number of connections and repeated handshakes, when the
\* endpoint thread ends its iteration before a close goes on (serve_conn,
\* recv_conn_slave, open_conn_slave, tloe_rx_get_req_type).
THEOREM SessionsDeliver == ASSUME Prompt PROVE ConnSpec => []SessionDelivery
<1>1. ConnInit => ConnInv /\ SessionInv /\ DeliveryInv
  BY InitConn, InitSession, InitDelivery
<1>2. ConnInv /\ SessionInv /\ DeliveryInv /\ [ConnNext]_allVars
        => (ConnInv /\ SessionInv /\ DeliveryInv)'
  BY NextConn, NextSession, NextDelivery
<1>3. ConnInv /\ SessionInv /\ DeliveryInv => SessionDelivery
  <2> SUFFICES ASSUME ConnInv, SessionInv, DeliveryInv, Connected, losses = 0
               PROVE  InOrderDelivery
    BY DEF SessionDelivery, Undisturbed
  <2>1. connection["master"] /\ connection["slave"]
    BY Ends DEF Connected
  <2>2. Served /\ user["master"] # "close"
    BY <2>1, MasterConnected
  <2>3. SlaveInOrder
    BY <2>1, <2>2 DEF DeliveryInv, SlaveReceives
  <2>4. ASSUME NEW e \in Endpoint
        PROVE  /\ Len(rxlog[e]) <= Len(txlog[Peer(e)])
               /\ \A i \in 1 .. Len(rxlog[e]) : rxlog[e][i] = txlog[Peer(e)][i]
    <3>1. CASE e = "master"
      BY <2>1, <2>2, <3>1, Ends DEF Served
    <3>2. CASE e = "slave"
      BY <2>3, <3>2, Ends DEF SlaveInOrder
    <3> QED BY <3>1, <3>2, Ends
  <2> QED BY <2>4 DEF InOrderDelivery
<1> QED BY <1>1, <1>2, <1>3, PTL DEF ConnSpec
-------------------------------------------------------------------------------
\* The credit.

\* What returns nothing adds up to 0, wherever the receiver has got to.
LEMMA NoneReturned ==
    ASSUME NEW log \in Seq(LogEntry), ReturnsNothing(log), NEW k \in 0 .. Len(log),
           NEW c \in Carrying
    PROVE  Returned(SubSeq(log, k + 1, Len(log)), c) = 0
<1> DEFINE n == Len(log)
           rest == SubSeq(log, k + 1, n)
           w == [i \in DOMAIN rest |-> IF rest[i].chan = c THEN 2^rest[i].credit ELSE 0]
<1>1. n \in Nat /\ k \in Nat /\ k <= n /\ \A i \in 1 .. n : log[i].chan = CHANNEL_0
  BY DEF ReturnsNothing
<1>2. c # CHANNEL_0
  BY DEF Carrying, CHANNEL_0
<1>3. /\ rest \in Seq(LogEntry)
      /\ \A i \in 1 .. Len(rest) : rest[i] = log[k + i] /\ k + i \in 1 .. n
  <2> HIDE DEF n
  <2>0. \A i \in k + 1 .. n : log[i] \in LogEntry
    BY <1>1 DEF n
  <2>1. /\ rest \in Seq(LogEntry)
        /\ Len(rest) = IF k + 1 <= n THEN n - (k + 1) + 1 ELSE 0
        /\ \A i \in 1 .. n - (k + 1) + 1 : rest[i] = log[k + 1 + i - 1]
    BY <1>1, <2>0, SubSeqProperties
  <2> QED BY <1>1, <2>1
<1> HIDE DEF rest
<1>4. DOMAIN rest = 1 .. Len(rest)
  BY <1>3
<1>5. \A i \in DOMAIN w : w[i] = 0
  BY <1>1, <1>2, <1>3, <1>4
<1> HIDE DEF w
<1>6. Units(w) = {}
  BY <1>5 DEF Units
<1>7. Total(w) = 0
  BY <1>6, FS_EmptySet DEF Total
<1> QED BY <1>7 DEF Returned, w, rest, n

\* Nothing is on its way when nothing was numbered.
LEMMA NoneInTransit ==
    ASSUME NEW e, txlog[e] = <<>>, Len(rxlog[Peer(e)]) \in Nat
    PROVE  InTransit(e) = <<>>
BY DEF InTransit

\* A step of e leaves the account of either end as it was.
LEMMA AccountsKept ==
    ASSUME NEW e \in Endpoint, KeepsCredit(e), NEW x \in Endpoint, Accounted(x)
    PROVE  Accounted(x)'
<1> SUFFICES ASSUME NEW c \in Carrying, exited'[Peer(x)] = "no"
             PROVE  Balance(x, c)' = 2^CREDIT_DEFAULT
  BY DEF Accounted
<1>1. CASE x = e
  BY <1>1 DEF Accounted, KeepsCredit
<1>2. CASE x = Peer(e)
  <2>1. Peer(x) = e /\ exited'[e] = "no" /\ exited[Peer(x)] = "no"
    BY <1>2, PeerFact DEF KeepsCredit
  <2>2. Balance(x, c) = 2^CREDIT_DEFAULT
    BY <2>1 DEF Accounted
  <2>3. Balance(Peer(e), c)' = Balance(Peer(e), c)
    BY <2>1 DEF KeepsCredit
  <2>4. Balance(x, c)' = Balance(Peer(e), c)'
    BY <1>2 DEF Balance, InTransit
  <2> QED BY <1>2, <2>2, <2>3, <2>4
<1> QED BY <1>1, <1>2, PeerFact

\* Steps that move no credit and bring neither end closer to a connection.
LEMMA CalmCredit ==
    ASSUME CreditInv, losses' = losses,
           UNCHANGED <<credits, tx_flow_credits, tl_msg_buffer, txlog, rxlog, exited>>,
           Unopened("master")' => Unopened("master"), Unopened("slave")' => Unopened("slave"),
           SlaveFirst' => SlaveFirst, SlaveUses' => SlaveUses, MasterUses' => MasterUses
    PROVE  CreditInv'
<1>1. ASSUME NEW x, NEW c PROVE Balance(x, c)' = Balance(x, c)
  BY DEF Balance, InTransit
<1>2. ASSUME NEW x, Accounted(x) PROVE Accounted(x)'
  BY <1>1, <1>2 DEF Accounted
<1>3. ASSUME NEW x, NothingOwed(x) PROVE NothingOwed(x)'
  BY <1>3 DEF NothingOwed
<1>4. ReturnsNothing(txlog["slave"]) => ReturnsNothing(txlog'["slave"])
  BY DEF ReturnsNothing
<1> QED BY <1>2, <1>3, <1>4 DEF CreditInv

\* In a connection both ends have accepted no more than was numbered.
LEMMA ConnOrdered ==
    ASSUME ConnInv, SessionInv, DeliveryInv, CreditInv, losses = 0, SlaveUses \/ MasterUses
    PROVE  Ordered
<1>1. ASSUME NEW e \in Endpoint
      PROVE  /\ txlog[e] \in Seq(LogEntry) /\ rxlog[e] \in Seq(LogEntry)
             /\ Len(txlog[e]) \in Nat /\ Len(rxlog[e]) \in Nat
  BY QueueTypes
<1>2. user["master"] # "close"
  BY MasterConnected DEF SlaveUses, MasterUses
<1>3. Len(rxlog["slave"]) <= Len(txlog["master"])
  <2>1. CASE connection["slave"]
    BY <1>2, <2>1 DEF DeliveryInv, SlaveReceives, SlaveInOrder
  <2>2. CASE ~connection["slave"]
    <3>1. rxlog["slave"] = <<>>
      BY <2>2 DEF DeliveryInv, SlaveReceives, SlaveUses, MasterUses
    <3> QED BY <1>1, <3>1, Ends
  <2> QED BY <2>1, <2>2
<1>4. Len(rxlog["master"]) <= Len(txlog["slave"])
  <2>1. CASE connection["master"]
    BY <2>1, MasterConnected DEF Served
  <2>2. CASE ~connection["master"]
    <3>1. connection["slave"]
      BY <2>2 DEF SlaveUses, MasterUses
    <3>2. user["master"] = "open"
      BY <1>2, <2>2, <3>1, SessionParts DEF Turns, Speaking
    <3>3. rxlog["master"] = <<>>
      BY <2>2, <3>2 DEF CreditInv, Unopened
    <3> QED BY <1>1, <3>3, Ends
  <2> QED BY <2>1, <2>2
<1> QED BY <1>3, <1>4, Ends DEF Ordered

\* What RX accepts in a connection is the next payload of the peer.
LEMMA ConnBringsNext ==
    ASSUME ConnInv, SessionInv, DeliveryInv, losses = 0, SlaveUses \/ MasterUses,
           NEW e \in Endpoint, connection[e], fabric[e] # <<>>, Accept(e, Head(fabric[e]))
    PROVE  BringsNext(e)
<1> DEFINE f == Head(fabric[e])
           k == Len(rxlog[e])
<1>1. user["master"] # "close"
  BY MasterConnected DEF SlaveUses, MasterUses
<1>2. /\ Len(rxlog'[e]) <= Len(txlog[Peer(e)])
      /\ \A i \in 1 .. Len(rxlog'[e]) : rxlog'[e][i] = txlog[Peer(e)][i]
  <2>1. CASE e = "master"
    BY <2>1, MasterConnected, MasterAccepts, Ends
  <2>2. CASE e = "slave"
    <3>1. ToSlave /\ SlaveInOrder
      BY <1>1, <2>2 DEF DeliveryInv, SlaveReceives
    <3> QED BY <1>1, <2>2, <3>1, SlaveAccepts, Ends
  <2> QED BY <2>1, <2>2, Ends
<1>3. rxlog \in [Endpoint -> Seq(LogEntry)]
  BY ConnTypes DEF LinkTypeOK
<1>4. rxlog' = [rxlog EXCEPT ![e] = Append(rxlog[e], Payload(f))]
  BY DEF Accept
<1>5. k \in Nat /\ rxlog'[e] = Append(rxlog[e], Payload(f)) /\ rxlog[e] \in Seq(LogEntry)
  BY <1>3, <1>4
<1> HIDE DEF f
<1>6. Len(rxlog'[e]) = k + 1 /\ rxlog'[e][k + 1] = Payload(f)
  BY <1>5
<1>7. k + 1 \in 1 .. Len(rxlog'[e])
  BY <1>5, <1>6
<1> QED BY <1>2, <1>6, <1>7 DEF BringsNext, f

\* A step of the endpoint thread keeps the accounts of a connection in use.
LEMMA LoopAccounts ==
    ASSUME ConnInv, SessionInv, DeliveryInv, CreditInv, losses = 0, SlaveUses \/ MasterUses,
           NEW e \in Endpoint, connection[e], Thread(e)
    PROVE  KeepsCredit(e)
<1>1. TypeInv /\ Ordered /\ AcceptedBound
  BY ConnTypes, ConnOrdered
<1>2. fabric[e] # <<>> /\ Accept(e, Head(fabric[e])) => BringsNext(e)
  BY ConnBringsNext
<1> QED BY <1>1, <1>2, TXCredit, RXCredit, HandlerCredit DEF Thread

\* What a step of the endpoint thread leaves alone.
LEMMA LoopLeaves ==
    ASSUME ConnInv, NEW e \in Endpoint, Thread(e)
    PROVE  /\ tl_msg_buffer'[Peer(e)] = tl_msg_buffer[Peer(e)]
           /\ tx_flow_credits'[Peer(e)] = tx_flow_credits[Peer(e)]
           /\ rxlog'[Peer(e)] = rxlog[Peer(e)] /\ txlog'[Peer(e)] = txlog[Peer(e)]
           /\ UNCHANGED losses
<1>1. /\ tl_msg_buffer \in [Endpoint -> Seq(TLMsg)]
      /\ tx_flow_credits \in [Endpoint -> [Channel -> Nat]]
      /\ rxlog \in [Endpoint -> Seq(LogEntry)] /\ txlog \in [Endpoint -> Seq(LogEntry)]
      /\ Peer(e) \in Endpoint /\ Peer(e) # e
  BY ConnTypes, PeerFact DEF LoopTypeOK, CreditTypeOK, LinkTypeOK
<1>2. CASE TX(e)
  <2>1. UNCHANGED <<losses, tl_msg_buffer>>
    BY <1>2, TXMore
  <2>2. UNCHANGED rxlog
    BY <1>2, TXShape
  <2>3. PICK elapsed :
          \/ /\ TX_Hold(e, elapsed)
             /\ UNCHANGED <<retransmit_buffer, next_tx_seq, txlog, tx_flow_credits>>
          \/ \E tlmsg \in TLMsg \cup {NULL} : SendNormalFrame(e, elapsed, tlmsg)
    BY <1>2, TXShape
  <2>4. ASSUME NEW tlmsg \in TLMsg \cup {NULL}, SendNormalFrame(e, elapsed, tlmsg)
        PROVE  /\ txlog'[Peer(e)] = txlog[Peer(e)]
               /\ tx_flow_credits'[Peer(e)] = tx_flow_credits[Peer(e)]
    BY <2>4, SendShape
  <2> QED BY <2>1, <2>2, <2>3, <2>4
<1>3. CASE RX_Idle(e)
  BY <1>3 DEF RX_Idle, linkVars, fcVars, tlVars, envVars
<1>4. CASE RX(e) /\ ~RX_Idle(e)
  <2>1. /\ UNCHANGED <<losses, txlog, tx_flow_credits>>
        /\ tl_msg_buffer'[Peer(e)] = tl_msg_buffer[Peer(e)]
        /\ Accept(e, Head(fabric[e])) \/ UNCHANGED rxlog
    BY <1>4, RXShape, RXMore
  <2>2. rxlog'[Peer(e)] = rxlog[Peer(e)]
    BY <1>1, <2>1 DEF Accept
  <2> QED BY <2>1, <2>2
<1>5. CASE tl_handler(e)
  <2>1. CASE TL_Skip(e)
    BY <2>1 DEF TL_Skip, linkVars, fcVars, tlVars, envVars
  <2>2. CASE ~TL_Skip(e)
    <3>1. TLCommon(e, Head(tl_msg_buffer[e]))
      BY <1>5, <2>2 DEF tl_handler, handle_A_PUTFULLDATA_opcode, handle_A_GET_opcode, handle_D_opcode
    <3>2. PICK queue, more :
            /\ tl_msg_buffer' = [tl_msg_buffer EXCEPT ![e] = queue]
            /\ tx_flow_credits' = [tx_flow_credits EXCEPT ![e] = more]
      BY <3>1 DEF TLCommon
    <3>3. UNCHANGED <<rxlog, txlog, losses>>
      BY <3>1 DEF TLCommon, linkVars, envVars
    <3> QED BY <1>1, <3>2, <3>3
  <2> QED BY <2>1, <2>2
<1> QED BY <1>2, <1>3, <1>4, <1>5 DEF Thread

\* While the master has not opened, the slave accepts nothing and returns nothing.
LEMMA SlaveAlone ==
    ASSUME ConnInv, SessionInv, DeliveryInv, CreditInv, losses = 0, SlaveFirst, Thread("slave")
    PROVE  NothingOwed("slave")' /\ ReturnsNothing(txlog'["slave"])
<1> DEFINE log == txlog["slave"]
<1>1. connection["slave"] /\ user["master"] = "open" /\ ~connection["master"]
  BY ConnTypes, Ends DEF SlaveFirst, Phases
<1>2. NothingOwed("slave") /\ ReturnsNothing(log) /\ log \in Seq(LogEntry)
  BY QueueTypes, Ends DEF CreditInv
<1>3. txlog["master"] = <<>>
  BY <1>1, ConnTypes, Ends DEF Phases, Closed
<1>4. CASE TX("slave")
  <2>1. tl_msg_buffer' = tl_msg_buffer
    BY <1>4, TXMore, Ends
  <2>2. PICK elapsed :
          \/ /\ TX_Hold("slave", elapsed)
             /\ UNCHANGED <<retransmit_buffer, next_tx_seq, txlog, tx_flow_credits>>
          \/ \E tlmsg \in TLMsg \cup {NULL} : SendNormalFrame("slave", elapsed, tlmsg)
    BY <1>4, TXShape, Ends
  <2>3. CASE UNCHANGED <<txlog, tx_flow_credits>>
    BY <1>2, <2>1, <2>3 DEF NothingOwed, ReturnsNothing
  <2>4. ASSUME NEW tlmsg \in TLMsg \cup {NULL}, SendNormalFrame("slave", elapsed, tlmsg)
        PROVE  NothingOwed("slave")' /\ ReturnsNothing(txlog'["slave"])
    <3> DEFINE f == NormalFrame("slave", tlmsg)
    <3>1. /\ f \in Frame /\ txlog'["slave"] = Append(log, Payload(f))
          /\ \A c \in Channel : tx_flow_credits["slave"][c] = 0 =>
                tx_flow_credits'["slave"][c] = 0 /\ (c # CHANNEL_0 => f.chan # c)
      BY <2>4, SendShape, Ends
    <3> HIDE DEF f
    <3>2. NothingOwed("slave")'
      BY <1>2, <2>1, <3>1 DEF NothingOwed
    <3>3. Payload(f) \in LogEntry /\ Payload(f).chan = f.chan /\ f.chan \in Channel
      BY <3>1, FrameFact DEF Payload
    <3>4. f.chan = CHANNEL_0
      BY <1>2, <3>1, <3>3 DEF NothingOwed
    <3>5. ReturnsNothing(txlog'["slave"])
      BY <1>2, <3>1, <3>3, <3>4, MoreSilent DEF ReturnsNothing
    <3> QED BY <3>2, <3>5
  <2> QED BY <2>2, <2>3, <2>4
<1>5. CASE RX_Idle("slave")
  BY <1>2, <1>5 DEF RX_Idle, linkVars, fcVars, tlVars, NothingOwed, ReturnsNothing
<1>6. CASE RX("slave") /\ ~RX_Idle("slave")
  <2>1. /\ fabric["slave"] # <<>> /\ UNCHANGED <<txlog, tx_flow_credits>>
        /\ Accept("slave", Head(fabric["slave"])) \/ UNCHANGED tl_msg_buffer
    BY <1>6, RXShape, RXMore, Ends
  <2>2. ~Accept("slave", Head(fabric["slave"]))
    <3> SUFFICES ASSUME Accept("slave", Head(fabric["slave"])) PROVE FALSE
      OBVIOUS
    <3>1. BringsNext("slave")
      BY <1>1, <2>1, ConnBringsNext, Ends DEF SlaveUses
    <3>2. Len(rxlog["slave"]) \in Nat
      BY QueueTypes, Ends
    <3> QED BY <1>3, <3>1, <3>2, Ends DEF BringsNext
  <2> QED BY <1>2, <2>1, <2>2 DEF NothingOwed, ReturnsNothing
<1>7. CASE tl_handler("slave")
  <2>1. TL_Skip("slave")
    BY <1>2, <1>7 DEF tl_handler, NothingOwed
  <2> QED BY <1>2, <2>1 DEF TL_Skip, linkVars, fcVars, tlVars, NothingOwed, ReturnsNothing
<1> QED BY <1>4, <1>5, <1>6, <1>7 DEF Thread

\* A step of the endpoint thread.
LEMMA LoopCredit ==
    ASSUME ConnInv, SessionInv, DeliveryInv, CreditInv, losses = 0, NEW e \in Endpoint, Loop(e)
    PROVE  CreditInv'
<1>1. Thread(e) /\ UNCHANGED <<user, connection>>
  BY DEF Loop, Thread
<1>2. connection[e] \/ user[e] = "close"
  <2>1. connection[e] \/ pc[e] # "tx"
    BY DEF Loop, RX, tl_handler, RX_Idle, RX_Ackonly, serve_normal_request, serve_zero_tlmsg_request,
           serve_duplicate_request, serve_oos_request, Accept, RXCommon, TL_Skip,
           handle_A_PUTFULLDATA_opcode, handle_A_GET_opcode, handle_D_opcode, TLCommon, At
  <2> QED BY <2>1, RunningFact
<1>3. /\ tl_msg_buffer'[Peer(e)] = tl_msg_buffer[Peer(e)]
      /\ tx_flow_credits'[Peer(e)] = tx_flow_credits[Peer(e)]
      /\ rxlog'[Peer(e)] = rxlog[Peer(e)] /\ txlog'[Peer(e)] = txlog[Peer(e)]
  BY <1>1, LoopLeaves
<1>4. \A x \in Endpoint : connection[x] => user[x] \in {"idle", "quit"}
  BY ConnTypes DEF Phases
<1>5. /\ (Unopened("master")' <=> Unopened("master")) /\ (Unopened("slave")' <=> Unopened("slave"))
      /\ (SlaveFirst' <=> SlaveFirst) /\ (SlaveUses' <=> SlaveUses) /\ (MasterUses' <=> MasterUses)
  BY <1>1 DEF Unopened, SlaveFirst, SlaveUses, MasterUses
<1>6. ASSUME Unopened("master") PROVE rxlog'["master"] = <<>>
  <2>1. e = "slave" /\ rxlog["master"] = <<>>
    BY <1>2, <1>6, Ends DEF Unopened, CreditInv
  <2> QED BY <1>3, <2>1, Ends
<1>7. ASSUME Unopened("slave") PROVE NothingOwed("slave")'
  <2>1. e = "master" /\ NothingOwed("slave")
    BY <1>2, <1>7, Ends DEF Unopened, CreditInv
  <2> QED BY <1>3, <2>1, Ends DEF NothingOwed
<1>8. ASSUME SlaveFirst PROVE NothingOwed("slave")' /\ ReturnsNothing(txlog'["slave"])
  <2>1. e = "slave"
    BY <1>2, <1>4, <1>8, Ends DEF SlaveFirst
  <2> QED BY <1>1, <1>8, <2>1, SlaveAlone
<1>9. ASSUME SlaveUses \/ MasterUses PROVE KeepsCredit(e)
  <2>1. connection[e]
    BY <1>2, <1>4, <1>9, Ends DEF SlaveUses, MasterUses
  <2> QED BY <1>1, <1>9, <2>1, LoopAccounts
<1>10. ASSUME SlaveUses PROVE Accounted("slave")'
  BY <1>9, <1>10, AccountsKept, Ends DEF CreditInv
<1>11. ASSUME MasterUses PROVE Accounted("master")'
  BY <1>9, <1>11, AccountsKept, Ends DEF CreditInv
<1> QED BY <1>5, <1>6, <1>7, <1>8, <1>10, <1>11 DEF CreditInv

\* The commands.
LEMMA CommandCredit ==
    ASSUME ConnInv, SessionInv, CreditInv, NEW e \in Endpoint,
           open_conn(e) \/ close_conn(e) \/ quit(e)
    PROVE  CreditInv'
<1>1. UNCHANGED vars
  BY DEF open_conn, close_conn, quit
<1>2. UNCHANGED <<losses, credits, tx_flow_credits, tl_msg_buffer, txlog, rxlog, exited>>
  BY <1>1 DEF vars, linkVars, fcVars, tlVars, envVars
<1>3. /\ user \in [Endpoint -> {"idle", "open", "close", "last", "quit"}]
      /\ connection \in [Endpoint -> BOOLEAN]
  BY ConnTypes DEF ConnVarsOK
<1>4. user[e] = "idle"
  BY DEF open_conn, close_conn, quit, UserIn
<1>5. Turns
  BY SessionParts
<1>6. CASE open_conn(e)
  <2>1. user' = [user EXCEPT ![e] = "open"] /\ connection' = connection /\ ~connection[e]
    BY <1>6 DEF open_conn
  <2>2. /\ ~connection["slave"] \/ e # "master"
        /\ ~connection["master"] \/ e # "slave"
    BY <1>4, <1>5, <2>1 DEF Turns, Speaking
  <2>3. /\ Unopened("master")' => Unopened("master")
        /\ Unopened("slave")' => Unopened("slave")
    BY <1>3, <1>4, <2>1, Ends DEF Unopened
  <2>4. SlaveFirst' => SlaveFirst
    BY <1>3, <1>4, <2>1, <2>2, Ends DEF SlaveFirst
  <2>5. SlaveUses' => SlaveUses
    BY <1>3, <1>4, <2>1, Ends DEF SlaveUses
  <2>6. MasterUses' => MasterUses
    BY <1>3, <1>4, <2>1, <2>2, Ends DEF MasterUses
  <2> QED BY <1>2, <2>3, <2>4, <2>5, <2>6, CalmCredit
<1>7. CASE close_conn(e)
  <2>1. /\ user' = [user EXCEPT ![e] = "close"] /\ connection' = [connection EXCEPT ![e] = FALSE]
    BY <1>7 DEF close_conn
  <2>2. /\ Unopened("master")' => Unopened("master")
        /\ Unopened("slave")' => Unopened("slave")
    BY <1>3, <1>4, <2>1, Ends DEF Unopened
  <2>3. /\ SlaveFirst' => SlaveFirst
        /\ SlaveUses' => SlaveUses
        /\ MasterUses' => MasterUses
    BY <1>3, <1>4, <2>1, Ends DEF SlaveFirst, SlaveUses, MasterUses
  <2> QED BY <1>2, <2>2, <2>3, CalmCredit
<1>8. CASE quit(e)
  <2>1. user' = [user EXCEPT ![e] = "quit"] /\ connection' = connection
    BY <1>8 DEF quit
  <2>2. /\ Unopened("master")' => Unopened("master")
        /\ Unopened("slave")' => Unopened("slave")
    BY <1>3, <1>4, <2>1, Ends DEF Unopened
  <2>3. /\ SlaveFirst' => SlaveFirst
        /\ SlaveUses' => SlaveUses
        /\ MasterUses' => MasterUses
    BY <1>3, <1>4, <2>1, Ends DEF SlaveFirst, SlaveUses, MasterUses
  <2> QED BY <1>2, <2>2, <2>3, CalmCredit
<1> QED BY <1>6, <1>7, <1>8

\* A handshake that is sent, and a frame that is read and forgotten.
LEMMA QuietHandshakeCredit ==
    ASSUME ConnInv, SessionInv, CreditInv, NEW e \in Endpoint,
           \/ serve_conn(e) \/ serve_close_conn(e) \/ recv_close_conn(e, Head(fabric[e]))
    PROVE  CreditInv'
<1>1. /\ UNCHANGED <<losses, credits, tx_flow_credits, tl_msg_buffer, txlog, rxlog, exited, connection>>
      /\ user[e] \in {"open", "close"}
      /\ user' = user \/ (user[e] = "close" /\ user' = [user EXCEPT ![e] = IF e = "master" THEN "close" ELSE "last"])
  BY DEF serve_conn, serve_close_conn, recv_close_conn, UserIn, linkVars, fcVars, tlVars
<1>2. /\ user \in [Endpoint -> {"idle", "open", "close", "last", "quit"}]
      /\ connection \in [Endpoint -> BOOLEAN]
  BY ConnTypes DEF ConnVarsOK
<1>3. /\ user'["master"] = user["master"]
      /\ user'["slave"] = user["slave"] \/ user'["slave"] = "last"
  BY <1>1, <1>2, Ends
<1>4. /\ Unopened("master")' => Unopened("master")
      /\ Unopened("slave")' => Unopened("slave")
  BY <1>1, <1>3 DEF Unopened
<1>5. /\ SlaveFirst' => SlaveFirst
      /\ SlaveUses' => SlaveUses
      /\ MasterUses' => MasterUses
  BY <1>1, <1>3 DEF SlaveFirst, SlaveUses, MasterUses
<1> QED BY <1>1, <1>4, <1>5, CalmCredit

\* Requests, and steps that do nothing.
LEMMA UserCredit ==
    ASSUME CreditInv, NEW e \in Endpoint, User(e), UNCHANGED connVars
    PROVE  CreditInv'
<1>1. PICK m : Submit(e, m)
  BY DEF User, read_memory, write_memory, create_and_enqueue_message
<1>2. UNCHANGED <<losses, credits, tx_flow_credits, tl_msg_buffer, txlog, rxlog, exited>>
  BY <1>1 DEF Submit, linkVars, fcVars, tlVars, envVars
<1>3. UNCHANGED <<user, connection>>
  BY DEF connVars
<1> QED BY <1>2, <1>3, CalmCredit DEF Unopened, SlaveFirst, SlaveUses, MasterUses

LEMMA StutterCredit ==
    ASSUME CreditInv, UNCHANGED allVars
    PROVE  CreditInv'
<1>1. /\ UNCHANGED <<losses, credits, tx_flow_credits, tl_msg_buffer, txlog, rxlog, exited>>
      /\ UNCHANGED <<user, connection>>
  BY DEF allVars, vars, linkVars, fcVars, tlVars, envVars, connVars
<1> QED BY <1>1, CalmCredit DEF Unopened, SlaveFirst, SlaveUses, MasterUses

\* tloe_endpoint_init leaves nothing behind.
LEMMA CloseCredit ==
    ASSUME ConnInv, SessionInv, CreditInv,
           \/ fabric["master"] # <<>> /\ close_conn_master(Head(fabric["master"]))
           \/ close_conn_slave
    PROVE  CreditInv'
<1>1. CASE fabric["master"] # <<>> /\ close_conn_master(Head(fabric["master"]))
  <2>1. /\ tloe_endpoint_init("master") /\ user["master"] = "close"
        /\ Head(fabric["master"]).type = TYPE_CLOSE_CONNECTION
    BY <1>1 DEF close_conn_master, UserIn
  <2>2. /\ rxlog'["master"] = <<>> /\ tx_flow_credits'["slave"] = tx_flow_credits["slave"]
        /\ user'["master"] = "idle" /\ user'["slave"] = user["slave"] /\ connection' = connection
        /\ tl_msg_buffer'["slave"] = tl_msg_buffer["slave"] /\ losses' = losses
    BY <2>1, ResetFact, ResetMore, Ends
  <2>3. ~connection["slave"]
    <3>1. fabric["master"] \in Seq(Frame) /\ 1 \in 1 .. Len(fabric["master"])
          /\ Head(fabric["master"]) = fabric["master"][1]
      <4>1. fabric["master"] \in Seq(Frame)
        BY QueueTypes, Ends
      <4> QED BY <1>1, <4>1
    <3>2. fabric["master"] \notin Seq(Without(TYPE_CLOSE_CONNECTION))
      BY <2>1, <3>1, HeadOther
    <3> QED BY <3>2, SessionParts DEF Turns, Speaking
  <2>4. ~connection["master"]
    BY <2>1, ConnTypes, Ends DEF Phases
  <2>5. NothingOwed("slave") => NothingOwed("slave")'
    BY <2>2 DEF NothingOwed
  <2>6. /\ Unopened("slave")' => Unopened("slave")
        /\ ~SlaveFirst' /\ ~SlaveUses' /\ ~MasterUses'
    BY <2>2, <2>3, <2>4 DEF Unopened, SlaveFirst, SlaveUses, MasterUses
  <2> QED BY <2>2, <2>5, <2>6 DEF CreditInv
<1>2. CASE close_conn_slave
  <2>1. tloe_endpoint_init("slave") /\ user["slave"] = "last"
    BY <1>2 DEF close_conn_slave, UserIn
  <2>2. /\ tx_flow_credits'["slave"] = [c \in Channel |-> 0] /\ tl_msg_buffer'["slave"] = <<>>
        /\ user'["slave"] = "idle" /\ user'["master"] = user["master"] /\ connection' = connection
        /\ rxlog'["master"] = rxlog["master"] /\ losses' = losses
    BY <2>1, ResetFact, ResetMore, Ends
  <2>3. ~connection["slave"]
    BY <2>1, ConnTypes, Ends DEF Phases
  <2>4. NothingOwed("slave")'
    BY <2>2 DEF NothingOwed
  <2>5. /\ Unopened("master")' => Unopened("master")
        /\ ~SlaveFirst' /\ ~SlaveUses' /\ ~MasterUses'
    BY <2>2, <2>3 DEF Unopened, SlaveFirst, SlaveUses, MasterUses
  <2> QED BY <2>2, <2>4, <2>5 DEF CreditInv
<1> QED BY <1>1, <1>2
-------------------------------------------------------------------------------
\* Opening a connection.

\* What a frame read by e leaves alone.
LEMMA ReadsMore ==
    ASSUME ConnInv, NEW e \in Endpoint, recv_conn(e, Head(fabric[e]))
    PROVE  /\ UNCHANGED <<losses, exited, rxlog, tl_msg_buffer>>
           /\ credits'[Peer(e)] = credits[Peer(e)]
           /\ tx_flow_credits'[Peer(e)] = tx_flow_credits[Peer(e)]
           /\ NothingOwed(e) => NothingOwed(e)'
<1> DEFINE f == Head(fabric[e])
           old == tx_flow_credits[e]
           owed == clear_flow_credit(old, f.chan)
           after == CreditsAfter(e, f)
<1>1. /\ \/ tx_flow_credits' = [tx_flow_credits EXCEPT ![e] = owed]
         \/ UNCHANGED tx_flow_credits
      /\ credits' = [credits EXCEPT ![e] = after]
      /\ UNCHANGED <<losses, exited, rxlog, tl_msg_buffer>>
  BY DEF recv_conn, tlVars
<1>2. /\ credits \in [Endpoint -> [Channel -> Nat]]
      /\ tx_flow_credits \in [Endpoint -> [Channel -> Nat]] /\ old \in [Channel -> Nat]
      /\ Peer(e) \in Endpoint /\ Peer(e) # e
  BY HandshakeTypes, PeerFact
<1>3. \A c \in Channel : old[c] = 0 => owed[c] = 0
  <2>1. owed = [old EXCEPT ![f.chan] = 0]
    BY DEF clear_flow_credit
  <2> HIDE DEF f, owed, old
  <2> QED BY <1>2, <2>1
<1> HIDE DEF f, owed, after
<1>4. /\ credits'[Peer(e)] = credits[Peer(e)]
      /\ tx_flow_credits'[Peer(e)] = tx_flow_credits[Peer(e)]
      /\ tx_flow_credits'[e] = owed \/ tx_flow_credits'[e] = old
  BY <1>1, <1>2
<1>5. ASSUME NothingOwed(e) PROVE NothingOwed(e)'
  <2>1. tl_msg_buffer'[e] = <<>> /\ \A c \in Channel : old[c] = 0
    BY <1>1, <1>5 DEF NothingOwed
  <2> HIDE DEF old
  <2>2. \A c \in Channel : tx_flow_credits'[e][c] = 0
    BY <1>3, <1>4, <2>1
  <2> QED BY <2>1, <2>2 DEF NothingOwed
<1> QED BY <1>1, <1>4, <1>5

\* An end that owes nothing reads a frame: the account of its peer stays.
LEMMA PeerAccount ==
    ASSUME ConnInv, NEW e \in Endpoint, recv_conn(e, Head(fabric[e])), NothingOwed(e),
           txlog'[Peer(e)] = txlog[Peer(e)], Accounted(Peer(e)),
           \A c \in Carrying : Returned(InTransit(e)', c) = Returned(InTransit(e), c)
    PROVE  Accounted(Peer(e))'
<1> DEFINE p == Peer(e)
<1>1. p \in Endpoint /\ Peer(p) = e
  BY PeerFact
<1>2. /\ UNCHANGED <<exited, rxlog, tl_msg_buffer>> /\ credits'[p] = credits[p]
      /\ \A c \in Channel : tx_flow_credits[e][c] = 0 /\ tx_flow_credits'[e][c] = 0
  BY ReadsMore DEF NothingOwed
<1>3. ASSUME NEW c \in Carrying PROVE Balance(p, c)' = Balance(p, c)
  <2>1. c \in Channel
    BY DEF Carrying, Channel, CHANNEL_NUM
  <2>2. tx_flow_credits[e][c] = tx_flow_credits'[e][c]
    BY <1>2, <2>1
  <2>3. InTransit(p)' = InTransit(p)
    BY <1>2 DEF InTransit
  <2> HIDE DEF p
  <2> QED BY <1>1, <1>2, <2>2, <2>3 DEF Balance
<1>4. exited'[Peer(p)] = exited[Peer(p)]
  BY <1>2
<1> HIDE DEF p
<1>5. Accounted(p)'
  BY <1>3, <1>4 DEF Accounted, p
<1> QED BY <1>5 DEF p

\* Credit is still missing.
LEMMA WaitCredit ==
    ASSUME ConnInv, SessionInv, DeliveryInv, CreditInv, losses = 0,
           NEW e \in Endpoint, fabric[e] # <<>>, open_conn_wait(e, Head(fabric[e]))
    PROVE  CreditInv'
<1>1. /\ recv_conn(e, Head(fabric[e])) /\ UNCHANGED <<txlog, user, connection>>
      /\ user[e] = "open"
  BY DEF open_conn_wait, recv_conn, UserIn
<1>2. /\ UNCHANGED <<losses, exited, rxlog, tl_msg_buffer>>
      /\ tx_flow_credits'[Peer(e)] = tx_flow_credits[Peer(e)]
      /\ NothingOwed(e) => NothingOwed(e)'
  BY <1>1, ReadsMore
<1>3. ~connection[e] /\ (e = "master" \/ e = "slave")
  BY <1>1, ConnTypes, Ends DEF Phases
<1>4. NothingOwed(e)
  BY <1>1, <1>3 DEF DeliveryInv, MasterSends, CreditInv, Unopened
<1>5. ASSUME NothingOwed("slave") PROVE NothingOwed("slave")'
  <2>1. CASE e = "slave"
    BY <1>2, <1>5, <2>1
  <2>2. CASE e = "master"
    BY <1>2, <1>5, <2>2, Ends DEF NothingOwed
  <2> QED BY <1>3, <2>1, <2>2
<1>6. ASSUME Accounted(Peer(e)) PROVE Accounted(Peer(e))'
  <2>1. InTransit(e)' = InTransit(e)
    BY <1>1, <1>2 DEF InTransit
  <2>2. \A c \in Carrying : Returned(InTransit(e)', c) = Returned(InTransit(e), c)
    BY <2>1
  <2> QED BY <1>1, <1>4, <1>6, <2>2, PeerAccount
<1>7. /\ Unopened("master")' <=> Unopened("master")
      /\ Unopened("slave")' <=> Unopened("slave")
      /\ SlaveFirst' <=> SlaveFirst
      /\ SlaveUses' <=> SlaveUses
      /\ MasterUses' <=> MasterUses
  BY <1>1 DEF Unopened, SlaveFirst, SlaveUses, MasterUses
<1>8. ASSUME SlaveUses PROVE Accounted("slave")'
  <2>1. Peer(e) = "slave"
    BY <1>3, <1>8, Ends DEF SlaveUses
  <2> QED BY <1>6, <1>8, <2>1 DEF CreditInv
<1>9. ASSUME MasterUses PROVE Accounted("master")'
  <2>1. Peer(e) = "master"
    BY <1>3, <1>9, Ends DEF MasterUses
  <2> QED BY <1>6, <1>9, <2>1 DEF CreditInv
<1>10. ASSUME SlaveFirst PROVE ReturnsNothing(txlog'["slave"])
  BY <1>1, <1>10 DEF CreditInv, ReturnsNothing
<1> QED BY <1>2, <1>5, <1>7, <1>8, <1>9, <1>10 DEF CreditInv

\* The master opens.  The slave has sent nothing but the handshake and empty
\* frames, and neither end owes anything.
LEMMA OpenMasterCredit ==
    ASSUME ConnInv, SessionInv, DeliveryInv, CreditInv, losses = 0, fabric["master"] # <<>>,
           open_conn_master(Head(fabric["master"]))
    PROVE  CreditInv'
<1> DEFINE a == tloe_seqnum_prev(next_rx_seq'["master"])
           last == send_frame(TYPE_NORMAL, next_tx_seq["master"], a, CHANNEL_0, 0)
           entry == Payload(last)
           grant == 2^CREDIT_DEFAULT
<1>1. /\ recv_conn("master", Head(fabric["master"]))
      /\ check_all_channels(CreditsAfter("master", Head(fabric["master"])), CREDIT_INIT)
      /\ txlog' = [txlog EXCEPT !["master"] = Append(txlog["master"], entry)]
      /\ user' = [user EXCEPT !["master"] = "idle"]
      /\ connection' = [connection EXCEPT !["master"] = TRUE]
  BY DEF open_conn_master, Opened
<1>2. /\ user["master"] = "open" /\ ~connection["master"] /\ Spoken /\ (Served \/ NotServed)
      /\ credits'["master"] = CreditsAfter("master", Head(fabric["master"]))
  BY <1>1, RecvMaster
<1>3. /\ UNCHANGED <<losses, exited, rxlog, tl_msg_buffer>>
      /\ tx_flow_credits'["slave"] = tx_flow_credits["slave"]
  BY <1>1, ReadsMore, Ends
<1>4. \A c \in Carrying : credits'["master"][c] = grant
  <2>1. Served
    BY <1>1, <1>2, MasterNotServed
  <2>2. next_rx_seq'["master"] = 5
        /\ \A c \in CHANNEL_A .. CHANNEL_E :
              credits'["master"][c] =
                  2^(IF c <= next_rx_seq'["master"] THEN CREDIT_DEFAULT ELSE CREDIT_INIT)
    BY <1>1, <1>2, <2>1, MasterServed
  <2>3. \A c \in Carrying : c \in CHANNEL_A .. CHANNEL_E /\ c <= 5
    BY DEF Carrying, CHANNEL_A, CHANNEL_E, CHANNEL_NUM
  <2> QED BY <2>2, <2>3
<1>5. rxlog["master"] = <<>> /\ NothingOwed("master") /\ txlog["master"] = <<>>
  BY <1>2 DEF CreditInv, Unopened, DeliveryInv, MasterSends
<1>6. /\ user'["master"] = "idle" /\ user'["slave"] = user["slave"]
      /\ connection'["master"] /\ connection'["slave"] = connection["slave"]
  BY <1>1, ConnTypes, Ends DEF ConnVarsOK
<1>7. txlog \in [Endpoint -> Seq(LogEntry)]
  BY HandshakeTypes
<1>8. /\ entry.chan = CHANNEL_0 /\ entry.credit = 0 /\ entry.tlmsg = NULL
      /\ entry \in LogEntry
  BY DEF Payload, send_frame, LogEntry, Channel, CHANNEL_0, CHANNEL_NUM
<1> HIDE DEF entry, grant
<1>9. txlog'["slave"] = txlog["slave"]
  BY <1>1, <1>7, Ends
<1>10. ASSUME connection["slave"] \/ user["slave"] = "open"
       PROVE  /\ NothingOwed("slave") /\ ReturnsNothing(txlog["slave"]) /\ Ordered
  <2>1. NothingOwed("slave") /\ ReturnsNothing(txlog["slave"])
    <3>1. CASE connection["slave"]
      BY <1>2, <3>1 DEF CreditInv, SlaveFirst
    <3>2. CASE ~connection["slave"]
      <4>1. txlog["slave"] = <<>>
        BY <1>10, <3>2, ConnTypes, Ends DEF Phases, Closed
      <4>2. ReturnsNothing(<<>>)
        BY DEF ReturnsNothing
      <4> QED BY <1>10, <3>2, <4>1, <4>2 DEF CreditInv, Unopened
    <3> QED BY <3>1, <3>2
  <2>2. Len(rxlog["slave"]) <= Len(txlog["master"])
    <3>1. CASE connection["slave"]
      BY <1>2, <3>1 DEF DeliveryInv, SlaveReceives, SlaveInOrder
    <3>2. CASE ~connection["slave"]
      BY <1>5, <1>10, <3>2 DEF DeliveryInv, SlaveReceives
    <3> QED BY <3>1, <3>2
  <2>3. Len(txlog["slave"]) \in Nat
    BY <1>7, Ends
  <2>4. Len(rxlog["master"]) <= Len(txlog["slave"])
    BY <1>5, <2>3
  <2> QED BY <2>1, <2>2, <2>4, Ends DEF Ordered
<1>11. ASSUME connection["slave"] \/ user["slave"] = "open", NEW c \in Carrying
       PROVE  /\ Flits(Messages(InTransit("master")'), c) = 0
              /\ Returned(InTransit("master")', c) = Returned(InTransit("master"), c)
              /\ Returned(InTransit("slave")', c) = 0
  <2>1. FlitsOn(NULL, c) = 0 /\ ReturnedOn(entry, c) = 0
    BY <1>8, WeightFact DEF ReturnedOn, Carrying, CHANNEL_0
  <2>2. TypeInv /\ Ordered
    BY <1>10, <1>11, ConnTypes
  <2>3. /\ Flits(Messages(InTransit("master")'), c)
              = Flits(Messages(InTransit("master")), c) + FlitsOn(entry.tlmsg, c)
        /\ Returned(InTransit("master")', c)
              = Returned(InTransit("master"), c) + ReturnedOn(entry, c)
        /\ InTransit("slave")' = InTransit("slave")
    BY <1>1, <1>3, <1>8, <2>2, SendSums, Ends
  <2>4. InTransit("master") = <<>>
    BY <1>5, <2>2, NoneInTransit, QueueTypes, Ends
  <2>5. Flits(Messages(<<>>), c) = 0 /\ Returned(<<>>, c) = 0
    BY EmptySums
  <2>6. Returned(InTransit("slave"), c) = 0
    <3> DEFINE log == txlog["slave"]
    <3>1. log \in Seq(LogEntry) /\ ReturnsNothing(log) /\ Len(log) \in Nat
      BY <1>7, <1>10, <1>11, Ends
    <3> HIDE DEF log
    <3>2. 0 \in 0 .. Len(log)
      BY <3>1
    <3>3. Returned(SubSeq(log, 0 + 1, Len(log)), c) = 0
      BY <3>1, <3>2, NoneReturned
    <3>4. Len(rxlog["master"]) = 0
      BY <1>5
    <3>5. InTransit("slave") = SubSeq(log, 0 + 1, Len(log))
      BY <3>4, Ends DEF InTransit, log
    <3> QED BY <3>3, <3>5
  <2>7. Flits(Messages(InTransit("master")), c) = 0 /\ Returned(InTransit("master"), c) = 0
    BY <2>4, <2>5
  <2> QED BY <1>8, <2>1, <2>3, <2>6, <2>7
<1>12. ASSUME MasterUses' PROVE Accounted("master")'
  <2>1. connection["slave"] \/ user["slave"] = "open"
    BY <1>6, <1>12 DEF MasterUses
  <2>2. /\ tl_msg_buffer'["slave"] = <<>>
        /\ \A c \in Channel : tx_flow_credits'["slave"][c] = 0
    BY <1>3, <1>10, <2>1 DEF NothingOwed
  <2>3. ASSUME NEW c \in Carrying PROVE Balance("master", c)' = grant
    <3>1. c \in Channel
      BY DEF Carrying, Channel, CHANNEL_NUM
    <3>2. tx_flow_credits'["slave"][c] = 0 /\ credits'["master"][c] = grant
      BY <1>4, <2>2, <3>1
    <3>3. /\ Flits(Messages(InTransit("master")'), c) = 0
          /\ Returned(InTransit("slave")', c) = 0
      BY <1>11, <2>1
    <3>4. Flits(<<>>, c) = 0 /\ grant \in Nat
      BY EmptySums, InitLess DEF grant
    <3>5. Balance("master", c)' = grant + 0 + 0 + 0 + 0
      BY <2>2, <3>2, <3>3, <3>4, Ends DEF Balance
    <3> QED BY <3>4, <3>5
  <2> QED BY <2>3 DEF Accounted, grant
<1>13. ASSUME SlaveUses' PROVE Accounted("slave")'
  <2>1. SlaveUses /\ connection["slave"]
    BY <1>2, <1>6, <1>13 DEF SlaveUses
  <2>2. \A c \in Carrying : Returned(InTransit("master")', c) = Returned(InTransit("master"), c)
    BY <1>11, <2>1
  <2> QED BY <1>1, <1>5, <1>9, <2>1, <2>2, PeerAccount, Ends DEF CreditInv
<1>14. /\ ~Unopened("master")' /\ ~SlaveFirst'
       /\ Unopened("slave")' => Unopened("slave")
  BY <1>6 DEF Unopened, SlaveFirst
<1>15. NothingOwed("slave") => NothingOwed("slave")'
  BY <1>3 DEF NothingOwed
<1> QED BY <1>12, <1>13, <1>14, <1>15 DEF CreditInv

\* The slave opens.  It has not sent anything but the handshake, nor accepted
\* anything, and the master owes and returns nothing.
LEMMA OpenSlaveCredit ==
    ASSUME ConnInv, ConnInv', SessionInv, DeliveryInv, CreditInv, losses = 0, fabric["slave"] # <<>>,
           open_conn_slave(Head(fabric["slave"]))
    PROVE  CreditInv'
<1> DEFINE a == tloe_seqnum_prev(next_rx_seq'["slave"])
           last == send_frame(TYPE_ACKONLY, next_tx_seq["slave"], a, CHANNEL_0, 0)
           frames == <<last>>
           grant == 2^CREDIT_DEFAULT
<1>0. fabric \in [Endpoint -> Seq(LowFrame)]
  BY HandshakeTypes
<1>1. /\ recv_conn("slave", Head(fabric["slave"]))
      /\ check_all_channels(CreditsAfter("slave", Head(fabric["slave"])), CREDIT_INIT)
      /\ fabric' = [fabric EXCEPT !["slave"] = Tail(fabric["slave"]),
                                  !["master"] = Carry(fabric["master"], frames)]
      /\ UNCHANGED <<next_tx_seq, txlog>>
      /\ user' = [user EXCEPT !["slave"] = "idle"]
      /\ connection' = [connection EXCEPT !["slave"] = TRUE]
  <2>1. fabric' = [fabric EXCEPT !["slave"] = Tail(fabric["slave"]),
                                 !["master"] = Carry(fabric["master"], frames)]
    BY <1>0, Ends DEF open_conn_slave
  <2> QED BY <2>1 DEF open_conn_slave, Opened
<1>2. /\ user["slave"] = "open" /\ ~connection["slave"] /\ conn_flag["slave"]
      /\ conn_flag'["slave"]
  BY <1>1, RecvSlave, SlaveSeesOpen
<1>3. /\ UNCHANGED <<losses, exited, rxlog, tl_msg_buffer>>
      /\ NothingOwed("slave") => NothingOwed("slave")'
  BY <1>1, ReadsMore, Ends
<1>4. fabric'["slave"] = Tail(fabric["slave"])
  <2> HIDE DEF frames
  <2> QED BY <1>0, <1>1, Ends
<1>5. /\ user'["slave"] = "idle" /\ user'["master"] = user["master"]
      /\ connection'["slave"] /\ connection'["master"] = connection["master"]
  BY <1>1, ConnTypes, Ends DEF ConnVarsOK
<1>6. txlog["slave"] = <<>> /\ rxlog["slave"] = <<>> /\ NothingOwed("slave")
  BY <1>2, ConnTypes, Ends DEF Phases, Closed, DeliveryInv, SlaveReceives, CreditInv, Unopened
<1> HIDE DEF grant
<1>7. ASSUME user["master"] # "close" PROVE Accounted("slave")'
  <2>1. /\ Silent'
        /\ \E n \in 1 .. 5 :
              /\ SlaveGranted(n)'
              /\ check_all_channels(CreditsAfter("slave", Head(fabric["slave"])), CREDIT_INIT) <=> n = 5
              /\ n = 5 => next_rx_seq'["slave"] = 5
    BY <1>1, <1>2, <1>4, <1>7, SlaveGains DEF DeliveryInv
  <2>2. SlaveGranted(5)'
    BY <1>1, <2>1
  <2>3. /\ tl_msg_buffer'["master"] = <<>>
        /\ \A c \in Channel : tx_flow_credits'["master"][c] = 0
        /\ ReturnsNothing(txlog["master"])
    BY <1>1, <2>1 DEF Silent, NothingOwed, ReturnsNothing
  <2>4. ASSUME NEW c \in Carrying PROVE Balance("slave", c)' = grant
    <3>1. c \in Channel /\ c \in CHANNEL_A .. CHANNEL_E /\ c <= 5
      BY DEF Carrying, Channel, CHANNEL_NUM, CHANNEL_A, CHANNEL_E
    <3>2. credits'["slave"][c] = grant
      BY <2>2, <3>1 DEF SlaveGranted, grant
    <3>3. tx_flow_credits'["master"][c] = 0
      BY <2>3, <3>1
    <3>4. Flits(<<>>, c) = 0 /\ Messages(<<>>) = <<>> /\ grant \in Nat
      BY EmptySums, InitLess DEF grant
    <3>5. InTransit("slave")' = <<>>
      <4>1. Len(rxlog["master"]) \in Nat
        BY QueueTypes, Ends
      <4>2. InTransit("slave") = <<>>
        BY <1>6, <4>1, NoneInTransit, Ends
      <4> QED BY <1>1, <1>3, <4>2 DEF InTransit
    <3>6. Returned(InTransit("master")', c) = 0
      <4> DEFINE log == txlog["master"]
      <4>1. log \in Seq(LogEntry) /\ ReturnsNothing(log) /\ Len(log) \in Nat
        BY <2>3, QueueTypes, Ends
      <4>2. InTransit("master")' = SubSeq(log, 0 + 1, Len(log))
        <5>1. Len(rxlog'["slave"]) = 0 /\ txlog'["master"] = log
          BY <1>1, <1>3, <1>6
        <5> HIDE DEF log
        <5> QED BY <5>1, Ends DEF InTransit
      <4> HIDE DEF log
      <4>3. 0 \in 0 .. Len(log)
        BY <4>1
      <4>4. Returned(SubSeq(log, 0 + 1, Len(log)), c) = 0
        BY <4>1, <4>3, NoneReturned
      <4> QED BY <4>2, <4>4
    <3>7. Balance("slave", c)' = grant + 0 + 0 + 0 + 0
      BY <2>3, <3>2, <3>3, <3>4, <3>5, <3>6, Ends DEF Balance
    <3> QED BY <3>4, <3>7
  <2> QED BY <2>4 DEF Accounted, grant
<1>8. ASSUME MasterUses' PROVE Accounted("master")'
  <2>1. MasterUses
    BY <1>2, <1>5, <1>8 DEF MasterUses
  <2>2. InTransit("slave")' = InTransit("slave")
    BY <1>1, <1>3 DEF InTransit
  <2>3. \A c \in Carrying : Returned(InTransit("slave")', c) = Returned(InTransit("slave"), c)
    BY <2>2
  <2> QED BY <1>1, <1>6, <2>1, <2>3, PeerAccount, Ends DEF CreditInv
<1>9. /\ Unopened("master")' => Unopened("master")
      /\ SlaveUses' => user["master"] # "close"
  BY <1>5 DEF Unopened, SlaveUses
<1>10. ReturnsNothing(txlog'["slave"])
  BY <1>1, <1>6 DEF ReturnsNothing
<1> QED BY <1>3, <1>6, <1>7, <1>8, <1>9, <1>10 DEF CreditInv
-------------------------------------------------------------------------------
\* All steps together.

LEMMA OpeningCredit ==
    ASSUME ConnInv, ConnInv', SessionInv, DeliveryInv, CreditInv, losses = 0,
           NEW e \in Endpoint, Opening(e)
    PROVE  CreditInv'
<1>1. CASE serve_conn(e)
  BY <1>1, QuietHandshakeCredit
<1>2. CASE fabric[e] # <<>> /\ open_conn_wait(e, Head(fabric[e]))
  BY <1>2, WaitCredit
<1>3. CASE fabric[e] # <<>> /\ e = "master" /\ open_conn_master(Head(fabric[e]))
  BY <1>3, OpenMasterCredit
<1>4. CASE fabric[e] # <<>> /\ e = "slave" /\ open_conn_slave(Head(fabric[e]))
  BY <1>4, OpenSlaveCredit
<1> QED BY <1>1, <1>2, <1>3, <1>4 DEF Opening

LEMMA ClosingCredit ==
    ASSUME ConnInv, SessionInv, CreditInv, NEW e \in Endpoint, Closing(e)
    PROVE  CreditInv'
<1>1. CASE serve_close_conn(e)
  BY <1>1, QuietHandshakeCredit
<1>2. CASE e = "slave" /\ close_conn_slave
  BY <1>2, CloseCredit
<1>3. CASE fabric[e] # <<>> /\ recv_close_conn(e, Head(fabric[e]))
  BY <1>3, QuietHandshakeCredit
<1>4. CASE fabric[e] # <<>> /\ e = "master" /\ close_conn_master(Head(fabric[e]))
  BY <1>4, CloseCredit
<1> QED BY <1>1, <1>2, <1>3, <1>4 DEF Closing

LEMMA InitCreditInv == ConnInit => CreditInv
<1> SUFFICES ASSUME ConnInit PROVE CreditInv
  OBVIOUS
<1>1. Fresh /\ connection = [e \in Endpoint |-> FALSE]
  BY DEF ConnInit
<1>2. /\ rxlog = [e \in Endpoint |-> <<>>] /\ tl_msg_buffer = [e \in Endpoint |-> <<>>]
      /\ tx_flow_credits = [e \in Endpoint |-> [c \in Channel |-> 0]]
  BY <1>1 DEF Fresh
<1>3. /\ rxlog["master"] = <<>> /\ ~connection["slave"] /\ ~connection["master"]
      /\ NothingOwed("slave")
  BY <1>1, <1>2, Ends DEF NothingOwed
<1> QED BY <1>3 DEF CreditInv, SlaveFirst, SlaveUses, MasterUses

LEMMA NextCreditInv ==
    ASSUME Prompt
    PROVE  ConnInv /\ SessionInv /\ DeliveryInv /\ CreditInv /\ [ConnNext]_allVars => CreditInv'
<1> SUFFICES ASSUME ConnInv, SessionInv, DeliveryInv, CreditInv, [ConnNext]_allVars
             PROVE  CreditInv'
  OBVIOUS
<1>0. ConnInv'
  BY NextConn
<1>1. CASE losses # 0
  BY <1>1, LossesStay DEF CreditInv
<1>2. CASE losses = 0
  <2>1. CASE UNCHANGED allVars
    BY <2>1, StutterCredit
  <2>2. ASSUME NEW e \in Endpoint, open_conn(e) \/ close_conn(e) \/ quit(e)
        PROVE  CreditInv'
    BY <2>2, CommandCredit
  <2>3. ASSUME NEW e \in Endpoint, Handshake(e)
        PROVE  CreditInv'
    BY <1>0, <1>2, <2>3, OpeningCredit, ClosingCredit DEF Handshake
  <2>4. ASSUME NEW e \in Endpoint, Loop(e)
        PROVE  CreditInv'
    BY <1>2, <2>4, LoopCredit
  <2>5. ASSUME NEW e \in Endpoint, Requests(e)
        PROVE  CreditInv'
    BY <2>5, UserCredit DEF Requests
  <2>6. ASSUME NEW e \in Endpoint, LoseFrame(e)
        PROVE  CreditInv'
    BY <1>2, <2>6 DEF LoseFrame, Lose, CreditInv
  <2> QED BY <2>1, <2>2, <2>3, <2>4, <2>5, <2>6 DEF ConnNext
<1> QED BY <1>1, <1>2

\* While nothing is lost, an end that opens has all its credit, and until the other
\* has opened neither owes or returns any of it (recv_conn, clear_flow_credit,
\* tloe_endpoint_init).
THEOREM CreditInvariant == ASSUME Prompt PROVE ConnSpec => []CreditInv
<1>1. ConnInit => ConnInv /\ SessionInv /\ DeliveryInv /\ CreditInv
  BY InitConn, InitSession, InitDelivery, InitCreditInv
<1>2. ConnInv /\ SessionInv /\ DeliveryInv /\ CreditInv /\ [ConnNext]_allVars
        => (ConnInv /\ SessionInv /\ DeliveryInv /\ CreditInv)'
  BY NextConn, NextSession, NextDelivery, NextCreditInv
<1> QED BY <1>1, <1>2, PTL DEF ConnSpec

\* While nothing is lost, the credit of every channel of an open connection adds
\* up to what the handshake granted, at both ends: whichever of them opens first,
\* however often the handshake is sent again and whatever the connection before
\* has left behind, for any number of connections, when the endpoint thread ends
\* its iteration before a close goes on (set_credit, clear_flow_credit,
\* tloe_endpoint_init, get_outgoing_credits).
THEOREM SessionsConserveCredit == ASSUME Prompt PROVE ConnSpec => []SessionCredit
<1>1. ConnInit => ConnInv /\ SessionInv /\ DeliveryInv /\ CreditInv
  BY InitConn, InitSession, InitDelivery, InitCreditInv
<1>2. ConnInv /\ SessionInv /\ DeliveryInv /\ CreditInv /\ [ConnNext]_allVars
        => (ConnInv /\ SessionInv /\ DeliveryInv /\ CreditInv)'
  BY NextConn, NextSession, NextDelivery, NextCreditInv
<1>3. ConnInv /\ SessionInv /\ DeliveryInv /\ CreditInv => SessionCredit
  <2> SUFFICES ASSUME ConnInv, SessionInv, CreditInv, Connected, losses = 0
               PROVE  CreditConservation
    BY DEF SessionCredit, Undisturbed
  <2>1. connection["master"] /\ connection["slave"]
    BY Ends DEF Connected
  <2>2. user["master"] # "close"
    BY <2>1, MasterConnected
  <2>3. Accounted("master") /\ Accounted("slave")
    BY <2>1, <2>2 DEF CreditInv, SlaveUses, MasterUses
  <2>4. \A e \in Endpoint : Accounted(e)
    BY <2>3, Ends
  <2> QED BY <2>4 DEF CreditConservation, Accounted
<1> QED BY <1>1, <1>2, <1>3, PTL DEF ConnSpec
===============================================================================
