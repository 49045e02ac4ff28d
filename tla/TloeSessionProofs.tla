--------------------------- MODULE TloeSessionProofs ---------------------------
(***************************************************************************)
(* The master of a connection accepts what the slave has numbered in it,   *)
(* once and in order, whatever the fabric loses and however often a        *)
(* handshake is sent again.  ConnInv keeps the numbers from wrapping;      *)
(* SessionInv keeps the connections apart.                                 *)
(***************************************************************************)
EXTENDS TloeSessionInv, TloeConnectionProofs

\* Frames that neither open nor close a connection.
Plain == {f \in Frame : f.type \in {TYPE_NORMAL, TYPE_ACKONLY}}

\* p is some of q, in its order, and then frames of S.
Follows(p, q, S) ==
    \E n \in 0 .. Len(p) : \E g \in [1 .. n -> 1 .. Len(q)] :
        /\ \A i, j \in 1 .. n : i < j => g[i] < g[j]
        /\ \A i \in 1 .. n : p[i] = q[g[i]]
        /\ \A i \in (n + 1) .. Len(p) : p[i] \in S

\* p is all of q, and then frames of S.
Appended(p, q, S) ==
    /\ Len(q) <= Len(p)
    /\ \A i \in 1 .. Len(q) : p[i] = q[i]
    /\ \A i \in (Len(q) + 1) .. Len(p) : p[i] \in S
-------------------------------------------------------------------------------
\* What the steps do to a queue of frames.

\* A queue whose frames are all in T.
LEMMA SeqOver ==
    ASSUME NEW S, NEW q \in Seq(S), NEW T, \A i \in 1 .. Len(q) : q[i] \in T
    PROVE  q \in Seq(T)
<1>1. Len(q) \in Nat /\ DOMAIN q = 1 .. Len(q) /\ q = [i \in 1 .. Len(q) |-> q[i]]
  OBVIOUS
<1>2. q \in [1 .. Len(q) -> T]
  BY <1>1
<1> QED BY <1>1, <1>2

LEMMA SeqWider ==
    ASSUME NEW S, NEW q \in Seq(S), NEW T, S \subseteq T
    PROVE  q \in Seq(T)
BY SeqOver

\* Nothing happens to a queue.
LEMMA FollowsSame ==
    ASSUME NEW S, NEW q \in Seq(S)
    PROVE  \A T : Follows(q, q, T)
<1> TAKE T
<1> DEFINE n == Len(q)
           g == [i \in 1 .. n |-> i]
<1>1. n \in 0 .. Len(q) /\ g \in [1 .. n -> 1 .. Len(q)]
  OBVIOUS
<1>2. /\ \A i, j \in 1 .. n : i < j => g[i] < g[j]
      /\ \A i \in 1 .. n : q[i] = q[g[i]]
      /\ \A i \in (n + 1) .. Len(q) : q[i] \in T
  BY <1>1
<1> HIDE DEF n, g
<1> QED BY <1>1, <1>2 DEF Follows

\* The first frame is read.
LEMMA FollowsTail ==
    ASSUME NEW S, NEW q \in Seq(S), q # <<>>
    PROVE  \A T : Follows(Tail(q), q, T)
<1> TAKE T
<1> DEFINE p == Tail(q)
           n == Len(p)
           g == [i \in 1 .. n |-> i + 1]
<1>1. /\ Len(q) \in Nat /\ Len(p) = Len(q) - 1 /\ Len(q) >= 1
      /\ \A i \in 1 .. Len(q) - 1 : p[i] = q[i + 1]
  BY TailFact, IsSeqIntro
<1> HIDE DEF p
<1>2. n \in 0 .. Len(p) /\ g \in [1 .. n -> 1 .. Len(q)]
  BY <1>1
<1>3. /\ \A i, j \in 1 .. n : i < j => g[i] < g[j]
      /\ \A i \in 1 .. n : p[i] = q[g[i]]
      /\ \A i \in (n + 1) .. Len(p) : p[i] \in T
  BY <1>1, <1>2
<1> HIDE DEF n, g
<1>4. Follows(p, q, T)
  BY <1>2, <1>3 DEF Follows
<1> QED BY <1>4 DEF p

\* One frame is lost.
LEMMA FollowsLose ==
    ASSUME NEW S, NEW q \in Seq(S), NEW k \in 1 .. Len(q)
    PROVE  \A T : Follows(SubSeq(q, 1, k - 1) \o SubSeq(q, k + 1, Len(q)), q, T)
<1> TAKE T
<1> DEFINE a == SubSeq(q, 1, k - 1)
           b == SubSeq(q, k + 1, Len(q))
           p == a \o b
           n == Len(p)
           g == [i \in 1 .. n |-> IF i < k THEN i ELSE i + 1]
<1>1. Len(q) \in Nat /\ k \in Nat /\ k >= 1 /\ k <= Len(q) /\ IsSeq(q)
  BY IsSeqIntro
<1>2. IsSeq(a) /\ Len(a) = k - 1 /\ \A i \in 1 .. k - 1 : a[i] = q[i]
  <2>1. 1 \in Nat \ {0} /\ k - 1 \in Nat /\ 1 <= (k - 1) + 1 /\ k - 1 <= Len(q)
    BY <1>1
  <2>2. /\ IsSeq(a) /\ Len(a) = (k - 1) + 1 - 1
        /\ \A i \in 1 .. (k - 1) + 1 - 1 : a[i] = q[1 + i - 1]
    BY <1>1, <2>1, SubSeqFact
  <2> HIDE DEF a
  <2>3. (k - 1) + 1 - 1 = k - 1 /\ \A i \in 1 .. k - 1 : 1 + i - 1 = i
    BY <1>1
  <2> QED BY <2>2, <2>3
<1>3. IsSeq(b) /\ Len(b) = Len(q) - k /\ \A i \in 1 .. Len(q) - k : b[i] = q[k + i]
  <2>1. k + 1 \in Nat \ {0} /\ Len(q) \in Nat /\ k + 1 <= Len(q) + 1 /\ Len(q) <= Len(q)
    BY <1>1
  <2>2. /\ IsSeq(b) /\ Len(b) = Len(q) + 1 - (k + 1)
        /\ \A i \in 1 .. Len(q) + 1 - (k + 1) : b[i] = q[(k + 1) + i - 1]
    BY <1>1, <2>1, SubSeqFact
  <2> HIDE DEF b
  <2>3. Len(q) + 1 - (k + 1) = Len(q) - k /\ \A i \in 1 .. Len(q) - k : (k + 1) + i - 1 = k + i
    BY <1>1
  <2> QED BY <2>2, <2>3
<1> HIDE DEF a, b
<1>4. /\ Len(p) = Len(q) - 1
      /\ \A i \in 1 .. Len(p) : p[i] = IF i <= k - 1 THEN a[i] ELSE b[i - (k - 1)]
  <2>1. /\ Len(p) = Len(a) + Len(b)
        /\ \A i \in 1 .. Len(p) : p[i] = IF i <= Len(a) THEN a[i] ELSE b[i - Len(a)]
    BY <1>2, <1>3, ConcatFact
  <2> HIDE DEF p
  <2> QED BY <1>1, <1>2, <1>3, <2>1
<1> HIDE DEF p
<1>5. n \in 0 .. Len(p) /\ g \in [1 .. n -> 1 .. Len(q)]
  BY <1>1, <1>4
<1>6. ASSUME NEW i \in 1 .. n PROVE p[i] = q[g[i]]
  <2>1. CASE i < k
    <3>1. i \in 1 .. k - 1 /\ g[i] = i
      BY <1>1, <1>4, <2>1
    <3> QED BY <1>2, <1>4, <3>1
  <2>2. CASE ~(i < k)
    <3>1. i - (k - 1) \in 1 .. Len(q) - k /\ g[i] = i + 1 /\ ~(i <= k - 1) /\ k + (i - (k - 1)) = i + 1
      BY <1>1, <1>4, <2>2
    <3> QED BY <1>3, <1>4, <3>1
  <2> QED BY <2>1, <2>2
<1>7. /\ \A i, j \in 1 .. n : i < j => g[i] < g[j]
      /\ \A i \in (n + 1) .. Len(p) : p[i] \in T
  BY <1>1, <1>4, <1>5
<1> HIDE DEF n, g
<1>8. Follows(p, q, T)
  BY <1>5, <1>6, <1>7 DEF Follows
<1> QED BY <1>8 DEF p, a, b

\* Frames are sent; what does not fit is dropped.
LEMMA CarryFact ==
    ASSUME NEW S, NEW q \in Seq(S), NEW T, NEW frames \in Seq(T), Len(q) <= FABRIC_BUF
    PROVE  LET p == Carry(q, frames)
           IN  /\ Len(q) \in Nat /\ Len(frames) \in Nat /\ Len(p) \in Nat
               /\ Len(q) <= Len(p) /\ Len(p) <= Len(q) + Len(frames)
               /\ \A i \in 1 .. Len(p) : p[i] = IF i <= Len(q) THEN q[i] ELSE frames[i - Len(q)]
<1> DEFINE all == q \o frames
           p == Carry(q, frames)
<1>1. /\ IsSeq(q) /\ IsSeq(frames) /\ Len(q) \in Nat /\ Len(frames) \in Nat
  BY IsSeqIntro
<1>2. /\ IsSeq(all) /\ Len(all) = Len(q) + Len(frames)
      /\ \A i \in 1 .. Len(all) : all[i] = IF i <= Len(q) THEN q[i] ELSE frames[i - Len(q)]
  BY <1>1, ConcatFact
<1>3. p = IF Len(all) <= FABRIC_BUF THEN all ELSE SubSeq(all, 1, FABRIC_BUF)
  BY DEF Carry
<1> HIDE DEF all, p
<1>4. /\ Len(p) \in Nat /\ Len(q) <= Len(p) /\ Len(p) <= Len(all)
      /\ \A i \in 1 .. Len(p) : p[i] = all[i]
  <2>1. CASE Len(all) <= FABRIC_BUF
    BY <1>1, <1>2, <1>3, <2>1
  <2>2. CASE ~(Len(all) <= FABRIC_BUF)
    <3>1. /\ 1 \in Nat \ {0} /\ FABRIC_BUF \in Nat /\ FABRIC_BUF <= Len(all) /\ 1 <= FABRIC_BUF + 1
          /\ p = SubSeq(all, 1, FABRIC_BUF) /\ Len(all) \in Nat
      BY <1>1, <1>2, <1>3, <2>2, SizeAssumption
    <3>2. /\ Len(p) = FABRIC_BUF + 1 - 1
          /\ \A i \in 1 .. FABRIC_BUF + 1 - 1 : p[i] = all[1 + i - 1]
      BY <1>2, <3>1, SubSeqFact
    <3>3. FABRIC_BUF + 1 - 1 = FABRIC_BUF /\ \A i \in 1 .. FABRIC_BUF : 1 + i - 1 = i
      BY <3>1
    <3> QED BY <3>1, <3>2, <3>3
  <2> QED BY <2>1, <2>2
<1>5. \A i \in 1 .. Len(p) : i \in 1 .. Len(all)
  BY <1>1, <1>2, <1>4
<1> QED BY <1>1, <1>2, <1>4, <1>5 DEF p

LEMMA FollowsCarry ==
    ASSUME NEW S, NEW q \in Seq(S), NEW T, NEW frames \in Seq(T), Len(q) <= FABRIC_BUF
    PROVE  Follows(Carry(q, frames), q, T) /\ Appended(Carry(q, frames), q, T)
<1> DEFINE p == Carry(q, frames)
           n == Len(q)
           g == [i \in 1 .. n |-> i]
<1>1. /\ Len(q) \in Nat /\ Len(frames) \in Nat /\ Len(p) \in Nat
      /\ Len(q) <= Len(p) /\ Len(p) <= Len(q) + Len(frames)
      /\ \A i \in 1 .. Len(p) : p[i] = IF i <= Len(q) THEN q[i] ELSE frames[i - Len(q)]
  BY CarryFact
<1>2. \A i \in 1 .. Len(frames) : frames[i] \in T
  OBVIOUS
<1> HIDE DEF p
<1>5. n \in 0 .. Len(p) /\ g \in [1 .. n -> 1 .. Len(q)]
  BY <1>1
<1>6. \A i, j \in 1 .. n : i < j => g[i] < g[j]
  OBVIOUS
<1>7. ASSUME NEW i \in 1 .. n PROVE p[i] = q[g[i]]
  <2>1. i \in 1 .. Len(p) /\ i <= Len(q) /\ g[i] = i
    BY <1>1
  <2> QED BY <1>1, <2>1
<1>8. \A i \in (n + 1) .. Len(p) : p[i] \in T
  <2> SUFFICES ASSUME NEW i \in (n + 1) .. Len(p) PROVE p[i] \in T
    OBVIOUS
  <2>1. i \in 1 .. Len(p) /\ ~(i <= Len(q)) /\ i - Len(q) \in 1 .. Len(frames)
    BY <1>1
  <2> QED BY <1>1, <1>2, <2>1
<1>10. Appended(p, q, T)
  <2>1. ASSUME NEW i \in 1 .. Len(q) PROVE p[i] = q[i]
    <3>1. i \in 1 .. Len(p) /\ i <= Len(q)
      BY <1>1
    <3> QED BY <1>1, <3>1
  <2> QED BY <1>1, <1>8, <2>1 DEF Appended
<1> HIDE DEF n, g
<1>9. Follows(p, q, T)
  BY <1>5, <1>6, <1>7, <1>8 DEF Follows
<1> QED BY <1>9, <1>10 DEF p

\* What stays true of a queue.
LEMMA FollowsOver ==
    ASSUME NEW F, NEW q \in Seq(F), NEW p \in Seq(F), NEW S, Follows(p, q, S),
           NEW T, q \in Seq(T), S \subseteq T
    PROVE  p \in Seq(T)
<1>0. PICK n \in 0 .. Len(p) : \E g \in [1 .. n -> 1 .. Len(q)] :
            /\ \A i \in 1 .. n : p[i] = q[g[i]]
            /\ \A i \in (n + 1) .. Len(p) : p[i] \in S
  BY DEF Follows
<1>1. PICK g \in [1 .. n -> 1 .. Len(q)] :
        /\ \A i \in 1 .. n : p[i] = q[g[i]]
        /\ \A i \in (n + 1) .. Len(p) : p[i] \in S
  BY <1>0
<1>2. Len(p) \in Nat /\ \A i \in 1 .. Len(q) : q[i] \in T
  OBVIOUS
<1>3. ASSUME NEW i \in 1 .. Len(p) PROVE p[i] \in T
  <2>1. CASE i <= n
    BY <1>1, <1>2, <2>1
  <2>2. CASE ~(i <= n)
    BY <1>1, <1>2, <2>2
  <2> QED BY <2>1, <2>2
<1> QED BY <1>3, SeqOver

LEMMA FollowsBehind ==
    ASSUME NEW F, NEW q \in Seq(F), NEW p \in Seq(F), NEW S, Follows(p, q, S),
           NEW first, NEW second, NoneBehind(q, first, second), \A f \in S : f.type # second
    PROVE  NoneBehind(p, first, second)
<1>0. PICK n \in 0 .. Len(p) : \E g \in [1 .. n -> 1 .. Len(q)] :
            /\ \A i, j \in 1 .. n : i < j => g[i] < g[j]
            /\ \A i \in 1 .. n : p[i] = q[g[i]]
            /\ \A i \in (n + 1) .. Len(p) : p[i] \in S
  BY DEF Follows
<1>1. PICK g \in [1 .. n -> 1 .. Len(q)] :
        /\ \A i, j \in 1 .. n : i < j => g[i] < g[j]
        /\ \A i \in 1 .. n : p[i] = q[g[i]]
        /\ \A i \in (n + 1) .. Len(p) : p[i] \in S
  BY <1>0
<1> SUFFICES ASSUME NEW i \in 1 .. Len(p), NEW j \in 1 .. Len(p), i < j, p[i].type = first
             PROVE  p[j].type # second
  BY DEF NoneBehind
<1>2. Len(p) \in Nat /\ Len(q) \in Nat
  OBVIOUS
<1>3. CASE j <= n
  <2>1. i \in 1 .. n /\ j \in 1 .. n
    BY <1>2, <1>3
  <2>2. g[i] \in 1 .. Len(q) /\ g[j] \in 1 .. Len(q) /\ g[i] < g[j] /\ q[g[i]].type = first
    BY <1>1, <2>1
  <2> QED BY <1>1, <2>1, <2>2 DEF NoneBehind
<1>4. CASE ~(j <= n)
  BY <1>1, <1>2, <1>4
<1> QED BY <1>3, <1>4

\* A queue to which nothing is sent: what was not behind a frame still is not.
LEMMA FollowsLast ==
    ASSUME NEW F, NEW q \in Seq(F), NEW p \in Seq(F), Follows(p, q, {}), NEW type,
           OnlyLast(q, type)
    PROVE  OnlyLast(p, type)
<1>0. PICK n \in 0 .. Len(p) : \E g \in [1 .. n -> 1 .. Len(q)] :
            /\ \A i, j \in 1 .. n : i < j => g[i] < g[j]
            /\ \A i \in 1 .. n : p[i] = q[g[i]]
            /\ \A i \in (n + 1) .. Len(p) : p[i] \in {}
  BY DEF Follows
<1>1. PICK g \in [1 .. n -> 1 .. Len(q)] :
        /\ \A i, j \in 1 .. n : i < j => g[i] < g[j]
        /\ \A i \in 1 .. n : p[i] = q[g[i]]
        /\ \A i \in (n + 1) .. Len(p) : p[i] \in {}
  BY <1>0
<1>2. Len(p) \in Nat /\ Len(q) \in Nat
  OBVIOUS
<1>3. n = Len(p)
  <2> SUFFICES ASSUME n # Len(p) PROVE FALSE
    OBVIOUS
  <2>1. Len(p) \in (n + 1) .. Len(p)
    BY <1>2
  <2> QED BY <1>1, <2>1
<1>4. ASSUME NEW i \in 1 .. Len(p), NEW j \in 1 .. Len(p), i < j PROVE p[i].type # type
  <2>1. g[i] \in 1 .. Len(q) /\ g[j] \in 1 .. Len(q) /\ g[i] < g[j] /\ p[i] = q[g[i]]
    BY <1>1, <1>3, <1>4
  <2> QED BY <2>1 DEF OnlyLast
<1> QED BY <1>4 DEF OnlyLast

LEMMA FollowsEmpty ==
    ASSUME NEW F, NEW p \in Seq(F), Follows(p, <<>>, {})
    PROVE  p = <<>>
<1>0. PICK n \in 0 .. Len(p) : \E g \in [1 .. n -> 1 .. Len(<<>>)] :
            \A i \in (n + 1) .. Len(p) : p[i] \in {}
  BY DEF Follows
<1>1. PICK g \in [1 .. n -> 1 .. Len(<<>>)] : \A i \in (n + 1) .. Len(p) : p[i] \in {}
  BY <1>0
<1>2. Len(p) \in Nat /\ 1 .. Len(<<>>) = {}
  OBVIOUS
<1>3. ~(1 \in 1 .. n)
  BY <1>2
<1>4. ~(Len(p) \in (n + 1) .. Len(p))
  BY <1>1
<1>5. Len(p) = 0
  BY <1>2, <1>3, <1>4
<1> QED BY <1>5
-------------------------------------------------------------------------------
\* What every step below relies on.

LEMMA Ends ==
    /\ "master" \in Endpoint /\ "slave" \in Endpoint
    /\ Peer("master") = "slave" /\ Peer("slave") = "master"
    /\ \A e \in Endpoint : e = "master" \/ e = "slave"
BY DEF Endpoint, Peer

LEMMA QueueTypes ==
    ASSUME ConnInv, NEW e \in Endpoint
    PROVE  /\ fabric[e] \in Seq(Frame) /\ Len(fabric[e]) <= FABRIC_BUF
           /\ retransmit_buffer[e] \in Seq(Frame)
           /\ txlog[e] \in Seq(LogEntry) /\ rxlog[e] \in Seq(LogEntry)
           /\ next_tx_seq[e] \in SeqNum /\ next_rx_seq[e] \in SeqNum
           /\ next_tx_seq[e] <= TopSeq /\ next_rx_seq[e] <= TopSeq + 1
<1>1. LinkTypeOK /\ Numbers
  BY ConnTypes
<1>2. next_tx_seq[e] <= TopSeq
  BY <1>1, TXLow
<1> QED BY <1>1, <1>2 DEF LinkTypeOK, Numbers

\* Both, before and after a step.
LEMMA FabricTypes ==
    ASSUME ConnInv, ConnInv'
    PROVE  /\ fabric["master"] \in Seq(Frame) /\ fabric["slave"] \in Seq(Frame)
           /\ fabric'["master"] \in Seq(Frame) /\ fabric'["slave"] \in Seq(Frame)
<1>1. LinkTypeOK /\ LinkTypeOK'
  BY DEF ConnInv, TypeInv, TypeOK
<1> QED BY <1>1, Ends DEF LinkTypeOK

\* Frames that neither open nor close keep the turns, if the slave sends them
\* only when it is its turn.
LEMMA TurnsKept ==
    ASSUME ConnInv, ConnInv', Turns, UNCHANGED <<user, connection, conn_flag["slave"]>>,
           Spoken' <=> Spoken,
           Follows(fabric'["slave"], fabric["slave"], Plain),
           Follows(fabric'["master"], fabric["master"], IF Speaking THEN Plain ELSE {})
    PROVE  Turns'
<1> DEFINE q == fabric["slave"]
           p == fabric'["slave"]
           r == fabric["master"]
           t == fabric'["master"]
<1>1. q \in Seq(Frame) /\ p \in Seq(Frame) /\ r \in Seq(Frame) /\ t \in Seq(Frame)
  BY FabricTypes
<1>2. Speaking' <=> Speaking
  BY DEF Speaking
<1>3. /\ \A f \in Plain : f.type # TYPE_OPEN_CONNECTION /\ f.type # TYPE_CLOSE_CONNECTION
      /\ Plain \subseteq Without(TYPE_OPEN_CONNECTION)
      /\ Plain \subseteq Without(TYPE_CLOSE_CONNECTION)
  BY DEF Plain, Without, TYPE_NORMAL, TYPE_ACKONLY, TYPE_OPEN_CONNECTION, TYPE_CLOSE_CONNECTION
<1>4. Follows(p, q, Plain) /\ Follows(t, r, IF Speaking THEN Plain ELSE {})
  OBVIOUS
<1> HIDE DEF q, p, r, t, Plain, Frame
<1>5. \A a, b : NoneBehind(q, a, b) /\ b \in {TYPE_OPEN_CONNECTION, TYPE_CLOSE_CONNECTION}
                  => NoneBehind(p, a, b)
  <2> SUFFICES ASSUME NEW a, NEW b, NoneBehind(q, a, b),
                      b \in {TYPE_OPEN_CONNECTION, TYPE_CLOSE_CONNECTION}
               PROVE  NoneBehind(p, a, b)
    OBVIOUS
  <2>1. \A f \in Plain : f.type # b
    BY <1>3
  <2> QED BY <1>1, <1>4, <2>1, FollowsBehind
<1>6. q \in Seq(Without(TYPE_OPEN_CONNECTION)) => p \in Seq(Without(TYPE_OPEN_CONNECTION))
  BY <1>1, <1>3, <1>4, FollowsOver
<1>7. q \in Seq(Without(TYPE_CLOSE_CONNECTION)) => p \in Seq(Without(TYPE_CLOSE_CONNECTION))
  BY <1>1, <1>3, <1>4, FollowsOver
<1>8. Speaking /\ r \in Seq(Without(TYPE_CLOSE_CONNECTION)) => t \in Seq(Without(TYPE_CLOSE_CONNECTION))
  BY <1>1, <1>3, <1>4, FollowsOver
<1>9. ASSUME ~Speaking, OnlyLast(r, TYPE_CLOSE_CONNECTION)
      PROVE  OnlyLast(t, TYPE_CLOSE_CONNECTION)
  <2>1. Follows(t, r, {})
    BY <1>4, <1>9
  <2> QED BY <1>1, <1>9, <2>1, FollowsLast
<1> QED BY <1>2, <1>5, <1>6, <1>7, <1>8, <1>9 DEF Turns, q, p, r, t

\* Nothing is sent to a master that has not been spoken to.
LEMMA StillEmpty ==
    ASSUME ConnInv, ConnInv', fabric["master"] = <<>>, Follows(fabric'["master"], fabric["master"], {})
    PROVE  fabric'["master"] = <<>>
<1> DEFINE t == fabric'["master"]
<1>1. t \in Seq(Frame) /\ Follows(t, <<>>, {})
  BY FabricTypes
<1> HIDE DEF t, Frame
<1>2. t = <<>>
  BY <1>1, FollowsEmpty
<1> QED BY <1>2 DEF t

\* What the slave has sent and kept stays good when some of it is lost.
LEMMA ServedKept ==
    ASSUME ConnInv, ConnInv', Served \/ NotServed, UNCHANGED <<user, connection>>,
           UNCHANGED <<next_tx_seq["slave"], txlog["slave"], retransmit_buffer["slave"],
                       next_rx_seq["master"], rxlog["master"], credits["master"]>>,
           Follows(fabric'["master"], fabric["master"], {})
    PROVE  (Served \/ NotServed)'
<1> DEFINE r == fabric["master"]
           t == fabric'["master"]
           S == SlaveFrame(txlog["slave"])
           N == {f \in Frame : f.chan # CHANNEL_E}
<1>1. r \in Seq(Frame) /\ t \in Seq(Frame) /\ Follows(t, r, {})
  BY FabricTypes
<1>2. {} \subseteq S /\ {} \subseteq N
  OBVIOUS
<1>3. (Served => r \in Seq(S)) /\ (NotServed => r \in Seq(N))
  BY DEF Served, NotServed
<1> HIDE DEF r, t, S, N, Frame
<1>4. (r \in Seq(S) => t \in Seq(S)) /\ (r \in Seq(N) => t \in Seq(N))
  BY <1>1, <1>2, FollowsOver
<1>5. Served => t \in Seq(S)
  BY <1>3, <1>4
<1>6. NotServed => t \in Seq(N)
  BY <1>3, <1>4
<1>7. CASE Served
  BY <1>5, <1>7 DEF Served, S, t
<1>8. CASE NotServed
  BY <1>6, <1>8 DEF NotServed, N, t
<1> QED BY <1>7, <1>8

LEMMA FollowsMore ==
    ASSUME NEW p, NEW q, NEW S, Follows(p, q, S), NEW T, S \subseteq T
    PROVE  Follows(p, q, T)
BY DEF Follows

\* The parts of the invariant.
LEMMA SessionParts ==
    ASSUME SessionInv
    PROVE  /\ ThreadsWait /\ KeptNormal /\ SlaveStarts /\ tx_flow_credits["slave"][CHANNEL_E] = 0
           /\ Turns
           /\ ~Spoken => user["master"] = "close" \/ MasterFresh
           /\ Spoken => Served \/ NotServed
BY DEF SessionInv
-------------------------------------------------------------------------------
\* Steps that leave the link alone, apart from frames that get lost or are read
\* and forgotten.

LEMMA CalmSession ==
    ASSUME ConnInv, ConnInv', SessionInv,
           UNCHANGED <<user, connection, conn_flag["slave"], next_tx_seq, next_rx_seq, txlog, rxlog,
                       credits, retransmit_buffer>>,
           \A x \in Endpoint : pc'[x] = pc[x] \/ pc'[x] = "tx" \/ connection[x] \/ user[x] = "close",
           tx_flow_credits'["slave"][CHANNEL_E] = 0,
           Follows(fabric'["slave"], fabric["slave"], {}),
           Follows(fabric'["master"], fabric["master"], {})
    PROVE  SessionInv'
<1>1. /\ ThreadsWait /\ KeptNormal /\ SlaveStarts /\ Turns
      /\ ~Spoken => user["master"] = "close" \/ MasterFresh
      /\ Spoken => Served \/ NotServed
  BY SessionParts
<1>2. (Spoken' <=> Spoken) /\ (Speaking' <=> Speaking)
  BY DEF Spoken, Speaking
<1>3. ThreadsWait'
  BY <1>1 DEF ThreadsWait, ThreadParked
<1>4. KeptNormal' /\ SlaveStarts'
  BY <1>1 DEF KeptNormal, SlaveStarts
<1>5. Turns'
  <2>1. {} \subseteq Plain /\ {} \subseteq (IF Speaking THEN Plain ELSE {})
    OBVIOUS
  <2>2. /\ Follows(fabric'["slave"], fabric["slave"], Plain)
        /\ Follows(fabric'["master"], fabric["master"], IF Speaking THEN Plain ELSE {})
    BY <2>1, FollowsMore
  <2> QED BY <1>1, <1>2, <2>2, TurnsKept
<1>6. ASSUME ~Spoken' PROVE user'["master"] = "close" \/ MasterFresh'
  <2>1. CASE user["master"] = "close"
    BY <2>1
  <2>2. CASE MasterFresh
    <3>1. fabric'["master"] = <<>>
      BY <2>2, StillEmpty DEF MasterFresh
    <3> QED BY <2>2, <3>1 DEF MasterFresh
  <2> QED BY <1>1, <1>2, <1>6, <2>1, <2>2
<1>7. ASSUME Spoken' PROVE (Served \/ NotServed)'
  <2>1. Served \/ NotServed
    BY <1>1, <1>2, <1>7
  <2>2. UNCHANGED <<next_tx_seq["slave"], txlog["slave"], retransmit_buffer["slave"],
                    next_rx_seq["master"], rxlog["master"], credits["master"]>>
    OBVIOUS
  <2>3. UNCHANGED <<user, connection>>
    OBVIOUS
  <2> QED BY <2>1, <2>2, <2>3, ServedKept
<1> QED BY <1>3, <1>4, <1>5, <1>6, <1>7 DEF SessionInv

\* A fabric that is left alone.
LEMMA SameFabric ==
    ASSUME ConnInv, NEW e \in Endpoint, fabric'[e] = fabric[e]
    PROVE  \A T : Follows(fabric'[e], fabric[e], T)
BY QueueTypes, FollowsSame

LEMMA UserSession ==
    ASSUME ConnInv, ConnInv', SessionInv, NEW e \in Endpoint, User(e), UNCHANGED connVars
    PROVE  SessionInv'
<1>1. UNCHANGED linkVars /\ UNCHANGED envVars /\ UNCHANGED pc /\ UNCHANGED fcVars
  BY DEF User, read_memory, write_memory, create_and_enqueue_message, Submit
<1>2. \A T : /\ Follows(fabric'["slave"], fabric["slave"], T)
             /\ Follows(fabric'["master"], fabric["master"], T)
  BY <1>1, Ends, SameFabric DEF envVars
<1> QED BY <1>1, <1>2, CalmSession, SessionParts DEF linkVars, seqVars, fcVars, connVars

LEMMA StutterSession ==
    ASSUME ConnInv, ConnInv', SessionInv, UNCHANGED allVars
    PROVE  SessionInv'
<1>1. UNCHANGED linkVars /\ UNCHANGED envVars /\ UNCHANGED pc /\ UNCHANGED fcVars /\ UNCHANGED connVars
  BY DEF allVars, vars
<1>2. \A T : /\ Follows(fabric'["slave"], fabric["slave"], T)
             /\ Follows(fabric'["master"], fabric["master"], T)
  BY <1>1, Ends, SameFabric DEF envVars
<1> QED BY <1>1, <1>2, CalmSession, SessionParts DEF linkVars, seqVars, fcVars, connVars

LEMMA LoseSession ==
    ASSUME ConnInv, ConnInv', SessionInv, NEW e \in Endpoint, Lose(e), UNCHANGED connVars
    PROVE  SessionInv'
<1>1. UNCHANGED linkVars /\ UNCHANGED pc /\ UNCHANGED fcVars
  BY DEF Lose
<1> DEFINE q == fabric[e]
<1>2. PICK i \in 1 .. Len(q) :
        fabric' = [fabric EXCEPT ![e] = SubSeq(q, 1, i - 1) \o SubSeq(q, i + 1, Len(q))]
  BY DEF Lose
<1> DEFINE rest == SubSeq(q, 1, i - 1) \o SubSeq(q, i + 1, Len(q))
<1>3. q \in Seq(Frame)
  BY QueueTypes
<1>4. Follows(rest, q, {})
  <2> HIDE DEF q, Frame
  <2> QED BY <1>3, FollowsLose
<1>5. fabric' = [fabric EXCEPT ![e] = rest]
  BY <1>2
<1> HIDE DEF rest
<1>6. ASSUME NEW x \in Endpoint PROVE Follows(fabric'[x], fabric[x], {})
  <2>1. fabric \in [Endpoint -> Seq(LowFrame)]
    BY HandshakeTypes
  <2>2. CASE x = e
    <3>1. fabric'[x] = rest
      BY <1>5, <2>1, <2>2
    <3> QED BY <1>4, <2>2, <3>1
  <2>3. CASE x # e
    <3>1. fabric'[x] = fabric[x]
      BY <1>5, <2>1, <2>3
    <3> QED BY <3>1, SameFabric
  <2> QED BY <2>2, <2>3
<1> QED BY <1>1, <1>6, Ends, CalmSession, SessionParts DEF linkVars, seqVars, fcVars, connVars

\* The handler returns credit for the channel of a message, A or D.
LEMMA HandlerSession ==
    ASSUME ConnInv, ConnInv', SessionInv, NEW e \in Endpoint, tl_handler(e),
           UNCHANGED <<user, connection, conn_flag>>
    PROVE  SessionInv'
<1>1. /\ UNCHANGED linkVars /\ UNCHANGED envVars /\ UNCHANGED credits
      /\ pc' = [pc EXCEPT ![e] = "tx"]
  BY DEF tl_handler, TL_Skip, TLCommon, Goto, handle_A_PUTFULLDATA_opcode,
         handle_A_GET_opcode, handle_D_opcode, fcVars
<1>2. \A T : /\ Follows(fabric'["slave"], fabric["slave"], T)
             /\ Follows(fabric'["master"], fabric["master"], T)
  BY <1>1, Ends, SameFabric DEF envVars
<1>3. \A x \in Endpoint : pc'[x] = pc[x] \/ pc'[x] = "tx"
  <2>1. LoopTypeOK
    BY ConnTypes
  <2> QED BY <1>1, <2>1 DEF LoopTypeOK
<1>4. tx_flow_credits'["slave"][CHANNEL_E] = 0
  <2>1. tx_flow_credits["slave"][CHANNEL_E] = 0 /\ tx_flow_credits \in [Endpoint -> [Channel -> Nat]]
    BY SessionParts, HandshakeTypes
  <2>2. CASE UNCHANGED tx_flow_credits
    BY <2>1, <2>2
  <2>3. CASE ~UNCHANGED tx_flow_credits
    <3> DEFINE m == Head(tl_msg_buffer[e])
               k == tx_flow_credits[e][m.chan] + tlmsg_get_flits_cnt(m)
    <3>1. TLCommon(e, m) /\ m.chan \in {CHANNEL_A, CHANNEL_D}
      BY <2>3 DEF tl_handler, TL_Skip, handle_A_PUTFULLDATA_opcode, handle_A_GET_opcode,
                  handle_D_opcode, Is, fcVars
    <3>2. tx_flow_credits' = [tx_flow_credits EXCEPT ![e] = [tx_flow_credits[e] EXCEPT ![m.chan] = k]]
      BY <3>1 DEF TLCommon, add_channel_flow_credits
    <3> HIDE DEF m, k
    <3>3. m.chan # CHANNEL_E /\ CHANNEL_E \in Channel
      BY <3>1 DEF CHANNEL_A, CHANNEL_D, CHANNEL_E, Channel, CHANNEL_NUM
    <3> QED BY <2>1, <3>2, <3>3, Ends
  <2> QED BY <2>2, <2>3
<1> QED BY <1>1, <1>2, <1>3, <1>4, CalmSession DEF linkVars, seqVars
-------------------------------------------------------------------------------
\* The commands.

\* What they leave alone, seen as parts of the invariant.
LEMMA CommandParts ==
    ASSUME ConnInv, SessionInv, UNCHANGED vars
    PROVE  /\ UNCHANGED <<pc, fabric, retransmit_buffer, next_tx_seq, next_rx_seq, txlog, rxlog,
                          credits, tx_flow_credits>>
           /\ KeptNormal' /\ tx_flow_credits'["slave"][CHANNEL_E] = 0
           /\ MasterFresh' <=> MasterFresh
<1>1. UNCHANGED <<pc, fabric, retransmit_buffer, next_tx_seq, next_rx_seq, txlog, rxlog,
                  credits, tx_flow_credits>>
  BY DEF vars, linkVars, seqVars, envVars, fcVars
<1>2. KeptNormal'
  BY <1>1, SessionParts DEF KeptNormal
<1>3. tx_flow_credits'["slave"][CHANNEL_E] = 0
  BY <1>1, SessionParts
<1>4. MasterFresh' <=> MasterFresh
  BY <1>1 DEF MasterFresh
<1> QED BY <1>1, <1>2, <1>3, <1>4

\* A queue without frames of a type has none behind them and none in front.
LEMMA WithoutBehind ==
    ASSUME NEW q, NEW type, q \in Seq(Without(type)), NEW other
    PROVE  NoneBehind(q, type, other) /\ NoneBehind(q, other, type)
<1>1. \A i \in 1 .. Len(q) : q[i] \in Without(type)
  OBVIOUS
<1>2. \A i \in 1 .. Len(q) : q[i].type # type
  BY <1>1 DEF Without
<1> QED BY <1>2 DEF NoneBehind

\* The master's user may open only when the slave is silent.
LEMMA OpenCommandMaster ==
    ASSUME ConnInv, ConnInv', SessionInv, open_conn("master")
    PROVE  SessionInv'
<1>1. /\ UNCHANGED vars /\ user["master"] = "idle" /\ ~connection["master"] /\ UNCHANGED connection
      /\ user' = [user EXCEPT !["master"] = "open"]
      /\ conn_flag' = [conn_flag EXCEPT !["master"] = FALSE]
  BY DEF open_conn, UserIn
<1>2. user \in [Endpoint -> {"idle", "open", "close", "last", "quit"}]
      /\ conn_flag \in [Endpoint -> BOOLEAN]
  BY ConnTypes DEF ConnVarsOK
<1>3. /\ user'["master"] = "open" /\ user'["slave"] = user["slave"]
      /\ conn_flag'["slave"] = conn_flag["slave"]
  BY <1>1, <1>2, Ends
<1>4. /\ UNCHANGED <<pc, fabric, retransmit_buffer, next_tx_seq, next_rx_seq, txlog, rxlog,
                     credits, tx_flow_credits>>
      /\ KeptNormal' /\ tx_flow_credits'["slave"][CHANNEL_E] = 0 /\ (MasterFresh' <=> MasterFresh)
  BY <1>1, CommandParts
<1>5. /\ ThreadsWait /\ SlaveStarts /\ Turns /\ (~Spoken => user["master"] = "close" \/ MasterFresh)
  BY SessionParts
<1>6. ~Speaking /\ ~Speaking' /\ ~Spoken'
  BY <1>1, <1>3, <1>5 DEF Turns, Speaking, Spoken
<1>7. MasterFresh'
  BY <1>1, <1>4, <1>5, <1>6 DEF Spoken
<1>8. ThreadsWait'
  BY <1>1, <1>2, <1>4, <1>5 DEF ThreadsWait, ThreadParked
<1>9. SlaveStarts'
  BY <1>1, <1>3, <1>4, <1>5 DEF SlaveStarts
<1>10. Turns'
  <2>1. NoneBehind(fabric["slave"], TYPE_OPEN_CONNECTION, TYPE_CLOSE_CONNECTION)
    BY <1>1, <1>5, <1>6, WithoutBehind DEF Turns
  <2> QED BY <1>1, <1>3, <1>4, <1>5, <1>6, <2>1 DEF Turns
<1> QED BY <1>4, <1>6, <1>7, <1>8, <1>9, <1>10 DEF SessionInv

LEMMA OpenCommandSlave ==
    ASSUME ConnInv, ConnInv', SessionInv, open_conn("slave")
    PROVE  SessionInv'
<1>1. /\ UNCHANGED vars /\ user["slave"] = "idle" /\ ~connection["slave"] /\ UNCHANGED connection
      /\ user' = [user EXCEPT !["slave"] = "open"]
      /\ conn_flag' = [conn_flag EXCEPT !["slave"] = FALSE]
  BY DEF open_conn, UserIn
<1>2. user \in [Endpoint -> {"idle", "open", "close", "last", "quit"}]
      /\ conn_flag \in [Endpoint -> BOOLEAN]
  BY ConnTypes DEF ConnVarsOK
<1>3. /\ user'["master"] = user["master"] /\ user'["slave"] = "open"
      /\ ~conn_flag'["slave"]
  BY <1>1, <1>2, Ends
<1>4. /\ UNCHANGED <<pc, fabric, retransmit_buffer, next_tx_seq, next_rx_seq, txlog, rxlog,
                     credits, tx_flow_credits>>
      /\ KeptNormal' /\ tx_flow_credits'["slave"][CHANNEL_E] = 0 /\ (MasterFresh' <=> MasterFresh)
  BY <1>1, CommandParts
<1>5. /\ ThreadsWait /\ SlaveStarts /\ Turns /\ (~Spoken => user["master"] = "close" \/ MasterFresh)
  BY SessionParts
<1>6. ~Speaking /\ ~Speaking' /\ ~Spoken' /\ ~Spoken
  BY <1>1, <1>3 DEF Speaking, Spoken
<1>8. ThreadsWait'
  BY <1>1, <1>2, <1>4, <1>5 DEF ThreadsWait, ThreadParked
<1>9. SlaveStarts'
  BY <1>1, <1>3, <1>4, <1>5 DEF SlaveStarts
<1>10. Turns'
  BY <1>1, <1>3, <1>4, <1>5, <1>6 DEF Turns
<1> QED BY <1>3, <1>4, <1>5, <1>6, <1>8, <1>9, <1>10 DEF SessionInv

\* The master's user closes a connection on which the slave speaks.
LEMMA CloseCommandMaster ==
    ASSUME ConnInv, ConnInv', SessionInv, close_conn("master")
    PROVE  SessionInv'
<1>1. /\ UNCHANGED vars /\ user["master"] = "idle" /\ connection["master"]
      /\ user' = [user EXCEPT !["master"] = "close"]
      /\ connection' = [connection EXCEPT !["master"] = FALSE]
      /\ conn_flag' = [conn_flag EXCEPT !["master"] = FALSE]
  BY DEF close_conn, UserIn
<1>2. /\ user \in [Endpoint -> {"idle", "open", "close", "last", "quit"}]
      /\ connection \in [Endpoint -> BOOLEAN] /\ conn_flag \in [Endpoint -> BOOLEAN]
  BY ConnTypes DEF ConnVarsOK
<1>3. /\ user'["master"] = "close" /\ user'["slave"] = user["slave"] /\ ~connection'["master"]
      /\ connection'["slave"] = connection["slave"] /\ conn_flag'["slave"] = conn_flag["slave"]
  BY <1>1, <1>2, Ends
<1>4. /\ UNCHANGED <<pc, fabric, retransmit_buffer, next_tx_seq, next_rx_seq, txlog, rxlog,
                     credits, tx_flow_credits>>
      /\ KeptNormal' /\ tx_flow_credits'["slave"][CHANNEL_E] = 0 /\ (MasterFresh' <=> MasterFresh)
  BY <1>1, CommandParts
<1>5. ThreadsWait /\ SlaveStarts /\ Turns /\ (Spoken => Served \/ NotServed)
  BY SessionParts
<1>6. (Speaking' <=> Speaking) /\ (Spoken' <=> Spoken)
  BY <1>3, <1>4 DEF Speaking, Spoken
<1>7. Speaking /\ Spoken
  BY <1>1, <1>5 DEF Turns
<1>8. Served'
  <2>1. Served
    BY <1>1, <1>5, <1>7 DEF NotServed
  <2> QED BY <1>3, <1>4, <2>1 DEF Served
<1>9. ThreadsWait'
  BY <1>1, <1>2, <1>4, <1>5 DEF ThreadsWait, ThreadParked
<1>10. SlaveStarts'
  BY <1>3, <1>4, <1>5 DEF SlaveStarts
<1>11. Turns'
  <2>1. NoneBehind(fabric["slave"], TYPE_CLOSE_CONNECTION, TYPE_OPEN_CONNECTION)
    BY <1>1, <1>5, <1>7, WithoutBehind DEF Turns
  <2> QED BY <1>1, <1>3, <1>4, <1>5, <1>6, <1>7, <2>1 DEF Turns
<1> QED BY <1>4, <1>6, <1>7, <1>8, <1>9, <1>10, <1>11 DEF SessionInv

LEMMA CloseCommandSlave ==
    ASSUME ConnInv, ConnInv', SessionInv, close_conn("slave")
    PROVE  SessionInv'
<1>1. /\ UNCHANGED vars /\ user["slave"] = "idle" /\ connection["slave"]
      /\ user' = [user EXCEPT !["slave"] = "close"]
      /\ connection' = [connection EXCEPT !["slave"] = FALSE]
      /\ conn_flag' = [conn_flag EXCEPT !["slave"] = FALSE]
  BY DEF close_conn, UserIn
<1>2. /\ user \in [Endpoint -> {"idle", "open", "close", "last", "quit"}]
      /\ connection \in [Endpoint -> BOOLEAN] /\ conn_flag \in [Endpoint -> BOOLEAN]
  BY ConnTypes DEF ConnVarsOK
<1>3. /\ user'["master"] = user["master"] /\ user'["slave"] = "close" /\ ~connection'["slave"]
      /\ connection'["master"] = connection["master"] /\ ~conn_flag'["slave"]
  BY <1>1, <1>2, Ends
<1>4. /\ UNCHANGED <<pc, fabric, retransmit_buffer, next_tx_seq, next_rx_seq, txlog, rxlog,
                     credits, tx_flow_credits>>
      /\ KeptNormal' /\ tx_flow_credits'["slave"][CHANNEL_E] = 0 /\ (MasterFresh' <=> MasterFresh)
  BY <1>1, CommandParts
<1>5. ThreadsWait /\ Turns /\ (Spoken => Served \/ NotServed)
  BY SessionParts
<1>6. Speaking /\ Spoken /\ Speaking' /\ Spoken'
  BY <1>1, <1>3 DEF Speaking, Spoken
<1>7. (Served \/ NotServed)'
  <2>1. CASE Served
    BY <1>3, <1>4, <2>1 DEF Served
  <2>2. CASE NotServed
    BY <1>3, <1>4, <2>2 DEF NotServed
  <2> QED BY <1>5, <1>6, <2>1, <2>2
<1>8. ThreadsWait'
  BY <1>1, <1>2, <1>4, <1>5 DEF ThreadsWait, ThreadParked
<1>9. SlaveStarts'
  BY <1>3 DEF SlaveStarts
<1>10. Turns'
  BY <1>3, <1>4, <1>5, <1>6 DEF Turns
<1> QED BY <1>4, <1>6, <1>7, <1>8, <1>9, <1>10 DEF SessionInv

LEMMA QuitSession ==
    ASSUME ConnInv, ConnInv', SessionInv, NEW e \in Endpoint, quit(e)
    PROVE  SessionInv'
<1>1. /\ UNCHANGED vars /\ user[e] = "idle" /\ UNCHANGED <<connection, conn_flag>>
      /\ user' = [user EXCEPT ![e] = "quit"]
  BY DEF quit, UserIn
<1>2. user \in [Endpoint -> {"idle", "open", "close", "last", "quit"}]
  BY ConnTypes DEF ConnVarsOK
<1>3. \A x \in Endpoint : user'[x] = user[x] \/ (user[x] = "idle" /\ user'[x] = "quit")
  BY <1>1, <1>2
<1>4. /\ \/ user'["master"] = user["master"]
         \/ user["master"] = "idle" /\ user'["master"] = "quit"
      /\ \/ user'["slave"] = user["slave"]
         \/ user["slave"] = "idle" /\ user'["slave"] = "quit"
  BY <1>3, Ends
<1>5. /\ UNCHANGED <<pc, fabric, retransmit_buffer, next_tx_seq, next_rx_seq, txlog, rxlog,
                     credits, tx_flow_credits>>
      /\ KeptNormal' /\ tx_flow_credits'["slave"][CHANNEL_E] = 0 /\ (MasterFresh' <=> MasterFresh)
  BY <1>1, CommandParts
<1>6. /\ ThreadsWait /\ SlaveStarts /\ Turns
      /\ ~Spoken => user["master"] = "close" \/ MasterFresh
      /\ Spoken => Served \/ NotServed
  BY SessionParts
<1>7. (Speaking' <=> Speaking) /\ (Spoken' <=> Spoken)
  BY <1>1, <1>4, <1>5 DEF Speaking, Spoken
<1>8. (Served => Served') /\ (NotServed => NotServed')
  <2>1. Served => Served'
    BY <1>1, <1>4, <1>5 DEF Served
  <2>2. NotServed => NotServed'
    BY <1>1, <1>4, <1>5 DEF NotServed
  <2> QED BY <2>1, <2>2
<1>9. ThreadsWait'
  BY <1>1, <1>3, <1>5, <1>6 DEF ThreadsWait, ThreadParked
<1>10. SlaveStarts'
  BY <1>1, <1>4, <1>5, <1>6 DEF SlaveStarts
<1>11. Turns'
  BY <1>1, <1>4, <1>5, <1>6, <1>7 DEF Turns
<1>12. ~Spoken' => user'["master"] = "close" \/ MasterFresh'
  BY <1>4, <1>5, <1>6, <1>7
<1> QED BY <1>5, <1>6, <1>7, <1>8, <1>9, <1>10, <1>11, <1>12 DEF SessionInv
-------------------------------------------------------------------------------
\* The handshakes.

\* What lies behind the head of a queue.
LEMMA BehindHead ==
    ASSUME NEW q \in Seq(Frame), q # <<>>, NEW other, NoneBehind(q, Head(q).type, other)
    PROVE  Tail(q) \in Seq(Without(other))
<1>1. /\ Len(q) \in Nat /\ Len(Tail(q)) = Len(q) - 1 /\ Len(q) >= 1 /\ Head(q) = q[1]
      /\ \A i \in 1 .. Len(q) - 1 : Tail(q)[i] = q[i + 1]
  <2> HIDE DEF Frame
  <2> QED BY TailFact, IsSeqIntro
<1>2. Tail(q) \in Seq(Frame) /\ \A i \in 1 .. Len(q) : q[i] \in Frame
  <2> HIDE DEF Frame
  <2> QED OBVIOUS
<1>3. ASSUME NEW i \in 1 .. Len(Tail(q)) PROVE Tail(q)[i] \in Without(other)
  <2>1. /\ i \in 1 .. Len(q) - 1 /\ i + 1 \in 1 .. Len(q) /\ 1 \in 1 .. Len(q) /\ 1 < i + 1
    BY <1>1
  <2>2. q[i + 1] \in Frame /\ q[i + 1].type # other
    BY <1>1, <1>2, <2>1 DEF NoneBehind
  <2> QED BY <1>1, <2>1, <2>2 DEF Without
<1> HIDE DEF Frame
<1> QED BY <1>2, <1>3, SeqOver

\* A queue whose head may only come last.
LEMMA LastHead ==
    ASSUME NEW q \in Seq(Frame), q # <<>>, OnlyLast(q, Head(q).type)
    PROVE  Tail(q) = <<>>
<1>1. /\ Len(q) \in Nat /\ Len(Tail(q)) = Len(q) - 1 /\ Len(q) >= 1 /\ Head(q) = q[1]
      /\ IsSeq(Tail(q))
  <2> HIDE DEF Frame
  <2> QED BY TailFact, IsSeqIntro
<1>2. ~(Len(q) >= 2)
  <2> SUFFICES ASSUME Len(q) >= 2 PROVE FALSE
    OBVIOUS
  <2>1. 1 \in 1 .. Len(q) /\ 2 \in 1 .. Len(q) /\ 1 < 2
    BY <1>1
  <2> QED BY <1>1, <2>1 DEF OnlyLast
<1>3. Len(Tail(q)) = 0
  BY <1>1, <1>2
<1> QED BY <1>1, <1>3, IsSeqLen

\* One frame is sent to a queue that has none of its type.
LEMMA CarryLast ==
    ASSUME NEW q, NEW type, q \in Seq(Without(type)), NEW f, Len(q) <= FABRIC_BUF
    PROVE  OnlyLast(Carry(q, <<f>>), type)
<1> DEFINE S == Without(type)
           T == {f}
           one == <<f>>
           p == Carry(q, one)
<1>1. one \in Seq(T) /\ Len(one) = 1 /\ q \in Seq(S)
  OBVIOUS
<1> HIDE DEF S, T, one
<1>2. /\ Len(q) \in Nat /\ Len(p) \in Nat /\ Len(p) <= Len(q) + Len(one)
      /\ \A i \in 1 .. Len(p) : p[i] = IF i <= Len(q) THEN q[i] ELSE one[i - Len(q)]
  BY <1>1, CarryFact
<1> HIDE DEF p
<1>3. \A i \in 1 .. Len(q) : q[i].type # type
  <2>1. \A i \in 1 .. Len(q) : q[i] \in Without(type)
    OBVIOUS
  <2> QED BY <2>1 DEF Without
<1>4. ASSUME NEW i \in 1 .. Len(p), NEW j \in 1 .. Len(p), i < j PROVE p[i].type # type
  <2>1. i \in 1 .. Len(q)
    BY <1>1, <1>2, <1>4
  <2> QED BY <1>2, <1>3, <2>1
<1>5. OnlyLast(p, type)
  BY <1>4 DEF OnlyLast
<1> QED BY <1>5 DEF p, one

\* The frames of a handshake.
LEMMA OpenFramesFact ==
    ASSUME ConnInv, NEW e \in Endpoint
    PROVE  /\ OpenFrames(e) \in Seq(Frame) /\ Len(OpenFrames(e)) = 5
           /\ \A i \in 1 .. 5 :
                /\ OpenFrames(e)[i].type = IF e = "master" /\ i = 1 THEN TYPE_OPEN_CONNECTION ELSE TYPE_NORMAL
                /\ OpenFrames(e)[i].seq_num = i - 1
                /\ OpenFrames(e)[i].chan = i
                /\ OpenFrames(e)[i].credit = CREDIT_DEFAULT
<1>1. OpenFrames(e) \in Seq(Frame)
  BY ConnTypes, OpenFramesLow, LowSeq
<1> DEFINE type(i) == IF e = "master" /\ i = 1 THEN TYPE_OPEN_CONNECTION ELSE TYPE_NORMAL
           a == tloe_seqnum_prev(next_rx_seq[e])
           f(i) == send_frame(type(i), i - 1, a, i, CREDIT_DEFAULT)
<1>2. OpenFrames(e) = [i \in 1 .. 5 |-> f(i)]
  BY DEF OpenFrames, CHANNEL_A, CHANNEL_E
<1>3. ASSUME NEW i \in 1 .. 5
      PROVE  /\ f(i).type = type(i) /\ f(i).seq_num = i - 1 /\ f(i).chan = i
             /\ f(i).credit = CREDIT_DEFAULT
  <2> HIDE DEF type, a
  <2> QED BY DEF send_frame
<1>4. Len(OpenFrames(e)) = 5
  <2> HIDE DEF f, Frame
  <2>1. DOMAIN OpenFrames(e) = 1 .. 5
    BY <1>2
  <2>2. DOMAIN OpenFrames(e) = 1 .. Len(OpenFrames(e)) /\ Len(OpenFrames(e)) \in Nat
    BY <1>1
  <2> HIDE DEF OpenFrames
  <2>3. 5 \in 1 .. Len(OpenFrames(e)) /\ ~(6 \in 1 .. Len(OpenFrames(e)))
    BY <2>1, <2>2
  <2> QED BY <2>2, <2>3
<1>5. \A i \in 1 .. 5 : OpenFrames(e)[i] = f(i)
  <2> HIDE DEF f
  <2> QED BY <1>2
<1> HIDE DEF f
<1> QED BY <1>1, <1>3, <1>4, <1>5 DEF type

\* What sending puts into the fabric of the peer.
LEMMA ServeFabric ==
    ASSUME ConnInv, NEW e \in Endpoint, NEW S, NEW frames \in Seq(S), S \subseteq Frame,
           Serve(e, frames)
    PROVE  /\ fabric'[e] = fabric[e]
           /\ fabric'[Peer(e)] = Carry(fabric[Peer(e)], frames)
           /\ Follows(fabric'[Peer(e)], fabric[Peer(e)], S)
           /\ Appended(fabric'[Peer(e)], fabric[Peer(e)], S)
<1> DEFINE x == Peer(e)
           q == fabric[x]
           p == Carry(q, frames)
<1>1. x \in Endpoint /\ x # e
  BY PeerFact
<1>2. q \in Seq(Frame) /\ Len(q) <= FABRIC_BUF
  BY <1>1, QueueTypes
<1>3. fabric' = [fabric EXCEPT ![x] = p] /\ fabric \in [Endpoint -> Seq(LowFrame)]
  BY HandshakeTypes DEF Serve
<1> HIDE DEF Frame, LowFrame, x, q
<1>4. Follows(p, q, S) /\ Appended(p, q, S)
  BY <1>2, FollowsCarry
<1> HIDE DEF p
<1>5. fabric'[x] = p /\ fabric'[e] = fabric[e]
  BY <1>1, <1>3
<1> QED BY <1>4, <1>5 DEF x, q, p

\* The master sends the handshake: its OPEN frame is behind any CLOSE frame.
LEMMA ServeOpenMaster ==
    ASSUME ConnInv, ConnInv', SessionInv, serve_conn("master")
    PROVE  SessionInv'
<1> DEFINE T == Without(TYPE_CLOSE_CONNECTION)
           frames == OpenFrames("master")
           q == fabric["slave"]
           p == fabric'["slave"]
<1>1. /\ user["master"] = "open" /\ Serve("master", frames)
      /\ next_tx_seq' = [next_tx_seq EXCEPT !["master"] = CHANNEL_NUM - 1]
      /\ UNCHANGED <<pc, retransmit_buffer, next_rx_seq, txlog, rxlog, user, connection, conn_flag>>
      /\ UNCHANGED <<credits, tx_flow_credits>>
  BY DEF serve_conn, UserIn, fcVars
<1>2. next_tx_seq'["slave"] = next_tx_seq["slave"]
  BY <1>1, HandshakeTypes, Ends
<1>3. frames \in Seq(T)
  <2>1. /\ frames \in Seq(Frame) /\ Len(frames) = 5
        /\ \A i \in 1 .. 5 :
             frames[i].type = IF i = 1 THEN TYPE_OPEN_CONNECTION ELSE TYPE_NORMAL
    BY Ends, OpenFramesFact
  <2> HIDE DEF frames
  <2>3. frames \in Seq(Frame)
    BY <2>1
  <2>2. ASSUME NEW i \in 1 .. Len(frames) PROVE frames[i] \in T
    <3>1. frames[i] \in Frame
      <4> HIDE DEF Frame
      <4> QED BY <2>3
    <3>2. frames[i].type = TYPE_OPEN_CONNECTION \/ frames[i].type = TYPE_NORMAL
      BY <2>1
    <3> QED BY <3>1, <3>2 DEF Without, TYPE_OPEN_CONNECTION, TYPE_NORMAL, TYPE_CLOSE_CONNECTION
  <2> HIDE DEF T, Frame
  <2> QED BY <2>1, <2>2, SeqOver
<1>4. T \subseteq Frame /\ \A f \in T : f.type # TYPE_CLOSE_CONNECTION
  BY DEF Without
<1> HIDE DEF T, frames
<1>5. fabric'["master"] = fabric["master"] /\ Follows(p, q, T)
  BY <1>1, <1>3, <1>4, Ends, ServeFabric
<1>6. /\ ThreadsWait /\ KeptNormal /\ SlaveStarts /\ Turns /\ tx_flow_credits["slave"][CHANNEL_E] = 0
      /\ ~Spoken => user["master"] = "close" \/ MasterFresh
      /\ Spoken => Served \/ NotServed
  BY SessionParts
<1>7. (Spoken' <=> Spoken) /\ (Speaking' <=> Speaking)
  BY <1>1, <1>2 DEF Spoken, Speaking
<1>8. p \in Seq(Frame) /\ q \in Seq(Frame)
  BY FabricTypes
<1>9. Turns'
  <2> HIDE DEF p, q, Frame
  <2>1. q \in Seq(T) => p \in Seq(T)
    BY <1>5, <1>8, FollowsOver
  <2>2. NoneBehind(q, TYPE_OPEN_CONNECTION, TYPE_CLOSE_CONNECTION) =>
            NoneBehind(p, TYPE_OPEN_CONNECTION, TYPE_CLOSE_CONNECTION)
    BY <1>4, <1>5, <1>8, FollowsBehind
  <2>3. (Speaking => q \in Seq(T)) /\ NoneBehind(q, TYPE_OPEN_CONNECTION, TYPE_CLOSE_CONNECTION)
    BY <1>1, <1>6 DEF Turns, q, T
  <2>4. /\ user'["master"] = "open" /\ fabric'["master"] = fabric["master"]
        /\ NoneBehind(fabric'["slave"], TYPE_OPEN_CONNECTION, TYPE_CLOSE_CONNECTION)
        /\ Speaking => fabric'["slave"] \in Seq(Without(TYPE_CLOSE_CONNECTION))
    BY <1>1, <1>5, <2>1, <2>2, <2>3 DEF p, T
  <2> QED BY <1>1, <1>6, <1>7, <2>4 DEF Turns
<1>10. ThreadsWait' /\ KeptNormal' /\ SlaveStarts'
  BY <1>1, <1>2, <1>6 DEF ThreadsWait, ThreadParked, KeptNormal, SlaveStarts
<1>11. (MasterFresh => MasterFresh') /\ (NotServed => NotServed')
  BY <1>1, <1>5 DEF MasterFresh, NotServed
<1>12. Served => Served'
  BY <1>1, <1>2, <1>5 DEF Served
<1> QED BY <1>1, <1>6, <1>7, <1>9, <1>10, <1>11, <1>12 DEF SessionInv

\* The slave's handshake consists of frames of its connection.
LEMMA SlaveHandshake ==
    ASSUME ConnInv, NEW log
    PROVE  /\ OpenFrames("slave") \in Seq(SlaveFrame(log)) /\ OpenFrames("slave") \in Seq(Plain)
           /\ OpenFrames("slave") \in Seq(SlaveFrame(log) \cap Plain)
<1> DEFINE frames == OpenFrames("slave")
           S == SlaveFrame(log) \cap Plain
<1>1. /\ frames \in Seq(Frame) /\ Len(frames) = 5
      /\ \A i \in 1 .. 5 :
            /\ frames[i].type = TYPE_NORMAL /\ frames[i].seq_num = i - 1
            /\ frames[i].chan = i /\ frames[i].credit = CREDIT_DEFAULT
  BY Ends, OpenFramesFact
<1> HIDE DEF frames
<1>2. frames \in Seq(Frame)
  BY <1>1
<1>3. ASSUME NEW i \in 1 .. Len(frames) PROVE frames[i] \in S
  <2> DEFINE f == frames[i]
  <2>1. f \in Frame
    <3> HIDE DEF Frame
    <3> QED BY <1>2
  <2>2. /\ i \in 1 .. 5 /\ f.type = TYPE_NORMAL /\ f.seq_num = i - 1 /\ f.chan = i
        /\ f.credit = CREDIT_DEFAULT
    BY <1>1
  <2> HIDE DEF f
  <2>3. /\ f.type # TYPE_ACKONLY /\ f.seq_num < 5 /\ ~(f.seq_num >= 5)
        /\ f.chan = f.seq_num + 1
    BY <2>2 DEF TYPE_NORMAL, TYPE_ACKONLY
  <2> HIDE DEF Frame
  <2>4. f \in SlaveFrame(log) /\ f \in Plain
    BY <2>1, <2>2, <2>3 DEF SlaveFrame, Plain
  <2> QED BY <2>4 DEF f
<1> HIDE DEF Frame, S
<1>4. frames \in Seq(S)
  BY <1>2, <1>3, SeqOver
<1>5. S \subseteq SlaveFrame(log) /\ S \subseteq Plain
  BY DEF S
<1>6. frames \in Seq(SlaveFrame(log)) /\ frames \in Seq(Plain)
  BY <1>4, <1>5, SeqWider
<1> QED BY <1>4, <1>6 DEF frames, S

\* The slave sends the handshake, in answer to an OPEN frame.
LEMMA ServeOpenSlave ==
    ASSUME ConnInv, ConnInv', SessionInv, serve_conn("slave")
    PROVE  SessionInv'
<1> DEFINE log == txlog["slave"]
           S == SlaveFrame(log) \cap Plain
           F == SlaveFrame(log)
           T == Without(TYPE_CLOSE_CONNECTION)
           frames == OpenFrames("slave")
           q == fabric["master"]
           p == fabric'["master"]
<1>1. /\ user["slave"] = "open" /\ conn_flag["slave"] /\ Serve("slave", frames)
      /\ next_tx_seq' = [next_tx_seq EXCEPT !["slave"] = 5]
      /\ UNCHANGED <<pc, retransmit_buffer, next_rx_seq, txlog, rxlog, user, connection, conn_flag>>
      /\ UNCHANGED <<credits, tx_flow_credits>>
  BY DEF serve_conn, UserIn, fcVars, CHANNEL_NUM, Serve, MaySpeak
<1>2. next_tx_seq'["slave"] = 5
  BY <1>1, HandshakeTypes, Ends
<1>3. /\ S \subseteq Frame /\ S \subseteq F /\ S \subseteq T
  BY DEF SlaveFrame, Without, Plain, TYPE_CLOSE_CONNECTION, TYPE_NORMAL, TYPE_ACKONLY
<1>4. frames \in Seq(S)
  BY SlaveHandshake
<1> HIDE DEF S, frames
<1>5. fabric'["slave"] = fabric["slave"] /\ Follows(p, q, S)
  BY <1>1, <1>3, <1>4, Ends, ServeFabric
<1>6. /\ ThreadsWait /\ KeptNormal /\ SlaveStarts /\ Turns /\ tx_flow_credits["slave"][CHANNEL_E] = 0
      /\ ~Spoken => user["master"] = "close" \/ MasterFresh
      /\ Spoken => Served \/ NotServed
  BY SessionParts
<1>7. Speaking /\ Speaking' /\ Spoken'
  BY <1>1, <1>2 DEF Spoken, Speaking
<1>8. p \in Seq(Frame) /\ q \in Seq(Frame)
  BY FabricTypes
<1>9. ~connection["slave"] /\ (user["master"] = "open" => ~connection["master"]) /\ log = <<>>
  BY <1>1, ConnTypes, Ends DEF Phases, Closed
<1>10. Turns'
  <2> HIDE DEF p, q, Frame, T
  <2>1. q \in Seq(T) => p \in Seq(T)
    BY <1>3, <1>5, <1>8, FollowsOver
  <2>2. q \in Seq(T)
    BY <1>6, <1>7 DEF Turns, q, T
  <2>3. fabric'["master"] \in Seq(Without(TYPE_CLOSE_CONNECTION))
    BY <2>1, <2>2 DEF p, T
  <2> QED BY <1>1, <1>5, <1>6, <1>7, <2>3 DEF Turns
<1>11. ThreadsWait' /\ KeptNormal'
  BY <1>1, <1>6 DEF ThreadsWait, ThreadParked, KeptNormal
<1>12. SlaveStarts' /\ retransmit_buffer["slave"] = <<>>
  BY <1>1, <1>2, <1>6, <1>9 DEF SlaveStarts
<1>13. p \in Seq(F)
  <2>1. CASE Spoken
    <3>1. q \in Seq(F)
      BY <1>1, <1>6, <2>1 DEF Served, NotServed
    <3> HIDE DEF p, q, Frame, F
    <3> QED BY <1>3, <1>5, <1>8, <3>1, FollowsOver
  <2>2. CASE ~Spoken
    <3>1. q = <<>>
      BY <1>6, <1>7, <2>2 DEF Turns, MasterFresh
    <3>2. q \in Seq(F)
      <4> HIDE DEF q, F
      <4> QED BY <3>1
    <3> HIDE DEF p, q, Frame, F
    <3> QED BY <1>3, <1>5, <1>8, <3>2, FollowsOver
  <2> QED BY <2>1, <2>2
<1>14. Served'
  <2>1. next_tx_seq'["slave"] = Len(txlog'["slave"]) + 5
    BY <1>1, <1>2, <1>9
  <2>2. retransmit_buffer'["slave"] \in
          Seq({f \in SlaveFrame(txlog'["slave"]) : f.type # TYPE_ACKONLY /\ f.seq_num >= 5})
    BY <1>1, <1>12
  <2>3. CASE Spoken
    <3>1. Served
      BY <1>1, <1>6, <2>3 DEF NotServed
    <3> QED BY <1>1, <1>13, <2>1, <2>2, <3>1 DEF Served
  <2>4. CASE ~Spoken
    <3>1. user["master"] = "open" /\ MasterFresh /\ ~connection["master"]
      BY <1>6, <1>7, <1>9, <2>4 DEF Turns
    <3>2. \A c \in CHANNEL_A .. CHANNEL_E :
            credits["master"][c] =
                2^(IF c <= next_rx_seq["master"] THEN CREDIT_DEFAULT ELSE CREDIT_INIT)
      <4>1. credits["master"] = init_flowcontrol(CREDIT_INIT) /\ next_rx_seq["master"] = 0
        BY <3>1 DEF MasterFresh
      <4> QED BY <4>1 DEF init_flowcontrol, Channel, CHANNEL_NUM, CHANNEL_A, CHANNEL_E
    <3>3. next_rx_seq["master"] < 5 /\ rxlog["master"] = <<>>
      BY <3>1 DEF MasterFresh
    <3> QED BY <1>1, <1>13, <2>1, <2>2, <3>1, <3>2, <3>3 DEF Served
  <2> QED BY <2>3, <2>4
<1> QED BY <1>1, <1>6, <1>7, <1>10, <1>11, <1>12, <1>14 DEF SessionInv

\* The CLOSE frame.
LEMMA CloseFrameFact ==
    ASSUME ConnInv, NEW e \in Endpoint
    PROVE  /\ CloseFrame(e) \in Frame /\ CloseFrame(e).type = TYPE_CLOSE_CONNECTION
           /\ <<CloseFrame(e)>> \in Seq(Without(TYPE_OPEN_CONNECTION))
           /\ Without(TYPE_OPEN_CONNECTION) \subseteq Frame
<1> DEFINE f == CloseFrame(e)
           T == Without(TYPE_OPEN_CONNECTION)
<1>1. f \in Frame
  <2>0. 0 \in 0 .. 31 /\ CHANNEL_0 \in Channel
    BY DEF Channel, CHANNEL_NUM, CHANNEL_0
  <2>1. tloe_seqnum_prev(next_rx_seq[e]) \in SeqNum
    BY ConnTypes, SeqNumFact DEF LinkTypeOK
  <2>2. f \in LowFrame
    BY <2>0, <2>1, ConnTypes, TXLow, SendFrameLow DEF CloseFrame
  <2> QED BY <2>2, LowFact
<1>2. f.type = TYPE_CLOSE_CONNECTION
  BY DEF CloseFrame, send_frame
<1> HIDE DEF f
<1>3. f \in T /\ T \subseteq Frame
  BY <1>1, <1>2 DEF Without, TYPE_OPEN_CONNECTION, TYPE_CLOSE_CONNECTION
<1> HIDE DEF T
<1>4. <<f>> \in Seq(T)
  BY <1>3
<1> QED BY <1>1, <1>2, <1>3, <1>4 DEF f, T

\* The master asks to close: its CLOSE frame is behind any OPEN frame.
LEMMA ServeCloseMaster ==
    ASSUME ConnInv, ConnInv', SessionInv, serve_close_conn("master")
    PROVE  SessionInv'
<1> DEFINE T == Without(TYPE_OPEN_CONNECTION)
           frames == <<CloseFrame("master")>>
           q == fabric["slave"]
           p == fabric'["slave"]
<1>1. /\ user["master"] = "close" /\ Serve("master", frames)
      /\ user' = [user EXCEPT !["master"] = "close"]
      /\ UNCHANGED linkVars /\ UNCHANGED fcVars
      /\ UNCHANGED <<pc, connection, conn_flag>>
  BY DEF serve_close_conn, UserIn
<1>2. /\ UNCHANGED <<pc, retransmit_buffer, next_tx_seq, next_rx_seq, txlog, rxlog, connection, conn_flag>>
      /\ UNCHANGED <<credits, tx_flow_credits>>
  BY <1>1 DEF linkVars, seqVars, fcVars
<1>3. user' = user
  BY <1>1, ConnTypes DEF ConnVarsOK
<1>4. frames \in Seq(T) /\ T \subseteq Frame /\ \A f \in T : f.type # TYPE_OPEN_CONNECTION
  BY CloseFrameFact, Ends DEF Without
<1> HIDE DEF T, frames
<1>5. fabric'["master"] = fabric["master"] /\ Follows(p, q, T)
  BY <1>1, <1>4, Ends, ServeFabric
<1>6. /\ ThreadsWait /\ KeptNormal /\ SlaveStarts /\ Turns /\ tx_flow_credits["slave"][CHANNEL_E] = 0
      /\ ~Spoken => user["master"] = "close" \/ MasterFresh
      /\ Spoken => Served \/ NotServed
  BY SessionParts
<1>7. (Spoken' <=> Spoken) /\ (Speaking' <=> Speaking)
  BY <1>2, <1>3 DEF Spoken, Speaking
<1>8. p \in Seq(Frame) /\ q \in Seq(Frame)
  BY FabricTypes
<1>9. Turns'
  <2> HIDE DEF p, q, Frame
  <2>1. q \in Seq(T) => p \in Seq(T)
    BY <1>5, <1>8, FollowsOver
  <2>2. NoneBehind(q, TYPE_CLOSE_CONNECTION, TYPE_OPEN_CONNECTION) =>
            NoneBehind(p, TYPE_CLOSE_CONNECTION, TYPE_OPEN_CONNECTION)
    BY <1>4, <1>5, <1>8, FollowsBehind
  <2>3. /\ fabric["slave"] \in Seq(Without(TYPE_OPEN_CONNECTION)) =>
              fabric'["slave"] \in Seq(Without(TYPE_OPEN_CONNECTION))
        /\ NoneBehind(fabric["slave"], TYPE_CLOSE_CONNECTION, TYPE_OPEN_CONNECTION) =>
              NoneBehind(fabric'["slave"], TYPE_CLOSE_CONNECTION, TYPE_OPEN_CONNECTION)
    BY <2>1, <2>2 DEF p, q, T
  <2> QED BY <1>1, <1>2, <1>3, <1>5, <1>6, <1>7, <2>3 DEF Turns
<1>10. ThreadsWait' /\ KeptNormal' /\ SlaveStarts'
  BY <1>2, <1>3, <1>6 DEF ThreadsWait, ThreadParked, KeptNormal, SlaveStarts
<1>11. NotServed => NotServed'
  BY <1>2, <1>3, <1>5 DEF NotServed
<1>12. Served => Served'
  BY <1>2, <1>3, <1>5 DEF Served
<1> QED BY <1>1, <1>2, <1>3, <1>6, <1>7, <1>9, <1>10, <1>11, <1>12 DEF SessionInv

\* The slave answers with its CLOSE frame and falls silent.
LEMMA ServeCloseSlave ==
    ASSUME Prompt, ConnInv, ConnInv', SessionInv, serve_close_conn("slave")
    PROVE  SessionInv'
<1> DEFINE f == CloseFrame("slave")
<1>1. /\ user["slave"] = "close" /\ conn_flag["slave"] /\ ThreadParked("slave")
      /\ Serve("slave", <<f>>)
      /\ user' = [user EXCEPT !["slave"] = "last"]
      /\ UNCHANGED linkVars /\ UNCHANGED fcVars
      /\ UNCHANGED <<pc, connection, conn_flag>>
  BY DEF serve_close_conn, UserIn, Serve, MaySpeak, CloseMayProceed
<1>2. /\ UNCHANGED <<pc, retransmit_buffer, next_tx_seq, next_rx_seq, txlog, rxlog, connection, conn_flag>>
      /\ UNCHANGED <<credits, tx_flow_credits>>
  BY <1>1 DEF linkVars, seqVars, fcVars
<1>3. /\ user'["slave"] = "last" /\ user'["master"] = user["master"]
      /\ user \in [Endpoint -> {"idle", "open", "close", "last", "quit"}]
  BY <1>1, ConnTypes, Ends DEF ConnVarsOK
<1>4. /\ ThreadsWait /\ KeptNormal /\ Turns /\ tx_flow_credits["slave"][CHANNEL_E] = 0
  BY SessionParts
<1>5. Speaking
  BY <1>1 DEF Speaking
<1>6. /\ user["master"] = "close" /\ fabric["slave"] \in Seq(Without(TYPE_OPEN_CONNECTION))
      /\ fabric["master"] \in Seq(Without(TYPE_CLOSE_CONNECTION))
      /\ NoneBehind(fabric["slave"], TYPE_CLOSE_CONNECTION, TYPE_OPEN_CONNECTION)
  BY <1>1, <1>4, <1>5 DEF Turns
<1>7. ~connection["master"] /\ ~connection["slave"]
  BY <1>1, <1>6, ConnTypes, Ends DEF Phases
<1>8. ~Speaking' /\ ~Spoken'
  BY <1>2, <1>3, <1>7 DEF Spoken, Speaking
<1>9. /\ fabric'["slave"] = fabric["slave"]
      /\ fabric'["master"] = Carry(fabric["master"], <<f>>)
  <2>1. f \in Frame
    BY CloseFrameFact, Ends
  <2>2. <<f>> \in Seq(Frame) /\ Frame \subseteq Frame
    <3> HIDE DEF f, Frame
    <3> QED BY <2>1
  <2> HIDE DEF f, Frame
  <2> QED BY <1>1, <2>2, Ends, ServeFabric
<1>10. OnlyLast(fabric'["master"], TYPE_CLOSE_CONNECTION)
  <2>1. Len(fabric["master"]) <= FABRIC_BUF
    BY QueueTypes, Ends
  <2> HIDE DEF f
  <2> QED BY <1>6, <1>9, <2>1, CarryLast
<1>11. Turns'
  BY <1>2, <1>3, <1>6, <1>7, <1>8, <1>9, <1>10 DEF Turns
<1>12. ThreadsWait'
  BY <1>1, <1>2, <1>3, <1>4, Ends DEF ThreadsWait, ThreadParked
<1>13. KeptNormal' /\ SlaveStarts'
  BY <1>2, <1>3, <1>4 DEF KeptNormal, SlaveStarts
<1> QED BY <1>2, <1>3, <1>4, <1>6, <1>8, <1>11, <1>12, <1>13 DEF SessionInv

\* A frame is read by e.
LEMMA ReadFabric ==
    ASSUME ConnInv, NEW e \in Endpoint, fabric[e] # <<>>,
           fabric' = [fabric EXCEPT ![e] = Tail(fabric[e])]
    PROVE  /\ fabric'[e] = Tail(fabric[e])
           /\ \A x \in Endpoint \ {e} : fabric'[x] = fabric[x]
           /\ \A x \in Endpoint : Follows(fabric'[x], fabric[x], {})
           /\ Head(fabric[e]) = fabric[e][1] /\ 1 \in 1 .. Len(fabric[e])
<1> DEFINE q == fabric[e]
<1>1. q \in Seq(Frame) /\ q # <<>>
  BY QueueTypes
<1>2. fabric \in [Endpoint -> Seq(LowFrame)]
  BY HandshakeTypes
<1> HIDE DEF Frame, LowFrame
<1>3. fabric'[e] = Tail(q) /\ \A x \in Endpoint \ {e} : fabric'[x] = fabric[x]
  BY <1>2
<1>4. Follows(Tail(q), q, {}) /\ Head(q) = q[1] /\ 1 \in 1 .. Len(q)
  <2> HIDE DEF q
  <2>1. Follows(Tail(q), q, {})
    BY <1>1, FollowsTail
  <2> QED BY <1>1, <2>1
<1>5. ASSUME NEW x \in Endpoint PROVE Follows(fabric'[x], fabric[x], {})
  <2>1. CASE x = e
    BY <1>3, <1>4, <2>1
  <2>2. CASE x # e
    BY <1>3, <2>2, SameFabric
  <2> QED BY <2>1, <2>2
<1> QED BY <1>3, <1>4, <1>5

\* A type that is not in a queue is not that of its head.
LEMMA HeadOther ==
    ASSUME NEW q, NEW type, q \in Seq(Without(type)), 1 \in 1 .. Len(q)
    PROVE  q[1].type # type
<1>1. q[1] \in Without(type)
  OBVIOUS
<1> QED BY <1>1 DEF Without

\* Order survives when frames are taken away.
LEMMA FewerBehind ==
    ASSUME NEW F, NEW q \in Seq(F), NEW p \in Seq(F), Follows(p, q, {})
    PROVE  \A first, second : NoneBehind(q, first, second) => NoneBehind(p, first, second)
<1>1. \A second : \A f \in {} : f.type # second
  OBVIOUS
<1> QED BY <1>1, FollowsBehind

\* While the master closes, it forgets all frames but the CLOSE frame.
LEMMA RecvCloseMaster ==
    ASSUME ConnInv, ConnInv', SessionInv, fabric["master"] # <<>>,
           Head(fabric["master"]).type # TYPE_CLOSE_CONNECTION,
           recv_close_conn("master", Head(fabric["master"]))
    PROVE  SessionInv'
<1>1. /\ fabric' = [fabric EXCEPT !["master"] = Tail(fabric["master"])]
      /\ conn_flag' = [conn_flag EXCEPT !["master"] = FALSE]
      /\ UNCHANGED <<pc, retransmit_buffer, next_tx_seq, next_rx_seq, txlog, rxlog, user, connection>>
      /\ UNCHANGED <<credits, tx_flow_credits>>
  BY DEF recv_close_conn, fcVars
<1>2. conn_flag'["slave"] = conn_flag["slave"]
  BY <1>1, ConnTypes, Ends DEF ConnVarsOK
<1>3. Follows(fabric'["slave"], fabric["slave"], {}) /\ Follows(fabric'["master"], fabric["master"], {})
  BY <1>1, Ends, ReadFabric
<1> QED BY <1>1, <1>2, <1>3, SessionParts, CalmSession

\* Once the slave has read the CLOSE frame there is no OPEN frame behind it.
LEMMA RecvCloseSlave ==
    ASSUME ConnInv, ConnInv', SessionInv, fabric["slave"] # <<>>,
           recv_close_conn("slave", Head(fabric["slave"]))
    PROVE  SessionInv'
<1> DEFINE f == Head(fabric["slave"])
           q == fabric["slave"]
           p == fabric'["slave"]
<1>1. /\ user["slave"] = "close"
      /\ fabric' = [fabric EXCEPT !["slave"] = Tail(fabric["slave"])]
      /\ conn_flag' = [conn_flag EXCEPT !["slave"] = f.type = TYPE_CLOSE_CONNECTION]
      /\ next_rx_seq'["master"] = next_rx_seq["master"]
      /\ UNCHANGED <<pc, retransmit_buffer, next_tx_seq, txlog, rxlog, user, connection>>
      /\ UNCHANGED <<credits, tx_flow_credits>>
  BY HandshakeTypes, Ends DEF recv_close_conn, UserIn, fcVars
<1>2. conn_flag'["slave"] <=> f.type = TYPE_CLOSE_CONNECTION
  BY <1>1, ConnTypes, Ends DEF ConnVarsOK
<1>3. /\ fabric'["master"] = fabric["master"] /\ p = Tail(q) /\ Follows(p, q, {})
      /\ f = q[1] /\ 1 \in 1 .. Len(q) /\ q # <<>>
  BY <1>1, Ends, ReadFabric
<1>4. /\ ThreadsWait /\ KeptNormal /\ Turns /\ tx_flow_credits["slave"][CHANNEL_E] = 0
      /\ Spoken => Served \/ NotServed
  BY SessionParts
<1>5. Speaking /\ Spoken /\ Speaking' /\ Spoken'
  BY <1>1 DEF Speaking, Spoken
<1>6. p \in Seq(Frame) /\ q \in Seq(Frame)
  BY FabricTypes
<1> HIDE DEF f, p, q
<1>7. ASSUME f.type = TYPE_CLOSE_CONNECTION
      PROVE  user["master"] = "close" /\ p \in Seq(Without(TYPE_OPEN_CONNECTION))
  <2>1. user["master"] # "close" => q \in Seq(Without(TYPE_CLOSE_CONNECTION))
    BY <1>4, <1>5 DEF Turns, q
  <2>2. user["master"] = "close"
    BY <1>3, <1>7, <2>1, HeadOther
  <2>3. NoneBehind(q, f.type, TYPE_OPEN_CONNECTION)
    BY <1>4, <1>7, <2>2 DEF Turns, q
  <2>4. f = Head(q)
    BY DEF f, q
  <2> QED BY <1>3, <1>6, <2>2, <2>3, <2>4, BehindHead
<1>8. Turns'
  <2> HIDE DEF Frame
  <2>1. q \in Seq(Without(TYPE_CLOSE_CONNECTION)) => p \in Seq(Without(TYPE_CLOSE_CONNECTION))
    BY <1>3, <1>6, FollowsOver
  <2>2. /\ NoneBehind(q, TYPE_OPEN_CONNECTION, TYPE_CLOSE_CONNECTION)
              => NoneBehind(p, TYPE_OPEN_CONNECTION, TYPE_CLOSE_CONNECTION)
        /\ NoneBehind(q, TYPE_CLOSE_CONNECTION, TYPE_OPEN_CONNECTION)
              => NoneBehind(p, TYPE_CLOSE_CONNECTION, TYPE_OPEN_CONNECTION)
    BY <1>3, <1>6, FewerBehind
  <2>3. conn_flag'["slave"] => user["master"] = "close" /\ p \in Seq(Without(TYPE_OPEN_CONNECTION))
    BY <1>2, <1>7
  <2> QED BY <1>1, <1>3, <1>4, <1>5, <2>1, <2>2, <2>3 DEF Turns, p, q
<1>9. ThreadsWait' /\ KeptNormal' /\ SlaveStarts'
  BY <1>1, <1>4 DEF ThreadsWait, ThreadParked, KeptNormal, SlaveStarts
<1>10. NotServed => NotServed'
  BY <1>1, <1>3 DEF NotServed
<1>11. Served => Served'
  BY <1>1, <1>3 DEF Served
<1> QED BY <1>1, <1>4, <1>5, <1>8, <1>9, <1>10, <1>11 DEF SessionInv

\* What tloe_endpoint_init does, and does not do.
LEMMA ResetFact ==
    ASSUME ConnInv, NEW e \in Endpoint, tloe_endpoint_init(e)
    PROVE  /\ user'[e] = "idle" /\ retransmit_buffer'[e] = <<>> /\ next_tx_seq'[e] = 0
           /\ next_rx_seq'[e] = 0 /\ rxlog'[e] = <<>>
           /\ credits'[e] = init_flowcontrol(CREDIT_INIT)
           /\ tx_flow_credits'[e] = [c \in Channel |-> 0]
           /\ \A x \in Endpoint \ {e} :
                 /\ user'[x] = user[x] /\ retransmit_buffer'[x] = retransmit_buffer[x]
                 /\ next_tx_seq'[x] = next_tx_seq[x] /\ next_rx_seq'[x] = next_rx_seq[x]
                 /\ txlog'[x] = txlog[x] /\ rxlog'[x] = rxlog[x]
                 /\ credits'[x] = credits[x] /\ tx_flow_credits'[x] = tx_flow_credits[x]
           /\ UNCHANGED <<pc, connection, conn_flag>>
<1>1. /\ user \in [Endpoint -> {"idle", "open", "close", "last", "quit"}]
      /\ retransmit_buffer \in [Endpoint -> Seq(Frame)] /\ rxlog \in [Endpoint -> Seq(LogEntry)]
  BY ConnTypes DEF ConnVarsOK, LinkTypeOK
<1> DEFINE fresh == init_flowcontrol(CREDIT_INIT)
           none == [c \in Channel |-> 0]
<1>2. /\ user' = [user EXCEPT ![e] = "idle"]
      /\ retransmit_buffer' = [retransmit_buffer EXCEPT ![e] = <<>>]
      /\ next_tx_seq' = [next_tx_seq EXCEPT ![e] = 0]
      /\ next_rx_seq' = [next_rx_seq EXCEPT ![e] = 0]
      /\ credits' = [credits EXCEPT ![e] = fresh]
      /\ tx_flow_credits' = [tx_flow_credits EXCEPT ![e] = none]
      /\ txlog' = [txlog EXCEPT ![e] = <<>>] /\ rxlog' = [rxlog EXCEPT ![e] = <<>>]
      /\ UNCHANGED <<pc, connection, conn_flag>>
  BY DEF tloe_endpoint_init, ResetLink, ResetNumbers, ResetCredit
<1> HIDE DEF fresh, none, Frame
<1>3. /\ user'[e] = "idle" /\ retransmit_buffer'[e] = <<>> /\ next_tx_seq'[e] = 0
      /\ next_rx_seq'[e] = 0 /\ rxlog'[e] = <<>> /\ credits'[e] = fresh /\ tx_flow_credits'[e] = none
  BY <1>1, <1>2, HandshakeTypes
<1>4. \A x \in Endpoint \ {e} :
         /\ user'[x] = user[x] /\ retransmit_buffer'[x] = retransmit_buffer[x]
         /\ next_tx_seq'[x] = next_tx_seq[x] /\ next_rx_seq'[x] = next_rx_seq[x]
         /\ txlog'[x] = txlog[x] /\ rxlog'[x] = rxlog[x]
         /\ credits'[x] = credits[x] /\ tx_flow_credits'[x] = tx_flow_credits[x]
  BY <1>1, <1>2, HandshakeTypes
<1> QED BY <1>2, <1>3, <1>4 DEF fresh, none

\* An emptied retransmit buffer keeps nothing.
LEMMA KeptReset ==
    ASSUME KeptNormal,
           \A x \in Endpoint : retransmit_buffer'[x] \in {retransmit_buffer[x], <<>>}
    PROVE  KeptNormal'
<1> DEFINE T == {f \in Frame : f.type = TYPE_NORMAL}
<1>1. \A x \in Endpoint : retransmit_buffer[x] \in Seq(T)
  BY DEF KeptNormal
<1> HIDE DEF T
<1>2. <<>> \in Seq(T)
  OBVIOUS
<1>3. \A x \in Endpoint : retransmit_buffer'[x] \in Seq(T)
  BY <1>1, <1>2, Zenon
<1> QED BY <1>3 DEF KeptNormal, T

\* A queue without frames.
LEMMA EmptyOnlyLast == \A type : OnlyLast(<<>>, type)
BY DEF OnlyLast

\* The master reads the slave's CLOSE frame, the last frame of the connection.
LEMMA CloseMasterSession ==
    ASSUME Prompt, ConnInv, ConnInv', SessionInv, fabric["master"] # <<>>,
           close_conn_master(Head(fabric["master"]))
    PROVE  SessionInv'
<1> DEFINE q == fabric["master"]
<1>1. /\ user["master"] = "close" /\ ThreadParked("master")
      /\ Head(q).type = TYPE_CLOSE_CONNECTION
      /\ fabric' = [fabric EXCEPT !["master"] = Tail(q)]
      /\ tloe_endpoint_init("master")
  BY DEF close_conn_master, UserIn, CloseMayProceed
<1>2. /\ user'["master"] = "idle" /\ retransmit_buffer'["master"] = <<>>
      /\ next_rx_seq'["master"] = 0 /\ rxlog'["master"] = <<>>
      /\ credits'["master"] = init_flowcontrol(CREDIT_INIT)
      /\ user'["slave"] = user["slave"] /\ retransmit_buffer'["slave"] = retransmit_buffer["slave"]
      /\ next_tx_seq'["slave"] = next_tx_seq["slave"] /\ credits'["slave"] = credits["slave"]
      /\ tx_flow_credits'["slave"] = tx_flow_credits["slave"]
      /\ UNCHANGED <<pc, connection, conn_flag>>
  BY <1>1, Ends, ResetFact
<1>3. /\ fabric'["slave"] = fabric["slave"] /\ fabric'["master"] = Tail(q)
      /\ Head(q) = q[1] /\ 1 \in 1 .. Len(q)
  BY <1>1, Ends, ReadFabric
<1>4. ThreadsWait /\ KeptNormal /\ SlaveStarts /\ Turns /\ tx_flow_credits["slave"][CHANNEL_E] = 0
  BY SessionParts
<1>5. ~Speaking
  <2> SUFFICES ASSUME Speaking PROVE FALSE
    OBVIOUS
  <2>1. q \in Seq(Without(TYPE_CLOSE_CONNECTION))
    BY <1>4 DEF Turns
  <2> HIDE DEF q
  <2> QED BY <1>1, <1>3, <2>1, HeadOther
<1>6. ~Speaking' /\ ~Spoken'
  BY <1>2, <1>5 DEF Speaking, Spoken
<1>7. Tail(q) = <<>>
  <2>1. q \in Seq(Frame) /\ q # <<>> /\ OnlyLast(q, Head(q).type)
    BY <1>1, <1>4, <1>5, FabricTypes DEF Turns
  <2> HIDE DEF q
  <2> QED BY <2>1, LastHead
<1> HIDE DEF q
<1>8. MasterFresh'
  BY <1>2, <1>3, <1>7 DEF MasterFresh
<1>9. Turns'
  <2>1. ~connection["master"] /\ fabric["slave"] \in Seq(Without(TYPE_OPEN_CONNECTION))
    BY <1>1, <1>4, <1>5 DEF Turns
  <2>2. OnlyLast(fabric'["master"], TYPE_CLOSE_CONNECTION)
    BY <1>3, <1>7, EmptyOnlyLast
  <2> QED BY <1>2, <1>3, <1>6, <2>1, <2>2 DEF Turns
<1>10. ThreadsWait'
  BY <1>1, <1>2, <1>4, Ends DEF ThreadsWait, ThreadParked
<1>11. KeptNormal'
  BY <1>2, <1>4, Ends, KeptReset
<1>12. SlaveStarts'
  BY <1>2, <1>4 DEF SlaveStarts
<1> QED BY <1>2, <1>4, <1>6, <1>8, <1>9, <1>10, <1>11, <1>12 DEF SessionInv

\* The slave, after its CLOSE frame.
LEMMA CloseSlaveSession ==
    ASSUME Prompt, ConnInv, ConnInv', SessionInv, close_conn_slave
    PROVE  SessionInv'
<1> DEFINE q == fabric["slave"]
           p == fabric'["slave"]
<1>1. /\ user["slave"] = "last" /\ ThreadParked("slave")
      /\ fabric' = [fabric EXCEPT !["slave"] = IF q = <<>> THEN q ELSE Tail(q)]
      /\ tloe_endpoint_init("slave")
  BY DEF close_conn_slave, UserIn, CloseMayProceed
<1>2. /\ user'["slave"] = "idle" /\ retransmit_buffer'["slave"] = <<>> /\ next_tx_seq'["slave"] = 0
      /\ credits'["slave"] = init_flowcontrol(CREDIT_INIT)
      /\ tx_flow_credits'["slave"] = [c \in Channel |-> 0]
      /\ user'["master"] = user["master"] /\ retransmit_buffer'["master"] = retransmit_buffer["master"]
      /\ next_rx_seq'["master"] = next_rx_seq["master"] /\ rxlog'["master"] = rxlog["master"]
      /\ credits'["master"] = credits["master"]
      /\ UNCHANGED <<pc, connection, conn_flag>>
  BY <1>1, Ends, ResetFact
<1>3. fabric'["master"] = fabric["master"] /\ Follows(p, q, {})
  <2>1. CASE q = <<>>
    <3>1. fabric' = [fabric EXCEPT !["slave"] = q] /\ fabric \in [Endpoint -> Seq(LowFrame)]
      BY <1>1, <2>1, HandshakeTypes
    <3>2. fabric' = fabric
      BY <3>1, Ends
    <3> QED BY <3>2, Ends, SameFabric
  <2>2. CASE q # <<>>
    <3>1. fabric' = [fabric EXCEPT !["slave"] = Tail(fabric["slave"])] /\ fabric["slave"] # <<>>
      BY <1>1, <2>2
    <3> QED BY <3>1, Ends, ReadFabric
  <2> QED BY <2>1, <2>2
<1>4. /\ ThreadsWait /\ KeptNormal /\ Turns
      /\ ~Spoken => user["master"] = "close" \/ MasterFresh
  BY SessionParts
<1>5. ~connection["slave"]
  BY <1>1, ConnTypes, Ends DEF Phases
<1>6. ~Speaking /\ ~Spoken /\ ~Speaking' /\ ~Spoken'
  BY <1>1, <1>2, <1>5 DEF Speaking, Spoken
<1>7. p \in Seq(Frame) /\ q \in Seq(Frame)
  BY FabricTypes
<1> HIDE DEF p, q
<1>8. Turns'
  <2> HIDE DEF Frame
  <2>1. q \in Seq(Without(TYPE_OPEN_CONNECTION)) => p \in Seq(Without(TYPE_OPEN_CONNECTION))
    BY <1>3, <1>7, FollowsOver
  <2>2. /\ NoneBehind(q, TYPE_OPEN_CONNECTION, TYPE_CLOSE_CONNECTION)
              => NoneBehind(p, TYPE_OPEN_CONNECTION, TYPE_CLOSE_CONNECTION)
        /\ NoneBehind(q, TYPE_CLOSE_CONNECTION, TYPE_OPEN_CONNECTION)
              => NoneBehind(p, TYPE_CLOSE_CONNECTION, TYPE_OPEN_CONNECTION)
    BY <1>3, <1>7, FewerBehind
  <2> QED BY <1>2, <1>3, <1>4, <1>6, <2>1, <2>2 DEF Turns, p, q
<1>9. ThreadsWait'
  BY <1>1, <1>2, <1>4, Ends DEF ThreadsWait, ThreadParked
<1>10. KeptNormal'
  BY <1>2, <1>4, Ends, KeptReset
<1>11. SlaveStarts'
  BY <1>2 DEF SlaveStarts
<1>12. tx_flow_credits'["slave"][CHANNEL_E] = 0
  BY <1>2 DEF Channel, CHANNEL_NUM, CHANNEL_E
<1>13. MasterFresh => MasterFresh'
  BY <1>2, <1>3 DEF MasterFresh
<1> QED BY <1>2, <1>4, <1>6, <1>8, <1>9, <1>10, <1>11, <1>12, <1>13 DEF SessionInv

\* A larger exponent gives more credit.
LEMMA PowMore ==
    ASSUME NEW a \in 0 .. 31, NEW b \in 0 .. 31, a < b
    PROVE  2^a < 2^b /\ 2^a \in Nat /\ 2^b \in Nat
<1> DEFINE P(k) == 2^k
<1>1. P(0) \in Nat /\ P(1) \in Nat /\ P(2) \in Nat /\ P(3) \in Nat /\ P(4) \in Nat /\ P(5) \in Nat
      /\ P(6) \in Nat /\ P(7) \in Nat /\ P(8) \in Nat /\ P(9) \in Nat /\ P(10) \in Nat /\ P(11) \in Nat
      /\ P(12) \in Nat /\ P(13) \in Nat /\ P(14) \in Nat /\ P(15) \in Nat /\ P(16) \in Nat /\ P(17) \in Nat
      /\ P(18) \in Nat /\ P(19) \in Nat /\ P(20) \in Nat /\ P(21) \in Nat /\ P(22) \in Nat /\ P(23) \in Nat
      /\ P(24) \in Nat /\ P(25) \in Nat /\ P(26) \in Nat /\ P(27) \in Nat /\ P(28) \in Nat /\ P(29) \in Nat
      /\ P(30) \in Nat /\ P(31) \in Nat
  OBVIOUS
<1>2. P(0) < P(1) /\ P(1) < P(2) /\ P(2) < P(3) /\ P(3) < P(4) /\ P(4) < P(5)
      /\ P(5) < P(6) /\ P(6) < P(7) /\ P(7) < P(8) /\ P(8) < P(9) /\ P(9) < P(10)
      /\ P(10) < P(11) /\ P(11) < P(12) /\ P(12) < P(13) /\ P(13) < P(14) /\ P(14) < P(15)
      /\ P(15) < P(16) /\ P(16) < P(17) /\ P(17) < P(18) /\ P(18) < P(19) /\ P(19) < P(20)
      /\ P(20) < P(21) /\ P(21) < P(22) /\ P(22) < P(23) /\ P(23) < P(24) /\ P(24) < P(25)
      /\ P(25) < P(26) /\ P(26) < P(27) /\ P(27) < P(28) /\ P(28) < P(29) /\ P(29) < P(30)
      /\ P(30) < P(31)
  OBVIOUS
<1>3. a = 0 \/ a = 1 \/ a = 2 \/ a = 3 \/ a = 4 \/ a = 5 \/ a = 6 \/ a = 7 \/ a = 8
      \/ a = 9 \/ a = 10 \/ a = 11 \/ a = 12 \/ a = 13 \/ a = 14 \/ a = 15 \/ a = 16 \/ a = 17
      \/ a = 18 \/ a = 19 \/ a = 20 \/ a = 21 \/ a = 22 \/ a = 23 \/ a = 24 \/ a = 25 \/ a = 26
      \/ a = 27 \/ a = 28 \/ a = 29 \/ a = 30 \/ a = 31
  OBVIOUS
<1>4. b = 0 \/ b = 1 \/ b = 2 \/ b = 3 \/ b = 4 \/ b = 5 \/ b = 6 \/ b = 7 \/ b = 8
      \/ b = 9 \/ b = 10 \/ b = 11 \/ b = 12 \/ b = 13 \/ b = 14 \/ b = 15 \/ b = 16 \/ b = 17
      \/ b = 18 \/ b = 19 \/ b = 20 \/ b = 21 \/ b = 22 \/ b = 23 \/ b = 24 \/ b = 25 \/ b = 26
      \/ b = 27 \/ b = 28 \/ b = 29 \/ b = 30 \/ b = 31
  OBVIOUS
<1> HIDE DEF P
<1>5. P(a) < P(b) /\ P(a) \in Nat /\ P(b) \in Nat
  BY <1>1, <1>2, <1>3, <1>4
<1> QED BY <1>5 DEF P
-------------------------------------------------------------------------------
\* Frames read while a connection is opened.

LEMMA CmpZero ==
    ASSUME NEW s \in SeqNum, NEW r \in SeqNum, tloe_seqnum_cmp(s, r) = 0
    PROVE  s = r
<1>1. s \in Int /\ r \in Int
  BY DEF SeqNum
<1>2. s # r => tloe_seqnum_cmp(s, r) = 1 \/ tloe_seqnum_cmp(s, r) = -1
  BY <1>1, HalfFact DEF tloe_seqnum_cmp
<1> HIDE DEF tloe_seqnum_cmp
<1> QED BY <1>2

\* The credit of a master that has taken the first n frames of the handshake.
LEMMA GrantedFact ==
    ASSUME NEW n, NEW given
    PROVE  (\A c \in CHANNEL_A .. CHANNEL_E :
              given[c] = 2^(IF c <= n THEN CREDIT_DEFAULT ELSE CREDIT_INIT))
           <=> (\A c \in 1 .. 5 : given[c] = IF c <= n THEN 2^CREDIT_DEFAULT ELSE 2^CREDIT_INIT)
<1> DEFINE P(k) == 2^k
<1>1. CHANNEL_A = 1 /\ CHANNEL_E = 5
  BY DEF CHANNEL_A, CHANNEL_E
<1>2. (\A c \in 1 .. 5 : given[c] = P(IF c <= n THEN CREDIT_DEFAULT ELSE CREDIT_INIT))
        <=> (\A c \in 1 .. 5 : given[c] = IF c <= n THEN P(CREDIT_DEFAULT) ELSE P(CREDIT_INIT))
  <2> HIDE DEF P
  <2> QED OBVIOUS
<1> QED BY <1>1, <1>2

\* The two amounts.
LEMMA InitLess == 2^CREDIT_INIT < 2^CREDIT_DEFAULT /\ 2^CREDIT_INIT \in Nat /\ 2^CREDIT_DEFAULT \in Nat
<1>1. CREDIT_DEFAULT \in 0 .. 31 /\ CREDIT_INIT \in 0 .. CREDIT_DEFAULT - 1
  BY SizeAssumption, ConnAssumption
<1>2. CREDIT_INIT \in 0 .. 31 /\ CREDIT_INIT < CREDIT_DEFAULT
  BY <1>1
<1> QED BY <1>1, <1>2, PowMore

\* What a frame read by the master leaves alone.
LEMMA RecvMaster ==
    ASSUME ConnInv, SessionInv, fabric["master"] # <<>>, recv_conn("master", Head(fabric["master"]))
    PROVE  /\ user["master"] = "open" /\ ~connection["master"] /\ Spoken /\ Speaking
           /\ (Served \/ NotServed)
           /\ UNCHANGED <<pc, retransmit_buffer, rxlog>>
           /\ conn_flag'["slave"] = conn_flag["slave"] /\ credits'["slave"] = credits["slave"]
           /\ tx_flow_credits'["slave"] = tx_flow_credits["slave"]
           /\ credits'["master"] = CreditsAfter("master", Head(fabric["master"]))
<1> DEFINE f == Head(fabric["master"])
           after == CreditsAfter("master", f)
           flag == conn_flag["master"] \/ f.type = TYPE_OPEN_CONNECTION
           owed == clear_flow_credit(tx_flow_credits["master"], f.chan)
<1>1. /\ user["master"] = "open"
      /\ conn_flag' = [conn_flag EXCEPT !["master"] = flag]
      /\ credits' = [credits EXCEPT !["master"] = after]
      /\ \/ tx_flow_credits' = [tx_flow_credits EXCEPT !["master"] = owed]
         \/ UNCHANGED tx_flow_credits
      /\ UNCHANGED <<pc, retransmit_buffer, rxlog>>
  BY DEF recv_conn, UserIn
<1>2. conn_flag \in [Endpoint -> BOOLEAN] /\ ~connection["master"]
  BY <1>1, ConnTypes, Ends DEF ConnVarsOK, Phases
<1>3. /\ ~Spoken => user["master"] = "close" \/ MasterFresh
      /\ Spoken => Served \/ NotServed
  BY SessionParts
<1>4. Spoken /\ Speaking
  BY <1>1, <1>3 DEF MasterFresh, Spoken
<1> HIDE DEF f, after, flag, owed
<1>5. /\ conn_flag'["slave"] = conn_flag["slave"] /\ credits'["slave"] = credits["slave"]
      /\ tx_flow_credits'["slave"] = tx_flow_credits["slave"] /\ credits'["master"] = after
  BY <1>1, <1>2, HandshakeTypes, Ends
<1> QED BY <1>1, <1>2, <1>3, <1>4, <1>5 DEF after, f

\* The master takes the frames of the handshake in order and has all its credit
\* with the fifth.
LEMMA MasterServed ==
    ASSUME ConnInv, SessionInv, fabric["master"] # <<>>, recv_conn("master", Head(fabric["master"])),
           Served
    PROVE  /\ next_rx_seq'["master"] \in 0 .. 5
           /\ \A c \in CHANNEL_A .. CHANNEL_E :
                credits'["master"][c] =
                    2^(IF c <= next_rx_seq'["master"] THEN CREDIT_DEFAULT ELSE CREDIT_INIT)
           /\ check_all_channels(credits'["master"], CREDIT_INIT) <=> next_rx_seq'["master"] = 5
<1> DEFINE e == "master"
           f == Head(fabric[e])
           r == next_rx_seq[e]
           t == next_rx_seq'[e]
           old == credits[e]
           new == credits'[e]
           lo == 2^CREDIT_INIT
           hi == 2^CREDIT_DEFAULT
           Granted(given, n) == \A c \in 1 .. 5 : given[c] = IF c <= n THEN hi ELSE lo
<1>1. /\ user[e] = "open" /\ new = CreditsAfter(e, f)
      /\ IF Takes(e, f) THEN next_rx_seq' = [next_rx_seq EXCEPT ![e] = tloe_seqnum_next(f.seq_num)]
         ELSE UNCHANGED next_rx_seq
  BY RecvMaster DEF recv_conn
<1>2. r \in 0 .. 4 /\ Granted(old, r)
  <2>1. r < 5 /\ r \in SeqNum
    BY <1>1, HandshakeTypes, Ends DEF Served
  <2>2. \A c \in CHANNEL_A .. CHANNEL_E :
            old[c] = 2^(IF c <= r THEN CREDIT_DEFAULT ELSE CREDIT_INIT)
    BY <1>1 DEF Served
  <2> HIDE DEF r, old
  <2>3. Granted(old, r)
    BY <2>2, GrantedFact
  <2> QED BY <2>1, <2>3, TopFact DEF SeqNum
<1>3. f \in SlaveFrame(txlog["slave"])
  <2> DEFINE S == SlaveFrame(txlog["slave"])
  <2>1. fabric[e] \in Seq(S) /\ fabric[e] # <<>>
    BY DEF Served
  <2> HIDE DEF S
  <2>2. f \in S
    BY <2>1
  <2> QED BY <2>2 DEF S
<1>4. f \in Frame /\ f.seq_num \in SeqNum /\ f.seq_num <= TopSeq /\ old \in [Channel -> Nat]
  BY ConnTypes, ReadLow, HandshakeTypes, Ends
<1>5. t \in 0 .. 5 /\ Granted(new, t)
  <2>1. CASE Takes(e, f)
    <3>1. f.seq_num = r
      <4>1. tloe_seqnum_cmp(f.seq_num, r) = 0 /\ r \in SeqNum
        BY <2>1, HandshakeTypes, Ends DEF Takes
      <4> HIDE DEF f, r
      <4> QED BY <1>4, <4>1, CmpZero
    <3>2. f.type # TYPE_ACKONLY
      <4> HIDE DEF f, r
      <4> QED BY <1>2, <1>3, <3>1 DEF SlaveFrame
    <3>3. f.chan = r + 1 /\ f.credit = CREDIT_DEFAULT
      <4> HIDE DEF f, r
      <4>1. f.seq_num < 5
        BY <1>2, <3>1
      <4> QED BY <1>3, <3>1, <3>2, <4>1 DEF SlaveFrame
    <3>4. t = r + 1
      <4>1. t = tloe_seqnum_next(f.seq_num)
        BY <1>1, <2>1, HandshakeTypes, Ends
      <4>2. tloe_seqnum_next(f.seq_num) = f.seq_num + 1
        BY <1>4, NextLow
      <4> QED BY <3>1, <4>1, <4>2
    <3>5. new = [old EXCEPT ![r + 1] = hi]
      BY <1>1, <2>1, <3>3 DEF CreditsAfter, set_credit
    <3> HIDE DEF f, r, t, old, new, lo, hi
    <3>6. ASSUME NEW c \in 1 .. 5 PROVE new[c] = IF c <= t THEN hi ELSE lo
      <4>1. c \in Channel /\ r + 1 \in Channel
        BY <1>2 DEF Channel, CHANNEL_NUM
      <4>2. CASE c = r + 1
        <5>1. new[c] = hi /\ c <= t
          BY <1>2, <1>4, <3>4, <3>5, <4>1, <4>2
        <5> QED BY <5>1
      <4>3. CASE c # r + 1
        <5>1. new[c] = old[c] /\ (c <= t <=> c <= r)
          BY <1>2, <1>4, <3>4, <3>5, <4>1, <4>3
        <5> QED BY <1>2, <5>1
      <4> QED BY <4>2, <4>3
    <3>7. t \in 0 .. 5
      BY <1>2, <3>4
    <3> QED BY <3>6, <3>7
  <2>2. CASE ~Takes(e, f)
    <3>1. t = r /\ new = old
      BY <1>1, <2>2 DEF CreditsAfter
    <3> HIDE DEF r, t, old, new, lo, hi
    <3> QED BY <1>2, <3>1
  <2> QED BY <2>1, <2>2
<1>6. lo < hi /\ lo \in Nat /\ hi \in Nat
  BY InitLess
<1>7. check_all_channels(new, CREDIT_INIT) <=> \A c \in 1 .. 5 : new[c] > lo
  BY DEF check_all_channels, CHANNEL_A, CHANNEL_E
<1>8. \A c \in CHANNEL_A .. CHANNEL_E :
            new[c] = 2^(IF c <= t THEN CREDIT_DEFAULT ELSE CREDIT_INIT)
  <2>1. Granted(new, t)
    BY <1>5
  <2> HIDE DEF t, new
  <2> QED BY <2>1, GrantedFact
<1> HIDE DEF t, new, lo, hi
<1>9. (\A c \in 1 .. 5 : new[c] > lo) <=> t = 5
  <2>1. ASSUME t = 5 PROVE \A c \in 1 .. 5 : new[c] > lo
    BY <1>5, <1>6, <2>1
  <2>2. ASSUME t # 5 PROVE ~(\A c \in 1 .. 5 : new[c] > lo)
    <3>1. ~(5 <= t) /\ 5 \in 1 .. 5
      BY <1>5, <2>2
    <3>2. new[5] = lo
      BY <1>5, <3>1
    <3> QED BY <1>6, <3>1, <3>2
  <2> QED BY <2>1, <2>2
<1> QED BY <1>5, <1>7, <1>8, <1>9 DEF t, new

\* A master that is not served stays without the credit of channel E.
LEMMA MasterNotServed ==
    ASSUME ConnInv, SessionInv, fabric["master"] # <<>>, recv_conn("master", Head(fabric["master"])),
           NotServed
    PROVE  /\ credits'["master"][CHANNEL_E] = 2^CREDIT_INIT
           /\ ~check_all_channels(credits'["master"], CREDIT_INIT)
<1> DEFINE f == Head(fabric["master"])
           amount == 2^f.credit
           lo == 2^CREDIT_INIT
           old == credits["master"]
           new == credits'["master"]
<1>1. f.chan # CHANNEL_E
  <2> DEFINE N == {g \in Frame : g.chan # CHANNEL_E}
  <2>1. fabric["master"] \in Seq(N) /\ fabric["master"] # <<>>
    BY DEF NotServed
  <2> HIDE DEF N
  <2>2. f \in N
    BY <2>1
  <2> HIDE DEF f, Frame
  <2> QED BY <2>2 DEF N
<1>2. new = IF Takes("master", f) THEN [old EXCEPT ![f.chan] = amount] ELSE old
  BY RecvMaster DEF CreditsAfter, set_credit
<1>3. old \in [Channel -> Nat] /\ CHANNEL_E \in Channel /\ old[CHANNEL_E] = lo
  BY HandshakeTypes, Ends DEF NotServed, Channel, CHANNEL_NUM, CHANNEL_E
<1>4. check_all_channels(new, CREDIT_INIT) => new[CHANNEL_E] > lo
  BY DEF check_all_channels, CHANNEL_A, CHANNEL_E
<1>5. lo \in Nat
  BY InitLess
<1> HIDE DEF f, amount, lo, old, new
<1>6. new[CHANNEL_E] = lo
  BY <1>1, <1>2, <1>3
<1> QED BY <1>4, <1>5, <1>6 DEF lo, new

\* The master reads a frame of the handshake and waits for more.
LEMMA OpenWaitMaster ==
    ASSUME ConnInv, ConnInv', SessionInv, fabric["master"] # <<>>,
           open_conn_wait("master", Head(fabric["master"]))
    PROVE  SessionInv'
<1> DEFINE q == fabric["master"]
           p == fabric'["master"]
<1>1. /\ recv_conn("master", Head(fabric["master"]))
      /\ ~check_all_channels(CreditsAfter("master", Head(fabric["master"])), CREDIT_INIT)
      /\ fabric' = [fabric EXCEPT !["master"] = Tail(fabric["master"])]
      /\ UNCHANGED <<next_tx_seq, txlog, user, connection>>
  BY DEF open_conn_wait
<1>2. /\ user["master"] = "open" /\ ~connection["master"] /\ Spoken /\ Speaking
      /\ (Served \/ NotServed)
      /\ UNCHANGED <<pc, retransmit_buffer, rxlog>>
      /\ conn_flag'["slave"] = conn_flag["slave"] /\ credits'["slave"] = credits["slave"]
      /\ tx_flow_credits'["slave"] = tx_flow_credits["slave"]
      /\ ~check_all_channels(credits'["master"], CREDIT_INIT)
  BY <1>1, RecvMaster
<1>3. fabric'["slave"] = fabric["slave"] /\ \A x \in Endpoint : Follows(fabric'[x], fabric[x], {})
  BY <1>1, Ends, ReadFabric
<1>4. /\ ThreadsWait /\ KeptNormal /\ SlaveStarts /\ Turns /\ tx_flow_credits["slave"][CHANNEL_E] = 0
  BY SessionParts
<1>5. (Spoken' <=> Spoken) /\ (Speaking' <=> Speaking)
  BY <1>1, <1>2 DEF Spoken, Speaking
<1>6. Turns'
  <2>1. {} \subseteq Plain /\ {} \subseteq (IF Speaking THEN Plain ELSE {})
    OBVIOUS
  <2>2. /\ Follows(fabric'["slave"], fabric["slave"], Plain)
        /\ Follows(fabric'["master"], fabric["master"], IF Speaking THEN Plain ELSE {})
    BY <1>3, <2>1, Ends, FollowsMore
  <2> QED BY <1>1, <1>2, <1>4, <1>5, <2>2, TurnsKept
<1>7. ThreadsWait' /\ KeptNormal' /\ SlaveStarts'
  BY <1>1, <1>2, <1>4 DEF ThreadsWait, ThreadParked, KeptNormal, SlaveStarts
<1>8. p \in Seq(Frame) /\ q \in Seq(Frame) /\ Follows(p, q, {})
  BY <1>3, FabricTypes, Ends
<1>9. CASE Served
  <2> DEFINE S == SlaveFrame(txlog["slave"])
  <2>1. p \in Seq(S)
    <3>1. q \in Seq(S) /\ {} \subseteq S
      BY <1>9 DEF Served
    <3> HIDE DEF p, q, S, Frame
    <3> QED BY <1>8, <3>1, FollowsOver
  <2>2. /\ next_rx_seq'["master"] \in 0 .. 5
        /\ \A c \in CHANNEL_A .. CHANNEL_E :
             credits'["master"][c] =
                 2^(IF c <= next_rx_seq'["master"] THEN CREDIT_DEFAULT ELSE CREDIT_INIT)
        /\ next_rx_seq'["master"] # 5
    BY <1>1, <1>2, <1>9, MasterServed
  <2>3. next_rx_seq'["master"] < 5
    BY <2>2
  <2>4. Served'
    BY <1>1, <1>2, <1>9, <2>1, <2>2, <2>3 DEF Served
  <2> QED BY <1>2, <1>4, <1>5, <1>6, <1>7, <2>4 DEF SessionInv
<1>10. CASE NotServed
  <2> DEFINE N == {g \in Frame : g.chan # CHANNEL_E}
  <2>1. p \in Seq(N)
    <3>1. q \in Seq(N) /\ {} \subseteq N
      BY <1>10 DEF NotServed
    <3> HIDE DEF p, q, N, Frame
    <3> QED BY <1>8, <3>1, FollowsOver
  <2>2. credits'["master"][CHANNEL_E] = 2^CREDIT_INIT
    BY <1>1, <1>10, MasterNotServed
  <2>3. NotServed'
    BY <1>1, <1>2, <1>10, <2>1, <2>2 DEF NotServed
  <2> QED BY <1>2, <1>4, <1>5, <1>6, <1>7, <2>3 DEF SessionInv
<1> QED BY <1>2, <1>9, <1>10

\* The last frame of a handshake is read by e and answered.
LEMMA AnswerFabric ==
    ASSUME ConnInv, NEW e \in Endpoint, fabric[e] # <<>>, NEW last,
           fabric' = [fabric EXCEPT ![e] = Tail(fabric[e]), ![Peer(e)] = Carry(fabric[Peer(e)], <<last>>)]
    PROVE  /\ fabric'[e] = Tail(fabric[e]) /\ Follows(fabric'[e], fabric[e], {})
           /\ Follows(fabric'[Peer(e)], fabric[Peer(e)], {last})
           /\ Appended(fabric'[Peer(e)], fabric[Peer(e)], {last})
           /\ Head(fabric[e]) = fabric[e][1] /\ 1 \in 1 .. Len(fabric[e])
<1> DEFINE x == Peer(e)
           q == fabric[e]
           r == fabric[x]
           one == <<last>>
           T == {last}
           t == Carry(r, one)
<1>1. x \in Endpoint /\ x # e
  BY PeerFact
<1>2. q \in Seq(Frame) /\ q # <<>> /\ r \in Seq(Frame) /\ Len(r) <= FABRIC_BUF
  BY <1>1, QueueTypes
<1>3. one \in Seq(T)
  OBVIOUS
<1>4. fabric' = [fabric EXCEPT ![e] = Tail(q), ![x] = t] /\ fabric \in [Endpoint -> Seq(LowFrame)]
  BY HandshakeTypes
<1> HIDE DEF x, q, r, one, T, Frame, LowFrame
<1>5. Follows(t, r, T) /\ Appended(t, r, T)
  BY <1>2, <1>3, FollowsCarry
<1>6. Follows(Tail(q), q, {})
  BY <1>2, FollowsTail
<1> HIDE DEF t
<1>7. fabric'[e] = Tail(q) /\ fabric'[x] = t
  BY <1>1, <1>4
<1>8. Head(q) = q[1] /\ 1 \in 1 .. Len(q)
  BY <1>2
<1> QED BY <1>5, <1>6, <1>7, <1>8 DEF x, q, r, T

\* The master has the credit of all channels and opens the connection.
LEMMA OpenMasterSession ==
    ASSUME ConnInv, ConnInv', SessionInv, fabric["master"] # <<>>,
           open_conn_master(Head(fabric["master"]))
    PROVE  SessionInv'
<1> DEFINE q == fabric["master"]
           p == fabric'["master"]
           r == fabric["slave"]
           t == fabric'["slave"]
           T == Without(TYPE_CLOSE_CONNECTION)
           S == SlaveFrame(txlog["slave"])
           a == tloe_seqnum_prev(next_rx_seq'["master"])
           last == send_frame(TYPE_NORMAL, next_tx_seq["master"], a, CHANNEL_0, 0)
           log == Append(txlog["master"], Payload(last))
<1>0. fabric \in [Endpoint -> Seq(LowFrame)] /\ txlog \in [Endpoint -> Seq(LogEntry)]
      /\ next_tx_seq \in [Endpoint -> SeqNum]
  BY HandshakeTypes
<1>1. /\ recv_conn("master", Head(fabric["master"]))
      /\ check_all_channels(CreditsAfter("master", Head(fabric["master"])), CREDIT_INIT)
      /\ fabric' = [fabric EXCEPT !["master"] = Tail(fabric["master"]),
                                  !["slave"] = Carry(fabric["slave"], <<last>>)]
      /\ next_tx_seq' = [next_tx_seq EXCEPT !["master"] = tloe_seqnum_next(next_tx_seq["master"])]
      /\ txlog' = [txlog EXCEPT !["master"] = log]
      /\ user' = [user EXCEPT !["master"] = "idle"]
      /\ connection' = [connection EXCEPT !["master"] = TRUE]
  <2>1. fabric' = [fabric EXCEPT !["master"] = Tail(fabric["master"]),
                                 !["slave"] = Carry(fabric["slave"], <<last>>)]
    BY <1>0, Ends DEF open_conn_master
  <2> QED BY <2>1 DEF open_conn_master, Opened
<1>2. /\ user["master"] = "open" /\ ~connection["master"] /\ Spoken /\ Speaking
      /\ (Served \/ NotServed)
      /\ UNCHANGED <<pc, retransmit_buffer, rxlog>>
      /\ conn_flag'["slave"] = conn_flag["slave"] /\ credits'["slave"] = credits["slave"]
      /\ tx_flow_credits'["slave"] = tx_flow_credits["slave"]
      /\ check_all_channels(credits'["master"], CREDIT_INIT)
  BY <1>1, RecvMaster
<1>3. /\ ThreadsWait /\ KeptNormal /\ SlaveStarts /\ Turns /\ tx_flow_credits["slave"][CHANNEL_E] = 0
  BY SessionParts
<1>4. Served
  BY <1>1, <1>2, MasterNotServed
<1>5. next_rx_seq'["master"] = 5
  BY <1>1, <1>2, <1>4, MasterServed
<1>6. last \in T
  <2>0. 0 \in 0 .. 31 /\ CHANNEL_0 \in Channel
    BY DEF Channel, CHANNEL_NUM, CHANNEL_0
  <2>1. a \in SeqNum
    BY <1>5, TopFact, SeqNumFact
  <2>2. next_tx_seq["master"] \in SeqNum /\ next_tx_seq["master"] <= TopSeq
    BY ConnTypes, TXLow, Ends
  <2>3. last.type = TYPE_NORMAL
    BY DEF send_frame
  <2>4. last \in LowFrame
    <3> HIDE DEF a
    <3> QED BY <2>0, <2>1, <2>2, SendFrameLow
  <2> HIDE DEF last
  <2> QED BY <2>3, <2>4, LowFact DEF Without, TYPE_NORMAL, TYPE_CLOSE_CONNECTION
<1> HIDE DEF last, log
<1>7. Follows(p, q, {}) /\ Follows(t, r, {last})
  BY <1>1, Ends, AnswerFabric
<1>8. /\ next_tx_seq'["slave"] = next_tx_seq["slave"] /\ txlog'["slave"] = txlog["slave"]
      /\ user'["master"] = "idle" /\ user'["slave"] = user["slave"]
      /\ connection'["master"] /\ connection'["slave"] = connection["slave"]
  BY <1>0, <1>1, ConnTypes, Ends DEF ConnVarsOK
<1>9. (Spoken' <=> Spoken) /\ (Speaking' <=> Speaking)
  BY <1>2, <1>8 DEF Spoken, Speaking
<1>10. p \in Seq(Frame) /\ q \in Seq(Frame) /\ r \in Seq(Frame) /\ t \in Seq(Frame)
  BY FabricTypes
<1>11. q \in Seq(T) /\ r \in Seq(T) /\ q \in Seq(S)
  BY <1>2, <1>3, <1>4 DEF Turns, Served
<1>12. {last} \subseteq T /\ {} \subseteq T /\ {} \subseteq S
  BY <1>6
<1>13. p \in Seq(T) /\ t \in Seq(T) /\ p \in Seq(S)
  <2> HIDE DEF p, q, r, t, S, T, Frame
  <2>1. p \in Seq(T)
    BY <1>7, <1>10, <1>11, <1>12, FollowsOver
  <2>2. p \in Seq(S)
    BY <1>7, <1>10, <1>11, <1>12, FollowsOver
  <2> DEFINE one == {last}
  <2>3. one \subseteq T /\ Follows(t, r, one)
    BY <1>7, <1>12
  <2> HIDE DEF one
  <2>4. t \in Seq(T)
    BY <1>10, <1>11, <2>3, FollowsOver
  <2> QED BY <2>1, <2>2, <2>4
<1>14. Turns'
  BY <1>2, <1>3, <1>8, <1>9, <1>13 DEF Turns
<1>15. ThreadsWait'
  BY <1>2, <1>3, <1>8, Ends DEF ThreadsWait, ThreadParked
<1>16. KeptNormal' /\ SlaveStarts'
  BY <1>2, <1>3, <1>8 DEF KeptNormal, SlaveStarts
<1>17. Served'
  <2>1. rxlog'["master"] = <<>> /\ Len(<<>>) = 0 /\ Len(txlog["slave"]) \in Nat
    BY <1>0, <1>2, <1>4, Ends DEF Served
  <2>2. Len(rxlog'["master"]) = 0
    BY <2>1
  <2>3. /\ next_rx_seq'["master"] = Len(rxlog'["master"]) + 5
        /\ Len(rxlog'["master"]) <= Len(txlog'["slave"])
        /\ \A i \in 1 .. Len(rxlog'["master"]) : rxlog'["master"][i] = txlog'["slave"][i]
    BY <1>5, <1>8, <2>1, <2>2
  <2> QED BY <1>2, <1>4, <1>8, <1>13, <2>3 DEF Served
<1> QED BY <1>2, <1>3, <1>9, <1>14, <1>15, <1>16, <1>17 DEF SessionInv

\* What a frame read by the slave leaves alone.
LEMMA RecvSlave ==
    ASSUME ConnInv, SessionInv, fabric["slave"] # <<>>, recv_conn("slave", Head(fabric["slave"]))
    PROVE  /\ user["slave"] = "open" /\ ~connection["slave"]
           /\ UNCHANGED <<pc, retransmit_buffer, rxlog>>
           /\ conn_flag'["slave"] = (conn_flag["slave"] \/ Head(fabric["slave"]).type = TYPE_OPEN_CONNECTION)
           /\ credits'["master"] = credits["master"] /\ next_rx_seq'["master"] = next_rx_seq["master"]
           /\ tx_flow_credits'["slave"][CHANNEL_E] = 0
           /\ Takes("slave", Head(fabric["slave"])) <=> conn_flag'["slave"]
           /\ ~conn_flag'["slave"] => UNCHANGED <<credits, tx_flow_credits, next_rx_seq>>
<1> DEFINE f == Head(fabric["slave"])
           after == CreditsAfter("slave", f)
           flag == conn_flag["slave"] \/ f.type = TYPE_OPEN_CONNECTION
           owed == clear_flow_credit(tx_flow_credits["slave"], f.chan)
           n == tloe_seqnum_next(f.seq_num)
<1>1. /\ user["slave"] = "open"
      /\ conn_flag' = [conn_flag EXCEPT !["slave"] = flag]
      /\ credits' = [credits EXCEPT !["slave"] = after]
      /\ IF Takes("slave", f)
         THEN /\ tx_flow_credits' = [tx_flow_credits EXCEPT !["slave"] = owed]
              /\ next_rx_seq' = [next_rx_seq EXCEPT !["slave"] = n]
         ELSE UNCHANGED <<tx_flow_credits, next_rx_seq>>
      /\ UNCHANGED <<pc, retransmit_buffer, rxlog>>
  BY DEF recv_conn, UserIn
<1>2. conn_flag \in [Endpoint -> BOOLEAN] /\ ~connection["slave"]
  BY <1>1, ConnTypes, Ends DEF ConnVarsOK, Phases
<1>3. (Takes("slave", f) <=> flag) /\ flag \in BOOLEAN
  BY <1>2, Ends DEF Takes
<1>4. ~flag => after = credits["slave"]
  BY <1>3 DEF CreditsAfter
<1>5. owed[CHANNEL_E] = 0
  <2>1. owed = [tx_flow_credits["slave"] EXCEPT ![f.chan] = 0]
    BY DEF clear_flow_credit
  <2>2. tx_flow_credits["slave"][CHANNEL_E] = 0 /\ tx_flow_credits["slave"] \in [Channel -> Nat]
    BY SessionParts, HandshakeTypes, Ends
  <2>3. CHANNEL_E \in Channel
    BY DEF Channel, CHANNEL_NUM, CHANNEL_E
  <2> HIDE DEF f, owed
  <2> QED BY <2>1, <2>2, <2>3
<1> HIDE DEF f, after, flag, owed, n
<1>6. /\ conn_flag'["slave"] = flag /\ credits'["master"] = credits["master"]
      /\ next_rx_seq'["master"] = next_rx_seq["master"]
  BY <1>1, <1>2, HandshakeTypes, Ends
<1>7. tx_flow_credits'["slave"][CHANNEL_E] = 0
  <2>1. CASE Takes("slave", f)
    <3>1. tx_flow_credits'["slave"] = owed
      BY <1>1, <2>1, HandshakeTypes, Ends
    <3> QED BY <1>5, <3>1
  <2>2. CASE ~Takes("slave", f)
    BY <1>1, <2>2, SessionParts
  <2> QED BY <2>1, <2>2
<1>8. ASSUME ~flag PROVE UNCHANGED <<credits, tx_flow_credits, next_rx_seq>>
  <2>1. credits' = credits
    BY <1>1, <1>4, <1>8, HandshakeTypes, Ends
  <2> QED BY <1>1, <1>3, <1>8, <2>1
<1> QED BY <1>1, <1>2, <1>3, <1>6, <1>7, <1>8 DEF flag, f

\* The slave reads a frame, perhaps the OPEN frame, and waits for more.
LEMMA OpenWaitSlave ==
    ASSUME ConnInv, ConnInv', SessionInv, fabric["slave"] # <<>>,
           open_conn_wait("slave", Head(fabric["slave"]))
    PROVE  SessionInv'
<1> DEFINE f == Head(fabric["slave"])
           q == fabric["slave"]
           p == fabric'["slave"]
<1>1. /\ recv_conn("slave", Head(fabric["slave"]))
      /\ fabric' = [fabric EXCEPT !["slave"] = Tail(fabric["slave"])]
      /\ UNCHANGED <<next_tx_seq, txlog, user, connection>>
  BY DEF open_conn_wait
<1>2. /\ user["slave"] = "open" /\ ~connection["slave"]
      /\ UNCHANGED <<pc, retransmit_buffer, rxlog>>
      /\ conn_flag'["slave"] = (conn_flag["slave"] \/ f.type = TYPE_OPEN_CONNECTION)
      /\ credits'["master"] = credits["master"] /\ next_rx_seq'["master"] = next_rx_seq["master"]
      /\ tx_flow_credits'["slave"][CHANNEL_E] = 0
      /\ ~conn_flag'["slave"] => UNCHANGED <<credits, tx_flow_credits, next_rx_seq>>
  BY <1>1, RecvSlave
<1>3. /\ fabric'["master"] = fabric["master"] /\ p = Tail(q)
      /\ \A x \in Endpoint : Follows(fabric'[x], fabric[x], {})
      /\ f = q[1] /\ 1 \in 1 .. Len(q) /\ q # <<>> /\ f = Head(q)
  BY <1>1, Ends, ReadFabric
<1>4. /\ ThreadsWait /\ KeptNormal /\ SlaveStarts /\ Turns
      /\ ~Spoken => user["master"] = "close" \/ MasterFresh
      /\ Spoken => Served \/ NotServed
  BY SessionParts
<1>5. p \in Seq(Frame) /\ q \in Seq(Frame) /\ Follows(p, q, {})
  BY <1>3, FabricTypes, Ends
<1>6. ThreadsWait' /\ KeptNormal'
  BY <1>1, <1>2, <1>4 DEF ThreadsWait, ThreadParked, KeptNormal
<1>7. (MasterFresh => MasterFresh') /\ (NotServed => NotServed')
  BY <1>1, <1>2, <1>3 DEF MasterFresh, NotServed
<1>8. Served => Served'
  BY <1>1, <1>2, <1>3 DEF Served
<1> HIDE DEF f, p, q
<1>9. CASE conn_flag["slave"]
  <2>1. conn_flag'["slave"] = conn_flag["slave"]
    BY <1>2, <1>9, ConnTypes, Ends DEF ConnVarsOK
  <2>2. (Spoken' <=> Spoken) /\ (Speaking' <=> Speaking)
    BY <1>1, <2>1 DEF Spoken, Speaking
  <2>3. Turns'
    <3>1. {} \subseteq Plain /\ {} \subseteq (IF Speaking THEN Plain ELSE {})
      OBVIOUS
    <3>2. /\ Follows(fabric'["slave"], fabric["slave"], Plain)
          /\ Follows(fabric'["master"], fabric["master"], IF Speaking THEN Plain ELSE {})
      BY <1>3, <3>1, Ends, FollowsMore
    <3> QED BY <1>1, <1>4, <2>1, <2>2, <3>2, TurnsKept
  <2>4. SlaveStarts'
    BY <1>1, <1>2, <1>4, <1>9, <2>1 DEF SlaveStarts
  <2> QED BY <1>1, <1>2, <1>4, <1>6, <1>7, <1>8, <2>2, <2>3, <2>4 DEF SessionInv
<1>10. CASE ~conn_flag["slave"] /\ f.type # TYPE_OPEN_CONNECTION
  <2>1. ~conn_flag'["slave"] /\ conn_flag'["slave"] = conn_flag["slave"]
    BY <1>2, <1>10, ConnTypes, Ends DEF ConnVarsOK
  <2>2. UNCHANGED <<user, connection, conn_flag["slave"], next_tx_seq, next_rx_seq, txlog, rxlog,
                    credits, retransmit_buffer>>
    BY <1>1, <1>2, <2>1
  <2>3. Follows(fabric'["slave"], fabric["slave"], {}) /\ Follows(fabric'["master"], fabric["master"], {})
    BY <1>3, Ends
  <2>4. \A x \in Endpoint : pc'[x] = pc[x] \/ pc'[x] = "tx"
    BY <1>2
  <2> QED BY <1>2, <2>2, <2>3, <2>4, CalmSession
<1>11. CASE ~conn_flag["slave"] /\ f.type = TYPE_OPEN_CONNECTION
  <2>1. ~Speaking /\ ~Spoken
    BY <1>2, <1>11 DEF Speaking, Spoken
  <2>2. conn_flag'["slave"] /\ next_tx_seq["slave"] = 0 /\ retransmit_buffer["slave"] = <<>>
    BY <1>2, <1>4, <1>11 DEF SlaveStarts
  <2>3. Speaking' /\ ~Spoken'
    BY <1>1, <1>2, <2>2 DEF Speaking, Spoken
  <2>4. user["master"] = "open"
    <3> SUFFICES ASSUME user["master"] # "open" PROVE FALSE
      OBVIOUS
    <3>1. q \in Seq(Without(TYPE_OPEN_CONNECTION))
      BY <1>4, <2>1 DEF Turns, q
    <3> QED BY <1>3, <1>11, <3>1, HeadOther
  <2>5. MasterFresh /\ fabric["master"] = <<>>
    BY <1>4, <2>1, <2>4 DEF MasterFresh
  <2>6. NoneBehind(q, f.type, TYPE_CLOSE_CONNECTION)
    BY <1>4, <1>11, <2>4 DEF Turns, q
  <2>7. p \in Seq(Without(TYPE_CLOSE_CONNECTION))
    BY <1>3, <1>5, <2>6, BehindHead
  <2>8. fabric'["master"] \in Seq(Without(TYPE_CLOSE_CONNECTION))
    BY <1>3, <2>5
  <2>9. NoneBehind(p, TYPE_OPEN_CONNECTION, TYPE_CLOSE_CONNECTION)
    BY <2>7, WithoutBehind
  <2>10. Turns'
    BY <1>1, <1>2, <2>3, <2>4, <2>7, <2>8, <2>9 DEF Turns, p
  <2>11. SlaveStarts'
    BY <1>1, <1>2, <2>2 DEF SlaveStarts
  <2> QED BY <1>2, <1>6, <1>7, <2>3, <2>5, <2>10, <2>11 DEF SessionInv
<1> QED BY <1>9, <1>10, <1>11

\* Without the OPEN frame, some channel of the slave keeps the credit it starts with.
LEMMA SlaveSeesOpen ==
    ASSUME ConnInv, SessionInv, fabric["slave"] # <<>>, recv_conn("slave", Head(fabric["slave"])),
           check_all_channels(CreditsAfter("slave", Head(fabric["slave"])), CREDIT_INIT)
    PROVE  conn_flag["slave"]
<1> DEFINE f == Head(fabric["slave"])
           old == credits["slave"]
           new == CreditsAfter("slave", f)
           amount == 2^f.credit
           lo == 2^CREDIT_INIT
<1> SUFFICES ASSUME ~conn_flag["slave"] PROVE FALSE
  OBVIOUS
<1>1. user["slave"] = "open" /\ ~connection["slave"] /\ SlaveStarts
  BY RecvSlave, SessionParts
<1>2. old = init_flowcontrol(CREDIT_INIT)
  BY <1>1 DEF SlaveStarts
<1>3. old \in [Channel -> Nat] /\ {CHANNEL_A, CHANNEL_E} \subseteq Channel /\ CHANNEL_A # CHANNEL_E
  BY HandshakeTypes, Ends DEF Channel, CHANNEL_NUM, CHANNEL_A, CHANNEL_E
<1>4. old[CHANNEL_A] = lo /\ old[CHANNEL_E] = lo
  BY <1>2, <1>3 DEF init_flowcontrol, CHANNEL_0, CHANNEL_A, CHANNEL_E
<1>5. new = [old EXCEPT ![f.chan] = amount] \/ new = old
  BY DEF CreditsAfter, set_credit
<1>6. new[CHANNEL_A] > lo /\ new[CHANNEL_E] > lo
  BY DEF check_all_channels, CHANNEL_A, CHANNEL_E
<1>7. lo \in Nat
  BY InitLess
<1> HIDE DEF f, old, new, amount, lo
<1>8. new[CHANNEL_A] = lo \/ new[CHANNEL_E] = lo
  BY <1>3, <1>4, <1>5
<1> QED BY <1>6, <1>7, <1>8

\* The slave has the credit of all channels and opens the connection.
LEMMA OpenSlaveSession ==
    ASSUME ConnInv, ConnInv', SessionInv, fabric["slave"] # <<>>,
           open_conn_slave(Head(fabric["slave"]))
    PROVE  SessionInv'
<1> DEFINE q == fabric["slave"]
           p == fabric'["slave"]
           r == fabric["master"]
           t == fabric'["master"]
           T == Without(TYPE_CLOSE_CONNECTION)
           S == SlaveFrame(txlog["slave"])
           N == {g \in Frame : g.chan # CHANNEL_E}
           a == tloe_seqnum_prev(next_rx_seq'["slave"])
           last == send_frame(TYPE_ACKONLY, next_tx_seq["slave"], a, CHANNEL_0, 0)
           one == {last}
<1>0. fabric \in [Endpoint -> Seq(LowFrame)] /\ txlog \in [Endpoint -> Seq(LogEntry)]
      /\ next_tx_seq \in [Endpoint -> SeqNum]
  BY HandshakeTypes
<1>1. /\ recv_conn("slave", Head(fabric["slave"]))
      /\ check_all_channels(CreditsAfter("slave", Head(fabric["slave"])), CREDIT_INIT)
      /\ fabric' = [fabric EXCEPT !["slave"] = Tail(fabric["slave"]),
                                  !["master"] = Carry(fabric["master"], <<last>>)]
      /\ UNCHANGED <<next_tx_seq, txlog>>
      /\ user' = [user EXCEPT !["slave"] = "idle"]
      /\ connection' = [connection EXCEPT !["slave"] = TRUE]
  <2>1. fabric' = [fabric EXCEPT !["slave"] = Tail(fabric["slave"]),
                                 !["master"] = Carry(fabric["master"], <<last>>)]
    BY <1>0, Ends DEF open_conn_slave
  <2> QED BY <2>1 DEF open_conn_slave, Opened
<1>2. /\ user["slave"] = "open" /\ ~connection["slave"]
      /\ UNCHANGED <<pc, retransmit_buffer, rxlog>>
      /\ credits'["master"] = credits["master"] /\ next_rx_seq'["master"] = next_rx_seq["master"]
      /\ tx_flow_credits'["slave"][CHANNEL_E] = 0
  BY <1>1, RecvSlave
<1>3. conn_flag["slave"]
  BY <1>1, SlaveSeesOpen
<1>4. /\ ThreadsWait /\ KeptNormal /\ SlaveStarts /\ Turns
      /\ ~Spoken => user["master"] = "close" \/ MasterFresh
      /\ Spoken => Served \/ NotServed
  BY SessionParts
<1>5. /\ last.type = TYPE_ACKONLY /\ last.seq_num = next_tx_seq["slave"]
      /\ last.chan = CHANNEL_0 /\ last \in Frame
  <2>0. 0 \in 0 .. 31 /\ CHANNEL_0 \in Channel
    BY DEF Channel, CHANNEL_NUM, CHANNEL_0
  <2>1. a \in SeqNum
    <3>1. next_rx_seq'["slave"] \in SeqNum
      BY Ends DEF ConnInv, TypeInv, TypeOK, LinkTypeOK
    <3> QED BY <3>1, SeqNumFact
  <2>2. next_tx_seq["slave"] \in SeqNum /\ next_tx_seq["slave"] <= TopSeq
    BY ConnTypes, TXLow, Ends
  <2>3. last.type = TYPE_ACKONLY /\ last.seq_num = next_tx_seq["slave"] /\ last.chan = CHANNEL_0
    BY DEF send_frame
  <2>4. last \in LowFrame
    <3> HIDE DEF a
    <3> QED BY <2>0, <2>1, <2>2, SendFrameLow
  <2> HIDE DEF last
  <2> QED BY <2>3, <2>4, LowFact
<1> HIDE DEF last
<1>6. Follows(p, q, {}) /\ Follows(t, r, one)
  BY <1>1, Ends, AnswerFabric
<1>7. /\ user'["slave"] = "idle" /\ user'["master"] = user["master"]
      /\ connection'["slave"] /\ connection'["master"] = connection["master"]
  BY <1>1, ConnTypes, Ends DEF ConnVarsOK
<1>8. Speaking /\ Speaking' /\ Spoken'
  BY <1>2, <1>3, <1>7 DEF Spoken, Speaking
<1>9. p \in Seq(Frame) /\ q \in Seq(Frame) /\ r \in Seq(Frame) /\ t \in Seq(Frame)
  BY FabricTypes
<1>10. one \subseteq T /\ one \subseteq N
  BY <1>5 DEF Without, TYPE_ACKONLY, TYPE_CLOSE_CONNECTION, CHANNEL_0, CHANNEL_E
<1>11. r \in Seq(T)
  BY <1>4, <1>8 DEF Turns
<1>12. t \in Seq(T)
  <2> HIDE DEF p, q, r, t, T, Frame, one
  <2> QED BY <1>6, <1>9, <1>10, <1>11, FollowsOver
<1>13. /\ user["master"] = "open" => NoneBehind(p, TYPE_OPEN_CONNECTION, TYPE_CLOSE_CONNECTION)
       /\ user["master"] = "close" => NoneBehind(p, TYPE_CLOSE_CONNECTION, TYPE_OPEN_CONNECTION)
       /\ user["master"] # "close" => p \in Seq(T)
  <2>1. /\ \A f \in {} : f.type # TYPE_OPEN_CONNECTION
        /\ \A f \in {} : f.type # TYPE_CLOSE_CONNECTION
    OBVIOUS
  <2>2. NoneBehind(q, TYPE_OPEN_CONNECTION, TYPE_CLOSE_CONNECTION)
            => NoneBehind(p, TYPE_OPEN_CONNECTION, TYPE_CLOSE_CONNECTION)
    <3> HIDE DEF p, q, Frame
    <3> QED BY <1>6, <1>9, <2>1, FollowsBehind
  <2>3. NoneBehind(q, TYPE_CLOSE_CONNECTION, TYPE_OPEN_CONNECTION)
            => NoneBehind(p, TYPE_CLOSE_CONNECTION, TYPE_OPEN_CONNECTION)
    <3> HIDE DEF p, q, Frame
    <3> QED BY <1>6, <1>9, <2>1, FollowsBehind
  <2>4. q \in Seq(T) => p \in Seq(T)
    <3>1. {} \subseteq T
      OBVIOUS
    <3> HIDE DEF p, q, T, Frame
    <3> QED BY <1>6, <1>9, <3>1, FollowsOver
  <2> QED BY <1>4, <1>8, <2>2, <2>3, <2>4 DEF Turns
<1>14. Turns'
  BY <1>4, <1>7, <1>8, <1>12, <1>13 DEF Turns
<1>15. ThreadsWait'
  BY <1>2, <1>4, <1>7, Ends DEF ThreadsWait, ThreadParked
<1>16. KeptNormal' /\ SlaveStarts'
  BY <1>2, <1>4, <1>7 DEF KeptNormal, SlaveStarts
<1>17. CASE Spoken
  <2>1. Served /\ next_tx_seq["slave"] = 5
    BY <1>2, <1>3, <1>4, <1>17 DEF NotServed, SlaveStarts, Spoken
  <2>2. one \subseteq S
    BY <1>5, <2>1 DEF SlaveFrame
  <2>3. t \in Seq(S)
    <3>1. r \in Seq(S)
      BY <2>1 DEF Served
    <3> HIDE DEF r, t, S, Frame, one
    <3> QED BY <1>6, <1>9, <2>2, <3>1, FollowsOver
  <2>4. Served'
    BY <1>1, <1>2, <1>7, <2>1, <2>3 DEF Served
  <2> QED BY <1>2, <1>8, <1>14, <1>15, <1>16, <2>4 DEF SessionInv
<1>18. CASE ~Spoken
  <2>1. user["master"] = "open" /\ MasterFresh /\ retransmit_buffer["slave"] = <<>>
    BY <1>2, <1>4, <1>8, <1>18 DEF Turns, SlaveStarts
  <2>2. t \in Seq(N)
    <3>1. r \in Seq(N)
      BY <2>1 DEF MasterFresh
    <3> HIDE DEF r, t, N, Frame, one
    <3> QED BY <1>6, <1>9, <1>10, <3>1, FollowsOver
  <2>3. credits["master"][CHANNEL_E] = 2^CREDIT_INIT
    BY <2>1 DEF MasterFresh, init_flowcontrol, Channel, CHANNEL_NUM, CHANNEL_0, CHANNEL_E
  <2>4. NotServed'
    BY <1>1, <1>2, <1>7, <2>1, <2>2, <2>3 DEF NotServed
  <2> QED BY <1>2, <1>8, <1>14, <1>15, <1>16, <2>4 DEF SessionInv
<1> QED BY <1>17, <1>18
-------------------------------------------------------------------------------
\* The transmitter.

\* A frame of S is in S when it is sent again.
Again(S, e) == \A f \in S : [f EXCEPT !.seq_num_ack = tloe_seqnum_prev(next_rx_seq[e])] \in S

LEMMA AgainFact ==
    ASSUME ConnInv, NEW e \in Endpoint
    PROVE  /\ Again(Plain, e)
           /\ Again({f \in Frame : f.type = TYPE_NORMAL}, e)
           /\ Again({f \in Frame : f.chan # CHANNEL_E}, e)
           /\ \A log : Again(SlaveFrame(log), e)
<1> DEFINE a == tloe_seqnum_prev(next_rx_seq[e])
           R(f) == [f EXCEPT !.seq_num_ack = a]
<1>1. LinkTypeOK
  BY ConnTypes
<1>2. \A f \in Frame : R(f) \in Frame
  BY <1>1, RefreshType
<1>3. ASSUME NEW f \in Frame
      PROVE  /\ R(f).type = f.type /\ R(f).seq_num = f.seq_num /\ R(f).chan = f.chan
             /\ R(f).credit = f.credit /\ R(f).tlmsg = f.tlmsg
  <2> HIDE DEF a
  <2> QED BY DEF Frame
<1>4. \A f \in Frame : Payload(R(f)) = Payload(f)
  <2> HIDE DEF R
  <2> QED BY <1>3 DEF Payload
<1> HIDE DEF R
<1>5. (\A S : (\A f \in S : R(f) \in S) => Again(S, e))
  BY DEF Again, R
<1> HIDE DEF a, Frame
<1>6. \A f \in Plain : R(f) \in Plain
  BY <1>2, <1>3 DEF Plain
<1>7. \A f \in {g \in Frame : g.type = TYPE_NORMAL} : R(f) \in {g \in Frame : g.type = TYPE_NORMAL}
  BY <1>2, <1>3
<1>8. \A f \in {g \in Frame : g.chan # CHANNEL_E} : R(f) \in {g \in Frame : g.chan # CHANNEL_E}
  BY <1>2, <1>3
<1>9. ASSUME NEW log, NEW f \in SlaveFrame(log) PROVE R(f) \in SlaveFrame(log)
  <2>1. f \in Frame
    BY DEF SlaveFrame
  <2> QED BY <1>2, <1>3, <1>4, <2>1 DEF SlaveFrame
<1> QED BY <1>5, <1>6, <1>7, <1>8, <1>9

\* What TX puts into the fabric of the peer.
LEMMA SentFabric ==
    ASSUME ConnInv, NEW e \in Endpoint, NEW elapsed, NEW S, NEW frames \in Seq(S),
           AckonlyFrame(e) \in S, TXCommon(e, elapsed, frames)
    PROVE  /\ fabric'[e] = fabric[e] /\ Follows(fabric'[Peer(e)], fabric[Peer(e)], S)
           /\ Appended(fabric'[Peer(e)], fabric[Peer(e)], S)
<1> DEFINE x == Peer(e)
           q == fabric[x]
           acks == AckonlyFrames(e, elapsed)
           all == acks \o frames
           p == Carry(q, all)
<1>1. x \in Endpoint /\ x # e
  BY PeerFact
<1>2. q \in Seq(Frame) /\ Len(q) <= FABRIC_BUF
  BY <1>1, QueueTypes
<1>3. fabric' = [fabric EXCEPT ![x] = p] /\ fabric \in [Endpoint -> Seq(LowFrame)]
  BY HandshakeTypes DEF TXCommon
<1>4. acks \in Seq(S)
  <2> DEFINE one == <<AckonlyFrame(e)>>
  <2>1. one \in Seq(S) /\ <<>> \in Seq(S)
    OBVIOUS
  <2>2. acks = (IF should_send_ackonly_frame[e] THEN one ELSE <<>>)
                  \o (IF AckonlyAtHalf(e, elapsed) THEN one ELSE <<>>)
    BY DEF AckonlyFrames
  <2> HIDE DEF one, acks
  <2> QED BY <2>1, <2>2
<1> HIDE DEF Frame, LowFrame, x, q, acks
<1>5. all \in Seq(S)
  BY <1>4
<1> HIDE DEF all
<1>6. Follows(p, q, S) /\ Appended(p, q, S)
  BY <1>2, <1>5, FollowsCarry
<1> HIDE DEF p
<1>7. fabric'[x] = p /\ fabric'[e] = fabric[e]
  BY <1>1, <1>3
<1> QED BY <1>6, <1>7 DEF x, q

LEMMA HoldFabric ==
    ASSUME ConnInv, NEW e \in Endpoint, NEW elapsed, TX_Hold(e, elapsed),
           NEW S, AckonlyFrame(e) \in S, retransmit_buffer[e] \in Seq(S), Again(S, e)
    PROVE  /\ fabric'[e] = fabric[e] /\ Follows(fabric'[Peer(e)], fabric[Peer(e)], S)
           /\ Appended(fabric'[Peer(e)], fabric[Peer(e)], S)
<1> DEFINE frames == TimeoutFrames(e, retransmit_buffer[e], elapsed)
<1>1. TXCommon(e, elapsed, frames)
  BY DEF TX_Hold
<1>2. frames \in Seq(S)
  BY TimeoutType DEF Again
<1> HIDE DEF frames
<1> QED BY <1>1, <1>2, SentFabric

LEMMA SendFabric ==
    ASSUME ConnInv, NEW e \in Endpoint, NEW elapsed, NEW tlmsg, SendNormalFrame(e, elapsed, tlmsg),
           NEW S, AckonlyFrame(e) \in S, retransmit_buffer[e] \in Seq(S), Again(S, e),
           NormalFrame(e, tlmsg) \in S
    PROVE  /\ fabric'[e] = fabric[e] /\ Follows(fabric'[Peer(e)], fabric[Peer(e)], S)
           /\ Appended(fabric'[Peer(e)], fabric[Peer(e)], S)
<1> DEFINE f == NormalFrame(e, tlmsg)
           buffer == Append(retransmit_buffer[e], f)
           frames == <<f>> \o TimeoutFrames(e, buffer, elapsed)
<1>1. TXCommon(e, elapsed, frames)
  BY DEF SendNormalFrame
<1>2. f \in S
  OBVIOUS
<1> HIDE DEF f
<1>3. buffer \in Seq(S)
  BY <1>2
<1> HIDE DEF buffer
<1>4. TimeoutFrames(e, buffer, elapsed) \in Seq(S)
  BY <1>3, TimeoutType DEF Again
<1>5. frames \in Seq(S)
  BY <1>2, <1>4
<1> HIDE DEF frames
<1> QED BY <1>1, <1>5, SentFabric

\* A pass through TX holds or sends one new frame; nothing of the peer changes but
\* its fabric.
LEMMA TXShape ==
    ASSUME ConnInv, NEW e \in Endpoint, TX(e)
    PROVE  /\ pc' = [pc EXCEPT ![e] = "rx"] /\ UNCHANGED <<next_rx_seq, rxlog>>
           /\ credits'[Peer(e)] = credits[Peer(e)]
           /\ \E elapsed :
                \/ /\ TX_Hold(e, elapsed)
                   /\ UNCHANGED <<retransmit_buffer, next_tx_seq, txlog, tx_flow_credits>>
                \/ \E tlmsg \in TLMsg \cup {NULL} : SendNormalFrame(e, elapsed, tlmsg)
<1> DEFINE x == Peer(e)
           less == fc_credit_dec(credits[e], Selected(e))
<1>0. x \in Endpoint /\ x # e /\ credits \in [Endpoint -> [Channel -> Nat]]
  BY PeerFact, HandshakeTypes
<1>1. PICK elapsed \in Elapsed(e) : TX_Hold(e, elapsed) \/ TX_Message(e, elapsed) \/ TX_Zero(e, elapsed)
  BY DEF TX
<1>2. Selected(e) \in TLMsg \cup {NULL} /\ NULL \in TLMsg \cup {NULL}
  BY ConnTypes, SelectedType
<1>3. \/ /\ TX_Hold(e, elapsed)
         /\ UNCHANGED <<retransmit_buffer, next_tx_seq, txlog, tx_flow_credits>>
      \/ \E tlmsg \in TLMsg \cup {NULL} : SendNormalFrame(e, elapsed, tlmsg)
  <2>1. CASE TX_Hold(e, elapsed)
    BY <2>1 DEF TX_Hold, fcVars
  <2>2. CASE TX_Message(e, elapsed)
    BY <1>2, <2>2 DEF TX_Message
  <2>3. CASE TX_Zero(e, elapsed)
    BY <1>2, <2>3 DEF TX_Zero
  <2> QED BY <1>1, <2>1, <2>2, <2>3
<1>4. \E frames : TXCommon(e, elapsed, frames)
  BY <1>1 DEF TX_Hold, TX_Message, TX_Zero, SendNormalFrame
<1>5. pc' = [pc EXCEPT ![e] = "rx"] /\ UNCHANGED <<next_rx_seq, rxlog>>
  BY <1>4 DEF TXCommon, Goto
<1>6. UNCHANGED credits \/ credits' = [credits EXCEPT ![e] = less]
  BY <1>1 DEF TX_Hold, TX_Message, TX_Zero, fcVars
<1> HIDE DEF x, less
<1>7. credits'[x] = credits[x]
  BY <1>0, <1>6
<1> QED BY <1>3, <1>5, <1>7 DEF x

\* What a frame that is sent does to the sender's state.
LEMMA SendShape ==
    ASSUME ConnInv, NEW e \in Endpoint, NEW elapsed, NEW tlmsg \in TLMsg \cup {NULL},
           SendNormalFrame(e, elapsed, tlmsg)
    PROVE  /\ NormalFrame(e, tlmsg) \in Frame /\ NormalFrame(e, tlmsg).type = TYPE_NORMAL
           /\ NormalFrame(e, tlmsg).seq_num = next_tx_seq[e]
           /\ retransmit_buffer'[e] = Append(retransmit_buffer[e], NormalFrame(e, tlmsg))
           /\ retransmit_buffer'[Peer(e)] = retransmit_buffer[Peer(e)]
           /\ next_tx_seq'[e] = next_tx_seq[e] + 1 /\ next_tx_seq'[Peer(e)] = next_tx_seq[Peer(e)]
           /\ txlog'[e] = Append(txlog[e], Payload(NormalFrame(e, tlmsg)))
           /\ txlog'[Peer(e)] = txlog[Peer(e)]
           /\ tx_flow_credits'[Peer(e)] = tx_flow_credits[Peer(e)]
           /\ \A c \in Channel : tx_flow_credits[e][c] = 0 =>
                 tx_flow_credits'[e][c] = 0 /\ (c # CHANNEL_0 => NormalFrame(e, tlmsg).chan # c)
<1> DEFINE x == Peer(e)
           f == NormalFrame(e, tlmsg)
           n == tloe_seqnum_next(next_tx_seq[e])
           buffer == Append(retransmit_buffer[e], f)
           log == Append(txlog[e], Payload(f))
           owed == get_outgoing_credits(tx_flow_credits[e], f.chan)
<1>0. /\ x \in Endpoint /\ x # e /\ LinkTypeOK /\ TypeInv /\ AcceptedBound
      /\ next_tx_seq \in [Endpoint -> SeqNum] /\ txlog \in [Endpoint -> Seq(LogEntry)]
      /\ retransmit_buffer \in [Endpoint -> Seq(Frame)]
      /\ tx_flow_credits \in [Endpoint -> [Channel -> Nat]]
  BY PeerFact, HandshakeTypes, ConnTypes DEF LinkTypeOK
<1>1. f \in Frame
  BY <1>0, NormalType
<1>2. f.type = TYPE_NORMAL /\ f.seq_num = next_tx_seq[e]
      /\ f.chan = select_max_credit_channel(tx_flow_credits[e])
  BY DEF NormalFrame
<1>3. f.chan # CHANNEL_0 =>
        owed \in [Channel -> Nat] /\ \A c \in Channel : owed[c] <= tx_flow_credits[e][c]
  BY <1>0, NormalType
<1>4. /\ retransmit_buffer' = [retransmit_buffer EXCEPT ![e] = buffer]
      /\ next_tx_seq' = [next_tx_seq EXCEPT ![e] = n]
      /\ txlog' = [txlog EXCEPT ![e] = log]
      /\ tx_flow_credits' = IF f.chan = CHANNEL_0 THEN tx_flow_credits
                            ELSE [tx_flow_credits EXCEPT ![e] = owed]
  BY DEF SendNormalFrame
<1>5. n = next_tx_seq[e] + 1
  BY <1>0, ConnTypes, TXLow, NextLow
<1>6. ASSUME NEW c \in Channel, tx_flow_credits[e][c] = 0, c # CHANNEL_0 PROVE f.chan # c
  <2> DEFINE u == tx_flow_credits[e]
  <2>1. u \in [Channel -> Nat] /\ u[c] = 0 /\ f.chan = select_max_credit_channel(u)
    BY <1>0, <1>2, <1>6
  <2> HIDE DEF u, f
  <2>2. select_max_credit_channel(u) # CHANNEL_0 => u[select_max_credit_channel(u)] > 0
    BY <2>1, SelectFact
  <2> QED BY <1>6, <2>1, <2>2
<1> HIDE DEF f, x, buffer, log, owed, n
<1>7. ASSUME NEW c \in Channel, tx_flow_credits[e][c] = 0 PROVE tx_flow_credits'[e][c] = 0
  <2>1. CASE f.chan = CHANNEL_0
    BY <1>4, <1>7, <2>1
  <2>2. CASE f.chan # CHANNEL_0
    <3>1. tx_flow_credits'[e] = owed
      BY <1>0, <1>4, <2>2
    <3>2. owed[c] \in Nat /\ owed[c] <= 0
      BY <1>3, <1>7, <2>2
    <3> QED BY <3>1, <3>2
  <2> QED BY <2>1, <2>2
<1>8. /\ retransmit_buffer'[e] = buffer /\ retransmit_buffer'[x] = retransmit_buffer[x]
      /\ next_tx_seq'[e] = n /\ next_tx_seq'[x] = next_tx_seq[x]
      /\ txlog'[e] = log /\ txlog'[x] = txlog[x]
  BY <1>0, <1>4
<1>9. tx_flow_credits'[x] = tx_flow_credits[x]
  BY <1>0, <1>4
<1> QED BY <1>1, <1>2, <1>5, <1>6, <1>7, <1>8, <1>9 DEF f, x, buffer, log

\* Only the thread of an endpoint that has a connection, or is closing it, runs.
LEMMA RunningFact ==
    ASSUME ConnInv, SessionInv, NEW e \in Endpoint, pc[e] # "tx" \/ connection[e]
    PROVE  connection[e] \/ user[e] = "close"
BY SessionParts DEF ThreadsWait, ThreadParked

\* Threads in the middle of an iteration.
LEMMA WaitKept ==
    ASSUME ConnInv, SessionInv, NEW e \in Endpoint, connection[e] \/ user[e] = "close",
           UNCHANGED <<user, connection>>, NEW point, pc' = [pc EXCEPT ![e] = point]
    PROVE  ThreadsWait'
<1>1. ThreadsWait /\ pc \in [Endpoint -> {"tx", "rx", "tl"}]
  BY SessionParts, ConnTypes DEF LoopTypeOK
<1> SUFFICES ASSUME NEW x \in Endpoint, ~connection[x], user[x] # "close"
             PROVE  pc'[x] = "tx"
  BY DEF ThreadsWait, ThreadParked
<1>2. x # e /\ pc[x] = "tx"
  BY <1>1 DEF ThreadsWait, ThreadParked
<1> QED BY <1>1, <1>2

\* The numbers of the ACKONLY frame.
LEMMA AckonlyFact ==
    ASSUME ConnInv, NEW e \in Endpoint
    PROVE  /\ AckonlyFrame(e) \in Frame /\ AckonlyFrame(e) \in Plain
           /\ AckonlyFrame(e).type = TYPE_ACKONLY /\ AckonlyFrame(e).seq_num = next_tx_seq[e]
           /\ AckonlyFrame(e).chan = CHANNEL_0
<1> DEFINE f == AckonlyFrame(e)
<1>1. next_tx_seq[e] \in SeqNum /\ tloe_seqnum_prev(next_rx_seq[e]) \in SeqNum
  BY HandshakeTypes, SeqNumFact
<1>2. f \in Frame
  BY <1>1 DEF AckonlyFrame, Frame, Channel, CHANNEL_NUM, CHANNEL_0
<1>3. f.type = TYPE_ACKONLY /\ f.seq_num = next_tx_seq[e] /\ f.chan = CHANNEL_0
  BY DEF AckonlyFrame
<1> HIDE DEF f
<1>4. f \in Plain
  BY <1>2, <1>3 DEF Plain
<1> QED BY <1>2, <1>3, <1>4 DEF f

\* Whatever TX does, it sends frames that neither open nor close, keeps such frames
\* only, and returns no credit for channel E.
LEMMA TXParts ==
    ASSUME ConnInv, SessionInv, NEW e \in Endpoint, TX(e)
    PROVE  /\ fabric'[e] = fabric[e] /\ Follows(fabric'[Peer(e)], fabric[Peer(e)], Plain)
           /\ KeptNormal' /\ tx_flow_credits'["slave"][CHANNEL_E] = 0
           /\ retransmit_buffer'[Peer(e)] = retransmit_buffer[Peer(e)]
           /\ next_tx_seq'[Peer(e)] = next_tx_seq[Peer(e)] /\ txlog'[Peer(e)] = txlog[Peer(e)]
<1> DEFINE T == {f \in Frame : f.type = TYPE_NORMAL}
           b == retransmit_buffer[e]
<1>1. PICK elapsed :
        \/ /\ TX_Hold(e, elapsed)
           /\ UNCHANGED <<retransmit_buffer, next_tx_seq, txlog, tx_flow_credits>>
        \/ \E tlmsg \in TLMsg \cup {NULL} : SendNormalFrame(e, elapsed, tlmsg)
  BY TXShape
<1>2. T \subseteq Plain
  BY DEF Plain
<1>3. \A x \in Endpoint : retransmit_buffer[x] \in Seq(T)
  BY SessionParts DEF KeptNormal
<1>4. retransmit_buffer[e] \in Seq(Plain)
  <2>1. b \in Seq(T)
    BY <1>3
  <2> HIDE DEF b, T, Plain
  <2>2. b \in Seq(Plain)
    BY <1>2, <2>1, SeqWider
  <2> QED BY <2>2 DEF b
<1>5. AckonlyFrame(e) \in Plain /\ Again(Plain, e)
  BY AckonlyFact, AgainFact
<1>6. tx_flow_credits["slave"][CHANNEL_E] = 0 /\ CHANNEL_E \in Channel
  BY SessionParts DEF Channel, CHANNEL_NUM, CHANNEL_E
<1>7. Peer(e) \in Endpoint /\ Peer(e) # e /\ \A x \in Endpoint : x = e \/ x = Peer(e)
  BY PeerFact, Ends
<1>8. CASE /\ TX_Hold(e, elapsed)
           /\ UNCHANGED <<retransmit_buffer, next_tx_seq, txlog, tx_flow_credits>>
  <2>1. fabric'[e] = fabric[e] /\ Follows(fabric'[Peer(e)], fabric[Peer(e)], Plain)
    <3> HIDE DEF Plain
    <3> QED BY <1>4, <1>5, <1>8, HoldFabric
  <2>2. KeptNormal'
    BY <1>3, <1>8 DEF KeptNormal
  <2> QED BY <1>6, <1>8, <2>1, <2>2
<1>9. ASSUME NEW tlmsg \in TLMsg \cup {NULL}, SendNormalFrame(e, elapsed, tlmsg)
      PROVE  /\ fabric'[e] = fabric[e] /\ Follows(fabric'[Peer(e)], fabric[Peer(e)], Plain)
             /\ KeptNormal' /\ tx_flow_credits'["slave"][CHANNEL_E] = 0
             /\ retransmit_buffer'[Peer(e)] = retransmit_buffer[Peer(e)]
             /\ next_tx_seq'[Peer(e)] = next_tx_seq[Peer(e)] /\ txlog'[Peer(e)] = txlog[Peer(e)]
  <2> DEFINE f == NormalFrame(e, tlmsg)
  <2>1. /\ f \in Frame /\ f.type = TYPE_NORMAL
        /\ retransmit_buffer'[e] = Append(retransmit_buffer[e], f)
        /\ retransmit_buffer'[Peer(e)] = retransmit_buffer[Peer(e)]
        /\ next_tx_seq'[Peer(e)] = next_tx_seq[Peer(e)] /\ txlog'[Peer(e)] = txlog[Peer(e)]
        /\ tx_flow_credits'[Peer(e)] = tx_flow_credits[Peer(e)]
        /\ \A c \in Channel : tx_flow_credits[e][c] = 0 => tx_flow_credits'[e][c] = 0
    BY <1>9, SendShape
  <2>2. f \in T
    <3> HIDE DEF f
    <3> QED BY <2>1
  <2>3. fabric'[e] = fabric[e] /\ Follows(fabric'[Peer(e)], fabric[Peer(e)], Plain)
    <3>1. f \in Plain
      BY <1>2, <2>2
    <3> HIDE DEF Plain
    <3> QED BY <1>4, <1>5, <1>9, <3>1, SendFabric
  <2> HIDE DEF f
  <2>4. KeptNormal'
    <3> SUFFICES ASSUME NEW x \in Endpoint PROVE retransmit_buffer'[x] \in Seq(T)
      BY DEF KeptNormal
    <3> HIDE DEF T
    <3>1. CASE x = e
      <4>1. b \in Seq(T) /\ retransmit_buffer'[x] = Append(b, f)
        BY <1>3, <2>1, <3>1
      <4> HIDE DEF b
      <4>2. Append(b, f) \in Seq(T)
        BY <2>2, <4>1
      <4> QED BY <4>1, <4>2
    <3>2. CASE x # e
      BY <1>3, <1>7, <2>1, <3>2
    <3> QED BY <3>1, <3>2
  <2>5. tx_flow_credits'["slave"][CHANNEL_E] = 0
    <3>1. CASE e = "slave"
      BY <1>6, <2>1, <3>1
    <3>2. CASE e # "slave"
      <4>1. Peer(e) = "slave"
        BY <1>7, <3>2, Ends
      <4> QED BY <1>6, <2>1, <4>1
    <3> QED BY <3>1, <3>2
  <2> QED BY <2>1, <2>3, <2>4, <2>5
<1> QED BY <1>1, <1>8, <1>9

\* The master has a connection: it has been served.
LEMMA MasterConnected ==
    ASSUME ConnInv, SessionInv, connection["master"]
    PROVE  /\ Speaking /\ Spoken /\ Served /\ ~NotServed
           /\ user["master"] \in {"idle", "quit"}
<1>1. user["master"] \in {"idle", "quit"}
  BY ConnTypes, Ends DEF Phases
<1>2. Speaking /\ Spoken
  BY <1>1, SessionParts DEF Turns
<1> QED BY <1>1, <1>2, SessionParts DEF NotServed

\* The slave has a connection, or is closing it.
LEMMA SlaveConnected ==
    ASSUME ConnInv, SessionInv, connection["slave"] \/ user["slave"] = "close"
    PROVE  Speaking /\ Spoken /\ (Served \/ NotServed) /\ user["slave"] # "open"
<1>1. user["slave"] # "open"
  BY ConnTypes, Ends DEF Phases
<1>2. Speaking /\ Spoken
  BY <1>1 DEF Speaking, Spoken
<1> QED BY <1>1, <1>2, SessionParts

LEMMA TXMaster ==
    ASSUME ConnInv, ConnInv', SessionInv, connection["master"], TX("master"),
           UNCHANGED <<user, connection, conn_flag>>
    PROVE  SessionInv'
<1>1. /\ pc' = [pc EXCEPT !["master"] = "rx"] /\ UNCHANGED <<next_rx_seq, rxlog>>
      /\ credits'["slave"] = credits["slave"]
  BY TXShape, Ends
<1>2. /\ fabric'["master"] = fabric["master"]
      /\ Follows(fabric'["slave"], fabric["slave"], Plain)
      /\ KeptNormal' /\ tx_flow_credits'["slave"][CHANNEL_E] = 0
      /\ retransmit_buffer'["slave"] = retransmit_buffer["slave"]
      /\ next_tx_seq'["slave"] = next_tx_seq["slave"] /\ txlog'["slave"] = txlog["slave"]
  BY TXParts, Ends
<1>3. Speaking /\ Spoken /\ Served /\ user["master"] \in {"idle", "quit"}
  BY MasterConnected
<1>4. ThreadsWait'
  BY <1>1, WaitKept, Ends
<1>5. Spoken'
  BY <1>2, <1>3 DEF Spoken, Speaking
<1>6. Turns'
  <2>1. Follows(fabric'["master"], fabric["master"], IF Speaking THEN Plain ELSE {})
    BY <1>2, SameFabric, Ends
  <2> QED BY <1>2, <1>3, <1>5, <2>1, SessionParts, TurnsKept
<1>7. SlaveStarts'
  BY <1>1, <1>2, SessionParts DEF SlaveStarts
<1>8. Served'
  BY <1>1, <1>2, <1>3 DEF Served
<1> QED BY <1>2, <1>4, <1>5, <1>6, <1>7, <1>8 DEF SessionInv

\* One more frame in the log.
LEMMA SlaveFrameMore ==
    ASSUME NEW log \in Seq(LogEntry), NEW entry \in LogEntry
    PROVE  /\ SlaveFrame(log) \subseteq SlaveFrame(Append(log, entry))
           /\ Len(Append(log, entry)) = Len(log) + 1
           /\ \A f \in Frame : /\ f.type = TYPE_NORMAL /\ f.seq_num = Len(log) + 5
                               /\ Payload(f) = entry
                               => f \in SlaveFrame(Append(log, entry))
<1> DEFINE more == Append(log, entry)
           n == Len(log)
<1>1. /\ n \in Nat /\ Len(more) = n + 1 /\ more[n + 1] = entry
      /\ \A i \in 1 .. n : more[i] = log[i]
  OBVIOUS
<1>2. \A f \in Frame : f.seq_num \in Int
  BY DEF Frame, SeqNum
<1>3. \A i \in 1 .. n : i \in 1 .. n + 1
  BY <1>1
<1> HIDE DEF more, Frame
<1>4. ASSUME NEW f \in SlaveFrame(log) PROVE f \in SlaveFrame(more)
  <2>1. f \in Frame
    BY DEF SlaveFrame
  <2>2. f.type # TYPE_ACKONLY /\ f.seq_num >= 5 =>
            f.seq_num - 4 \in 1 .. n /\ Payload(f) = log[f.seq_num - 4]
    BY DEF SlaveFrame
  <2> DEFINE i == f.seq_num - 4
             data == Payload(f)
  <2>3. f.type # TYPE_ACKONLY /\ f.seq_num >= 5 => i \in 1 .. Len(more) /\ data = more[i]
    <3> SUFFICES ASSUME i \in 1 .. n, data = log[i]
                 PROVE  i \in 1 .. Len(more) /\ data = more[i]
      BY <2>2
    <3> HIDE DEF i, data, n
    <3> QED BY <1>1, <1>3
  <2> QED BY <2>1, <2>3 DEF SlaveFrame
<1>5. ASSUME NEW f \in Frame, f.type = TYPE_NORMAL, f.seq_num = n + 5, Payload(f) = entry
      PROVE  f \in SlaveFrame(more)
  <2>1. f.seq_num - 4 = n + 1 /\ f.seq_num >= 5 /\ ~(f.seq_num < 5) /\ n + 1 \in 1 .. n + 1
    BY <1>1, <1>5
  <2>2. f.seq_num - 4 \in 1 .. Len(more) /\ Payload(f) = more[f.seq_num - 4]
    BY <1>1, <1>5, <2>1
  <2>3. f.type # TYPE_ACKONLY
    BY <1>5 DEF TYPE_NORMAL, TYPE_ACKONLY
  <2> QED BY <2>1, <2>2, <2>3 DEF SlaveFrame
<1> QED BY <1>1, <1>4, <1>5 DEF more

\* What the slave sends and keeps, when it has sent the handshake.
LEMMA TXServed ==
    ASSUME ConnInv, ConnInv', SessionInv, Served, TX("slave")
    PROVE  /\ next_tx_seq'["slave"] = Len(txlog'["slave"]) + 5
           /\ fabric'["master"] \in Seq(SlaveFrame(txlog'["slave"]))
           /\ retransmit_buffer'["slave"] \in
                 Seq({f \in SlaveFrame(txlog'["slave"]) : f.type # TYPE_ACKONLY /\ f.seq_num >= 5})
           /\ Len(txlog["slave"]) <= Len(txlog'["slave"])
           /\ \A i \in 1 .. Len(txlog["slave"]) : txlog'["slave"][i] = txlog["slave"][i]
<1> DEFINE e == "slave"
           Kept(log) == {f \in SlaveFrame(log) : f.type # TYPE_ACKONLY /\ f.seq_num >= 5}
           log == txlog[e]
           b == retransmit_buffer[e]
           r == fabric["master"]
           t == fabric'["master"]
           S == SlaveFrame(log)
           a == AckonlyFrame(e)
<1>1. PICK elapsed :
        \/ /\ TX_Hold(e, elapsed)
           /\ UNCHANGED <<retransmit_buffer, next_tx_seq, txlog, tx_flow_credits>>
        \/ \E tlmsg \in TLMsg \cup {NULL} : SendNormalFrame(e, elapsed, tlmsg)
  BY TXShape, Ends
<1>2. /\ next_tx_seq[e] = Len(log) + 5 /\ r \in Seq(S) /\ b \in Seq(Kept(log))
      /\ log \in Seq(LogEntry) /\ r \in Seq(Frame) /\ t \in Seq(Frame)
  BY HandshakeTypes, FabricTypes, Ends DEF Served
<1>3. Len(log) \in Nat /\ next_tx_seq[e] >= 5
  BY <1>2
<1>4. Kept(log) \subseteq S
  OBVIOUS
<1>5. a \in S
  <2>1. a \in Frame /\ a.type = TYPE_ACKONLY /\ a.seq_num = next_tx_seq[e]
    BY AckonlyFact, Ends
  <2> HIDE DEF a
  <2> QED BY <1>3, <2>1 DEF SlaveFrame
<1>6. b \in Seq(S)
  <2> DEFINE K == Kept(log)
  <2>1. b \in Seq(K) /\ K \subseteq S
    BY <1>2, <1>4
  <2> HIDE DEF b, S, K
  <2> QED BY <2>1, SeqWider
<1>7. CASE /\ TX_Hold(e, elapsed)
           /\ UNCHANGED <<retransmit_buffer, next_tx_seq, txlog, tx_flow_credits>>
  <2>1. Again(S, e)
    BY AgainFact, Ends
  <2>2. Follows(fabric'["master"], fabric["master"], S)
    <3> HIDE DEF S
    <3> QED BY <1>5, <1>6, <1>7, <2>1, HoldFabric, Ends
  <2>3. t \in Seq(S)
    <3>1. S \subseteq S /\ Follows(t, r, S)
      BY <2>2
    <3> HIDE DEF t, r, S, Frame
    <3> QED BY <1>2, <3>1, FollowsOver
  <2>4. Len(log) <= Len(log)
    BY <1>3
  <2> QED BY <1>2, <1>7, <2>3, <2>4
<1>8. ASSUME NEW tlmsg \in TLMsg \cup {NULL}, SendNormalFrame(e, elapsed, tlmsg)
      PROVE  /\ next_tx_seq'[e] = Len(txlog'[e]) + 5
             /\ t \in Seq(SlaveFrame(txlog'[e]))
             /\ retransmit_buffer'[e] \in Seq(Kept(txlog'[e]))
             /\ Len(log) <= Len(txlog'[e])
             /\ \A i \in 1 .. Len(log) : txlog'[e][i] = log[i]
  <2> DEFINE f == NormalFrame(e, tlmsg)
             entry == Payload(f)
             more == Append(log, entry)
             M == SlaveFrame(more)
             K == Kept(log)
             L == Kept(more)
  <2>1. /\ f \in Frame /\ f.type = TYPE_NORMAL /\ f.seq_num = next_tx_seq[e]
        /\ retransmit_buffer'[e] = Append(b, f)
        /\ next_tx_seq'[e] = next_tx_seq[e] + 1 /\ txlog'[e] = more
    BY <1>8, SendShape, Ends
  <2>2. entry \in LogEntry
    <3> HIDE DEF f
    <3> QED BY <2>1, FrameFact
  <2>3. S \subseteq M /\ Len(more) = Len(log) + 1
    <3> HIDE DEF entry
    <3> QED BY <1>2, <2>2, SlaveFrameMore
  <2>4. f \in M
    <3> HIDE DEF f, log
    <3> QED BY <1>2, <2>1, <2>2, SlaveFrameMore
  <2>5. f \in L /\ K \subseteq L
    <3>1. f.type # TYPE_ACKONLY /\ f.seq_num >= 5
      <4> HIDE DEF f
      <4> QED BY <1>3, <2>1 DEF TYPE_NORMAL, TYPE_ACKONLY
    <3> HIDE DEF f
    <3> QED BY <2>3, <2>4, <3>1
  <2>6. Append(b, f) \in Seq(L)
    <3>1. b \in Seq(K)
      BY <1>2
    <3> HIDE DEF b, f, K, L
    <3>2. b \in Seq(L)
      BY <2>5, <3>1, SeqWider
    <3> QED BY <2>5, <3>2
  <2>7. a \in M /\ b \in Seq(M)
    <3>1. a \in M
      BY <1>5, <2>3
    <3> HIDE DEF b, S, M
    <3>2. b \in Seq(M)
      BY <1>6, <2>3, SeqWider
    <3> QED BY <3>1, <3>2
  <2>8. Again(M, e)
    <3> HIDE DEF more
    <3> QED BY AgainFact, Ends
  <2>9. Follows(fabric'["master"], fabric["master"], M)
    <3> HIDE DEF M
    <3> QED BY <1>8, <2>4, <2>7, <2>8, SendFabric, Ends
  <2>10. t \in Seq(M)
    <3>1. M \subseteq M /\ Follows(t, r, M)
      BY <2>9
    <3> HIDE DEF t, r, S, M, Frame
    <3>2. r \in Seq(M)
      BY <1>2, <2>3, SeqWider
    <3> QED BY <1>2, <3>1, <3>2, FollowsOver
  <2>11. \A i \in 1 .. Len(log) : more[i] = log[i]
    <3> HIDE DEF log, entry
    <3> QED BY <1>2, <2>2
  <2>12. next_tx_seq'[e] = Len(more) + 5 /\ Len(log) <= Len(more)
    BY <1>2, <1>3, <2>1, <2>3
  <2> HIDE DEF more
  <2> QED BY <2>1, <2>6, <2>10, <2>11, <2>12
<1> QED BY <1>1, <1>7, <1>8

\* What the slave sends and keeps, when it has not.
LEMMA TXNotServed ==
    ASSUME ConnInv, ConnInv', SessionInv, NotServed, TX("slave")
    PROVE  /\ fabric'["master"] \in Seq({f \in Frame : f.chan # CHANNEL_E})
           /\ retransmit_buffer'["slave"] \in Seq({f \in Frame : f.chan # CHANNEL_E})
<1> DEFINE e == "slave"
           N == {f \in Frame : f.chan # CHANNEL_E}
           b == retransmit_buffer[e]
           r == fabric["master"]
           t == fabric'["master"]
           a == AckonlyFrame(e)
<1>1. PICK elapsed :
        \/ /\ TX_Hold(e, elapsed)
           /\ UNCHANGED <<retransmit_buffer, next_tx_seq, txlog, tx_flow_credits>>
        \/ \E tlmsg \in TLMsg \cup {NULL} : SendNormalFrame(e, elapsed, tlmsg)
  BY TXShape, Ends
<1>2. r \in Seq(N) /\ b \in Seq(N) /\ r \in Seq(Frame) /\ t \in Seq(Frame)
  BY FabricTypes DEF NotServed
<1>3. a \in N
  <2>1. a \in Frame /\ a.chan = CHANNEL_0
    BY AckonlyFact, Ends
  <2> HIDE DEF a, Frame
  <2> QED BY <2>1 DEF CHANNEL_0, CHANNEL_E
<1>4. Again(N, e)
  BY AgainFact, Ends
<1>5. Follows(t, r, N) => t \in Seq(N)
  <2>1. N \subseteq N
    OBVIOUS
  <2> HIDE DEF t, r, N, Frame
  <2> QED BY <1>2, <2>1, FollowsOver
<1>6. CASE /\ TX_Hold(e, elapsed)
           /\ UNCHANGED <<retransmit_buffer, next_tx_seq, txlog, tx_flow_credits>>
  <2>1. Follows(t, r, N)
    <3> HIDE DEF N
    <3> QED BY <1>2, <1>3, <1>4, <1>6, HoldFabric, Ends
  <2> QED BY <1>2, <1>5, <1>6, <2>1
<1>7. ASSUME NEW tlmsg \in TLMsg \cup {NULL}, SendNormalFrame(e, elapsed, tlmsg)
      PROVE  t \in Seq(N) /\ retransmit_buffer'[e] \in Seq(N)
  <2> DEFINE f == NormalFrame(e, tlmsg)
  <2>1. f \in Frame /\ retransmit_buffer'[e] = Append(b, f)
        /\ \A c \in Channel : tx_flow_credits[e][c] = 0 => (c # CHANNEL_0 => f.chan # c)
    BY <1>7, SendShape, Ends
  <2>2. tx_flow_credits[e][CHANNEL_E] = 0 /\ CHANNEL_E \in Channel /\ CHANNEL_E # CHANNEL_0
    BY SessionParts DEF CHANNEL_E, CHANNEL_0, Channel, CHANNEL_NUM
  <2>3. f \in N
    <3> HIDE DEF f, Frame
    <3> QED BY <2>1, <2>2
  <2>4. Follows(t, r, N)
    <3> HIDE DEF N
    <3> QED BY <1>2, <1>3, <1>4, <1>7, <2>3, SendFabric, Ends
  <2>5. Append(b, f) \in Seq(N)
    <3> HIDE DEF b, f, N
    <3> QED BY <1>2, <2>3
  <2> QED BY <1>5, <2>1, <2>4, <2>5
<1> QED BY <1>1, <1>6, <1>7

LEMMA TXSlave ==
    ASSUME ConnInv, ConnInv', SessionInv, connection["slave"], TX("slave"),
           UNCHANGED <<user, connection, conn_flag>>
    PROVE  SessionInv'
<1>1. /\ pc' = [pc EXCEPT !["slave"] = "rx"] /\ UNCHANGED <<next_rx_seq, rxlog>>
      /\ credits'["master"] = credits["master"]
  BY TXShape, Ends
<1>2. /\ fabric'["slave"] = fabric["slave"]
      /\ Follows(fabric'["master"], fabric["master"], Plain)
      /\ KeptNormal' /\ tx_flow_credits'["slave"][CHANNEL_E] = 0
  BY TXParts, Ends
<1>3. Speaking /\ Spoken /\ (Served \/ NotServed) /\ user["slave"] # "open"
  BY SlaveConnected
<1>4. ThreadsWait'
  BY <1>1, WaitKept, Ends
<1>5. Spoken'
  BY <1>3 DEF Spoken, Speaking
<1>6. Turns'
  <2>1. Follows(fabric'["slave"], fabric["slave"], Plain)
    BY <1>2, SameFabric, Ends
  <2>2. Follows(fabric'["master"], fabric["master"], IF Speaking THEN Plain ELSE {})
    BY <1>2, <1>3
  <2> QED BY <1>3, <1>5, <2>1, <2>2, SessionParts, TurnsKept
<1>7. SlaveStarts'
  BY DEF SlaveStarts
<1>8. CASE Served
  <2> DEFINE log == txlog["slave"]
             more == txlog'["slave"]
             got == rxlog["master"]
  <2>1. /\ next_tx_seq'["slave"] = Len(more) + 5
        /\ fabric'["master"] \in Seq(SlaveFrame(more))
        /\ retransmit_buffer'["slave"] \in
              Seq({f \in SlaveFrame(more) : f.type # TYPE_ACKONLY /\ f.seq_num >= 5})
        /\ Len(log) <= Len(more) /\ \A i \in 1 .. Len(log) : more[i] = log[i]
    BY <1>8, TXServed
  <2>2. ASSUME connection["master"]
        PROVE  Len(got) <= Len(more) /\ \A i \in 1 .. Len(got) : got[i] = more[i]
    <3>1. /\ Len(got) <= Len(log) /\ \A i \in 1 .. Len(got) : got[i] = log[i]
          /\ Len(got) \in Nat /\ Len(log) \in Nat /\ Len(more) \in Nat
      <4>1. got \in Seq(LogEntry) /\ log \in Seq(LogEntry) /\ more \in Seq(LogEntry)
        BY QueueTypes, Ends DEF ConnInv, TypeInv, TypeOK, LinkTypeOK
      <4> QED BY <1>8, <2>2, <4>1 DEF Served
    <3> HIDE DEF log, more, got
    <3>2. \A i \in 1 .. Len(got) : i \in 1 .. Len(log)
      BY <3>1
    <3> QED BY <2>1, <3>1, <3>2
  <2>3. Served'
    BY <1>1, <1>8, <2>1, <2>2 DEF Served
  <2> QED BY <1>2, <1>4, <1>5, <1>6, <1>7, <2>3 DEF SessionInv
<1>9. CASE NotServed
  <2>1. /\ fabric'["master"] \in Seq({f \in Frame : f.chan # CHANNEL_E})
        /\ retransmit_buffer'["slave"] \in Seq({f \in Frame : f.chan # CHANNEL_E})
    BY <1>9, TXNotServed
  <2>2. NotServed'
    BY <1>1, <1>9, <2>1 DEF NotServed
  <2> QED BY <1>2, <1>4, <1>5, <1>6, <1>7, <2>2 DEF SessionInv
<1> QED BY <1>3, <1>8, <1>9
-------------------------------------------------------------------------------
\* The receiver.

LEMMA IdleSession ==
    ASSUME ConnInv, ConnInv', SessionInv, NEW e \in Endpoint, RX_Idle(e),
           UNCHANGED <<user, connection, conn_flag>>
    PROVE  SessionInv'
<1>1. /\ UNCHANGED linkVars /\ UNCHANGED envVars /\ UNCHANGED fcVars
      /\ pc' = [pc EXCEPT ![e] = "tl"] /\ pc[e] = "rx"
  BY DEF RX_Idle, Goto, At
<1>2. \A T : /\ Follows(fabric'["slave"], fabric["slave"], T)
             /\ Follows(fabric'["master"], fabric["master"], T)
  BY <1>1, Ends, SameFabric DEF envVars
<1>3. connection[e] \/ user[e] = "close"
  BY <1>1, RunningFact
<1>4. \A x \in Endpoint : pc'[x] = pc[x] \/ pc'[x] = "tx" \/ connection[x] \/ user[x] = "close"
  <2>1. LoopTypeOK
    BY ConnTypes
  <2> QED BY <1>1, <1>3, <2>1 DEF LoopTypeOK
<1> QED BY <1>1, <1>2, <1>4, CalmSession, SessionParts DEF linkVars, seqVars, fcVars

\* A frame that arrives is accepted, or the numbers and the log stay.
LEMMA RXShape ==
    ASSUME ConnInv, NEW e \in Endpoint, RX(e), ~RX_Idle(e)
    PROVE  /\ fabric[e] # <<>> /\ RXCommon(e, Head(fabric[e]))
           /\ pc[e] = "rx" /\ pc' = [pc EXCEPT ![e] = "tl"]
           /\ UNCHANGED <<next_tx_seq, txlog, tx_flow_credits>>
           /\ Accept(e, Head(fabric[e])) \/ UNCHANGED <<next_rx_seq, credits, rxlog>>
<1> DEFINE f == Head(fabric[e])
<1>1. /\ fabric[e] # <<>>
      /\ \/ RX_Ackonly(e, f) \/ serve_normal_request(e, f) \/ serve_zero_tlmsg_request(e, f)
         \/ serve_duplicate_request(e, f) \/ serve_oos_request(e, f)
  BY DEF RX
<1> HIDE DEF f
<1>2. /\ RXCommon(e, f)
      /\ Accept(e, f) \/ UNCHANGED <<next_rx_seq, credits, rxlog>>
  BY <1>1 DEF RX_Ackonly, serve_normal_request, serve_zero_tlmsg_request, Accept,
              serve_duplicate_request, serve_oos_request, QueueAck
<1>3. /\ pc[e] = "rx" /\ pc' = [pc EXCEPT ![e] = "tl"]
      /\ UNCHANGED <<next_tx_seq, txlog, tx_flow_credits>>
  BY <1>2 DEF RXCommon, At, Goto
<1> QED BY <1>1, <1>2, <1>3 DEF f

\* What stays in the buffer, and what of it is sent again for a NAK.
LEMMA ServeAckFabric ==
    ASSUME ConnInv, NEW e \in Endpoint, fabric[e] # <<>>, RXCommon(e, Head(fabric[e])),
           NEW S, retransmit_buffer[e] \in Seq(S), Again(S, e)
    PROVE  /\ fabric'[e] = Tail(fabric[e]) /\ Follows(fabric'[e], fabric[e], {})
           /\ Follows(fabric'[Peer(e)], fabric[Peer(e)], S)
           /\ Appended(fabric'[Peer(e)], fabric[Peer(e)], S)
           /\ retransmit_buffer'[e] \in Seq(S)
           /\ retransmit_buffer'[Peer(e)] = retransmit_buffer[Peer(e)]
<1> DEFINE x == Peer(e)
           f == Head(fabric[e])
           q == fabric[e]
           r == fabric[x]
           b == retransmit_buffer[e]
           buffer == slide_window(b, f.seq_num_ack)
           again == IF f.ack = TLOE_NAK
                    THEN retransmit(buffer, tloe_seqnum_next(f.seq_num_ack),
                                    tloe_seqnum_prev(next_rx_seq[e]))
                    ELSE <<>>
           t == Carry(r, again)
<1>1. x \in Endpoint /\ x # e /\ fabric \in [Endpoint -> Seq(LowFrame)]
      /\ retransmit_buffer \in [Endpoint -> Seq(Frame)]
  BY PeerFact, HandshakeTypes, ConnTypes DEF LinkTypeOK
<1>2. /\ retransmit_buffer' = [retransmit_buffer EXCEPT ![e] = buffer]
      /\ fabric' = [fabric EXCEPT ![e] = Tail(q), ![x] = t]
  BY <1>1 DEF RXCommon, serve_ack
<1>3. q \in Seq(Frame) /\ q # <<>> /\ r \in Seq(Frame) /\ Len(r) <= FABRIC_BUF /\ b \in Seq(S)
  BY <1>1, QueueTypes
<1> HIDE DEF x, q, r, b, f, Frame, LowFrame
<1>4. buffer \in Seq(S)
  BY <1>3, SlideType
<1> HIDE DEF buffer
<1>5. again \in Seq(S)
  <2>1. <<>> \in Seq(S)
    OBVIOUS
  <2> QED BY <1>4, <2>1, RetransmitType DEF Again
<1> HIDE DEF again
<1>6. Follows(t, r, S) /\ Appended(t, r, S)
  BY <1>3, <1>5, FollowsCarry
<1>7. Follows(Tail(q), q, {})
  BY <1>3, FollowsTail
<1> HIDE DEF t
<1>8. /\ fabric'[e] = Tail(q) /\ fabric'[x] = t
      /\ retransmit_buffer'[e] = buffer /\ retransmit_buffer'[x] = retransmit_buffer[x]
  BY <1>1, <1>2
<1> QED BY <1>4, <1>6, <1>7, <1>8 DEF x, q, r, t

\* Whatever RX sends again, it neither opens nor closes.
LEMMA RXParts ==
    ASSUME ConnInv, SessionInv, NEW e \in Endpoint, fabric[e] # <<>>, RXCommon(e, Head(fabric[e]))
    PROVE  /\ Follows(fabric'[e], fabric[e], {})
           /\ Follows(fabric'[Peer(e)], fabric[Peer(e)], Plain)
           /\ KeptNormal'
           /\ retransmit_buffer'[Peer(e)] = retransmit_buffer[Peer(e)]
<1> DEFINE T == {f \in Frame : f.type = TYPE_NORMAL}
<1>1. T \subseteq Plain
  BY DEF Plain
<1>2. (\A x \in Endpoint : retransmit_buffer[x] \in Seq(T)) /\ Again(T, e)
  BY SessionParts, AgainFact DEF KeptNormal
<1> HIDE DEF T, Plain
<1>3. /\ Follows(fabric'[e], fabric[e], {})
      /\ Follows(fabric'[Peer(e)], fabric[Peer(e)], T)
      /\ retransmit_buffer'[e] \in Seq(T)
      /\ retransmit_buffer'[Peer(e)] = retransmit_buffer[Peer(e)]
  BY <1>2, ServeAckFabric
<1>4. Follows(fabric'[Peer(e)], fabric[Peer(e)], Plain)
  BY <1>1, <1>3, FollowsMore
<1>5. \A x \in Endpoint : x = e \/ x = Peer(e)
  BY Ends
<1>6. \A x \in Endpoint : retransmit_buffer'[x] \in Seq(T)
  BY <1>2, <1>3, <1>5
<1> QED BY <1>3, <1>4, <1>6 DEF KeptNormal, T

\* The master accepts the next payload of the slave's log, or none.
LEMMA MasterAccepts ==
    ASSUME ConnInv, SessionInv, connection["master"], Served, fabric["master"] # <<>>,
           Accept("master", Head(fabric["master"]))
    PROVE  /\ next_rx_seq'["master"] = Len(rxlog'["master"]) + 5
           /\ Len(rxlog'["master"]) <= Len(txlog["slave"])
           /\ \A i \in 1 .. Len(rxlog'["master"]) : rxlog'["master"][i] = txlog["slave"][i]
<1> DEFINE e == "master"
           f == Head(fabric[e])
           log == txlog["slave"]
           got == rxlog[e]
           entry == Payload(f)
           more == Append(got, entry)
           S == SlaveFrame(log)
<1>1. /\ next_rx_seq[e] = Len(got) + 5 /\ Len(got) <= Len(log)
      /\ \A i \in 1 .. Len(got) : got[i] = log[i]
  BY DEF Served
<1>2. /\ got \in Seq(LogEntry) /\ log \in Seq(LogEntry) /\ next_rx_seq[e] \in SeqNum
      /\ rxlog \in [Endpoint -> Seq(LogEntry)] /\ next_rx_seq \in [Endpoint -> SeqNum]
  BY ConnTypes, Ends DEF LinkTypeOK
<1>3. f \in Frame /\ f.seq_num \in SeqNum /\ f.seq_num <= TopSeq
  BY ConnTypes, ReadLow, Ends
<1>4. f \in S
  <2>1. fabric[e] \in Seq(S) /\ fabric[e] # <<>>
    BY DEF Served
  <2> HIDE DEF S
  <2> QED BY <2>1
<1>5. /\ f.type # TYPE_ACKONLY /\ tloe_rx_get_req_type(e, f) = REQ_NORMAL
      /\ next_rx_seq' = [next_rx_seq EXCEPT ![e] = tloe_seqnum_next(f.seq_num)]
      /\ rxlog' = [rxlog EXCEPT ![e] = more]
  BY DEF Accept
<1>6. f.seq_num = next_rx_seq[e]
  <2> HIDE DEF f
  <2> QED BY <1>2, <1>3, <1>5, NormalNumber, Ends
<1>7. entry \in LogEntry
  <2> HIDE DEF f
  <2> QED BY <1>3, FrameFact
<1>8. tloe_seqnum_next(f.seq_num) = f.seq_num + 1
  <2> HIDE DEF f
  <2> QED BY <1>3, NextLow
<1>9. Len(got) \in Nat /\ Len(log) \in Nat
  BY <1>2
<1>10. /\ f.seq_num >= 5 => f.seq_num - 4 \in 1 .. Len(log) /\ entry = log[f.seq_num - 4]
  BY <1>4, <1>5 DEF SlaveFrame
<1> HIDE DEF f, entry, log
<1>11. /\ Len(more) = Len(got) + 1 /\ more[Len(got) + 1] = entry
       /\ \A i \in 1 .. Len(got) : more[i] = got[i]
  <2> HIDE DEF got
  <2> QED BY <1>2, <1>7
<1>12. next_rx_seq'[e] = f.seq_num + 1 /\ rxlog'[e] = more
  BY <1>2, <1>5, <1>8, Ends
<1> HIDE DEF more
<1>13. f.seq_num = Len(got) + 5
  BY <1>1, <1>6
<1> HIDE DEF got
<1>14. f.seq_num >= 5 /\ f.seq_num - 4 = Len(got) + 1
  BY <1>9, <1>13
<1>15. Len(got) + 1 \in 1 .. Len(log) /\ entry = log[Len(got) + 1]
  BY <1>10, <1>14
<1>16. next_rx_seq'[e] = Len(more) + 5 /\ Len(more) <= Len(log)
  BY <1>9, <1>11, <1>12, <1>13, <1>15
<1>17. ASSUME NEW i \in 1 .. Len(more) PROVE more[i] = log[i]
  <2>1. i \in 1 .. Len(got) \/ i = Len(got) + 1
    BY <1>9, <1>11
  <2>2. \A j \in 1 .. Len(got) : got[j] = log[j]
    BY <1>1 DEF got
  <2> QED BY <1>11, <1>15, <2>1, <2>2
<1> QED BY <1>12, <1>16, <1>17 DEF log

LEMMA RXMaster ==
    ASSUME ConnInv, ConnInv', SessionInv, RX("master"), ~RX_Idle("master"),
           UNCHANGED <<user, connection, conn_flag>>
    PROVE  SessionInv'
<1> DEFINE q == fabric["master"]
           p == fabric'["master"]
           S == SlaveFrame(txlog["slave"])
           less == fc_credit_inc(credits["master"], Head(q).chan, Head(q).credit)
<1>1. /\ fabric["master"] # <<>> /\ RXCommon("master", Head(fabric["master"]))
      /\ pc["master"] = "rx" /\ pc' = [pc EXCEPT !["master"] = "tl"]
      /\ UNCHANGED <<next_tx_seq, txlog, tx_flow_credits>>
      /\ Accept("master", Head(fabric["master"])) \/ UNCHANGED <<next_rx_seq, credits, rxlog>>
  BY RXShape, Ends
<1>2. connection["master"] \/ user["master"] = "close"
  BY <1>1, RunningFact, Ends
<1>3. user["master"] # "open" /\ ~NotServed
  BY <1>2, ConnTypes, Ends DEF Phases, NotServed
<1>4. /\ Follows(p, q, {}) /\ Follows(fabric'["slave"], fabric["slave"], Plain)
      /\ KeptNormal' /\ retransmit_buffer'["slave"] = retransmit_buffer["slave"]
  BY <1>1, RXParts, Ends
<1>5. credits'["slave"] = credits["slave"]
  <2>1. credits \in [Endpoint -> [Channel -> Nat]]
    BY HandshakeTypes
  <2>2. UNCHANGED credits \/ credits' = [credits EXCEPT !["master"] = less]
    BY <1>1 DEF Accept
  <2> HIDE DEF less
  <2> QED BY <2>1, <2>2, Ends
<1>6. ThreadsWait'
  BY <1>1, <1>2, WaitKept, Ends
<1>7. (Spoken' <=> Spoken) /\ (Speaking' <=> Speaking)
  BY <1>1 DEF Spoken, Speaking
<1>8. Turns'
  <2>1. Follows(fabric'["master"], fabric["master"], IF Speaking THEN Plain ELSE {})
    <3>1. {} \subseteq (IF Speaking THEN Plain ELSE {})
      OBVIOUS
    <3> QED BY <1>4, <3>1, FollowsMore
  <2> QED BY <1>4, <1>7, <2>1, SessionParts, TurnsKept
<1>9. SlaveStarts'
  BY <1>1, <1>4, <1>5, SessionParts DEF SlaveStarts
<1>10. tx_flow_credits'["slave"][CHANNEL_E] = 0
  BY <1>1, SessionParts
<1>11. ASSUME ~Spoken' PROVE user'["master"] = "close"
  BY <1>2, <1>7, <1>11, MasterConnected
<1>12. ASSUME Spoken' PROVE Served'
  <2>1. Served
    BY <1>3, <1>7, <1>12, SessionParts
  <2>2. p \in Seq(S)
    <3>1. q \in Seq(S) /\ {} \subseteq S /\ p \in Seq(Frame) /\ q \in Seq(Frame)
      BY <2>1, FabricTypes DEF Served
    <3> HIDE DEF p, q, S, Frame
    <3> QED BY <1>4, <3>1, FollowsOver
  <2>3. ASSUME connection["master"]
        PROVE  /\ next_rx_seq'["master"] = Len(rxlog'["master"]) + 5
               /\ Len(rxlog'["master"]) <= Len(txlog["slave"])
               /\ \A i \in 1 .. Len(rxlog'["master"]) : rxlog'["master"][i] = txlog["slave"][i]
    <3>1. CASE Accept("master", Head(fabric["master"]))
      BY <1>1, <2>1, <2>3, <3>1, MasterAccepts
    <3>2. CASE UNCHANGED <<next_rx_seq, credits, rxlog>>
      BY <2>1, <2>3, <3>2 DEF Served
    <3> QED BY <1>1, <3>1, <3>2
  <2> QED BY <1>1, <1>3, <1>4, <2>1, <2>2, <2>3 DEF Served
<1> QED BY <1>4, <1>6, <1>8, <1>9, <1>10, <1>11, <1>12 DEF SessionInv

LEMMA RXSlave ==
    ASSUME ConnInv, ConnInv', SessionInv, RX("slave"), ~RX_Idle("slave"),
           UNCHANGED <<user, connection, conn_flag>>
    PROVE  SessionInv'
<1> DEFINE f == Head(fabric["slave"])
           r == fabric["master"]
           t == fabric'["master"]
           b == retransmit_buffer["slave"]
           S == SlaveFrame(txlog["slave"])
           K == {g \in S : g.type # TYPE_ACKONLY /\ g.seq_num >= 5}
           N == {g \in Frame : g.chan # CHANNEL_E}
           more == fc_credit_inc(credits["slave"], f.chan, f.credit)
           n == tloe_seqnum_next(f.seq_num)
           log == Append(rxlog["slave"], Payload(f))
<1>1. /\ fabric["slave"] # <<>> /\ RXCommon("slave", Head(fabric["slave"]))
      /\ pc["slave"] = "rx" /\ pc' = [pc EXCEPT !["slave"] = "tl"]
      /\ UNCHANGED <<next_tx_seq, txlog, tx_flow_credits>>
      /\ Accept("slave", Head(fabric["slave"])) \/ UNCHANGED <<next_rx_seq, credits, rxlog>>
  BY RXShape, Ends
<1>2. connection["slave"] \/ user["slave"] = "close"
  BY <1>1, RunningFact, Ends
<1>3. Speaking /\ Spoken /\ (Served \/ NotServed)
  BY <1>2, SlaveConnected
<1>4. /\ Follows(fabric'["slave"], fabric["slave"], {}) /\ Follows(t, r, Plain)
      /\ KeptNormal'
  BY <1>1, RXParts, Ends
<1>5. /\ credits'["master"] = credits["master"] /\ next_rx_seq'["master"] = next_rx_seq["master"]
      /\ rxlog'["master"] = rxlog["master"]
  <2>1. /\ credits \in [Endpoint -> [Channel -> Nat]] /\ next_rx_seq \in [Endpoint -> SeqNum]
        /\ rxlog \in [Endpoint -> Seq(LogEntry)]
    BY HandshakeTypes, ConnTypes DEF LinkTypeOK
  <2>2. \/ UNCHANGED <<next_rx_seq, credits, rxlog>>
        \/ /\ credits' = [credits EXCEPT !["slave"] = more]
           /\ next_rx_seq' = [next_rx_seq EXCEPT !["slave"] = n]
           /\ rxlog' = [rxlog EXCEPT !["slave"] = log]
    BY <1>1 DEF Accept
  <2> HIDE DEF more, n, log
  <2> QED BY <2>1, <2>2, Ends
<1>6. ThreadsWait'
  BY <1>1, <1>2, WaitKept, Ends
<1>7. Spoken'
  BY <1>1, <1>3 DEF Spoken, Speaking
<1>8. Turns'
  <2>1. Follows(fabric'["slave"], fabric["slave"], Plain)
    <3>1. {} \subseteq Plain
      OBVIOUS
    <3> QED BY <1>4, <3>1, FollowsMore
  <2>2. Follows(fabric'["master"], fabric["master"], IF Speaking THEN Plain ELSE {})
    BY <1>3, <1>4
  <2> QED BY <1>3, <1>7, <2>1, <2>2, SessionParts, TurnsKept
<1>9. SlaveStarts' /\ tx_flow_credits'["slave"][CHANNEL_E] = 0
  BY <1>1, <1>2, SessionParts DEF SlaveStarts
<1>10. r \in Seq(Frame) /\ t \in Seq(Frame)
  BY FabricTypes
<1>11. CASE Served
  <2>1. r \in Seq(S) /\ b \in Seq(K) /\ K \subseteq S
    BY <1>11 DEF Served
  <2>2. Again(K, "slave")
    <3> DEFINE a == tloe_seqnum_prev(next_rx_seq["slave"])
    <3>1. \A g \in S : [g EXCEPT !.seq_num_ack = a] \in S
      BY AgainFact, Ends DEF Again
    <3>2. S \subseteq Frame
      BY DEF SlaveFrame
    <3>3. ASSUME NEW g \in K PROVE [g EXCEPT !.seq_num_ack = a] \in K
      <4>1. g \in S /\ g \in Frame /\ g.type # TYPE_ACKONLY /\ g.seq_num >= 5
        BY <3>2
      <4> HIDE DEF a, S
      <4>2. /\ [g EXCEPT !.seq_num_ack = a].type = g.type
            /\ [g EXCEPT !.seq_num_ack = a].seq_num = g.seq_num
        BY <4>1 DEF Frame
      <4> QED BY <3>1, <4>1, <4>2
    <3> HIDE DEF K
    <3> QED BY <3>3 DEF Again
  <2>3. retransmit_buffer'["slave"] \in Seq(K) /\ Follows(t, r, K)
    <3> HIDE DEF K
    <3> QED BY <1>1, <2>1, <2>2, ServeAckFabric, Ends
  <2>4. t \in Seq(S)
    <3> HIDE DEF t, r, S, K, Frame
    <3> QED BY <1>10, <2>1, <2>3, FollowsOver
  <2>5. Served'
    BY <1>1, <1>5, <1>11, <2>3, <2>4 DEF Served
  <2> QED BY <1>4, <1>6, <1>7, <1>8, <1>9, <2>5 DEF SessionInv
<1>12. CASE NotServed
  <2>1. r \in Seq(N) /\ b \in Seq(N) /\ Again(N, "slave") /\ N \subseteq N
    BY <1>12, AgainFact, Ends DEF NotServed
  <2>2. retransmit_buffer'["slave"] \in Seq(N) /\ Follows(t, r, N)
    <3> HIDE DEF N
    <3> QED BY <1>1, <2>1, ServeAckFabric, Ends
  <2>3. t \in Seq(N)
    <3> HIDE DEF t, r, N, Frame
    <3> QED BY <1>10, <2>1, <2>2, FollowsOver
  <2>4. NotServed'
    BY <1>1, <1>5, <1>12, <2>2, <2>3 DEF NotServed
  <2> QED BY <1>4, <1>6, <1>7, <1>8, <1>9, <2>4 DEF SessionInv
<1> QED BY <1>3, <1>11, <1>12
-------------------------------------------------------------------------------
\* All steps together.

LEMMA LoopSession ==
    ASSUME ConnInv, ConnInv', SessionInv, NEW e \in Endpoint, Loop(e)
    PROVE  SessionInv'
<1>1. UNCHANGED <<user, connection, conn_flag>> /\ (e = "master" \/ e = "slave")
  BY Ends DEF Loop
<1>2. CASE connection[e] /\ TX(e)
  BY <1>1, <1>2, TXMaster, TXSlave
<1>3. CASE RX(e) /\ RX_Idle(e)
  BY <1>1, <1>3, IdleSession
<1>4. CASE RX(e) /\ ~RX_Idle(e)
  BY <1>1, <1>4, RXMaster, RXSlave
<1>5. CASE tl_handler(e)
  BY <1>1, <1>5, HandlerSession
<1> QED BY <1>2, <1>3, <1>4, <1>5 DEF Loop

LEMMA OpeningSession ==
    ASSUME ConnInv, ConnInv', SessionInv, NEW e \in Endpoint, Opening(e)
    PROVE  SessionInv'
<1>1. e = "master" \/ e = "slave"
  BY Ends
<1>2. CASE serve_conn(e)
  BY <1>1, <1>2, ServeOpenMaster, ServeOpenSlave
<1>3. CASE fabric[e] # <<>> /\ open_conn_wait(e, Head(fabric[e]))
  BY <1>1, <1>3, OpenWaitMaster, OpenWaitSlave
<1>4. CASE fabric[e] # <<>> /\ e = "master" /\ open_conn_master(Head(fabric[e]))
  BY <1>4, OpenMasterSession
<1>5. CASE fabric[e] # <<>> /\ e = "slave" /\ open_conn_slave(Head(fabric[e]))
  BY <1>5, OpenSlaveSession
<1> QED BY <1>2, <1>3, <1>4, <1>5 DEF Opening

LEMMA ClosingSession ==
    ASSUME Prompt, ConnInv, ConnInv', SessionInv, NEW e \in Endpoint, Closing(e)
    PROVE  SessionInv'
<1>1. e = "master" \/ e = "slave"
  BY Ends
<1>2. CASE serve_close_conn(e)
  BY <1>1, <1>2, ServeCloseMaster, ServeCloseSlave
<1>3. CASE e = "slave" /\ close_conn_slave
  BY <1>3, CloseSlaveSession
<1>4. CASE /\ fabric[e] # <<>>
           /\ e = "slave" \/ Head(fabric[e]).type # TYPE_CLOSE_CONNECTION
           /\ recv_close_conn(e, Head(fabric[e]))
  BY <1>1, <1>4, RecvCloseMaster, RecvCloseSlave
<1>5. CASE fabric[e] # <<>> /\ e = "master" /\ close_conn_master(Head(fabric[e]))
  BY <1>5, CloseMasterSession
<1> QED BY <1>2, <1>3, <1>4, <1>5 DEF Closing

LEMMA CommandSession ==
    ASSUME ConnInv, ConnInv', SessionInv, NEW e \in Endpoint, open_conn(e) \/ close_conn(e) \/ quit(e)
    PROVE  SessionInv'
<1>1. e = "master" \/ e = "slave"
  BY Ends
<1>2. CASE open_conn(e)
  BY <1>1, <1>2, OpenCommandMaster, OpenCommandSlave
<1>3. CASE close_conn(e)
  BY <1>1, <1>3, CloseCommandMaster, CloseCommandSlave
<1>4. CASE quit(e)
  BY <1>4, QuitSession
<1> QED BY <1>2, <1>3, <1>4

LEMMA InitSession == ConnInit => SessionInv
<1> SUFFICES ASSUME ConnInit PROVE SessionInv
  OBVIOUS
<1>1. Fresh /\ next_tx_seq = [e \in Endpoint |-> 0]
      /\ user = [e \in Endpoint |-> "idle"] /\ connection = [e \in Endpoint |-> FALSE]
      /\ credits = [e \in Endpoint |-> init_flowcontrol(CREDIT_INIT)]
  BY DEF ConnInit
<1>2. /\ pc = [e \in Endpoint |-> "tx"] /\ fabric = [e \in Endpoint |-> <<>>]
      /\ retransmit_buffer = [e \in Endpoint |-> <<>>] /\ rxlog = [e \in Endpoint |-> <<>>]
      /\ tx_flow_credits = [e \in Endpoint |-> [c \in Channel |-> 0]]
      /\ next_tx_seq = StartSeq /\ next_rx_seq = [e \in Endpoint |-> StartSeq[Peer(e)]]
  BY <1>1 DEF Fresh
<1>3. /\ \A e \in Endpoint : /\ pc[e] = "tx" /\ fabric[e] = <<>> /\ retransmit_buffer[e] = <<>>
                             /\ rxlog[e] = <<>> /\ user[e] = "idle" /\ connection[e] = FALSE
                             /\ next_tx_seq[e] = 0 /\ StartSeq[e] = 0
                             /\ credits[e] = init_flowcontrol(CREDIT_INIT)
  BY <1>1, <1>2
<1>4. next_rx_seq["master"] = 0
  BY <1>2, <1>3, Ends
<1>5. tx_flow_credits["slave"][CHANNEL_E] = 0
  BY <1>2, Ends DEF Channel, CHANNEL_NUM, CHANNEL_E
<1>6. ThreadsWait /\ KeptNormal
  <2> DEFINE T == {f \in Frame : f.type = TYPE_NORMAL}
  <2>1. ThreadsWait
    BY <1>3 DEF ThreadsWait, ThreadParked
  <2> HIDE DEF T
  <2>2. ASSUME NEW e \in Endpoint PROVE retransmit_buffer[e] \in Seq(T)
    <3>1. retransmit_buffer[e] = <<>> /\ <<>> \in Seq(T)
      BY <1>3
    <3> QED BY <3>1
  <2> QED BY <2>1, <2>2 DEF KeptNormal, T
<1>7. SlaveStarts /\ MasterFresh
  BY <1>3, <1>4, Ends DEF SlaveStarts, MasterFresh
<1>8. ~Speaking /\ ~Spoken
  BY <1>3, Ends DEF Speaking, Spoken
<1>9. Turns
  <2>1. <<>> \in Seq(Without(TYPE_OPEN_CONNECTION)) /\ fabric["slave"] = <<>> /\ fabric["master"] = <<>>
    BY <1>3, Ends
  <2> QED BY <1>3, <1>8, <2>1, EmptyOnlyLast, Ends DEF Turns
<1> QED BY <1>5, <1>6, <1>7, <1>8, <1>9 DEF SessionInv

LEMMA NextSession ==
    ASSUME Prompt
    PROVE  ConnInv /\ SessionInv /\ [ConnNext]_allVars => SessionInv'
<1> SUFFICES ASSUME ConnInv, SessionInv, [ConnNext]_allVars PROVE SessionInv'
  OBVIOUS
<1>0. ConnInv'
  BY NextConn
<1>1. CASE UNCHANGED allVars
  BY <1>0, <1>1, StutterSession
<1>2. ASSUME NEW e \in Endpoint, open_conn(e) \/ close_conn(e) \/ quit(e)
      PROVE  SessionInv'
  BY <1>0, <1>2, CommandSession
<1>3. ASSUME NEW e \in Endpoint, Handshake(e)
      PROVE  SessionInv'
  BY <1>0, <1>3, OpeningSession, ClosingSession DEF Handshake
<1>4. ASSUME NEW e \in Endpoint, Loop(e)
      PROVE  SessionInv'
  BY <1>0, <1>4, LoopSession
<1>5. ASSUME NEW e \in Endpoint, Requests(e)
      PROVE  SessionInv'
  BY <1>0, <1>5, UserSession DEF Requests
<1>6. ASSUME NEW e \in Endpoint, LoseFrame(e)
      PROVE  SessionInv'
  BY <1>0, <1>6, LoseSession DEF LoseFrame
<1> QED BY <1>1, <1>2, <1>3, <1>4, <1>5, <1>6 DEF ConnNext

\* The two ends of a connection never talk across each other: when the endpoint
\* thread ends its iteration before a close goes on, the frames on their way to the
\* master are those of one connection of the slave, for any number of connections,
\* losses and repeated handshakes (serve_conn, recv_conn, close_conn_master,
\* close_conn_slave).
THEOREM SessionsKeptApart == ASSUME Prompt PROVE ConnSpec => []SessionInv
<1>1. ConnInit => ConnInv /\ SessionInv
  BY InitConn, InitSession
<1>2. ConnInv /\ SessionInv /\ [ConnNext]_allVars => (ConnInv /\ SessionInv)'
  BY NextConn, NextSession
<1> QED BY <1>1, <1>2, PTL DEF ConnSpec

\* The same with what it means for the user: what the master of an open connection
\* has accepted is the beginning of what the slave has numbered in it, in order and
\* once, whatever has been lost, in the handshake or at the end of an earlier
\* connection too (recv_conn_master, tloe_rx_get_req_type).
THEOREM MasterStaysInOrder == ASSUME Prompt PROVE ConnSpec => []MasterInOrder
<1>1. ConnInit => ConnInv /\ SessionInv
  BY InitConn, InitSession
<1>2. ConnInv /\ SessionInv /\ [ConnNext]_allVars => (ConnInv /\ SessionInv)'
  BY NextConn, NextSession
<1>3. ConnInv /\ SessionInv => MasterInOrder
  <2> SUFFICES ASSUME ConnInv, SessionInv, Connected PROVE MasterInOrder
    BY DEF MasterInOrder
  <2>1. connection["master"]
    BY Ends DEF Connected
  <2>2. Served
    BY <2>1, MasterConnected
  <2>3. rxlog["master"] \in Seq(LogEntry)
    BY QueueTypes, Ends
  <2>4. DOMAIN rxlog["master"] = 1 .. Len(rxlog["master"])
    BY <2>3
  <2> QED BY <2>1, <2>2, <2>4 DEF Served, MasterInOrder
<1> QED BY <1>1, <1>2, <1>3, PTL DEF ConnSpec
================================================================================
