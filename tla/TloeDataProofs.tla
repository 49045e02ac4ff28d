---------------------------- MODULE TloeDataProofs ----------------------------
(***************************************************************************)
(* Credit is conserved between the two endpoints of TloeEndpoint.  Each    *)
(* flit of credit is at one of five places: with the sender, in a message  *)
(* on its way, in a message that waits for tl_handler, in what the         *)
(* receiver has to return, or in a frame that returns it.  A step moves    *)
(* it from one place to the next; what is sent again moves nothing.        *)
(*                                                                         *)
(* The answers of TloeEndpoint: a user's requests are executed once each   *)
(* and in order, and the answers come back in that order.                  *)
(***************************************************************************)
EXTENDS TloeDataInv, TloeLinkProofs, TloeEndpointProps, FiniteSetTheorems

-------------------------------------------------------------------------------
\* Sums of sequences of numbers.

\* The units of one number.
LEMMA PartFact ==
    ASSUME NEW i, NEW x \in Nat
    PROVE  IsFiniteSet({i} \X (1 .. x)) /\ Cardinality({i} \X (1 .. x)) = x
<1>1. IsFiniteSet({i}) /\ Cardinality({i}) = 1
  BY FS_Singleton
<1>2. IsFiniteSet(1 .. x) /\ Cardinality(1 .. x) = x
  BY FS_Interval
<1>3. Cardinality({i} \X (1 .. x)) = 1 * x
  BY <1>1, <1>2, FS_Product
<1> QED BY <1>1, <1>2, <1>3, FS_Product

\* The units of a sequence of numbers are finitely many.
LEMMA UnitsFinite ==
    ASSUME NEW w \in Seq(Nat)
    PROVE  IsFiniteSet(Units(w))
<1> DEFINE n == Len(w)
           Part(i) == {i} \X (1 .. w[i])
           parts == {Part(i) : i \in 1 .. n}
           f == [i \in 1 .. n |-> Part(i)]
<1>1. n \in Nat /\ DOMAIN w = 1 .. n /\ \A i \in 1 .. n : w[i] \in Nat
  OBVIOUS
<1>2. f \in Surjection(1 .. n, parts)
  BY DEF Surjection
<1>3. IsFiniteSet(1 .. n)
  BY <1>1, FS_Interval
<1>4. IsFiniteSet(parts)
  <2> HIDE DEF n, parts, f
  <2> QED BY <1>2, <1>3, FS_Surjection
<1>5. \A i \in 1 .. n : IsFiniteSet(Part(i))
  BY <1>1, PartFact
<1>6. \A T \in parts : IsFiniteSet(T)
  BY <1>5
<1>7. IsFiniteSet(UNION parts)
  <2> HIDE DEF parts
  <2> QED BY <1>4, <1>6, FS_UNION
<1> QED BY <1>1, <1>7 DEF Units

\* Nothing adds up to 0.
LEMMA TotalEmpty == Total(<<>>) = 0
<1>1. Units(<<>>) = {}
  BY DEF Units
<1> QED BY <1>1, FS_EmptySet DEF Total

\* A number at the end adds to the sum.
LEMMA TotalAppend ==
    ASSUME NEW w \in Seq(Nat), NEW x \in Nat
    PROVE  /\ Append(w, x) \in Seq(Nat)
           /\ Total(w) \in Nat
           /\ Total(Append(w, x)) = Total(w) + x
<1> DEFINE n == Len(w)
           last == {n + 1} \X (1 .. x)
<1>1. /\ Append(w, x) \in Seq(Nat) /\ n \in Nat /\ DOMAIN w = 1 .. n
      /\ DOMAIN Append(w, x) = 1 .. n + 1
      /\ \A i \in 1 .. n : Append(w, x)[i] = w[i]
      /\ Append(w, x)[n + 1] = x
  OBVIOUS
<1>2. Units(Append(w, x)) = Units(w) \cup last
  <2>1. 1 .. n + 1 = (1 .. n) \cup {n + 1}
    BY <1>1
  <2> QED BY <1>1, <2>1 DEF Units
<1>3. Units(w) \cap last = {}
  BY <1>1 DEF Units
<1>4. IsFiniteSet(Units(w)) /\ Cardinality(Units(w)) \in Nat
  BY UnitsFinite, FS_CardinalityType
<1>5. IsFiniteSet(last) /\ Cardinality(last) = x
  BY PartFact
<1>6. Cardinality(Units(w) \cup last) = Cardinality(Units(w)) + x - Cardinality({})
  <2> HIDE DEF last
  <2> QED BY <1>3, <1>4, <1>5, FS_Union
<1> HIDE DEF last
<1> QED BY <1>1, <1>2, <1>4, <1>6, FS_EmptySet DEF Total

\* Without its first number the rest adds up to that much less.
LEMMA TotalTail ==
    ASSUME NEW w \in Seq(Nat), w # <<>>
    PROVE  /\ Tail(w) \in Seq(Nat)
           /\ w[1] \in Nat
           /\ Total(Tail(w)) \in Nat
           /\ Total(w) = w[1] + Total(Tail(w))
<1> DEFINE n == Len(w)
           first == {1} \X (1 .. w[1])
           rest == {u \in Units(w) : u[1] # 1}
           f == [u \in Units(Tail(w)) |-> <<u[1] + 1, u[2]>>]
<1>1. /\ n \in Nat \ {0} /\ DOMAIN w = 1 .. n /\ w[1] \in Nat
      /\ Tail(w) \in Seq(Nat) /\ DOMAIN Tail(w) = 1 .. n - 1
      /\ \A i \in 1 .. n - 1 : Tail(w)[i] = w[i + 1]
  OBVIOUS
<1>2. Units(w) = first \cup rest /\ first \cap rest = {}
  BY <1>1 DEF Units
<1>3. f \in Bijection(Units(Tail(w)), rest)
  <2>1. f \in [Units(Tail(w)) -> rest]
    <3> SUFFICES ASSUME NEW u \in Units(Tail(w)) PROVE <<u[1] + 1, u[2]>> \in rest
      OBVIOUS
    <3>1. PICK i \in 1 .. n - 1 : u \in {i} \X (1 .. Tail(w)[i])
      BY <1>1 DEF Units
    <3>2. i + 1 \in 1 .. n /\ u[1] = i /\ u[2] \in 1 .. w[i + 1]
      BY <1>1, <3>1
    <3>3. <<i + 1, u[2]>> \in Units(w)
      BY <1>1, <3>2 DEF Units
    <3> QED BY <3>2, <3>3
  <2>2. \A u, v \in Units(Tail(w)) : f[u] = f[v] => u = v
    <3> SUFFICES ASSUME NEW u \in Units(Tail(w)), NEW v \in Units(Tail(w)), f[u] = f[v]
                 PROVE  u = v
      OBVIOUS
    <3>1. PICK i \in 1 .. n - 1 : u \in {i} \X (1 .. Tail(w)[i])
      BY <1>1 DEF Units
    <3>2. PICK j \in 1 .. n - 1 : v \in {j} \X (1 .. Tail(w)[j])
      BY <1>1 DEF Units
    <3> QED BY <3>1, <3>2
  <2>3. \A t \in rest : \E u \in Units(Tail(w)) : f[u] = t
    <3> SUFFICES ASSUME NEW t \in rest PROVE \E u \in Units(Tail(w)) : f[u] = t
      OBVIOUS
    <3>1. PICK i \in 1 .. n : t \in {i} \X (1 .. w[i])
      BY <1>1 DEF Units
    <3>2. i - 1 \in 1 .. n - 1 /\ t = <<i, t[2]>> /\ t[2] \in 1 .. Tail(w)[i - 1]
      BY <1>1, <3>1
    <3>3. <<i - 1, t[2]>> \in Units(Tail(w))
      BY <1>1, <3>2 DEF Units
    <3> QED BY <3>2, <3>3
  <2> QED BY <2>1, <2>2, <2>3 DEF Bijection, Injection, Surjection, IsInjective
<1>4. IsFiniteSet(Units(Tail(w))) /\ Cardinality(Units(Tail(w))) \in Nat
  BY <1>1, UnitsFinite, FS_CardinalityType
<1>5. IsFiniteSet(rest) /\ Cardinality(rest) = Cardinality(Units(Tail(w)))
  <2> HIDE DEF f, rest
  <2>1. ExistsBijection(Units(Tail(w)), rest)
    BY <1>3 DEF ExistsBijection
  <2> QED BY <1>4, <2>1, FS_Bijection
<1>6. IsFiniteSet(first) /\ Cardinality(first) = w[1]
  BY <1>1, PartFact
<1>7. Cardinality(first \cup rest) = Cardinality(first) + Cardinality(rest) - 0
  <2> HIDE DEF first, rest
  <2> QED BY <1>2, <1>5, <1>6, FS_Union, FS_EmptySet
<1> HIDE DEF first, rest, f
<1> QED BY <1>1, <1>2, <1>4, <1>5, <1>6, <1>7 DEF Total
-------------------------------------------------------------------------------
\* Flits and returned credit.

Msgs == TLMsg \cup {NULL}

\* What a message adds to the flits of channel c, and a payload to the credit.
FlitsOn(m, c) == IF m.chan = c THEN tlmsg_get_flits_cnt(m) ELSE 0
ReturnedOn(payload, c) == IF payload.chan = c THEN 2^payload.credit ELSE 0

LEMMA WeightFact ==
    ASSUME NEW c \in Carrying
    PROVE  /\ \A m \in Msgs : FlitsOn(m, c) \in Nat
           /\ FlitsOn(NULL, c) = 0
           /\ \A payload \in LogEntry : ReturnedOn(payload, c) \in Nat
<1>1. FlitsOn(NULL, c) = 0
  BY DEF FlitsOn, NULL, CHANNEL_0, Carrying, CHANNEL_NUM
<1>2. \A m \in TLMsg : FlitsOn(m, c) \in Nat
  BY FlitsFact DEF FlitsOn
<1>3. ASSUME NEW payload \in LogEntry PROVE ReturnedOn(payload, c) \in Nat
  <2>1. payload.credit \in 0 .. 31
    BY DEF LogEntry
  <2> QED BY <2>1, PowFact DEF ReturnedOn
<1> QED BY <1>1, <1>2, <1>3 DEF Msgs

\* A function applied to every element of a sequence.
LEMMA MapAppend ==
    ASSUME NEW S, NEW T, NEW s \in Seq(S), NEW x \in S, NEW f \in [S -> T]
    PROVE  LET N(t) == [i \in DOMAIN t |-> f[t[i]]]
           IN  /\ N(s) \in Seq(T)
               /\ N(Append(s, x)) = Append(N(s), f[x])
<1> DEFINE N(t) == [i \in DOMAIN t |-> f[t[i]]]
<1>1. /\ Append(s, x) \in Seq(S) /\ Len(Append(s, x)) = Len(s) + 1
      /\ DOMAIN s = 1 .. Len(s) /\ DOMAIN Append(s, x) = 1 .. Len(s) + 1
      /\ \A i \in 1 .. Len(s) : Append(s, x)[i] = s[i] /\ s[i] \in S
      /\ Append(s, x)[Len(s) + 1] = x
      /\ Len(s) \in Nat
  OBVIOUS
<1>2. N(s) \in Seq(T) /\ Len(N(s)) = Len(s)
  BY <1>1
<1>3. N(Append(s, x)) \in Seq(T) /\ Len(N(Append(s, x))) = Len(s) + 1
  <2>1. \A i \in 1 .. Len(s) + 1 : Append(s, x)[i] \in S
    BY <1>1
  <2> QED BY <1>1, <2>1
<1>4. /\ Append(N(s), f[x]) \in Seq(T) /\ Len(Append(N(s), f[x])) = Len(s) + 1
      /\ \A i \in 1 .. Len(s) : Append(N(s), f[x])[i] = N(s)[i]
      /\ Append(N(s), f[x])[Len(s) + 1] = f[x]
  <2> HIDE DEF N
  <2> QED BY <1>1, <1>2
<1>5. \A i \in 1 .. Len(s) + 1 : N(Append(s, x))[i] = Append(N(s), f[x])[i]
  BY <1>1, <1>4
<1>6. N(Append(s, x)) = Append(N(s), f[x])
  <2> HIDE DEF N
  <2> QED BY <1>3, <1>4, <1>5, SeqEqual
<1> QED BY <1>2, <1>6

LEMMA MapTail ==
    ASSUME NEW S, NEW T, NEW s \in Seq(S), s # <<>>, NEW f \in [S -> T]
    PROVE  LET N(t) == [i \in DOMAIN t |-> f[t[i]]]
           IN  /\ N(s) \in Seq(T) /\ N(s) # <<>> /\ N(s)[1] = f[s[1]]
               /\ N(Tail(s)) = Tail(N(s))
<1> DEFINE N(t) == [i \in DOMAIN t |-> f[t[i]]]
<1>1. /\ Tail(s) \in Seq(S) /\ Len(Tail(s)) = Len(s) - 1
      /\ DOMAIN s = 1 .. Len(s) /\ DOMAIN Tail(s) = 1 .. Len(s) - 1
      /\ \A i \in 1 .. Len(s) : s[i] \in S
      /\ \A i \in 1 .. Len(s) - 1 : Tail(s)[i] = s[i + 1]
      /\ Len(s) \in Nat \ {0}
  OBVIOUS
<1>2. N(s) \in Seq(T) /\ Len(N(s)) = Len(s) /\ N(s)[1] = f[s[1]] /\ N(s) # <<>>
  BY <1>1
<1>3. N(Tail(s)) \in Seq(T) /\ Len(N(Tail(s))) = Len(s) - 1
  <2>1. \A i \in 1 .. Len(s) - 1 : Tail(s)[i] \in S
    BY <1>1
  <2> QED BY <1>1, <2>1
<1>4. /\ Tail(N(s)) \in Seq(T) /\ Len(Tail(N(s))) = Len(s) - 1
      /\ \A i \in 1 .. Len(s) - 1 : Tail(N(s))[i] = N(s)[i + 1]
  <2> HIDE DEF N
  <2> QED BY <1>1, <1>2
<1>5. \A i \in 1 .. Len(s) - 1 : N(Tail(s))[i] = Tail(N(s))[i]
  BY <1>1, <1>4
<1>6. N(Tail(s)) = Tail(N(s))
  <2> HIDE DEF N
  <2> QED BY <1>3, <1>4, <1>5, SeqEqual
<1> QED BY <1>2, <1>6

\* A message at the end adds its flits, one at the front takes them away.
LEMMA FlitsAppend ==
    ASSUME NEW s \in Seq(Msgs), NEW m \in Msgs, NEW c \in Carrying
    PROVE  Flits(s, c) \in Nat /\ Flits(Append(s, m), c) = Flits(s, c) + FlitsOn(m, c)
<1> DEFINE f == [x \in Msgs |-> FlitsOn(x, c)]
           N(t) == [i \in DOMAIN t |-> f[t[i]]]
<1>1. f \in [Msgs -> Nat]
  BY WeightFact
<1>2. Append(s, m) \in Seq(Msgs)
  OBVIOUS
<1>3. ASSUME NEW t \in Seq(Msgs) PROVE Flits(t, c) = Total(N(t))
  <2>1. \A i \in DOMAIN t : t[i] \in Msgs
    OBVIOUS
  <2> QED BY <2>1 DEF Flits, FlitsOn
<1>4. N(s) \in Seq(Nat) /\ N(Append(s, m)) = Append(N(s), f[m])
  <2> HIDE DEF f
  <2> QED BY <1>1, MapAppend
<1>5. f[m] = FlitsOn(m, c) /\ f[m] \in Nat
  BY <1>1
<1> HIDE DEF f, N
<1>6. Total(N(s)) \in Nat /\ Total(Append(N(s), f[m])) = Total(N(s)) + f[m]
  BY <1>4, <1>5, TotalAppend
<1> QED BY <1>2, <1>3, <1>4, <1>5, <1>6

LEMMA FlitsTail ==
    ASSUME NEW s \in Seq(Msgs), s # <<>>, NEW c \in Carrying
    PROVE  /\ Flits(Tail(s), c) \in Nat
           /\ FlitsOn(s[1], c) \in Nat
           /\ Flits(s, c) = FlitsOn(s[1], c) + Flits(Tail(s), c)
<1> DEFINE f == [x \in Msgs |-> FlitsOn(x, c)]
           N(t) == [i \in DOMAIN t |-> f[t[i]]]
<1>1. f \in [Msgs -> Nat]
  BY WeightFact
<1>2. Tail(s) \in Seq(Msgs) /\ s[1] \in Msgs
  OBVIOUS
<1>3. ASSUME NEW t \in Seq(Msgs) PROVE Flits(t, c) = Total(N(t))
  <2>1. \A i \in DOMAIN t : t[i] \in Msgs
    OBVIOUS
  <2> QED BY <2>1 DEF Flits, FlitsOn
<1>4. N(s) \in Seq(Nat) /\ N(s) # <<>> /\ N(s)[1] = f[s[1]] /\ N(Tail(s)) = Tail(N(s))
  <2> HIDE DEF f
  <2> QED BY <1>1, MapTail
<1>5. f[s[1]] = FlitsOn(s[1], c) /\ f[s[1]] \in Nat
  BY <1>1, <1>2
<1> HIDE DEF f, N
<1>6. Total(Tail(N(s))) \in Nat /\ Total(N(s)) = N(s)[1] + Total(Tail(N(s)))
  BY <1>4, TotalTail
<1> QED BY <1>2, <1>3, <1>4, <1>5, <1>6

\* The same for the credit that payloads return.
LEMMA ReturnedAppend ==
    ASSUME NEW s \in Seq(LogEntry), NEW x \in LogEntry, NEW c \in Carrying
    PROVE  /\ Returned(s, c) \in Nat
           /\ Returned(Append(s, x), c) = Returned(s, c) + ReturnedOn(x, c)
<1> DEFINE f == [y \in LogEntry |-> ReturnedOn(y, c)]
           N(t) == [i \in DOMAIN t |-> f[t[i]]]
<1>1. f \in [LogEntry -> Nat]
  BY WeightFact
<1>2. Append(s, x) \in Seq(LogEntry)
  OBVIOUS
<1>3. ASSUME NEW t \in Seq(LogEntry) PROVE Returned(t, c) = Total(N(t))
  <2>1. \A i \in DOMAIN t : t[i] \in LogEntry
    OBVIOUS
  <2> QED BY <2>1 DEF Returned, ReturnedOn
<1>4. N(s) \in Seq(Nat) /\ N(Append(s, x)) = Append(N(s), f[x])
  <2> HIDE DEF f
  <2> QED BY <1>1, MapAppend
<1>5. f[x] = ReturnedOn(x, c) /\ f[x] \in Nat
  BY <1>1
<1> HIDE DEF f, N
<1>6. Total(N(s)) \in Nat /\ Total(Append(N(s), f[x])) = Total(N(s)) + f[x]
  BY <1>4, <1>5, TotalAppend
<1> QED BY <1>2, <1>3, <1>4, <1>5, <1>6

LEMMA ReturnedTail ==
    ASSUME NEW s \in Seq(LogEntry), s # <<>>, NEW c \in Carrying
    PROVE  /\ Returned(Tail(s), c) \in Nat
           /\ ReturnedOn(s[1], c) \in Nat
           /\ Returned(s, c) = ReturnedOn(s[1], c) + Returned(Tail(s), c)
<1> DEFINE f == [y \in LogEntry |-> ReturnedOn(y, c)]
           N(t) == [i \in DOMAIN t |-> f[t[i]]]
<1>1. f \in [LogEntry -> Nat]
  BY WeightFact
<1>2. Tail(s) \in Seq(LogEntry) /\ s[1] \in LogEntry
  OBVIOUS
<1>3. ASSUME NEW t \in Seq(LogEntry) PROVE Returned(t, c) = Total(N(t))
  <2>1. \A i \in DOMAIN t : t[i] \in LogEntry
    OBVIOUS
  <2> QED BY <2>1 DEF Returned, ReturnedOn
<1>4. N(s) \in Seq(Nat) /\ N(s) # <<>> /\ N(s)[1] = f[s[1]] /\ N(Tail(s)) = Tail(N(s))
  <2> HIDE DEF f
  <2> QED BY <1>1, MapTail
<1>5. f[s[1]] = ReturnedOn(s[1], c) /\ f[s[1]] \in Nat
  BY <1>1, <1>2
<1> HIDE DEF f, N
<1>6. Total(Tail(N(s))) \in Nat /\ Total(N(s)) = N(s)[1] + Total(Tail(N(s)))
  BY <1>4, TotalTail
<1> QED BY <1>2, <1>3, <1>4, <1>5, <1>6
-------------------------------------------------------------------------------
\* What is on its way.

LEMMA EmptySums ==
    ASSUME NEW c
    PROVE  Flits(<<>>, c) = 0 /\ Returned(<<>>, c) = 0 /\ Messages(<<>>) = <<>>
<1>1. [i \in DOMAIN <<>> |-> IF <<>>[i].chan = c THEN tlmsg_get_flits_cnt(<<>>[i]) ELSE 0] = <<>>
  OBVIOUS
<1>2. [i \in DOMAIN <<>> |-> IF <<>>[i].chan = c THEN 2^<<>>[i].credit ELSE 0] = <<>>
  OBVIOUS
<1>3. Messages(<<>>) = <<>>
  BY DEF Messages
<1> QED BY <1>1, <1>2, <1>3, TotalEmpty DEF Flits, Returned

\* The messages of payloads.
LEMMA MessagesFact ==
    ASSUME NEW s \in Seq(LogEntry)
    PROVE  /\ Messages(s) \in Seq(Msgs)
           /\ \A x \in LogEntry : Messages(Append(s, x)) = Append(Messages(s), x.tlmsg)
           /\ s # <<>> => /\ Messages(s) # <<>>
                          /\ Messages(s)[1] = s[1].tlmsg
                          /\ Messages(Tail(s)) = Tail(Messages(s))
<1> DEFINE f == [x \in LogEntry |-> x.tlmsg]
           N(t) == [i \in DOMAIN t |-> f[t[i]]]
<1>1. f \in [LogEntry -> Msgs]
  BY DEF LogEntry, Msgs
<1>2. ASSUME NEW t \in Seq(LogEntry) PROVE Messages(t) = N(t)
  <2>1. \A i \in DOMAIN t : t[i] \in LogEntry
    OBVIOUS
  <2> QED BY <2>1 DEF Messages
<1>3. ASSUME NEW x \in LogEntry PROVE Messages(Append(s, x)) = Append(Messages(s), x.tlmsg)
  <2>1. N(Append(s, x)) = Append(N(s), f[x])
    <3> HIDE DEF f
    <3> QED BY <1>1, MapAppend
  <2>2. Append(s, x) \in Seq(LogEntry) /\ f[x] = x.tlmsg
    OBVIOUS
  <2> HIDE DEF N, f
  <2> QED BY <1>2, <2>1, <2>2
<1>4. ASSUME s # <<>>
      PROVE  /\ Messages(s) # <<>> /\ Messages(s)[1] = s[1].tlmsg
             /\ Messages(Tail(s)) = Tail(Messages(s))
  <2>1. N(s) # <<>> /\ N(s)[1] = f[s[1]] /\ N(Tail(s)) = Tail(N(s))
    <3> HIDE DEF f
    <3> QED BY <1>1, <1>4, MapTail
  <2>2. Tail(s) \in Seq(LogEntry) /\ s[1] \in LogEntry
    BY <1>4
  <2>3. f[s[1]] = s[1].tlmsg
    BY <2>2
  <2> HIDE DEF N, f
  <2> QED BY <1>2, <2>1, <2>2, <2>3
<1>5. Messages(s) \in Seq(Msgs)
  <2>1. \A i \in 1 .. Len(s) : s[i] \in LogEntry
    OBVIOUS
  <2>2. \A i \in 1 .. Len(s) : s[i].tlmsg \in Msgs
    BY <2>1 DEF LogEntry, Msgs
  <2>3. DOMAIN s = 1 .. Len(s) /\ Len(s) \in Nat
    OBVIOUS
  <2> QED BY <2>2, <2>3 DEF Messages
<1> QED BY <1>3, <1>4, <1>5

\* What is behind the first k payloads of a log, when one more is numbered.
LEMMA RestAppend ==
    ASSUME NEW log \in Seq(LogEntry), NEW k \in 0 .. Len(log), NEW x \in LogEntry
    PROVE  LET rest == SubSeq(log, k + 1, Len(log))
           IN  /\ rest \in Seq(LogEntry)
               /\ SubSeq(Append(log, x), k + 1, Len(Append(log, x))) = Append(rest, x)
<1> DEFINE n == Len(log)
           more == Append(log, x)
           rest == SubSeq(log, k + 1, n)
           rest2 == SubSeq(more, k + 1, Len(more))
<1>1. /\ more \in Seq(LogEntry) /\ n \in Nat /\ Len(more) = n + 1
      /\ \A i \in 1 .. n : more[i] = log[i]
      /\ more[n + 1] = x
      /\ k \in Int /\ k >= 0 /\ k <= n
  OBVIOUS
<1> HIDE DEF more, n
<1>2. \A i \in k + 1 .. n : log[i] \in LogEntry
  BY <1>1 DEF n
<1>3. \A i \in k + 1 .. n + 1 : more[i] \in LogEntry
  BY <1>1
<1>4. rest \in Seq(LogEntry) /\ Len(rest) = n - k /\ \A i \in 1 .. n - k : rest[i] = log[k + i]
  <2>1. /\ rest \in Seq(LogEntry)
        /\ Len(rest) = IF k + 1 <= n THEN n - (k + 1) + 1 ELSE 0
        /\ \A i \in 1 .. n - (k + 1) + 1 : rest[i] = log[k + 1 + i - 1]
    BY <1>1, <1>2, SubSeqProperties
  <2> QED BY <1>1, <2>1
<1>5. /\ rest2 \in Seq(LogEntry) /\ Len(rest2) = n + 1 - k
      /\ \A i \in 1 .. n + 1 - k : rest2[i] = more[k + i]
  <2>1. /\ rest2 \in Seq(LogEntry)
        /\ Len(rest2) = IF k + 1 <= n + 1 THEN n + 1 - (k + 1) + 1 ELSE 0
        /\ \A i \in 1 .. n + 1 - (k + 1) + 1 : rest2[i] = more[k + 1 + i - 1]
    BY <1>1, <1>3, SubSeqProperties
  <2>2. Len(rest2) = n + 1 - k /\ n + 1 - (k + 1) + 1 = n + 1 - k
    BY <1>1, <2>1
  <2>3. \A i \in 1 .. n + 1 - k : k + 1 + i - 1 = k + i
    BY <1>1
  <2> HIDE DEF rest2
  <2> QED BY <2>1, <2>2, <2>3
<1> HIDE DEF rest, rest2
<1>6. /\ Append(rest, x) \in Seq(LogEntry) /\ Len(Append(rest, x)) = n + 1 - k
      /\ \A i \in 1 .. n - k : Append(rest, x)[i] = rest[i]
      /\ Append(rest, x)[n + 1 - k] = x
  BY <1>1, <1>4
<1>7. \A i \in 1 .. n + 1 - k : rest2[i] = Append(rest, x)[i]
  <2> SUFFICES ASSUME NEW i \in 1 .. n + 1 - k PROVE rest2[i] = Append(rest, x)[i]
    OBVIOUS
  <2>1. CASE i = n + 1 - k
    BY <1>1, <1>5, <1>6, <2>1
  <2>2. CASE i # n + 1 - k
    <3>1. i \in 1 .. n - k /\ k + i \in 1 .. n
      BY <1>1, <2>2
    <3> QED BY <1>1, <1>4, <1>5, <1>6, <3>1
  <2> QED BY <2>1, <2>2
<1>8. rest2 = Append(rest, x)
  BY <1>5, <1>6, <1>7, SeqEqual
<1> QED BY <1>4, <1>8 DEF rest, rest2, more, n

\* The same when the next one is accepted.
LEMMA RestTail ==
    ASSUME NEW log \in Seq(LogEntry), NEW k \in 0 .. Len(log) - 1
    PROVE  LET rest == SubSeq(log, k + 1, Len(log))
           IN  /\ rest \in Seq(LogEntry)
               /\ rest # <<>>
               /\ rest[1] = log[k + 1]
               /\ SubSeq(log, k + 2, Len(log)) = Tail(rest)
<1> DEFINE n == Len(log)
           rest == SubSeq(log, k + 1, n)
           rest2 == SubSeq(log, k + 2, n)
<1>1. n \in Nat /\ k \in Int /\ k >= 0 /\ k <= n - 1 /\ \A i \in 1 .. n : log[i] \in LogEntry
  OBVIOUS
<1> HIDE DEF n
<1>4. rest \in Seq(LogEntry) /\ Len(rest) = n - k /\ \A i \in 1 .. n - k : rest[i] = log[k + i]
  <2>0. \A i \in k + 1 .. n : log[i] \in LogEntry
    BY <1>1
  <2>1. /\ rest \in Seq(LogEntry)
        /\ Len(rest) = IF k + 1 <= n THEN n - (k + 1) + 1 ELSE 0
        /\ \A i \in 1 .. n - (k + 1) + 1 : rest[i] = log[k + 1 + i - 1]
    BY <1>1, <2>0, SubSeqProperties
  <2> QED BY <1>1, <2>1
<1>5. /\ rest2 \in Seq(LogEntry) /\ Len(rest2) = n - k - 1
      /\ \A i \in 1 .. n - k - 1 : rest2[i] = log[k + 1 + i]
  <2>0. \A i \in k + 2 .. n : log[i] \in LogEntry
    BY <1>1
  <2>1. /\ rest2 \in Seq(LogEntry)
        /\ Len(rest2) = IF k + 2 <= n THEN n - (k + 2) + 1 ELSE 0
        /\ \A i \in 1 .. n - (k + 2) + 1 : rest2[i] = log[k + 2 + i - 1]
    BY <1>1, <2>0, SubSeqProperties
  <2> QED BY <1>1, <2>1
<1> HIDE DEF rest, rest2
<1>6. rest # <<>> /\ rest[1] = log[k + 1]
  BY <1>1, <1>4
<1>7. /\ Tail(rest) \in Seq(LogEntry) /\ Len(Tail(rest)) = n - k - 1
      /\ \A i \in 1 .. n - k - 1 : Tail(rest)[i] = rest[i + 1]
  BY <1>1, <1>4, <1>6
<1>8. \A i \in 1 .. n - k - 1 : rest2[i] = Tail(rest)[i]
  BY <1>1, <1>4, <1>5, <1>7
<1>9. rest2 = Tail(rest)
  BY <1>5, <1>7, <1>8, SeqEqual
<1> QED BY <1>4, <1>6, <1>9 DEF rest, rest2, n
-------------------------------------------------------------------------------
\* The balance of one channel, and what a step does to its terms.

\* Nobody has accepted more than was numbered.
Ordered == \A e \in Endpoint : Len(rxlog[e]) <= Len(txlog[Peer(e)])

LEMMA LinkOrdered == LinkInv => Ordered
BY LinkLen DEF Ordered

\* The frame at the head of e's fabric carries the next payload of the peer.
BringsNext(e) ==
    /\ Len(rxlog[e]) + 1 <= Len(txlog[Peer(e)])
    /\ Payload(Head(fabric[e])) = txlog[Peer(e)][Len(rxlog[e]) + 1]

\* A step of e that leaves the balance of either direction as it was; when e's
\* process ends there is nothing left to say of what it would have returned.
KeepsCredit(e) ==
    /\ exited'[e] = "no" => exited[e] = "no"
    /\ exited'[Peer(e)] = exited[Peer(e)]
    /\ \A c \in Carrying :
          /\ Balance(e, c)' = Balance(e, c)
          /\ exited'[e] = "no" => Balance(Peer(e), c)' = Balance(Peer(e), c)

\* The types of the terms.
LEMMA TermTypes ==
    ASSUME TypeInv, Ordered, NEW e \in Endpoint, NEW c \in Carrying
    PROVE  /\ credits[e][c] \in Nat /\ tx_flow_credits[e][c] \in Nat
           /\ tl_msg_buffer[e] \in Seq(Msgs) /\ Flits(tl_msg_buffer[e], c) \in Nat
           /\ txlog[e] \in Seq(LogEntry) /\ rxlog[e] \in Seq(LogEntry)
           /\ Len(rxlog[Peer(e)]) \in 0 .. Len(txlog[e])
           /\ InTransit(e) \in Seq(LogEntry)
           /\ Flits(Messages(InTransit(e)), c) \in Nat
           /\ Returned(InTransit(e), c) \in Nat
<1>1. credits[e] \in [Channel -> Nat] /\ tx_flow_credits[e] \in [Channel -> Nat]
      /\ tl_msg_buffer[e] \in Seq(TLMsg) /\ rxlog[e] \in Seq(LogEntry)
  BY EndpointTypes
<1>2. c \in Channel
  BY DEF Carrying, Channel
<1>3. tl_msg_buffer[e] \in Seq(Msgs)
  BY <1>1 DEF Msgs
<1>4. txlog[e] \in Seq(LogEntry)
  BY DEF TypeInv, TypeOK, LinkTypeOK
<1>5. Len(rxlog[Peer(e)]) \in 0 .. Len(txlog[e])
  <2>1. Peer(e) \in Endpoint /\ Peer(Peer(e)) = e
    BY PeerFact
  <2>2. rxlog[Peer(e)] \in Seq(LogEntry) /\ Len(rxlog[Peer(e)]) <= Len(txlog[e])
    BY <2>1, EndpointTypes DEF Ordered
  <2> QED BY <1>4, <2>2
<1>6. NULL \in Msgs
  BY DEF Msgs
<1>7. Flits(tl_msg_buffer[e], c) \in Nat
  BY <1>3, <1>6, FlitsAppend
<1>8. \A x \in LogEntry : InTransit(e) \in Seq(LogEntry)
  BY <1>4, <1>5, RestAppend DEF InTransit
<1>9. [tlmsg |-> NULL, chan |-> 0, credit |-> 0] \in LogEntry
  BY DEF LogEntry, Channel, CHANNEL_NUM
<1>10. InTransit(e) \in Seq(LogEntry)
  BY <1>8, <1>9
<1>11. Returned(InTransit(e), c) \in Nat
  BY <1>9, <1>10, ReturnedAppend
<1>12. Flits(Messages(InTransit(e)), c) \in Nat
  BY <1>6, <1>10, MessagesFact, FlitsAppend
<1> QED BY <1>1, <1>2, <1>3, <1>4, <1>5, <1>7, <1>10, <1>11, <1>12

\* A payload is numbered.
LEMMA SendSums ==
    ASSUME TypeInv, Ordered, NEW e \in Endpoint, NEW x \in LogEntry, NEW c \in Carrying,
           txlog' = [txlog EXCEPT ![e] = Append(txlog[e], x)], rxlog' = rxlog
    PROVE  /\ Flits(Messages(InTransit(e)'), c) = Flits(Messages(InTransit(e)), c) + FlitsOn(x.tlmsg, c)
           /\ Returned(InTransit(e)', c) = Returned(InTransit(e), c) + ReturnedOn(x, c)
           /\ InTransit(Peer(e))' = InTransit(Peer(e))
<1>1. /\ txlog[e] \in Seq(LogEntry)
      /\ Len(rxlog[Peer(e)]) \in 0 .. Len(txlog[e])
      /\ InTransit(e) \in Seq(LogEntry)
  BY TermTypes
<1>2. txlog'[e] = Append(txlog[e], x) /\ txlog'[Peer(e)] = txlog[Peer(e)]
  <2>1. txlog \in [Endpoint -> Seq(LogEntry)]
    BY DEF TypeInv, TypeOK, LinkTypeOK
  <2> QED BY <2>1, PeerFact
<1>3. InTransit(e)' = Append(InTransit(e), x)
  BY <1>1, <1>2, RestAppend DEF InTransit
<1>4. InTransit(Peer(e))' = InTransit(Peer(e))
  BY <1>2 DEF InTransit
<1>5. Returned(InTransit(e)', c) = Returned(InTransit(e), c) + ReturnedOn(x, c)
  BY <1>1, <1>3, ReturnedAppend
<1>6. Messages(InTransit(e)') = Append(Messages(InTransit(e)), x.tlmsg)
  BY <1>1, <1>3, MessagesFact
<1>7. x.tlmsg \in Msgs
  BY DEF LogEntry, Msgs
<1>8. Messages(InTransit(e)) \in Seq(Msgs)
  BY <1>1, MessagesFact
<1> QED BY <1>4, <1>5, <1>6, <1>7, <1>8, FlitsAppend

\* A payload is accepted: the first one on its way.
LEMMA AcceptSums ==
    ASSUME TypeInv, Ordered, NEW e \in Endpoint, NEW x \in LogEntry, NEW c \in Carrying,
           rxlog' = [rxlog EXCEPT ![e] = Append(rxlog[e], x)], txlog' = txlog,
           Len(rxlog[e]) + 1 <= Len(txlog[Peer(e)]), x = txlog[Peer(e)][Len(rxlog[e]) + 1]
    PROVE  LET p == Peer(e)
           IN  /\ Flits(Messages(InTransit(p)'), c) \in Nat
               /\ Flits(Messages(InTransit(p)), c)
                     = Flits(Messages(InTransit(p)'), c) + FlitsOn(x.tlmsg, c)
               /\ Returned(InTransit(p)', c) \in Nat
               /\ Returned(InTransit(p), c) = Returned(InTransit(p)', c) + ReturnedOn(x, c)
               /\ InTransit(e)' = InTransit(e)
<1> DEFINE p == Peer(e)
           k == Len(rxlog[e])
<1>1. /\ p \in Endpoint /\ Peer(p) = e /\ p # e
      /\ txlog[p] \in Seq(LogEntry) /\ rxlog[e] \in Seq(LogEntry)
      /\ InTransit(p) \in Seq(LogEntry)
  BY PeerFact, TermTypes
<1>2. k \in 0 .. Len(txlog[p]) - 1
  BY <1>1
<1>3. Len(rxlog'[e]) = k + 1 /\ rxlog'[p] = rxlog[p]
  <2>1. rxlog \in [Endpoint -> Seq(LogEntry)]
    BY DEF TypeInv, TypeOK, LinkTypeOK
  <2>2. rxlog'[e] = Append(rxlog[e], x) /\ rxlog'[p] = rxlog[p]
    BY <1>1, <2>1
  <2> QED BY <1>1, <2>2
<1> HIDE DEF p
<1>4. /\ InTransit(p) # <<>> /\ InTransit(p)[1] = x
      /\ InTransit(p)' = Tail(InTransit(p))
  <2>1. InTransit(p) = SubSeq(txlog[p], k + 1, Len(txlog[p]))
    BY <1>1 DEF InTransit
  <2>2. InTransit(p)' = SubSeq(txlog[p], k + 1 + 1, Len(txlog[p]))
    BY <1>1, <1>3 DEF InTransit
  <2>3. k + 1 + 1 = k + 2 /\ x = txlog[p][k + 1]
    BY <1>2 DEF p
  <2> DEFINE log == txlog[p]
             rest == SubSeq(log, k + 1, Len(log))
  <2>4. log \in Seq(LogEntry) /\ k \in 0 .. Len(log) - 1
    BY <1>1, <1>2
  <2>5. rest # <<>> /\ rest[1] = log[k + 1] /\ SubSeq(log, k + 2, Len(log)) = Tail(rest)
    <3> HIDE DEF log, k
    <3> QED BY <2>4, RestTail
  <2>6. InTransit(p) = rest /\ InTransit(p)' = SubSeq(log, k + 2, Len(log)) /\ x = log[k + 1]
    BY <2>1, <2>2, <2>3
  <2> HIDE DEF rest
  <2> QED BY <2>5, <2>6
<1>5. InTransit(e)' = InTransit(e)
  BY <1>3 DEF InTransit, p
<1>6. /\ Returned(InTransit(p)', c) \in Nat /\ ReturnedOn(x, c) \in Nat
      /\ Returned(InTransit(p), c) = ReturnedOn(x, c) + Returned(InTransit(p)', c)
  BY <1>1, <1>4, ReturnedTail
<1>7. /\ Messages(InTransit(p)) \in Seq(Msgs) /\ Messages(InTransit(p)) # <<>>
      /\ Messages(InTransit(p))[1] = x.tlmsg
      /\ Messages(InTransit(p)') = Tail(Messages(InTransit(p)))
  BY <1>1, <1>4, MessagesFact
<1>8. /\ Flits(Messages(InTransit(p)'), c) \in Nat /\ FlitsOn(x.tlmsg, c) \in Nat
      /\ Flits(Messages(InTransit(p)), c)
            = FlitsOn(x.tlmsg, c) + Flits(Messages(InTransit(p)'), c)
  BY <1>7, FlitsTail
<1> DEFINE back == Returned(InTransit(p)', c)
           flits == Flits(Messages(InTransit(p)'), c)
<1>9. /\ back \in Nat /\ ReturnedOn(x, c) \in Nat /\ flits \in Nat /\ FlitsOn(x.tlmsg, c) \in Nat
      /\ Returned(InTransit(p), c) = ReturnedOn(x, c) + back
      /\ Flits(Messages(InTransit(p)), c) = FlitsOn(x.tlmsg, c) + flits
  BY <1>6, <1>8
<1>10. /\ Returned(InTransit(p), c) = back + ReturnedOn(x, c)
       /\ Flits(Messages(InTransit(p)), c) = flits + FlitsOn(x.tlmsg, c)
  <2> HIDE DEF back, flits
  <2> QED BY <1>9
<1> QED BY <1>5, <1>9, <1>10 DEF p

\* A step that moves no credit.
LEMMA NothingMoves ==
    ASSUME NEW e \in Endpoint, UNCHANGED <<credits, txlog, rxlog, tl_msg_buffer, tx_flow_credits>>,
           exited'[e] = "no" => exited[e] = "no", exited'[Peer(e)] = exited[Peer(e)]
    PROVE  KeepsCredit(e)
<1>1. ASSUME NEW x, NEW c PROVE Balance(x, c)' = Balance(x, c)
  BY DEF Balance, InTransit
<1> QED BY <1>1 DEF KeepsCredit

\* The property is kept by steps that keep the balances.
LEMMA CreditKept ==
    ASSUME CreditConservation, NEW e \in Endpoint, KeepsCredit(e)
    PROVE  CreditConservation'
<1> SUFFICES ASSUME NEW x \in Endpoint, NEW c \in Carrying, exited'[Peer(x)] = "no"
             PROVE  Balance(x, c)' = 2^CREDIT_DEFAULT
  BY DEF CreditConservation
<1>1. CASE x = e
  BY <1>1 DEF CreditConservation, KeepsCredit
<1>2. CASE x = Peer(e)
  <2>1. Peer(x) = e /\ exited'[e] = "no" /\ exited[Peer(x)] = "no"
    BY <1>2, PeerFact DEF KeepsCredit
  <2>2. Balance(x, c) = 2^CREDIT_DEFAULT
    BY <2>1 DEF CreditConservation
  <2>3. Balance(Peer(e), c)' = Balance(Peer(e), c)
    BY <2>1 DEF KeepsCredit
  <2>4. Balance(x, c)' = Balance(Peer(e), c)'
    BY <1>2 DEF Balance, InTransit
  <2> QED BY <1>2, <2>2, <2>3, <2>4
<1> QED BY <1>1, <1>2, PeerFact
-------------------------------------------------------------------------------
\* The steps of the transmitter.

\* The frame TX numbers carries its message and takes the credit it returns
\* from what the endpoint has to return.
LEMMA SendCredit ==
    ASSUME TypeInv, Ordered, AcceptedBound,
           NEW e \in Endpoint, NEW elapsed \in Elapsed(e), NEW m \in Msgs,
           SendNormalFrame(e, elapsed, m),
           credits'[Peer(e)] = credits[Peer(e)],
           \A c \in Carrying : credits'[e][c] = credits[e][c] - FlitsOn(m, c)
    PROVE  KeepsCredit(e)
<1> DEFINE p == Peer(e)
           f == NormalFrame(e, m)
           x == Payload(f)
<1>1. p \in Endpoint /\ Peer(p) = e /\ p # e
  BY PeerFact
<1>2. f \in Frame /\ x \in LogEntry /\ x.tlmsg = m /\ x.chan = f.chan /\ x.credit = f.credit
  <2>1. f \in Frame
    BY NormalType DEF Msgs
  <2>2. f.tlmsg = m
    BY DEF NormalFrame
  <2> HIDE DEF f
  <2> QED BY <2>1, <2>2, FrameFact DEF Payload
<1>3. /\ txlog' = [txlog EXCEPT ![e] = Append(txlog[e], x)]
      /\ tx_flow_credits' = IF f.chan = CHANNEL_0 THEN tx_flow_credits
                            ELSE [tx_flow_credits EXCEPT
                                    ![e] = get_outgoing_credits(tx_flow_credits[e], f.chan)]
      /\ rxlog' = rxlog /\ tl_msg_buffer' = tl_msg_buffer /\ exited' = exited
  BY DEF SendNormalFrame, TXCommon
<1>4. tx_flow_credits \in [Endpoint -> [Channel -> Nat]]
  BY DEF TypeInv, TypeOK, CreditTypeOK
<1>5. f.chan = select_max_credit_channel(tx_flow_credits[e])
      /\ (f.chan # CHANNEL_0 => f.credit = get_largest_pow(tx_flow_credits[e][f.chan]))
  BY DEF NormalFrame
<1> HIDE DEF p, f, x
<1>6. ASSUME NEW c \in Carrying
      PROVE  /\ tx_flow_credits'[e][c] = tx_flow_credits[e][c] - ReturnedOn(x, c)
             /\ tx_flow_credits'[p] = tx_flow_credits[p]
  <2>1. c \in Channel /\ c # CHANNEL_0
    BY DEF Carrying, Channel, CHANNEL_NUM, CHANNEL_0
  <2>2. CASE f.chan = CHANNEL_0
    <3>1. ReturnedOn(x, c) = 0 /\ tx_flow_credits' = tx_flow_credits
      BY <1>2, <1>3, <2>1, <2>2 DEF ReturnedOn
    <3> QED BY <1>4, <2>1, <3>1
  <2>3. CASE f.chan # CHANNEL_0
    <3>1. tx_flow_credits'[e] = [tx_flow_credits[e] EXCEPT
              ![f.chan] = tx_flow_credits[e][f.chan] - 2^f.credit]
      BY <1>3, <1>4, <1>5, <2>3 DEF get_outgoing_credits
    <3>2. tx_flow_credits'[p] = tx_flow_credits[p]
      BY <1>1, <1>3, <1>4, <2>3
    <3>3. tx_flow_credits[e] \in [Channel -> Nat] /\ tx_flow_credits[e][c] \in Nat
      BY <1>4, <2>1
    <3>4. CASE f.chan = c
      BY <1>2, <2>1, <3>1, <3>2, <3>3, <3>4 DEF ReturnedOn
    <3>5. CASE f.chan # c
      BY <1>2, <2>1, <3>1, <3>2, <3>3, <3>5 DEF ReturnedOn
    <3> QED BY <3>4, <3>5
  <2> QED BY <2>2, <2>3
<1>7. ASSUME NEW c \in Carrying
      PROVE  Balance(e, c)' = Balance(e, c) /\ Balance(p, c)' = Balance(p, c)
  <2>1. /\ Flits(Messages(InTransit(e)'), c) = Flits(Messages(InTransit(e)), c) + FlitsOn(m, c)
        /\ Returned(InTransit(e)', c) = Returned(InTransit(e), c) + ReturnedOn(x, c)
        /\ InTransit(p)' = InTransit(p)
    BY <1>2, <1>3, SendSums DEF p
  <2>2. /\ credits[e][c] \in Nat /\ credits[p][c] \in Nat
        /\ tx_flow_credits[e][c] \in Nat /\ tx_flow_credits[p][c] \in Nat
        /\ Flits(tl_msg_buffer[e], c) \in Nat /\ Flits(tl_msg_buffer[p], c) \in Nat
        /\ Flits(Messages(InTransit(e)), c) \in Nat /\ Flits(Messages(InTransit(p)), c) \in Nat
        /\ Returned(InTransit(e), c) \in Nat /\ Returned(InTransit(p), c) \in Nat
    BY <1>1, TermTypes
  <2>3. FlitsOn(m, c) \in Nat /\ ReturnedOn(x, c) \in Nat
    BY <1>2, WeightFact
  <2>4. credits'[e][c] = credits[e][c] - FlitsOn(m, c) /\ credits'[p][c] = credits[p][c]
    BY DEF p
  <2>5. Balance(e, c)' = Balance(e, c)
    <3>1. Balance(e, c) = credits[e][c] + Flits(Messages(InTransit(e)), c)
              + Flits(tl_msg_buffer[p], c) + tx_flow_credits[p][c] + Returned(InTransit(p), c)
      BY DEF Balance, p
    <3>2. Balance(e, c)' = credits'[e][c] + Flits(Messages(InTransit(e)'), c)
              + Flits(tl_msg_buffer'[p], c) + tx_flow_credits'[p][c] + Returned(InTransit(p)', c)
      BY DEF Balance, p
    <3>3. Balance(e, c)' = (credits[e][c] - FlitsOn(m, c))
              + (Flits(Messages(InTransit(e)), c) + FlitsOn(m, c))
              + Flits(tl_msg_buffer[p], c) + tx_flow_credits[p][c] + Returned(InTransit(p), c)
      BY <1>3, <1>6, <2>1, <2>4, <3>2
    <3> DEFINE a == credits[e][c]
               b == Flits(Messages(InTransit(e)), c)
               q == Flits(tl_msg_buffer[p], c)
               d == tx_flow_credits[p][c]
               g == Returned(InTransit(p), c)
               r == FlitsOn(m, c)
    <3>4. a \in Nat /\ b \in Nat /\ q \in Nat /\ d \in Nat /\ g \in Nat /\ r \in Nat
      BY <2>2, <2>3
    <3>5. (a - r) + (b + r) + q + d + g = a + b + q + d + g
      <4> HIDE DEF a, b, q, d, g, r
      <4> QED BY <3>4
    <3> QED BY <3>1, <3>3, <3>5
  <2>6. Balance(p, c)' = Balance(p, c)
    <3>1. Balance(p, c) = credits[p][c] + Flits(Messages(InTransit(p)), c)
              + Flits(tl_msg_buffer[e], c) + tx_flow_credits[e][c] + Returned(InTransit(e), c)
      BY <1>1 DEF Balance
    <3>2. Balance(p, c)' = credits'[p][c] + Flits(Messages(InTransit(p)'), c)
              + Flits(tl_msg_buffer'[e], c) + tx_flow_credits'[e][c] + Returned(InTransit(e)', c)
      BY <1>1 DEF Balance
    <3>3. Balance(p, c)' = credits[p][c] + Flits(Messages(InTransit(p)), c)
              + Flits(tl_msg_buffer[e], c) + (tx_flow_credits[e][c] - ReturnedOn(x, c))
              + (Returned(InTransit(e), c) + ReturnedOn(x, c))
      BY <1>3, <1>6, <2>1, <2>4, <3>2
    <3> DEFINE a == credits[p][c]
               b == Flits(Messages(InTransit(p)), c)
               q == Flits(tl_msg_buffer[e], c)
               d == tx_flow_credits[e][c]
               g == Returned(InTransit(e), c)
               r == ReturnedOn(x, c)
    <3>4. a \in Nat /\ b \in Nat /\ q \in Nat /\ d \in Nat /\ g \in Nat /\ r \in Nat
      BY <2>2, <2>3
    <3>5. a + b + q + (d - r) + (g + r) = a + b + q + d + g
      <4> HIDE DEF a, b, q, d, g, r
      <4> QED BY <3>4
    <3> QED BY <3>1, <3>3, <3>5
  <2> QED BY <2>5, <2>6
<1> QED BY <1>3, <1>7 DEF KeepsCredit, p

\* fc_credit_dec takes the flits of the message from the sender's credit.
LEMMA MessageCredit ==
    ASSUME TypeInv, Ordered, AcceptedBound,
           NEW e \in Endpoint, NEW elapsed \in Elapsed(e), TX_Message(e, elapsed)
    PROVE  KeepsCredit(e)
<1> DEFINE m == Selected(e)
           n == tlmsg_get_flits_cnt(m)
<1>1. m \in TLMsg /\ SendNormalFrame(e, elapsed, m)
  BY SelectedType DEF TX_Message, TypeInv, TypeOK
<1>2. credits' = [credits EXCEPT ![e] = fc_credit_dec(credits[e], m)]
  BY DEF TX_Message
<1>3. credits \in [Endpoint -> [Channel -> Nat]]
  BY DEF TypeInv, TypeOK, CreditTypeOK
<1>4. m.chan \in Channel /\ n \in 1 .. 3
  BY <1>1, FlitsFact
<1>5. fc_credit_dec(credits[e], m) = [credits[e] EXCEPT ![m.chan] = credits[e][m.chan] - n]
  BY DEF fc_credit_dec
<1> HIDE DEF m
<1>6. credits'[Peer(e)] = credits[Peer(e)]
  BY <1>2, <1>3, PeerFact
<1>7. ASSUME NEW c \in Carrying
      PROVE  credits'[e][c] = credits[e][c] - FlitsOn(m, c)
  <2>1. FlitsOn(m, c) = IF m.chan = c THEN n ELSE 0
    BY DEF FlitsOn
  <2>2. c \in Channel /\ credits[e] \in [Channel -> Nat]
    BY <1>3 DEF Carrying, Channel
  <2> HIDE DEF n
  <2>3. credits'[e] = [credits[e] EXCEPT ![m.chan] = credits[e][m.chan] - n]
    BY <1>2, <1>3, <1>5
  <2>4. CASE m.chan = c
    BY <1>4, <2>1, <2>2, <2>3, <2>4
  <2>5. CASE m.chan # c
    BY <1>4, <2>1, <2>2, <2>3, <2>5
  <2> QED BY <2>4, <2>5
<1>8. m \in Msgs
  BY <1>1 DEF Msgs
<1> QED BY <1>1, <1>6, <1>7, <1>8, SendCredit

\* A zero-tlmsg frame costs no credit.
LEMMA ZeroCredit ==
    ASSUME TypeInv, Ordered, AcceptedBound,
           NEW e \in Endpoint, NEW elapsed \in Elapsed(e), TX_Zero(e, elapsed)
    PROVE  KeepsCredit(e)
<1>1. SendNormalFrame(e, elapsed, NULL) /\ credits' = credits /\ NULL \in Msgs
  BY DEF TX_Zero, Msgs
<1>2. \A c \in Carrying : credits[e][c] \in Nat /\ FlitsOn(NULL, c) = 0
  BY TermTypes, WeightFact
<1>3. \A c \in Carrying : credits'[e][c] = credits[e][c] - FlitsOn(NULL, c)
  BY <1>1, <1>2
<1> QED BY <1>1, <1>3, SendCredit
-------------------------------------------------------------------------------
\* The steps of the receiver.

\* fc_credit_inc gives the sender what the frame returns; its message joins
\* those that wait for tl_handler, unless the process ends.
LEMMA AcceptCredit ==
    ASSUME TypeInv, Ordered, AcceptedBound,
           NEW e \in Endpoint, fabric[e] # <<>>, Accept(e, Head(fabric[e])), BringsNext(e),
           tl_msg_buffer'[Peer(e)] = tl_msg_buffer[Peer(e)],
           exited'[Peer(e)] = exited[Peer(e)],
           exited'[e] = "no" =>
              /\ exited[e] = "no"
              /\ \A c \in Carrying : Flits(tl_msg_buffer'[e], c)
                    = Flits(tl_msg_buffer[e], c) + FlitsOn(Head(fabric[e]).tlmsg, c)
    PROVE  KeepsCredit(e)
<1> DEFINE p == Peer(e)
           f == Head(fabric[e])
           x == Payload(f)
<1>1. p \in Endpoint /\ Peer(p) = e /\ p # e
  BY PeerFact
<1>2. f \in Frame /\ x \in LogEntry /\ x.tlmsg = f.tlmsg /\ x.chan = f.chan /\ x.credit = f.credit
  <2>1. f \in Frame
    BY EndpointTypes
  <2> HIDE DEF f
  <2> QED BY <2>1, FrameFact DEF Payload
<1>3. /\ rxlog' = [rxlog EXCEPT ![e] = Append(rxlog[e], x)]
      /\ credits' = [credits EXCEPT ![e] = fc_credit_inc(credits[e], f.chan, f.credit)]
      /\ txlog' = txlog /\ tx_flow_credits' = tx_flow_credits
      /\ f.type # TYPE_ACKONLY /\ tloe_rx_get_req_type(e, f) = REQ_NORMAL
  BY DEF Accept, RXCommon
<1>4. Len(rxlog[e]) + 1 <= Len(txlog[p]) /\ x = txlog[p][Len(rxlog[e]) + 1]
  BY DEF BringsNext
<1>5. credits \in [Endpoint -> [Channel -> Nat]]
  BY DEF TypeInv, TypeOK, CreditTypeOK
<1> HIDE DEF p, f, x
<1>6. ASSUME NEW c \in Carrying
      PROVE  /\ credits'[e][c] = credits[e][c] + ReturnedOn(x, c)
             /\ credits'[p] = credits[p]
  <2>1. c \in Channel /\ c # CHANNEL_0
    BY DEF Carrying, Channel, CHANNEL_NUM, CHANNEL_0
  <2>2. CASE f.chan = CHANNEL_0
    <3>1. ReturnedOn(x, c) = 0 /\ credits'[e] = credits[e] /\ credits'[p] = credits[p]
      BY <1>1, <1>2, <1>3, <1>5, <2>1, <2>2 DEF ReturnedOn, fc_credit_inc
    <3> QED BY <1>5, <2>1, <3>1
  <2>3. CASE f.chan # CHANNEL_0
    <3>1. credits'[e] = [credits[e] EXCEPT ![f.chan] = credits[e][f.chan] + 2^f.credit]
      BY <1>3, <1>5, <2>3 DEF fc_credit_inc
    <3>2. credits'[p] = credits[p]
      BY <1>1, <1>3, <1>5
    <3>3. credits[e] \in [Channel -> Nat] /\ credits[e][c] \in Nat
      BY <1>5, <2>1
    <3>4. CASE f.chan = c
      BY <1>2, <2>1, <3>1, <3>2, <3>3, <3>4 DEF ReturnedOn
    <3>5. CASE f.chan # c
      BY <1>2, <2>1, <3>1, <3>2, <3>3, <3>5 DEF ReturnedOn
    <3> QED BY <3>4, <3>5
  <2> QED BY <2>2, <2>3
<1>7. ASSUME NEW c \in Carrying
      PROVE  /\ Balance(e, c)' = Balance(e, c)
             /\ exited'[e] = "no" => Balance(p, c)' = Balance(p, c)
  <2> DEFINE flits == Flits(Messages(InTransit(p)'), c)
             back == Returned(InTransit(p)', c)
  <2>1. /\ flits \in Nat
        /\ Flits(Messages(InTransit(p)), c) = flits + FlitsOn(x.tlmsg, c)
        /\ back \in Nat
        /\ Returned(InTransit(p), c) = back + ReturnedOn(x, c)
        /\ InTransit(e)' = InTransit(e)
    BY <1>2, <1>3, <1>4, AcceptSums DEF p
  <2>2. /\ credits[e][c] \in Nat /\ credits[p][c] \in Nat
        /\ tx_flow_credits[e][c] \in Nat /\ tx_flow_credits[p][c] \in Nat
        /\ Flits(tl_msg_buffer[e], c) \in Nat /\ Flits(tl_msg_buffer[p], c) \in Nat
        /\ Flits(Messages(InTransit(e)), c) \in Nat /\ Returned(InTransit(e), c) \in Nat
    BY <1>1, TermTypes
  <2>3. FlitsOn(x.tlmsg, c) \in Nat /\ ReturnedOn(x, c) \in Nat
    <3>1. x.tlmsg \in Msgs
      BY <1>2 DEF LogEntry, Msgs
    <3> QED BY <1>2, <3>1, WeightFact
  <2>4. Balance(e, c)' = Balance(e, c)
    <3>1. Balance(e, c) = credits[e][c] + Flits(Messages(InTransit(e)), c)
              + Flits(tl_msg_buffer[p], c) + tx_flow_credits[p][c] + Returned(InTransit(p), c)
      BY DEF Balance, p
    <3>2. Balance(e, c)' = credits'[e][c] + Flits(Messages(InTransit(e)'), c)
              + Flits(tl_msg_buffer'[p], c) + tx_flow_credits'[p][c] + back
      BY DEF Balance, p
    <3> HIDE DEF flits, back
    <3>3. Balance(e, c)' = (credits[e][c] + ReturnedOn(x, c)) + Flits(Messages(InTransit(e)), c)
              + Flits(tl_msg_buffer[p], c) + tx_flow_credits[p][c] + back
      BY <1>3, <1>6, <2>1, <3>2 DEF p
    <3>4. Balance(e, c) = credits[e][c] + Flits(Messages(InTransit(e)), c)
              + Flits(tl_msg_buffer[p], c) + tx_flow_credits[p][c] + (back + ReturnedOn(x, c))
      BY <2>1, <3>1
    <3>5. back \in Nat
      BY <2>1
    <3> DEFINE a == credits[e][c]
               b == Flits(Messages(InTransit(e)), c)
               q == Flits(tl_msg_buffer[p], c)
               d == tx_flow_credits[p][c]
               g == back
               r == ReturnedOn(x, c)
    <3>6. a \in Nat /\ b \in Nat /\ q \in Nat /\ d \in Nat /\ g \in Nat /\ r \in Nat
      BY <2>2, <2>3, <3>5
    <3>7. (a + r) + b + q + d + g = a + b + q + d + (g + r)
      <4> HIDE DEF a, b, q, d, g, r
      <4> QED BY <3>6
    <3> QED BY <3>3, <3>4, <3>7
  <2>5. ASSUME exited'[e] = "no" PROVE Balance(p, c)' = Balance(p, c)
    <3>1. Balance(p, c) = credits[p][c] + Flits(Messages(InTransit(p)), c)
              + Flits(tl_msg_buffer[e], c) + tx_flow_credits[e][c] + Returned(InTransit(e), c)
      BY <1>1 DEF Balance
    <3>2. Balance(p, c)' = credits'[p][c] + flits
              + Flits(tl_msg_buffer'[e], c) + tx_flow_credits'[e][c] + Returned(InTransit(e)', c)
      BY <1>1 DEF Balance
    <3>3. Flits(tl_msg_buffer'[e], c) = Flits(tl_msg_buffer[e], c) + FlitsOn(x.tlmsg, c)
      BY <1>2, <2>5 DEF f
    <3> HIDE DEF flits, back
    <3>4. Balance(p, c)' = credits[p][c] + flits
              + (Flits(tl_msg_buffer[e], c) + FlitsOn(x.tlmsg, c)) + tx_flow_credits[e][c]
              + Returned(InTransit(e), c)
      BY <1>3, <1>6, <2>1, <3>2, <3>3
    <3>5. Balance(p, c) = credits[p][c] + (flits + FlitsOn(x.tlmsg, c))
              + Flits(tl_msg_buffer[e], c) + tx_flow_credits[e][c] + Returned(InTransit(e), c)
      BY <2>1, <3>1
    <3>6. flits \in Nat
      BY <2>1
    <3> DEFINE a == credits[p][c]
               b == flits
               q == Flits(tl_msg_buffer[e], c)
               d == tx_flow_credits[e][c]
               g == Returned(InTransit(e), c)
               r == FlitsOn(x.tlmsg, c)
    <3>7. a \in Nat /\ b \in Nat /\ q \in Nat /\ d \in Nat /\ g \in Nat /\ r \in Nat
      BY <2>2, <2>3, <3>6
    <3>8. a + b + (q + r) + d + g = a + (b + r) + q + d + g
      <4> HIDE DEF a, b, q, d, g, r
      <4> QED BY <3>7
    <3> QED BY <3>4, <3>5, <3>8
  <2> QED BY <2>4, <2>5
<1> QED BY <1>7 DEF KeepsCredit, p

\* A message that is accepted waits for tl_handler.
LEMMA NormalRXCredit ==
    ASSUME TypeInv, Ordered, AcceptedBound,
           NEW e \in Endpoint, fabric[e] # <<>>, serve_normal_request(e, Head(fabric[e])),
           BringsNext(e)
    PROVE  KeepsCredit(e)
<1> DEFINE m == Head(fabric[e]).tlmsg
<1>1. Accept(e, Head(fabric[e])) /\ exited[e] = "no"
  BY DEF serve_normal_request, Accept, RXCommon, At
<1>2. m \in Msgs
  <2>1. Head(fabric[e]) \in Frame
    BY EndpointTypes
  <2> QED BY <2>1, FrameFact DEF Msgs
<1>3. /\ tl_msg_buffer \in [Endpoint -> Seq(TLMsg)]
      /\ exited \in [Endpoint -> {"no", "tl_msg_buffer", "ack_buffer", "bounds"}]
      /\ e # Peer(e)
  BY PeerFact DEF TypeInv, TypeOK, LoopTypeOK
<1>4. CASE IsFull(tl_msg_buffer[e], TL_MSG_BUF)
  <2>1. tl_msg_buffer' = tl_msg_buffer /\ exited' = [exited EXCEPT ![e] = "tl_msg_buffer"]
    BY <1>4 DEF serve_normal_request
  <2>2. exited'[e] # "no" /\ exited'[Peer(e)] = exited[Peer(e)]
    BY <1>3, <2>1
  <2> QED BY <1>1, <2>1, <2>2, AcceptCredit
<1>5. CASE ~IsFull(tl_msg_buffer[e], TL_MSG_BUF)
  <2>1. /\ tl_msg_buffer' = [tl_msg_buffer EXCEPT ![e] = Append(tl_msg_buffer[e], m)]
        /\ exited' = exited
    BY <1>5 DEF serve_normal_request
  <2> HIDE DEF m
  <2>2. /\ tl_msg_buffer'[e] = Append(tl_msg_buffer[e], m)
        /\ tl_msg_buffer'[Peer(e)] = tl_msg_buffer[Peer(e)]
    BY <1>3, <2>1
  <2>3. ASSUME NEW c \in Carrying
        PROVE  Flits(tl_msg_buffer'[e], c) = Flits(tl_msg_buffer[e], c) + FlitsOn(m, c)
    <3>1. tl_msg_buffer[e] \in Seq(Msgs)
      BY TermTypes
    <3> QED BY <1>2, <2>2, <3>1, FlitsAppend
  <2> QED BY <1>1, <2>1, <2>2, <2>3, AcceptCredit DEF m
<1> QED BY <1>4, <1>5

\* A zero-tlmsg frame has no flits.
LEMMA ZeroRXCredit ==
    ASSUME TypeInv, Ordered, AcceptedBound,
           NEW e \in Endpoint, fabric[e] # <<>>, serve_zero_tlmsg_request(e, Head(fabric[e])),
           BringsNext(e)
    PROVE  KeepsCredit(e)
<1>1. /\ Accept(e, Head(fabric[e])) /\ Head(fabric[e]).tlmsg = NULL
      /\ tl_msg_buffer' = tl_msg_buffer /\ exited' = exited
  BY DEF serve_zero_tlmsg_request
<1>2. \A c \in Carrying : Flits(tl_msg_buffer[e], c) \in Nat /\ FlitsOn(NULL, c) = 0
  BY TermTypes, WeightFact
<1>3. \A c \in Carrying : Flits(tl_msg_buffer'[e], c)
          = Flits(tl_msg_buffer[e], c) + FlitsOn(Head(fabric[e]).tlmsg, c)
  BY <1>1, <1>2
<1> QED BY <1>1, <1>3, AcceptCredit

\* A duplicate and a frame out of sequence return nothing and are not queued.
LEMMA RefusedCredit ==
    ASSUME TypeInv, NEW e \in Endpoint, NEW f, NEW entry,
           RXCommon(e, f), QueueAck(e, entry)
    PROVE  KeepsCredit(e)
<1>1. UNCHANGED <<credits, txlog, rxlog, tl_msg_buffer, tx_flow_credits>>
  BY DEF RXCommon, QueueAck
<1>2. exited \in [Endpoint -> {"no", "tl_msg_buffer", "ack_buffer", "bounds"}] /\ exited[e] = "no"
  BY DEF TypeInv, TypeOK, LoopTypeOK, RXCommon, At
<1>3. exited' = exited \/ exited' = [exited EXCEPT ![e] = "ack_buffer"]
  BY DEF QueueAck
<1>4. exited'[Peer(e)] = exited[Peer(e)]
  BY <1>2, <1>3, PeerFact
<1> QED BY <1>1, <1>2, <1>4, NothingMoves
-------------------------------------------------------------------------------
\* The TileLink handler, and the invariant.

\* A message that is handled leaves its flits to be returned.
LEMMA HandleCredit ==
    ASSUME TypeInv, Ordered, AcceptedBound,
           NEW e \in Endpoint, tl_msg_buffer[e] # <<>>, TLCommon(e, Head(tl_msg_buffer[e])),
           exited'[e] = "no" => exited[e] = "no",
           exited'[Peer(e)] = exited[Peer(e)]
    PROVE  KeepsCredit(e)
<1> DEFINE p == Peer(e)
           m == Head(tl_msg_buffer[e])
           n == tlmsg_get_flits_cnt(m)
           queue == Tail(tl_msg_buffer[e])
<1>1. p \in Endpoint /\ Peer(p) = e /\ p # e
  BY PeerFact
<1>2. /\ tl_msg_buffer' = [tl_msg_buffer EXCEPT ![e] = queue]
      /\ tx_flow_credits' = [tx_flow_credits EXCEPT
              ![e] = add_channel_flow_credits(tx_flow_credits[e], m.chan, n)]
      /\ credits' = credits /\ txlog' = txlog /\ rxlog' = rxlog
  BY DEF TLCommon, linkVars
<1>3. /\ tl_msg_buffer \in [Endpoint -> Seq(TLMsg)]
      /\ tx_flow_credits \in [Endpoint -> [Channel -> Nat]]
  BY DEF TypeInv, TypeOK, LoopTypeOK, CreditTypeOK
<1>4. m \in TLMsg /\ m = tl_msg_buffer[e][1]
  <2>1. tl_msg_buffer[e] \in Seq(TLMsg)
    BY <1>3
  <2> QED BY <2>1
<1>5. m.chan \in Channel /\ n \in 1 .. 3
  BY <1>4, FlitsFact
<1>6. /\ tl_msg_buffer'[e] = queue /\ tl_msg_buffer'[p] = tl_msg_buffer[p]
      /\ tx_flow_credits'[p] = tx_flow_credits[p]
      /\ tx_flow_credits'[e] = [tx_flow_credits[e] EXCEPT ![m.chan] = tx_flow_credits[e][m.chan] + n]
  <2> HIDE DEF queue, n, m, p
  <2> QED BY <1>1, <1>2, <1>3 DEF add_channel_flow_credits
<1>7. InTransit(e)' = InTransit(e) /\ InTransit(p)' = InTransit(p)
  BY <1>2 DEF InTransit
<1> HIDE DEF p
<1>8. ASSUME NEW c \in Carrying
      PROVE  Balance(e, c)' = Balance(e, c) /\ Balance(p, c)' = Balance(p, c)
  <2> DEFINE flits == Flits(queue, c)
  <2>1. c \in Channel /\ tx_flow_credits[e] \in [Channel -> Nat]
    BY <1>3 DEF Carrying, Channel
  <2>2. FlitsOn(m, c) = IF m.chan = c THEN n ELSE 0
    BY DEF FlitsOn
  <2>3. /\ flits \in Nat /\ FlitsOn(m, c) \in Nat
        /\ Flits(tl_msg_buffer[e], c) = FlitsOn(m, c) + flits
    <3>1. tl_msg_buffer[e] \in Seq(Msgs)
      BY TermTypes
    <3> HIDE DEF m
    <3> QED BY <1>4, <3>1, FlitsTail
  <2>4. tx_flow_credits'[e][c] = tx_flow_credits[e][c] + FlitsOn(m, c)
    <3> HIDE DEF m, n
    <3>1. CASE m.chan = c
      BY <1>5, <1>6, <2>1, <2>2, <3>1
    <3>2. CASE m.chan # c
      BY <1>5, <1>6, <2>1, <2>2, <3>2
    <3> QED BY <3>1, <3>2
  <2>5. Balance(e, c)' = Balance(e, c)
    BY <1>2, <1>6, <1>7 DEF Balance, p
  <2>6. Balance(p, c)' = Balance(p, c)
    <3>1. Balance(p, c) = credits[p][c] + Flits(Messages(InTransit(p)), c)
              + Flits(tl_msg_buffer[e], c) + tx_flow_credits[e][c] + Returned(InTransit(e), c)
      BY <1>1 DEF Balance
    <3>2. Balance(p, c)' = credits'[p][c] + Flits(Messages(InTransit(p)'), c)
              + Flits(tl_msg_buffer'[e], c) + tx_flow_credits'[e][c] + Returned(InTransit(e)', c)
      BY <1>1 DEF Balance
    <3>3. /\ credits[p][c] \in Nat /\ tx_flow_credits[e][c] \in Nat
          /\ Flits(Messages(InTransit(p)), c) \in Nat /\ Returned(InTransit(e), c) \in Nat
      BY <1>1, TermTypes
    <3> HIDE DEF m, n
    <3>4. Balance(p, c)' = credits[p][c] + Flits(Messages(InTransit(p)), c)
              + flits + (tx_flow_credits[e][c] + FlitsOn(m, c)) + Returned(InTransit(e), c)
      BY <1>2, <1>6, <1>7, <2>4, <3>2
    <3> HIDE DEF flits, queue
    <3>5. Balance(p, c) = credits[p][c] + Flits(Messages(InTransit(p)), c)
              + (FlitsOn(m, c) + flits) + tx_flow_credits[e][c] + Returned(InTransit(e), c)
      BY <2>3, <3>1
    <3> DEFINE a == credits[p][c]
               b == Flits(Messages(InTransit(p)), c)
               q == flits
               d == tx_flow_credits[e][c]
               g == Returned(InTransit(e), c)
               r == FlitsOn(m, c)
    <3>6. a \in Nat /\ b \in Nat /\ q \in Nat /\ d \in Nat /\ g \in Nat /\ r \in Nat
      BY <2>3, <3>3 DEF flits, queue, m
    <3>7. a + b + q + (d + r) + g = a + b + (r + q) + d + g
      <4> HIDE DEF a, b, q, d, g, r
      <4> QED BY <3>6
    <3> QED BY <3>4, <3>5, <3>7
  <2> QED BY <2>5, <2>6
<1> QED BY <1>8 DEF KeepsCredit, p

\* At first all the credit is with the senders.
LEMMA InitCredit == Init => CreditConservation
<1> SUFFICES ASSUME Init, NEW e \in Endpoint, NEW c \in Carrying
             PROVE  Balance(e, c) = 2^CREDIT_DEFAULT
  BY DEF CreditConservation
<1> DEFINE p == Peer(e)
           grant == 2^CREDIT_DEFAULT
<1>1. p \in Endpoint /\ Peer(p) = e /\ c \in Channel
  BY PeerFact DEF Carrying, Channel
<1>2. grant \in Nat
  BY SizeAssumption, PowFact
<1>3. /\ credits[e][c] = grant /\ tx_flow_credits[p][c] = 0 /\ tl_msg_buffer[p] = <<>>
      /\ txlog[e] = <<>> /\ rxlog[e] = <<>> /\ txlog[p] = <<>> /\ rxlog[p] = <<>>
  BY <1>1 DEF Init, Fresh
<1> HIDE DEF p, grant
<1>4. InTransit(e) = <<>> /\ InTransit(p) = <<>>
  BY <1>1, <1>3 DEF InTransit, p
<1>5. Balance(e, c) = grant + Flits(Messages(<<>>), c) + Flits(<<>>, c) + 0 + Returned(<<>>, c)
  BY <1>1, <1>3, <1>4 DEF Balance, p
<1>6. Balance(e, c) = grant + 0 + 0 + 0 + 0
  BY <1>5, EmptySums
<1> QED BY <1>2, <1>6 DEF grant

\* A pass of TX keeps the balances.
LEMMA TXCredit ==
    ASSUME TypeInv, Ordered, AcceptedBound, NEW e \in Endpoint, TX(e)
    PROVE  KeepsCredit(e)
<1>1. PICK elapsed \in Elapsed(e) :
        TX_Hold(e, elapsed) \/ TX_Message(e, elapsed) \/ TX_Zero(e, elapsed)
  BY DEF TX
<1>2. CASE TX_Hold(e, elapsed)
  BY <1>2, NothingMoves DEF TX_Hold, TXCommon, fcVars
<1> QED BY <1>1, <1>2, MessageCredit, ZeroCredit

\* So does RX, when the frame it accepts carries the next payload.
LEMMA RXCredit ==
    ASSUME TypeInv, Ordered, AcceptedBound, NEW e \in Endpoint, RX(e),
           fabric[e] # <<>> /\ Accept(e, Head(fabric[e])) => BringsNext(e)
    PROVE  KeepsCredit(e)
<1>1. CASE RX_Idle(e)
  BY <1>1, NothingMoves DEF RX_Idle, linkVars, fcVars, tlVars
<1>2. CASE fabric[e] # <<>> /\ RX_Ackonly(e, Head(fabric[e]))
  BY <1>2, NothingMoves DEF RX_Ackonly, RXCommon
<1>3. CASE fabric[e] # <<>> /\ serve_normal_request(e, Head(fabric[e]))
  BY <1>3, NormalRXCredit DEF serve_normal_request
<1>4. CASE fabric[e] # <<>> /\ serve_zero_tlmsg_request(e, Head(fabric[e]))
  BY <1>4, ZeroRXCredit DEF serve_zero_tlmsg_request
<1>5. CASE fabric[e] # <<>> /\ serve_duplicate_request(e, Head(fabric[e]))
  BY <1>5, RefusedCredit DEF serve_duplicate_request
<1>6. CASE fabric[e] # <<>> /\ serve_oos_request(e, Head(fabric[e]))
  BY <1>6, RefusedCredit DEF serve_oos_request
<1> QED BY <1>1, <1>2, <1>3, <1>4, <1>5, <1>6 DEF RX

\* And tl_handler with the booking after it.
LEMMA HandlerCredit ==
    ASSUME TypeInv, Ordered, AcceptedBound, NEW e \in Endpoint, tl_handler(e)
    PROVE  KeepsCredit(e)
<1> DEFINE m == Head(tl_msg_buffer[e])
<1>1. CASE TL_Skip(e)
  BY <1>1, NothingMoves DEF TL_Skip, linkVars, fcVars, tlVars
<1>2. CASE ~TL_Skip(e)
  <2>1. /\ tl_msg_buffer[e] # <<>>
        /\ \/ handle_A_PUTFULLDATA_opcode(e, m)
           \/ handle_A_GET_opcode(e, m)
           \/ handle_D_opcode(e, m)
    BY <1>2 DEF tl_handler
  <2>2. TLCommon(e, m) /\ (exited' = exited \/ exited' = [exited EXCEPT ![e] = "bounds"])
    BY <2>1 DEF handle_A_PUTFULLDATA_opcode, handle_A_GET_opcode, handle_D_opcode
  <2>3. exited \in [Endpoint -> {"no", "tl_msg_buffer", "ack_buffer", "bounds"}] /\ exited[e] = "no"
    BY <2>2 DEF TypeInv, TypeOK, LoopTypeOK, TLCommon, At
  <2>4. exited'[Peer(e)] = exited[Peer(e)]
    BY <2>2, <2>3, PeerFact
  <2> QED BY <2>1, <2>2, <2>3, <2>4, HandleCredit
<1> QED BY <1>1, <1>2

\* On the link of TloeEndpoint what is accepted is the next payload.
LEMMA LinkBringsNext ==
    ASSUME LinkInv, NEW e \in Endpoint, fabric[e] # <<>>, Accept(e, Head(fabric[e]))
    PROVE  BringsNext(e)
<1> DEFINE p == Peer(e)
           f == Head(fabric[e])
<1>1. f.type # TYPE_ACKONLY /\ tloe_rx_get_req_type(e, f) = REQ_NORMAL
  BY DEF Accept
<1>2. PICK n \in 1 .. Len(txlog[p]) : Payload(f) = txlog[p][n] /\ n - 1 = Len(rxlog[e])
  BY <1>1, ArrivedFacts
<1>3. Len(rxlog[e]) \in Nat /\ Len(txlog[p]) \in Nat
  BY PeerFact, LinkLen
<1>4. n = Len(rxlog[e]) + 1
  BY <1>2, <1>3
<1> QED BY <1>2, <1>3, <1>4 DEF BringsNext

\* Every step conserves the credit.
LEMMA NextCredit == TypeInv /\ LinkInv /\ CreditConservation /\ [Next]_vars => CreditConservation'
<1> SUFFICES ASSUME TypeInv, LinkInv, CreditConservation, [Next]_vars PROVE CreditConservation'
  OBVIOUS
<1>0. Ordered /\ AcceptedBound
  BY LinkOrdered, LinkBound
<1>1. CASE UNCHANGED vars
  <2>1. KeepsCredit("master") /\ "master" \in Endpoint
    BY <1>1, NothingMoves DEF vars, linkVars, fcVars, tlVars, Endpoint
  <2> QED BY <2>1, CreditKept
<1>2. ASSUME NEW e \in Endpoint, Thread(e)
      PROVE  CreditConservation'
  <2>1. KeepsCredit(e)
    BY <1>0, <1>2, TXCredit, RXCredit, HandlerCredit, LinkBringsNext DEF Thread
  <2> QED BY <2>1, CreditKept
<1>3. ASSUME NEW e \in Endpoint, User(e)
      PROVE  CreditConservation'
  <2>1. PICK m : Submit(e, m)
    BY <1>3 DEF User, read_memory, write_memory, create_and_enqueue_message
  <2>2. KeepsCredit(e)
    BY <2>1, NothingMoves DEF Submit, linkVars, fcVars, tlVars
  <2> QED BY <2>2, CreditKept
<1>4. ASSUME NEW e \in Endpoint, Lose(e)
      PROVE  CreditConservation'
  <2>1. KeepsCredit(e)
    BY <1>4, NothingMoves DEF Lose, linkVars, fcVars, tlVars
  <2> QED BY <2>1, CreditKept
<1> QED BY <1>1, <1>2, <1>3, <1>4 DEF Next

\* Credit is neither lost nor invented, whatever the fabric loses and however
\* often TX sends a frame again: a flit is paid for once, waits once for
\* tl_handler, and is returned once (fc_credit_dec, fc_credit_inc,
\* add_channel_flow_credits, get_outgoing_credits).
THEOREM CreditConserved == Spec => []CreditConservation
<1>1. Init => TypeInv /\ CreditConservation
  BY InitType, InitCredit
<1>2. TypeInv /\ LinkInv /\ [Next]_vars => TypeInv'
  BY NextType, LinkBound
<1>3. TypeInv /\ LinkInv /\ CreditConservation /\ [Next]_vars => CreditConservation'
  BY NextCredit
<1> QED BY <1>1, <1>2, <1>3, LinkInvariant, PTL DEF Spec

-------------------------------------------------------------------------------
\* Counting the messages of a channel.

LEMMA RankFact ==
    ASSUME NEW s, NEW c, NEW n \in Nat
    PROVE  /\ Rank(s, c, n) \in Nat
           /\ Rank(s, c, 0) = 0
           /\ Rank(s, c, n + 1) = Rank(s, c, n) + One(s[n + 1], c)
<1> DEFINE S(k) == {i \in 1 .. k : s[i].chan = c}
<1>1. IsFiniteSet(S(n)) /\ Cardinality(S(n)) \in Nat
  <2>1. IsFiniteSet(1 .. n) /\ S(n) \subseteq 1 .. n
    BY FS_Interval
  <2> HIDE DEF S
  <2> QED BY <2>1, FS_Subset, FS_CardinalityType
<1>2. Cardinality(S(0)) = 0
  <2>1. S(0) = {}
    OBVIOUS
  <2> HIDE DEF S
  <2> QED BY <2>1, FS_EmptySet
<1>3. CASE s[n + 1].chan = c
  <2>1. S(n + 1) = S(n) \cup {n + 1} /\ n + 1 \notin S(n)
    BY <1>3
  <2> HIDE DEF S
  <2>2. Cardinality(S(n + 1)) = Cardinality(S(n)) + 1
    BY <1>1, <2>1, FS_AddElement
  <2> QED BY <1>1, <1>2, <1>3, <2>2 DEF Rank, One, S
<1>4. CASE s[n + 1].chan # c
  <2>1. S(n + 1) = S(n)
    BY <1>4
  <2> HIDE DEF S
  <2>2. Cardinality(S(n + 1)) = Cardinality(S(n)) + 0
    BY <1>1, <2>1
  <2> QED BY <1>1, <1>2, <1>4, <2>2 DEF Rank, One, S
<1> QED BY <1>3, <1>4

\* Only the first n messages count.
LEMMA RankSame ==
    ASSUME NEW s, NEW t, NEW c, NEW n \in Nat, \A i \in 1 .. n : s[i] = t[i]
    PROVE  Rank(s, c, n) = Rank(t, c, n)
<1>1. {i \in 1 .. n : s[i].chan = c} = {i \in 1 .. n : t[i].chan = c}
  OBVIOUS
<1> QED BY <1>1 DEF Rank

\* The count behind the first message.
LEMMA RankTail ==
    ASSUME NEW S, NEW s \in Seq(S), s # <<>>, NEW c, NEW n \in 0 .. Len(s) - 1
    PROVE  Rank(s, c, n + 1) = One(s[1], c) + Rank(Tail(s), c, n)
<1> DEFINE R == {i \in 1 .. n : Tail(s)[i].chan = c}
           T == {i \in 1 .. n + 1 : s[i].chan = c}
           rest == T \ {1}
           f == [i \in R |-> i + 1]
<1>1. n \in Nat /\ \A i \in 1 .. n : Tail(s)[i] = s[i + 1]
  OBVIOUS
<1>2. IsFiniteSet(R) /\ IsFiniteSet(T)
  <2>1. IsFiniteSet(1 .. n) /\ IsFiniteSet(1 .. n + 1)
    BY <1>1, FS_Interval
  <2>2. R \subseteq 1 .. n /\ T \subseteq 1 .. n + 1
    OBVIOUS
  <2> HIDE DEF R, T
  <2> QED BY <2>1, <2>2, FS_Subset
<1>3. f \in Bijection(R, rest)
  <2>1. f \in [R -> rest]
    BY <1>1
  <2>2. \A i, j \in R : f[i] = f[j] => i = j
    OBVIOUS
  <2>3. \A k \in rest : \E i \in R : f[i] = k
    <3> SUFFICES ASSUME NEW k \in rest PROVE k - 1 \in R /\ (k - 1) + 1 = k
      OBVIOUS
    <3>1. k - 1 \in 1 .. n /\ (k - 1) + 1 = k
      BY <1>1
    <3> QED BY <1>1, <3>1
  <2> QED BY <2>1, <2>2, <2>3 DEF Bijection, Injection, Surjection, IsInjective
<1>4. Cardinality(rest) = Cardinality(R) /\ Cardinality(R) \in Nat
  <2> HIDE DEF R, rest, f
  <2>1. ExistsBijection(R, rest)
    BY <1>3 DEF ExistsBijection
  <2> QED BY <1>2, <2>1, FS_Bijection, FS_CardinalityType
<1>5. CASE s[1].chan = c
  <2>1. 1 \in T
    BY <1>1, <1>5
  <2> HIDE DEF R, T
  <2>2. Cardinality(rest) = Cardinality(T) - 1 /\ Cardinality(T) \in Nat
    BY <1>2, <2>1, FS_RemoveElement, FS_CardinalityType
  <2>3. Cardinality(T) = 1 + Cardinality(R)
    BY <1>4, <2>2
  <2> QED BY <1>5, <2>3 DEF Rank, One, R, T
<1>6. CASE s[1].chan # c
  <2>1. rest = T
    BY <1>6
  <2> HIDE DEF R, T, rest
  <2>2. Cardinality(T) = 0 + Cardinality(R)
    BY <1>4, <2>1
  <2> QED BY <1>6, <2>2 DEF Rank, One, R, T
<1> QED BY <1>5, <1>6

\* A message at the end of a sequence is counted last.
LEMMA RankAppend ==
    ASSUME NEW S, NEW s \in Seq(S), NEW x \in S, NEW c
    PROVE  /\ \A n \in 0 .. Len(s) : Rank(Append(s, x), c, n) = Rank(s, c, n)
           /\ Rank(Append(s, x), c, Len(s) + 1) = Rank(s, c, Len(s)) + One(x, c)
<1>1. /\ Len(s) \in Nat /\ Append(s, x)[Len(s) + 1] = x
      /\ \A i \in 1 .. Len(s) : Append(s, x)[i] = s[i]
  OBVIOUS
<1>2. ASSUME NEW n \in 0 .. Len(s) PROVE Rank(Append(s, x), c, n) = Rank(s, c, n)
  <2>1. n \in Nat /\ \A i \in 1 .. n : Append(s, x)[i] = s[i]
    BY <1>1
  <2> QED BY <2>1, RankSame
<1>3. Rank(Append(s, x), c, Len(s) + 1)
        = Rank(Append(s, x), c, Len(s)) + One(Append(s, x)[Len(s) + 1], c)
  BY <1>1, RankFact
<1>4. Rank(Append(s, x), c, Len(s)) = Rank(s, c, Len(s))
  BY <1>1, <1>2
<1> QED BY <1>1, <1>2, <1>3, <1>4

\* A channel that carries messages has a count for each message, none for NULL.
LEMMA OneFact ==
    ASSUME NEW c \in Both
    PROVE  /\ One(NULL, c) = 0
           /\ c # NULL.chan
           /\ \A m : One(m, c) \in {0, 1} /\ (m.chan = c <=> One(m, c) = 1)
BY DEF One, NULL, CHANNEL_0, Both, CHANNEL_A, CHANNEL_D
-------------------------------------------------------------------------------
\* From the queue to the link.

\* The loop takes the first message of the queue.
LEMMA LinedTake ==
    ASSUME NEW msgs \in Seq(Msgs), NEW queue \in Seq(Msgs), NEW ref, NEW c \in Both,
           queue # <<>>, queue[1].chan = c, Lined(msgs, NULL, queue, ref, c)
    PROVE  /\ Lined(msgs, queue[1], Tail(queue), ref, c)
           /\ Taken(msgs, queue[1], c) = Taken(msgs, NULL, c) + 1
<1> DEFINE r == Rank(msgs, c, Len(msgs))
<1>1. r \in Nat
  <2>1. Len(msgs) \in Nat
    OBVIOUS
  <2> QED BY <2>1, RankFact
<1>2. Taken(msgs, NULL, c) = r /\ Taken(msgs, queue[1], c) = r + 1
  BY <1>1, OneFact DEF Taken, One
<1>3. /\ Len(queue) \in Nat \ {0} /\ Len(Tail(queue)) = Len(queue) - 1
      /\ \A i \in 1 .. Len(queue) - 1 : Tail(queue)[i] = queue[i + 1]
  OBVIOUS
<1> HIDE DEF r
<1>4. \A i \in 1 .. Len(queue) : Nth(ref, r + i, queue[i])
  BY <1>2 DEF Lined
<1>5. Nth(ref, r + 1, queue[1])
  BY <1>3, <1>4
<1>6. ASSUME NEW i \in 1 .. Len(queue) - 1
      PROVE  Nth(ref, (r + 1) + i, Tail(queue)[i])
  <2>1. i + 1 \in 1 .. Len(queue) /\ r + (i + 1) = (r + 1) + i
    BY <1>1, <1>3
  <2>2. Nth(ref, r + (i + 1), queue[i + 1])
    BY <1>4, <2>1
  <2> QED BY <1>3, <2>1, <2>2
<1>7. \A j \in 1 .. Len(msgs) : msgs[j].chan = c => Nth(ref, Rank(msgs, c, j), msgs[j])
  BY DEF Lined
<1> QED BY <1>1, <1>2, <1>3, <1>5, <1>6, <1>7 DEF Lined, r

\* It takes one of another channel.
LEMMA LinedOther ==
    ASSUME NEW msgs \in Seq(Msgs), NEW queue \in Seq(Msgs), NEW ref, NEW c \in Both,
           NEW m, m.chan # c, Lined(msgs, NULL, queue, ref, c)
    PROVE  /\ Lined(msgs, m, queue, ref, c)
           /\ Taken(msgs, m, c) = Taken(msgs, NULL, c)
<1>1. Taken(msgs, m, c) = Taken(msgs, NULL, c)
  BY OneFact DEF Taken, One
<1> QED BY <1>1 DEF Lined

\* TX numbers the message the loop holds.
LEMMA LinedSend ==
    ASSUME NEW msgs \in Seq(Msgs), NEW queue \in Seq(Msgs), NEW ref, NEW c \in Both,
           NEW m \in Msgs, Lined(msgs, m, queue, ref, c)
    PROVE  /\ Lined(Append(msgs, m), NULL, queue, ref, c)
           /\ Taken(Append(msgs, m), NULL, c) = Taken(msgs, m, c)
<1> DEFINE n == Len(msgs)
           r == Rank(msgs, c, n)
           more == Append(msgs, m)
<1>1. /\ n \in Nat /\ Len(more) = n + 1 /\ more[n + 1] = m
      /\ \A j \in 1 .. n : more[j] = msgs[j]
  OBVIOUS
<1>2. /\ \A j \in 1 .. n : Rank(more, c, j) = Rank(msgs, c, j)
      /\ Rank(more, c, n + 1) = r + One(m, c)
  <2>1. /\ \A j \in 0 .. Len(msgs) : Rank(more, c, j) = Rank(msgs, c, j)
        /\ Rank(more, c, Len(msgs) + 1) = Rank(msgs, c, Len(msgs)) + One(m, c)
    BY RankAppend
  <2> HIDE DEF more
  <2> QED BY <1>1, <2>1
<1>3. r \in Nat
  BY <1>1, RankFact
<1> HIDE DEF n, r, more
<1>4. Taken(more, NULL, c) = Taken(msgs, m, c)
  <2>1. Taken(more, NULL, c) = r + One(m, c) + 0
    BY <1>1, <1>2, OneFact DEF Taken
  <2>2. Taken(msgs, m, c) = r + One(m, c)
    BY DEF Taken, r, n
  <2>3. One(m, c) \in {0, 1}
    BY OneFact
  <2> QED BY <1>3, <2>1, <2>2, <2>3
<1>5. ASSUME NEW j \in 1 .. n + 1, more[j].chan = c
      PROVE  Nth(ref, Rank(more, c, j), more[j])
  <2>1. CASE j = n + 1
    <3>1. m.chan = c /\ Nth(ref, r + 1, m)
      BY <1>1, <1>5, <2>1 DEF Lined, r, n
    <3>2. Rank(more, c, j) = r + 1
      BY <1>2, <2>1, <3>1 DEF One
    <3> QED BY <1>1, <2>1, <3>1, <3>2
  <2>2. CASE j # n + 1
    <3>1. j \in 1 .. n
      BY <1>1, <2>2
    <3> QED BY <1>1, <1>2, <1>5, <3>1 DEF Lined, n
  <2> QED BY <2>1, <2>2
<1>6. \A i \in 1 .. Len(queue) : Nth(ref, Taken(more, NULL, c) + i, queue[i])
  BY <1>4 DEF Lined
<1> QED BY <1>1, <1>4, <1>5, <1>6, OneFact DEF Lined, more

\* TX numbers a zero-tlmsg frame.
LEMMA LinedZero ==
    ASSUME NEW msgs \in Seq(Msgs), NEW queue \in Seq(Msgs), NEW ref, NEW c \in Both,
           NEW m, Lined(msgs, m, queue, ref, c)
    PROVE  /\ Lined(Append(msgs, NULL), m, queue, ref, c)
           /\ Taken(Append(msgs, NULL), m, c) = Taken(msgs, m, c)
<1> DEFINE n == Len(msgs)
           r == Rank(msgs, c, n)
           more == Append(msgs, NULL)
<1>0. NULL \in Msgs
  BY DEF Msgs
<1>1. /\ n \in Nat /\ Len(more) = n + 1 /\ more[n + 1] = NULL
      /\ \A j \in 1 .. n : more[j] = msgs[j]
  BY <1>0
<1>2. /\ \A j \in 1 .. n : Rank(more, c, j) = Rank(msgs, c, j)
      /\ Rank(more, c, n + 1) = r + One(NULL, c)
  BY <1>0, <1>1, RankAppend
<1>3. r \in Nat
  BY <1>1, RankFact
<1> HIDE DEF n, r, more
<1>4. Rank(more, c, n + 1) = r
  BY <1>2, <1>3, OneFact
<1>5. Taken(more, m, c) = Taken(msgs, m, c)
  BY <1>1, <1>4 DEF Taken, r, n
<1>6. ASSUME NEW j \in 1 .. n + 1, more[j].chan = c
      PROVE  Nth(ref, Rank(more, c, j), more[j])
  <2>1. j # n + 1
    BY <1>1, <1>6, OneFact
  <2>2. j \in 1 .. n
    BY <1>1, <2>1
  <2> QED BY <1>1, <1>2, <1>6, <2>2 DEF Lined, n
<1>7. m.chan = c => Nth(ref, Rank(more, c, n + 1) + 1, m)
  BY <1>4 DEF Lined, r, n
<1> QED BY <1>1, <1>5, <1>6, <1>7 DEF Lined, more

\* One more message is queued.
LEMMA LinedPut ==
    ASSUME NEW msgs, NEW held, NEW queue \in Seq(Msgs), NEW ref, NEW c, NEW m \in Msgs,
           Taken(msgs, held, c) \in Nat,
           Lined(msgs, held, queue, ref, c),
           Nth(ref, Taken(msgs, held, c) + Len(queue) + 1, m)
    PROVE  Lined(msgs, held, Append(queue, m), ref, c)
<1> DEFINE n == Len(queue)
           k == Taken(msgs, held, c)
           more == Append(queue, m)
<1>1. /\ n \in Nat /\ Len(more) = n + 1 /\ more[n + 1] = m
      /\ \A i \in 1 .. n : more[i] = queue[i]
  OBVIOUS
<1>2. ASSUME NEW i \in 1 .. n + 1
      PROVE  Nth(ref, k + i, more[i])
  <2> HIDE DEF k, more, n
  <2>1. CASE i = n + 1
    <3>1. k + i = k + n + 1
      BY <1>1, <2>1 DEF k
    <3> QED BY <1>1, <2>1, <3>1 DEF k, n
  <2>2. CASE i # n + 1
    <3>1. i \in 1 .. n
      BY <1>1, <2>2
    <3> QED BY <1>1, <3>1 DEF Lined, k, n
  <2> QED BY <2>1, <2>2
<1> HIDE DEF k, more, n
<1> QED BY <1>1, <1>2 DEF Lined, k, more
-------------------------------------------------------------------------------
\* From the link to the handler.

\* A message is accepted.
LEMMA WaitsPut ==
    ASSUME NEW buffer \in Seq(Msgs), NEW ref, NEW n \in Nat, NEW c \in Both, NEW m \in Msgs,
           Waits(buffer, ref, n, c),
           m.chan = c => Nth(ref, n + Rank(buffer, c, Len(buffer)) + 1, m)
    PROVE  Waits(Append(buffer, m), ref, n, c)
<1> DEFINE k == Len(buffer)
           more == Append(buffer, m)
<1>1. /\ k \in Nat /\ Len(more) = k + 1 /\ more[k + 1] = m
      /\ \A j \in 1 .. k : more[j] = buffer[j]
  OBVIOUS
<1>2. /\ \A j \in 1 .. k : Rank(more, c, j) = Rank(buffer, c, j)
      /\ Rank(more, c, k + 1) = Rank(buffer, c, k) + One(m, c)
      /\ Rank(buffer, c, k) \in Nat
  <2>1. /\ \A j \in 0 .. Len(buffer) : Rank(more, c, j) = Rank(buffer, c, j)
        /\ Rank(more, c, Len(buffer) + 1) = Rank(buffer, c, Len(buffer)) + One(m, c)
    BY RankAppend
  <2>2. Rank(buffer, c, k) \in Nat
    BY <1>1, RankFact
  <2> HIDE DEF more
  <2> QED BY <1>1, <2>1, <2>2
<1> HIDE DEF k, more
<1>3. ASSUME NEW j \in 1 .. k + 1, more[j].chan = c
      PROVE  Nth(ref, n + Rank(more, c, j), more[j])
  <2>1. CASE j = k + 1
    <3>1. m.chan = c /\ Nth(ref, n + Rank(buffer, c, k) + 1, m)
      BY <1>1, <1>3, <2>1 DEF k
    <3>2. n + Rank(more, c, j) = n + Rank(buffer, c, k) + 1
      BY <1>2, <2>1, <3>1 DEF One
    <3> QED BY <1>1, <2>1, <3>1, <3>2
  <2>2. CASE j # k + 1
    <3>1. j \in 1 .. k
      BY <1>1, <2>2
    <3> QED BY <1>1, <1>2, <1>3, <3>1 DEF Waits, k
  <2> QED BY <2>1, <2>2
<1> QED BY <1>1, <1>3 DEF Waits, more

\* The first message is handled.
LEMMA WaitsTake ==
    ASSUME NEW buffer \in Seq(Msgs), buffer # <<>>, NEW ref, NEW n \in Nat, NEW c \in Both,
           Waits(buffer, ref, n, c)
    PROVE  /\ buffer[1].chan = c => Nth(ref, n + 1, buffer[1])
           /\ Waits(Tail(buffer), ref, n + One(buffer[1], c), c)
           /\ n + One(buffer[1], c) + Rank(Tail(buffer), c, Len(Tail(buffer)))
                 = n + Rank(buffer, c, Len(buffer))
<1> DEFINE k == Len(buffer)
           rest == Tail(buffer)
           one == One(buffer[1], c)
<1>1. /\ k \in Nat \ {0} /\ Len(rest) = k - 1 /\ k = (k - 1) + 1
      /\ \A j \in 1 .. k - 1 : rest[j] = buffer[j + 1]
  OBVIOUS
<1>2. \A j \in 0 .. k - 1 : /\ Rank(buffer, c, j + 1) = one + Rank(rest, c, j)
                             /\ Rank(rest, c, j) \in Nat
  <2> SUFFICES ASSUME NEW j \in 0 .. k - 1
               PROVE  /\ Rank(buffer, c, j + 1) = one + Rank(rest, c, j)
                      /\ Rank(rest, c, j) \in Nat
    OBVIOUS
  <2>1. j \in Nat
    BY <1>1
  <2>2. Rank(buffer, c, j + 1) = one + Rank(rest, c, j)
    BY RankTail
  <2> QED BY <2>1, <2>2, RankFact
<1>3. one \in {0, 1} /\ (buffer[1].chan = c <=> one = 1) /\ Rank(rest, c, 0) = 0
  BY OneFact, RankFact
<1> HIDE DEF k, rest, one
<1>4. \A j \in 1 .. k : buffer[j].chan = c => Nth(ref, n + Rank(buffer, c, j), buffer[j])
  BY DEF Waits, k
<1>5. ASSUME buffer[1].chan = c PROVE Nth(ref, n + 1, buffer[1])
  <2>1. Rank(buffer, c, 1) = 1
    BY <1>1, <1>2, <1>3, <1>5
  <2> QED BY <1>1, <1>4, <1>5, <2>1
<1>6. ASSUME NEW j \in 1 .. k - 1, rest[j].chan = c
      PROVE  Nth(ref, n + one + Rank(rest, c, j), rest[j])
  <2>1. j + 1 \in 1 .. k /\ j \in 0 .. k - 1 /\ rest[j] = buffer[j + 1]
    BY <1>1
  <2>2. n + Rank(buffer, c, j + 1) = n + one + Rank(rest, c, j)
    BY <1>2, <1>3, <2>1
  <2> QED BY <1>4, <1>6, <2>1, <2>2
<1>7. n + one + Rank(rest, c, k - 1) = n + Rank(buffer, c, k)
  <2>1. k - 1 \in 0 .. k - 1
    BY <1>1
  <2> QED BY <1>1, <1>2, <1>3, <2>1
<1> QED BY <1>1, <1>5, <1>6, <1>7 DEF Waits, k, rest, one
-------------------------------------------------------------------------------
\* What the requests write, and what they are answered.

\* A set of numbers up to n has a largest one.
LEMMA MaxFact ==
    ASSUME NEW n \in Nat, NEW S \in SUBSET (1 .. n), S # {}
    PROVE  Max(S) \in S /\ \A y \in S : Max(S) >= y
<1> DEFINE T == {n - i : i \in S}
<1>1. T \subseteq Nat /\ T # {}
  <2>1. \A i \in S : n - i \in Nat
    OBVIOUS
  <2>2. PICK i \in S : TRUE
    OBVIOUS
  <2>3. n - i \in T
    OBVIOUS
  <2> QED BY <2>1, <2>3
<1>2. PICK x \in T : \A y \in T : ~(<<y, x>> \in OpToRel(<, Nat))
  <2> HIDE DEF T
  <2> QED BY <1>1, WFMin, NatLessThanWellFounded
<1>3. \A y \in T : ~(y < x)
  BY <1>1, <1>2 DEF OpToRel
<1>4. PICK i \in S : x = n - i
  OBVIOUS
<1>5. \A j \in S : i >= j
  BY <1>3, <1>4
<1>6. \E k \in S : \A y \in S : k >= y
  BY <1>5
<1> HIDE DEF T
<1> QED BY <1>6 DEF Max

\* One more request: a write of the word changes it, any other does not.
LEMMA WrittenStep ==
    ASSUME NEW s, NEW n \in Nat, NEW a
    PROVE  Written(s, n + 1, a) =
              IF s[n + 1].opcode = A_PUTFULLDATA_OPCODE /\ s[n + 1].addr = a
              THEN s[n + 1].data ELSE Written(s, n, a)
<1> DEFINE P(k) == {i \in 1 .. k : s[i].opcode = A_PUTFULLDATA_OPCODE /\ s[i].addr = a}
<1>1. CASE s[n + 1].opcode = A_PUTFULLDATA_OPCODE /\ s[n + 1].addr = a
  <2>1. n + 1 \in P(n + 1) /\ P(n + 1) \in SUBSET (1 .. n + 1) /\ n + 1 \in Nat
    BY <1>1
  <2> HIDE DEF P
  <2>2. Max(P(n + 1)) \in P(n + 1) /\ Max(P(n + 1)) >= n + 1
    BY <2>1, MaxFact
  <2>3. Max(P(n + 1)) = n + 1
    BY <2>1, <2>2
  <2>4. Written(s, n + 1, a) = IF P(n + 1) = {} THEN 0 ELSE s[Max(P(n + 1))].data
    BY DEF Written, P
  <2> QED BY <1>1, <2>1, <2>3, <2>4
<1>2. CASE ~(s[n + 1].opcode = A_PUTFULLDATA_OPCODE /\ s[n + 1].addr = a)
  <2>1. P(n + 1) = P(n)
    BY <1>2
  <2>2. /\ Written(s, n + 1, a) = IF P(n + 1) = {} THEN 0 ELSE s[Max(P(n + 1))].data
        /\ Written(s, n, a) = IF P(n) = {} THEN 0 ELSE s[Max(P(n))].data
    BY DEF Written
  <2> HIDE DEF P
  <2> QED BY <1>2, <2>1, <2>2
<1> QED BY <1>1, <1>2

\* Only the first n requests matter.
LEMMA WrittenSame ==
    ASSUME NEW s, NEW t, NEW n \in Nat, NEW a, \A i \in 1 .. n : s[i] = t[i]
    PROVE  Written(s, n, a) = Written(t, n, a)
<1> DEFINE P == {i \in 1 .. n : s[i].opcode = A_PUTFULLDATA_OPCODE /\ s[i].addr = a}
           Q == {i \in 1 .. n : t[i].opcode = A_PUTFULLDATA_OPCODE /\ t[i].addr = a}
<1>1. P = Q /\ P \in SUBSET (1 .. n)
  OBVIOUS
<1>2. /\ Written(s, n, a) = IF P = {} THEN 0 ELSE s[Max(P)].data
      /\ Written(t, n, a) = IF Q = {} THEN 0 ELSE t[Max(Q)].data
  BY DEF Written
<1> HIDE DEF P, Q
<1>3. CASE P = {}
  BY <1>1, <1>2, <1>3
<1>4. CASE P # {}
  <2>1. Max(P) \in 1 .. n
    BY <1>1, <1>4, MaxFact
  <2> QED BY <1>1, <1>2, <2>1
<1> QED BY <1>3, <1>4

\* Every request has an answer.
LEMMA ExpectedFact ==
    ASSUME NEW s \in Seq(Request)
    PROVE  /\ IsSeq(Expected(s)) /\ Len(Expected(s)) = Len(s)
           /\ \A n \in 1 .. Len(s) : Expected(s)[n] =
                IF s[n].opcode = A_PUTFULLDATA_OPCODE THEN AccessAck
                ELSE AccessAckData(s[n].size, Written(s, n, s[n].addr))
<1> DEFINE E == Expected(s)
           F(n) == IF s[n].opcode = A_PUTFULLDATA_OPCODE THEN AccessAck
                   ELSE AccessAckData(s[n].size, Written(s, n, s[n].addr))
<1>1. Len(s) \in Nat /\ DOMAIN s = 1 .. Len(s)
  OBVIOUS
<1>2. E = [n \in 1 .. Len(s) |-> F(n)]
  BY <1>1 DEF Expected
<1> HIDE DEF E, F
<1>3. DOMAIN E = 1 .. Len(s) /\ E = [n \in 1 .. Len(s) |-> E[n]] /\ \A n \in 1 .. Len(s) : E[n] = F(n)
  BY <1>2
<1>4. IsSeq(E) /\ Len(E) = Len(s)
  BY <1>1, <1>3, FunctionFact
<1> QED BY <1>3, <1>4 DEF E, F

\* t begins with s.
Begins(s, t) == Len(s) <= Len(t) /\ \A i \in 1 .. Len(s) : s[i] = t[i]

\* A further request changes no earlier one and no earlier answer.
LEMMA MoreRequests ==
    ASSUME NEW s \in Seq(Request), NEW m \in Request
    PROVE  /\ Begins(s, Append(s, m))
           /\ Begins(Expected(s), Expected(Append(s, m)))
           /\ \A n \in 0 .. Len(s) : \A a : Written(Append(s, m), n, a) = Written(s, n, a)
<1> DEFINE t == Append(s, m)
<1>1. /\ t \in Seq(Request) /\ Len(t) = Len(s) + 1 /\ Len(s) \in Nat
      /\ \A i \in 1 .. Len(s) : t[i] = s[i]
  OBVIOUS
<1> HIDE DEF t
<1>2. ASSUME NEW n \in 0 .. Len(s), NEW a PROVE Written(t, n, a) = Written(s, n, a)
  <2>1. n \in Nat /\ \A i \in 1 .. n : t[i] = s[i]
    BY <1>1
  <2> QED BY <2>1, WrittenSame
<1>3. Begins(s, t)
  BY <1>1 DEF Begins
<1>4. Begins(Expected(s), Expected(t))
  <2>1. Len(Expected(s)) = Len(s) /\ Len(Expected(t)) = Len(s) + 1
    BY <1>1, ExpectedFact
  <2>2. ASSUME NEW n \in 1 .. Len(s) PROVE Expected(s)[n] = Expected(t)[n]
    <3>1. n \in 1 .. Len(t) /\ n \in 0 .. Len(s) /\ t[n] = s[n]
      BY <1>1
    <3>2. Written(t, n, s[n].addr) = Written(s, n, s[n].addr)
      BY <1>2, <3>1
    <3>3. Expected(s)[n] = IF s[n].opcode = A_PUTFULLDATA_OPCODE THEN AccessAck
                           ELSE AccessAckData(s[n].size, Written(s, n, s[n].addr))
      BY ExpectedFact
    <3>4. Expected(t)[n] = IF t[n].opcode = A_PUTFULLDATA_OPCODE THEN AccessAck
                           ELSE AccessAckData(t[n].size, Written(t, n, t[n].addr))
      BY <1>1, <3>1, ExpectedFact
    <3> QED BY <3>1, <3>2, <3>3, <3>4
  <2> QED BY <1>1, <2>1, <2>2 DEF Begins
<1> QED BY <1>2, <1>3, <1>4 DEF t

\* What is in line stays in line when the reference grows.
LEMMA ExpectedGrows ==
    ASSUME NEW ref, NEW more, Begins(ref, more), Len(ref) \in Nat, Len(more) \in Nat
    PROVE  /\ \A k, m : Nth(ref, k, m) => Nth(more, k, m)
           /\ \A msgs, held, queue, c : Lined(msgs, held, queue, ref, c)
                                            => Lined(msgs, held, queue, more, c)
           /\ \A buffer, n, c : Waits(buffer, ref, n, c) => Waits(buffer, more, n, c)
<1>1. \A k, m : Nth(ref, k, m) => Nth(more, k, m)
  BY DEF Nth, Begins
<1>2. ASSUME NEW msgs, NEW held, NEW queue, NEW c, Lined(msgs, held, queue, ref, c)
      PROVE  Lined(msgs, held, queue, more, c)
  BY <1>1, <1>2 DEF Lined
<1>3. ASSUME NEW buffer, NEW n, NEW c, Waits(buffer, ref, n, c)
      PROVE  Waits(buffer, more, n, c)
  BY <1>1, <1>3 DEF Waits
<1> QED BY <1>1, <1>2, <1>3
-------------------------------------------------------------------------------
\* The steps of the transmitter.

\* The types of what the invariant speaks about.
LEMMA DataTypes ==
    ASSUME TypeInv, LinkInv, NEW e \in Endpoint
    PROVE  /\ txlog[e] \in Seq(LogEntry) /\ rxlog[e] \in Seq(LogEntry)
           /\ Messages(txlog[e]) \in Seq(Msgs) /\ Len(Messages(txlog[e])) = Len(txlog[e])
           /\ Len(txlog[e]) \in Nat
           /\ request_tlmsg[e] \in Msgs
           /\ message_buffer[e] \in Seq(Msgs) /\ response_buffer[e] \in Seq(Msgs)
           /\ tl_msg_buffer[e] \in Seq(Msgs)
           /\ Len(message_buffer[e]) \in Nat /\ Len(response_buffer[e]) \in Nat
           /\ submitted[e] \in Seq(Request) /\ Len(submitted[e]) \in Nat
           /\ results[e] \in Seq(Answer) /\ Len(results[e]) \in Nat
           /\ \A c \in Both : Taken(Messages(txlog[e]), request_tlmsg[e], c) \in Nat
           /\ Executed(e) \in Nat
<1>1. txlog[e] \in Seq(LogEntry) /\ rxlog[e] \in Seq(LogEntry)
  BY DEF TypeInv, TypeOK, LinkTypeOK
<1>2. /\ request_tlmsg[e] \in TLMsg \cup {NULL}
      /\ message_buffer[e] \in Seq(Request) /\ response_buffer[e] \in Seq(Answer)
      /\ tl_msg_buffer[e] \in Seq(TLMsg)
      /\ submitted[e] \in Seq(Request) /\ results[e] \in Seq(Answer)
  BY DEF TypeInv, TypeOK, LoopTypeOK
<1>3. Request \subseteq Msgs /\ Answer \subseteq Msgs /\ TLMsg \subseteq Msgs
  BY MsgFact DEF Msgs
<1>4. /\ message_buffer[e] \in Seq(Msgs) /\ response_buffer[e] \in Seq(Msgs)
      /\ tl_msg_buffer[e] \in Seq(Msgs)
  BY <1>2, <1>3
<1>5. /\ Len(message_buffer[e]) \in Nat /\ Len(response_buffer[e]) \in Nat
      /\ Len(submitted[e]) \in Nat /\ Len(results[e]) \in Nat /\ Len(txlog[e]) \in Nat
  BY <1>1, <1>2
<1>6. Messages(txlog[e]) \in Seq(Msgs)
  BY <1>1, MessagesFact
<1>7. Len(Messages(txlog[e])) = Len(txlog[e])
  <2>1. DOMAIN Messages(txlog[e]) = DOMAIN txlog[e]
    BY DEF Messages
  <2>2. DOMAIN txlog[e] = 1 .. Len(txlog[e]) /\ DOMAIN Messages(txlog[e]) = 1 .. Len(Messages(txlog[e]))
    BY <1>1, <1>6
  <2>3. Len(Messages(txlog[e])) \in Nat
    BY <1>6
  <2> QED BY <1>5, <2>1, <2>2, <2>3
<1>8. ASSUME NEW c \in Both PROVE Taken(Messages(txlog[e]), request_tlmsg[e], c) \in Nat
  <2>1. Rank(Messages(txlog[e]), c, Len(Messages(txlog[e]))) \in Nat
    BY <1>5, <1>7, RankFact
  <2>2. One(request_tlmsg[e], c) \in {0, 1}
    BY OneFact
  <2> QED BY <2>1, <2>2 DEF Taken
<1>9. Executed(e) \in Nat
  BY <1>5, <1>8 DEF Executed, Both
<1>10. request_tlmsg[e] \in Msgs
  BY <1>2 DEF Msgs
<1> QED BY <1>1, <1>2, <1>4, <1>5, <1>6, <1>7, <1>8, <1>9, <1>10

\* The channels of requests and answers.
LEMMA ChannelFact ==
    /\ \A m \in Request : m.chan = CHANNEL_A
    /\ \A m \in Answer : m.chan = CHANNEL_D
    /\ CHANNEL_A # CHANNEL_D /\ CHANNEL_A \in Both /\ CHANNEL_D \in Both
BY DEF Request, Answer, Get, PutFullData, AccessAck, AccessAckData, CHANNEL_A, CHANNEL_D, Both

\* select_buffer takes the message whose turn it is.
LEMMA SelectData ==
    ASSUME TypeInv, LinkInv, NEW e \in Endpoint, SendsInOrder(e), select_buffer(e), NEW c \in Both
    PROVE  /\ Lined(Messages(txlog[e]), Selected(e), Source(e, c)', Due(e, c), c)
           /\ Source(e, c)' \in Seq(Msgs)
           /\ Taken(Messages(txlog[e]), Selected(e), c) + Len(Source(e, c)')
                 = Taken(Messages(txlog[e]), request_tlmsg[e], c) + Len(Source(e, c))
<1> DEFINE msgs == Messages(txlog[e])
           m == Selected(e)
           q == Source(e, c)
           ref == Due(e, c)
<1>1. /\ response_buffer \in [Endpoint -> Seq(Answer)]
      /\ message_buffer \in [Endpoint -> Seq(Request)]
  BY DEF TypeInv, TypeOK, LoopTypeOK
<1>2. /\ response_buffer'[e] = IF FromResponses(e) THEN Tail(response_buffer[e]) ELSE response_buffer[e]
      /\ message_buffer'[e] = IF FromMessages(e) /\ message_buffer[e] # <<>>
                              THEN Tail(message_buffer[e]) ELSE message_buffer[e]
  BY <1>1 DEF select_buffer
<1>3. /\ msgs \in Seq(Msgs) /\ q \in Seq(Msgs) /\ Len(q) \in Nat
      /\ \A x \in Both : Taken(msgs, request_tlmsg[e], x) \in Nat
  BY DataTypes DEF Source
<1>4. Lined(msgs, request_tlmsg[e], q, ref, c)
  BY DEF SendsInOrder
<1>5. Source(e, c)' = IF c = CHANNEL_A THEN message_buffer'[e] ELSE response_buffer'[e]
  BY DEF Source
<1> DEFINE q2 == Source(e, c)'
<1> HIDE DEF msgs, m, q, ref, q2
<1>6. ASSUME m = request_tlmsg[e], q2 = q
      PROVE  /\ Lined(msgs, m, q2, ref, c) /\ q2 \in Seq(Msgs)
             /\ Taken(msgs, m, c) + Len(q2) = Taken(msgs, request_tlmsg[e], c) + Len(q)
  BY <1>3, <1>4, <1>6
<1>7. ASSUME request_tlmsg[e] = NULL, q # <<>>, m = q[1], m.chan = c, q2 = Tail(q)
      PROVE  /\ Lined(msgs, m, q2, ref, c) /\ q2 \in Seq(Msgs)
             /\ Taken(msgs, m, c) + Len(q2) = Taken(msgs, request_tlmsg[e], c) + Len(q)
  <2>1. Lined(msgs, m, q2, ref, c) /\ Taken(msgs, m, c) = Taken(msgs, NULL, c) + 1
    BY <1>3, <1>4, <1>7, LinedTake
  <2>2. q2 \in Seq(Msgs) /\ Len(q2) = Len(q) - 1
    BY <1>3, <1>7
  <2>3. Taken(msgs, NULL, c) \in Nat
    BY <1>3, <1>7
  <2> QED BY <1>3, <1>7, <2>1, <2>2, <2>3
<1>8. ASSUME request_tlmsg[e] = NULL, m.chan # c, q2 = q
      PROVE  /\ Lined(msgs, m, q2, ref, c) /\ q2 \in Seq(Msgs)
             /\ Taken(msgs, m, c) + Len(q2) = Taken(msgs, request_tlmsg[e], c) + Len(q)
  <2>1. Lined(msgs, m, q2, ref, c) /\ Taken(msgs, m, c) = Taken(msgs, NULL, c)
    BY <1>3, <1>4, <1>8, LinedOther
  <2> QED BY <1>3, <1>8, <2>1
<1>9. q = IF c = CHANNEL_A THEN message_buffer[e] ELSE response_buffer[e]
  BY DEF Source, q
<1>10. c = CHANNEL_A \/ c = CHANNEL_D
  BY DEF Both
<1>11. CASE request_tlmsg[e] # NULL
  <2>1. m = request_tlmsg[e] /\ q2 = q
    BY <1>2, <1>5, <1>9, <1>11 DEF Selected, FromResponses, FromMessages, m, q2
  <2> QED BY <1>6, <2>1 DEF msgs, m, q, ref, q2
<1>12. CASE FromResponses(e)
  <2>1. /\ request_tlmsg[e] = NULL /\ response_buffer[e] # <<>>
        /\ m = Head(response_buffer[e]) /\ ~FromMessages(e)
    BY <1>12 DEF Selected, FromResponses, FromMessages, m
  <2>2. m \in Answer /\ m = response_buffer[e][1]
    <3>1. response_buffer[e] \in Seq(Answer)
      BY <1>1
    <3> QED BY <2>1, <3>1
  <2>3. m.chan = CHANNEL_D
    BY <2>2, ChannelFact
  <2>4. CASE c = CHANNEL_A
    <3>1. q2 = q /\ m.chan # c
      BY <1>2, <1>5, <1>9, <2>1, <2>3, <2>4, ChannelFact DEF q2
    <3> QED BY <1>8, <2>1, <3>1 DEF msgs, m, q, ref, q2
  <2>5. CASE c = CHANNEL_D
    <3>1. q2 = Tail(q) /\ q # <<>> /\ m = q[1] /\ m.chan = c
      BY <1>2, <1>5, <1>9, <1>12, <2>1, <2>2, <2>3, <2>5, ChannelFact DEF q2
    <3> QED BY <1>7, <2>1, <3>1 DEF msgs, m, q, ref, q2
  <2> QED BY <1>10, <2>4, <2>5
<1>13. CASE request_tlmsg[e] = NULL /\ ~FromResponses(e) /\ message_buffer[e] # <<>>
  <2>1. FromMessages(e) /\ m = Head(message_buffer[e])
    BY <1>13 DEF Selected, FromMessages, m
  <2>2. m \in Request /\ m = message_buffer[e][1]
    <3>1. message_buffer[e] \in Seq(Request)
      BY <1>1
    <3> QED BY <1>13, <2>1, <3>1
  <2>3. m.chan = CHANNEL_A
    BY <2>2, ChannelFact
  <2>4. CASE c = CHANNEL_D
    <3>1. q2 = q /\ m.chan # c
      BY <1>2, <1>5, <1>9, <1>13, <2>3, <2>4, ChannelFact DEF q2
    <3> QED BY <1>8, <1>13, <3>1 DEF msgs, m, q, ref, q2
  <2>5. CASE c = CHANNEL_A
    <3>1. q2 = Tail(q) /\ q # <<>> /\ m = q[1] /\ m.chan = c
      BY <1>2, <1>5, <1>9, <1>13, <2>1, <2>2, <2>3, <2>5 DEF q2
    <3> QED BY <1>7, <1>13, <3>1 DEF msgs, m, q, ref, q2
  <2> QED BY <1>10, <2>4, <2>5
<1>14. CASE request_tlmsg[e] = NULL /\ ~FromResponses(e) /\ message_buffer[e] = <<>>
  <2>1. m = NULL /\ q2 = q
    BY <1>2, <1>5, <1>9, <1>14 DEF Selected, m, q2
  <2> QED BY <1>6, <1>14, <2>1 DEF msgs, m, q, ref, q2
<1> QED BY <1>11, <1>12, <1>13, <1>14

\* An endpoint whose part of the state does not change.
LEMMA DataStays ==
    ASSUME NEW e \in Endpoint, DataOK(e),
           txlog'[e] = txlog[e], txlog'[Peer(e)] = txlog[Peer(e)], rxlog'[e] = rxlog[e],
           request_tlmsg'[e] = request_tlmsg[e],
           message_buffer'[e] = message_buffer[e], response_buffer'[e] = response_buffer[e],
           tl_msg_buffer'[e] = tl_msg_buffer[e], mem'[e] = mem[e], results'[e] = results[e],
           submitted'[e] = submitted[e], submitted'[Peer(e)] = submitted[Peer(e)],
           exited'[e] = "no" => exited[e] = "no"
    PROVE  DataOK(e)'
<1>1. /\ Executed(e)' = Executed(e)
      /\ \A c \in Both : /\ Source(e, c)' = Source(e, c)
                          /\ Due(e, c)' = Due(e, c)
                          /\ Handled(e, c)' = Handled(e, c)
                          /\ Received(e, c)' = Received(e, c)
  BY DEF Executed, Source, Due, Handled, Received
<1>2. \A c \in Both : Due(Peer(e), c)' = Due(Peer(e), c)
  <2>1. Peer(Peer(e)) = e
    BY PeerFact
  <2> QED BY <2>1 DEF Due
<1>3. SendsInOrder(e)'
  BY <1>1 DEF DataOK, SendsInOrder
<1>4. HandlesInOrder(e)'
  BY <1>1, <1>2 DEF DataOK, HandlesInOrder
<1>5. MemoryWritten(e)' /\ Answered(e)'
  BY <1>1 DEF DataOK, MemoryWritten, Answered
<1> QED BY <1>3, <1>4, <1>5 DEF DataOK

\* A step of TX moves messages from the queues over the loop to the link and
\* changes their order nowhere.
LEMMA TXData ==
    ASSUME TypeInv, LinkInv, DataInv, NEW e \in Endpoint,
           \A c \in Both :
              /\ Lined(Messages(txlog'[e]), request_tlmsg'[e], Source(e, c)', Due(e, c), c)
              /\ Taken(Messages(txlog'[e]), request_tlmsg'[e], c) + Len(Source(e, c)')
                    = Taken(Messages(txlog[e]), request_tlmsg[e], c) + Len(Source(e, c)),
           \A i \in 1 .. Len(txlog[e]) : Messages(txlog'[e])[i] = Messages(txlog[e])[i],
           txlog'[Peer(e)] = txlog[Peer(e)],
           request_tlmsg'[Peer(e)] = request_tlmsg[Peer(e)],
           message_buffer'[Peer(e)] = message_buffer[Peer(e)],
           response_buffer'[Peer(e)] = response_buffer[Peer(e)],
           UNCHANGED <<rxlog, tl_msg_buffer, mem, submitted, results, exited>>
    PROVE  DataInv'
<1> DEFINE p == Peer(e)
<1>1. p \in Endpoint /\ Peer(p) = e /\ Endpoint = {e, p} /\ DataOK(e) /\ DataOK(p)
  BY PeerFact DEF DataInv
<1>2. \A c \in Both : Due(e, c)' = Due(e, c) /\ Due(p, c)' = Due(p, c)
  BY DEF Due
<1>3. Executed(e)' = Executed(e)
  <2>1. CHANNEL_D \in Both /\ CHANNEL_A # CHANNEL_D
    BY ChannelFact
  <2>2. Source(e, CHANNEL_D)' = response_buffer'[e] /\ Source(e, CHANNEL_D) = response_buffer[e]
    BY <2>1 DEF Source
  <2>3. Taken(Messages(txlog'[e]), request_tlmsg'[e], CHANNEL_D) + Len(response_buffer'[e])
          = Taken(Messages(txlog[e]), request_tlmsg[e], CHANNEL_D) + Len(response_buffer[e])
    BY <2>1, <2>2
  <2> QED BY <2>3 DEF Executed
<1>4. SendsInOrder(e)'
  <2>1. CHANNEL_A \in Both /\ Source(e, CHANNEL_A)' = message_buffer'[e]
        /\ Source(e, CHANNEL_A) = message_buffer[e]
    BY ChannelFact DEF Source
  <2>2. Len(submitted[e])
          = Taken(Messages(txlog[e]), request_tlmsg[e], CHANNEL_A) + Len(message_buffer[e])
    BY <1>1 DEF DataOK, SendsInOrder
  <2>3. Len(submitted'[e])
          = Taken(Messages(txlog'[e]), request_tlmsg'[e], CHANNEL_A) + Len(message_buffer'[e])
    BY <2>1, <2>2
  <2> QED BY <1>2, <2>3 DEF SendsInOrder
<1>5. HandlesInOrder(e)' /\ MemoryWritten(e)' /\ Answered(e)'
  <2>1. \A c \in Both : Handled(e, c)' = Handled(e, c) /\ Received(e, c)' = Received(e, c)
    BY <1>3 DEF Handled, Received
  <2>2. HandlesInOrder(e)'
    BY <1>1, <1>2, <2>1 DEF DataOK, HandlesInOrder
  <2>3. MemoryWritten(e)' /\ Answered(e)'
    BY <1>1, <1>3 DEF DataOK, MemoryWritten, Answered
  <2> QED BY <2>2, <2>3
<1>6. SendsInOrder(p)' /\ MemoryWritten(p)' /\ Answered(p)'
  <2>1. Executed(p)' = Executed(p) /\ \A c \in Both : Source(p, c)' = Source(p, c)
    BY DEF Executed, Source
  <2>2. SendsInOrder(p)'
    BY <1>1, <1>2, <2>1 DEF DataOK, SendsInOrder
  <2> QED BY <1>1, <2>1, <2>2 DEF DataOK, MemoryWritten, Answered
<1>7. HandlesInOrder(p)'
  <2>1. \A c \in Both : Handled(p, c)' = Handled(p, c)
    BY DEF Handled, Executed
  <2>2. ASSUME NEW c \in Both PROVE Received(p, c)' = Received(p, c)
    <3>1. Len(rxlog[p]) \in Nat /\ Len(rxlog[p]) <= Len(txlog[e])
      BY <1>1, LinkLen
    <3>2. Len(txlog[e]) \in Nat
      BY DataTypes
    <3>3. \A i \in 1 .. Len(rxlog[p]) : Messages(txlog'[e])[i] = Messages(txlog[e])[i]
      BY <3>1, <3>2
    <3>4. Rank(Messages(txlog'[e]), c, Len(rxlog[p])) = Rank(Messages(txlog[e]), c, Len(rxlog[p]))
      BY <3>1, <3>3, RankSame
    <3> QED BY <1>1, <3>4 DEF Received
  <2> QED BY <1>1, <1>2, <2>1, <2>2 DEF DataOK, HandlesInOrder
<1> QED BY <1>1, <1>4, <1>5, <1>6, <1>7 DEF DataInv, DataOK

\* What a pass through TX leaves of the peer, and of the rest.
LEMMA TXRest ==
    ASSUME TypeInv, NEW e \in Endpoint, NEW elapsed, NEW frames, TXCommon(e, elapsed, frames),
           NEW m, request_tlmsg' = [request_tlmsg EXCEPT ![e] = m]
    PROVE  /\ request_tlmsg'[e] = m
           /\ request_tlmsg'[Peer(e)] = request_tlmsg[Peer(e)]
           /\ message_buffer'[Peer(e)] = message_buffer[Peer(e)]
           /\ response_buffer'[Peer(e)] = response_buffer[Peer(e)]
           /\ UNCHANGED <<rxlog, tl_msg_buffer, mem, submitted, results, exited>>
           /\ select_buffer(e)
<1>1. /\ request_tlmsg \in [Endpoint -> TLMsg \cup {NULL}]
      /\ message_buffer \in [Endpoint -> Seq(Request)]
      /\ response_buffer \in [Endpoint -> Seq(Answer)]
  BY DEF TypeInv, TypeOK, LoopTypeOK
<1>2. /\ select_buffer(e)
      /\ UNCHANGED <<rxlog, tl_msg_buffer, mem, submitted, results, exited>>
  BY DEF TXCommon
<1>3. Peer(e) \in Endpoint /\ Peer(e) # e
  BY PeerFact
<1>4. /\ message_buffer'[Peer(e)] = message_buffer[Peer(e)]
      /\ response_buffer'[Peer(e)] = response_buffer[Peer(e)]
  BY <1>1, <1>2, <1>3 DEF select_buffer
<1> QED BY <1>1, <1>2, <1>3, <1>4

\* TX with nothing to number.
LEMMA HoldData ==
    ASSUME TypeInv, LinkInv, DataInv, NEW e \in Endpoint, NEW elapsed, TX_Hold(e, elapsed)
    PROVE  DataInv'
<1>1. /\ TXCommon(e, elapsed, TimeoutFrames(e, retransmit_buffer[e], elapsed))
      /\ request_tlmsg' = [request_tlmsg EXCEPT ![e] = Selected(e)]
      /\ txlog' = txlog
  BY DEF TX_Hold
<1>2. /\ request_tlmsg'[e] = Selected(e)
      /\ request_tlmsg'[Peer(e)] = request_tlmsg[Peer(e)]
      /\ message_buffer'[Peer(e)] = message_buffer[Peer(e)]
      /\ response_buffer'[Peer(e)] = response_buffer[Peer(e)]
      /\ UNCHANGED <<rxlog, tl_msg_buffer, mem, submitted, results, exited>>
      /\ select_buffer(e)
  BY <1>1, TXRest
<1>3. SendsInOrder(e)
  BY DEF DataInv, DataOK
<1>4. ASSUME NEW c \in Both
      PROVE  /\ Lined(Messages(txlog'[e]), request_tlmsg'[e], Source(e, c)', Due(e, c), c)
             /\ Taken(Messages(txlog'[e]), request_tlmsg'[e], c) + Len(Source(e, c)')
                   = Taken(Messages(txlog[e]), request_tlmsg[e], c) + Len(Source(e, c))
  BY <1>1, <1>2, <1>3, SelectData
<1> QED BY <1>1, <1>2, <1>4, TXData

\* A payload is numbered: the messages that were numbered stay as they are.
LEMMA NumberData ==
    ASSUME TypeInv, LinkInv, NEW e \in Endpoint, NEW elapsed, NEW m \in Msgs,
           SendNormalFrame(e, elapsed, m)
    PROVE  /\ Messages(txlog'[e]) = Append(Messages(txlog[e]), m)
           /\ \A i \in 1 .. Len(txlog[e]) : Messages(txlog'[e])[i] = Messages(txlog[e])[i]
           /\ txlog'[Peer(e)] = txlog[Peer(e)]
<1> DEFINE x == Payload(NormalFrame(e, m))
<1>1. x \in LogEntry /\ x.tlmsg = m
  <2>1. NormalFrame(e, m) \in Frame
    BY LinkBound, NormalType DEF Msgs
  <2>2. NormalFrame(e, m).tlmsg = m
    BY DEF NormalFrame
  <2> QED BY <2>1, <2>2, FrameFact DEF Payload
<1>2. txlog' = [txlog EXCEPT ![e] = Append(txlog[e], x)]
  BY DEF SendNormalFrame
<1> HIDE DEF x
<1>3. txlog \in [Endpoint -> Seq(LogEntry)]
  BY DEF TypeInv, TypeOK, LinkTypeOK
<1>4. txlog'[e] = Append(txlog[e], x) /\ txlog'[Peer(e)] = txlog[Peer(e)]
  BY <1>2, <1>3, PeerFact
<1>5. Messages(txlog'[e]) = Append(Messages(txlog[e]), m)
  BY <1>1, <1>3, <1>4, MessagesFact
<1>6. Messages(txlog[e]) \in Seq(Msgs) /\ Len(Messages(txlog[e])) = Len(txlog[e])
  BY DataTypes
<1>7. \A i \in 1 .. Len(txlog[e]) : Append(Messages(txlog[e]), m)[i] = Messages(txlog[e])[i]
  BY <1>6
<1> QED BY <1>4, <1>5, <1>7

\* TX numbers the message selected.
LEMMA MessageData ==
    ASSUME TypeInv, LinkInv, DataInv, NEW e \in Endpoint, NEW elapsed, TX_Message(e, elapsed)
    PROVE  DataInv'
<1> DEFINE msgs == Messages(txlog[e])
           m == Selected(e)
<1>1. /\ SendNormalFrame(e, elapsed, m) /\ m \in Msgs
      /\ request_tlmsg' = [request_tlmsg EXCEPT ![e] = NULL]
  BY SelectedType DEF TX_Message, TypeInv, TypeOK, Msgs
<1>2. PICK frames : TXCommon(e, elapsed, frames)
  BY <1>1 DEF SendNormalFrame
<1>3. /\ request_tlmsg'[e] = NULL
      /\ request_tlmsg'[Peer(e)] = request_tlmsg[Peer(e)]
      /\ message_buffer'[Peer(e)] = message_buffer[Peer(e)]
      /\ response_buffer'[Peer(e)] = response_buffer[Peer(e)]
      /\ UNCHANGED <<rxlog, tl_msg_buffer, mem, submitted, results, exited>>
      /\ select_buffer(e)
  BY <1>1, <1>2, TXRest
<1>4. /\ Messages(txlog'[e]) = Append(msgs, m)
      /\ \A i \in 1 .. Len(txlog[e]) : Messages(txlog'[e])[i] = msgs[i]
      /\ txlog'[Peer(e)] = txlog[Peer(e)]
  BY <1>1, NumberData
<1>5. SendsInOrder(e) /\ msgs \in Seq(Msgs)
  BY DataTypes DEF DataInv, DataOK
<1>6. ASSUME NEW c \in Both
      PROVE  /\ Lined(Messages(txlog'[e]), request_tlmsg'[e], Source(e, c)', Due(e, c), c)
             /\ Taken(Messages(txlog'[e]), request_tlmsg'[e], c) + Len(Source(e, c)')
                   = Taken(msgs, request_tlmsg[e], c) + Len(Source(e, c))
  <2>1. /\ Lined(msgs, m, Source(e, c)', Due(e, c), c)
        /\ Source(e, c)' \in Seq(Msgs)
        /\ Taken(msgs, m, c) + Len(Source(e, c)') = Taken(msgs, request_tlmsg[e], c) + Len(Source(e, c))
    BY <1>3, <1>5, SelectData
  <2> HIDE DEF msgs, m
  <2>2. /\ Lined(Append(msgs, m), NULL, Source(e, c)', Due(e, c), c)
        /\ Taken(Append(msgs, m), NULL, c) = Taken(msgs, m, c)
    BY <1>1, <1>5, <2>1, LinedSend
  <2> QED BY <1>3, <1>4, <2>1, <2>2
<1> QED BY <1>3, <1>4, <1>6, TXData

\* TX numbers a zero-tlmsg frame; the message selected is kept.
LEMMA ZeroData ==
    ASSUME TypeInv, LinkInv, DataInv, NEW e \in Endpoint, NEW elapsed, TX_Zero(e, elapsed)
    PROVE  DataInv'
<1> DEFINE msgs == Messages(txlog[e])
           m == Selected(e)
<1>1. /\ SendNormalFrame(e, elapsed, NULL) /\ NULL \in Msgs
      /\ request_tlmsg' = [request_tlmsg EXCEPT ![e] = m]
  BY DEF TX_Zero, Msgs
<1>2. PICK frames : TXCommon(e, elapsed, frames)
  BY <1>1 DEF SendNormalFrame
<1>3. /\ request_tlmsg'[e] = m
      /\ request_tlmsg'[Peer(e)] = request_tlmsg[Peer(e)]
      /\ message_buffer'[Peer(e)] = message_buffer[Peer(e)]
      /\ response_buffer'[Peer(e)] = response_buffer[Peer(e)]
      /\ UNCHANGED <<rxlog, tl_msg_buffer, mem, submitted, results, exited>>
      /\ select_buffer(e)
  BY <1>1, <1>2, TXRest
<1>4. /\ Messages(txlog'[e]) = Append(msgs, NULL)
      /\ \A i \in 1 .. Len(txlog[e]) : Messages(txlog'[e])[i] = msgs[i]
      /\ txlog'[Peer(e)] = txlog[Peer(e)]
  BY <1>1, NumberData
<1>5. SendsInOrder(e) /\ msgs \in Seq(Msgs)
  BY DataTypes DEF DataInv, DataOK
<1>6. ASSUME NEW c \in Both
      PROVE  /\ Lined(Messages(txlog'[e]), request_tlmsg'[e], Source(e, c)', Due(e, c), c)
             /\ Taken(Messages(txlog'[e]), request_tlmsg'[e], c) + Len(Source(e, c)')
                   = Taken(msgs, request_tlmsg[e], c) + Len(Source(e, c))
  <2>1. /\ Lined(msgs, m, Source(e, c)', Due(e, c), c)
        /\ Source(e, c)' \in Seq(Msgs)
        /\ Taken(msgs, m, c) + Len(Source(e, c)') = Taken(msgs, request_tlmsg[e], c) + Len(Source(e, c))
    BY <1>3, <1>5, SelectData
  <2> HIDE DEF msgs, m
  <2>2. /\ Lined(Append(msgs, NULL), m, Source(e, c)', Due(e, c), c)
        /\ Taken(Append(msgs, NULL), m, c) = Taken(msgs, m, c)
    BY <1>5, <2>1, LinedZero
  <2> QED BY <1>3, <1>4, <2>1, <2>2
<1> QED BY <1>3, <1>4, <1>6, TXData
-------------------------------------------------------------------------------
\* The steps of the receiver.

\* The frame expected next carries the message whose turn it is.
LEMMA TurnData ==
    ASSUME TypeInv, LinkInv, DataInv, NEW e \in Endpoint, fabric[e] # <<>>,
           Accept(e, Head(fabric[e])), NEW c \in Both
    PROVE  LET p == Peer(e)
               m == Head(fabric[e]).tlmsg
           IN  /\ Received(e, c) \in Nat
               /\ Received(e, c)' = Received(e, c) + One(m, c)
               /\ m.chan = c => Nth(Due(p, c), Received(e, c) + 1, m)
<1> DEFINE p == Peer(e)
           f == Head(fabric[e])
           m == f.tlmsg
           k == Len(rxlog[e])
           msgs == Messages(txlog[p])
<1>1. p \in Endpoint /\ DataOK(p)
  BY PeerFact DEF DataInv
<1>2. /\ rxlog' = [rxlog EXCEPT ![e] = Append(rxlog[e], Payload(f))] /\ txlog' = txlog
      /\ f.type # TYPE_ACKONLY /\ tloe_rx_get_req_type(e, f) = REQ_NORMAL
  BY DEF Accept, RXCommon
<1>3. k \in Nat /\ Len(txlog[p]) \in Nat
  BY <1>1, LinkLen
<1>4. k + 1 \in 1 .. Len(txlog[p]) /\ Payload(f) = txlog[p][k + 1]
  <2>1. PICK n \in 1 .. Len(txlog[p]) : Payload(f) = txlog[p][n] /\ n - 1 = k
    BY <1>2, ArrivedFacts
  <2>2. n = k + 1
    BY <1>3, <2>1
  <2> QED BY <2>1, <2>2
<1>5. msgs \in Seq(Msgs) /\ Len(msgs) = Len(txlog[p]) /\ txlog[p] \in Seq(LogEntry)
  BY <1>1, DataTypes
<1>6. msgs[k + 1] = m
  <2>1. k + 1 \in DOMAIN txlog[p]
    BY <1>4, <1>5
  <2>2. msgs[k + 1] = txlog[p][k + 1].tlmsg
    BY <2>1 DEF Messages
  <2>3. Payload(f).tlmsg = m
    BY DEF Payload
  <2> QED BY <1>4, <2>2, <2>3
<1>7. Len(rxlog'[e]) = k + 1
  <2>1. rxlog \in [Endpoint -> Seq(LogEntry)]
    BY DEF TypeInv, TypeOK, LinkTypeOK
  <2>2. rxlog[e] \in Seq(LogEntry) /\ rxlog'[e] = Append(rxlog[e], Payload(f))
    BY <1>2, <2>1
  <2>3. Payload(f) \in LogEntry
    BY <1>4, <1>5
  <2> QED BY <2>2, <2>3
<1> HIDE DEF f, m, k, msgs
<1>8. Received(e, c) = Rank(msgs, c, k) /\ Received(e, c)' = Rank(msgs, c, k + 1)
  BY <1>2, <1>7 DEF Received, msgs, k
<1>9. Rank(msgs, c, k) \in Nat /\ Rank(msgs, c, k + 1) = Rank(msgs, c, k) + One(m, c)
  BY <1>3, <1>6, RankFact
<1>10. ASSUME m.chan = c PROVE Nth(Due(p, c), Received(e, c) + 1, m)
  <2>1. Lined(msgs, request_tlmsg[p], Source(p, c), Due(p, c), c)
    BY <1>1 DEF DataOK, SendsInOrder, msgs
  <2>2. Nth(Due(p, c), Rank(msgs, c, k + 1), m)
    BY <1>4, <1>5, <1>6, <1>10, <2>1 DEF Lined
  <2>3. Rank(msgs, c, k + 1) = Received(e, c) + 1
    BY <1>8, <1>9, <1>10 DEF One
  <2> QED BY <2>2, <2>3
<1> QED BY <1>8, <1>9, <1>10 DEF m, f

\* The frame expected next is accepted.
LEMMA AcceptData ==
    ASSUME TypeInv, LinkInv, DataInv, NEW e \in Endpoint, fabric[e] # <<>>,
           Accept(e, Head(fabric[e])),
           tl_msg_buffer'[Peer(e)] = tl_msg_buffer[Peer(e)],
           exited'[Peer(e)] = exited[Peer(e)],
           exited'[e] = "no" =>
              \A c \in Both :
                 /\ Waits(tl_msg_buffer'[e], Due(Peer(e), c), Handled(e, c), c)
                 /\ Handled(e, c) + Rank(tl_msg_buffer'[e], c, Len(tl_msg_buffer'[e]))
                       = Received(e, c) + One(Head(fabric[e]).tlmsg, c)
    PROVE  DataInv'
<1> DEFINE p == Peer(e)
<1>1. p \in Endpoint /\ Peer(p) = e /\ p # e /\ Endpoint = {e, p} /\ DataOK(e) /\ DataOK(p)
  BY PeerFact DEF DataInv
<1>2. /\ UNCHANGED <<txlog, request_tlmsg, message_buffer, response_buffer, mem, results, submitted>>
      /\ rxlog' = [rxlog EXCEPT ![e] = Append(rxlog[e], Payload(Head(fabric[e])))]
  BY DEF Accept, RXCommon, loopVars, userVars
<1>3. rxlog'[p] = rxlog[p]
  <2>1. rxlog \in [Endpoint -> Seq(LogEntry)]
    BY DEF TypeInv, TypeOK, LinkTypeOK
  <2> QED BY <1>1, <1>2, <2>1
<1>4. DataOK(p)'
  BY <1>1, <1>2, <1>3, DataStays
<1>5. \A c \in Both : /\ Source(e, c)' = Source(e, c) /\ Due(e, c)' = Due(e, c)
                       /\ Due(p, c)' = Due(p, c) /\ Handled(e, c)' = Handled(e, c)
                       /\ Executed(e)' = Executed(e)
  BY <1>2 DEF Source, Due, Handled, Executed
<1>6. Executed(e)' = Executed(e)
  BY <1>2 DEF Executed
<1>7. SendsInOrder(e)' /\ MemoryWritten(e)' /\ Answered(e)'
  <2>1. SendsInOrder(e)'
    BY <1>1, <1>2, <1>5 DEF DataOK, SendsInOrder
  <2> QED BY <1>1, <1>2, <1>6, <2>1 DEF DataOK, MemoryWritten, Answered
<1>8. \A c \in Both : Received(e, c)' = Received(e, c) + One(Head(fabric[e]).tlmsg, c)
  BY TurnData
<1>9. HandlesInOrder(e)'
  BY <1>5, <1>8 DEF HandlesInOrder
<1> QED BY <1>1, <1>4, <1>7, <1>9 DEF DataInv, DataOK

\* A message that is accepted waits behind the others.
LEMMA NormalRXData ==
    ASSUME TypeInv, LinkInv, DataInv,
           NEW e \in Endpoint, fabric[e] # <<>>, serve_normal_request(e, Head(fabric[e]))
    PROVE  DataInv'
<1> DEFINE m == Head(fabric[e]).tlmsg
           queue == tl_msg_buffer[e]
<1>1. Accept(e, Head(fabric[e])) /\ exited[e] = "no"
  BY DEF serve_normal_request, Accept, RXCommon, At
<1>2. m \in Msgs
  <2>1. Head(fabric[e]) \in Frame
    BY EndpointTypes
  <2> QED BY <2>1, FrameFact DEF Msgs
<1>3. /\ tl_msg_buffer \in [Endpoint -> Seq(TLMsg)]
      /\ exited \in [Endpoint -> {"no", "tl_msg_buffer", "ack_buffer", "bounds"}]
      /\ e # Peer(e)
  BY PeerFact DEF TypeInv, TypeOK, LoopTypeOK
<1>4. CASE IsFull(tl_msg_buffer[e], TL_MSG_BUF)
  <2>1. tl_msg_buffer' = tl_msg_buffer /\ exited' = [exited EXCEPT ![e] = "tl_msg_buffer"]
    BY <1>4 DEF serve_normal_request
  <2>2. exited'[e] # "no" /\ exited'[Peer(e)] = exited[Peer(e)]
    BY <1>3, <2>1
  <2> QED BY <1>1, <2>1, <2>2, AcceptData
<1>5. CASE ~IsFull(tl_msg_buffer[e], TL_MSG_BUF)
  <2>1. /\ tl_msg_buffer' = [tl_msg_buffer EXCEPT ![e] = Append(tl_msg_buffer[e], m)]
        /\ exited' = exited
    BY <1>5 DEF serve_normal_request
  <2> HIDE DEF m
  <2>2. /\ tl_msg_buffer'[e] = Append(queue, m)
        /\ tl_msg_buffer'[Peer(e)] = tl_msg_buffer[Peer(e)]
    BY <1>3, <2>1
  <2>3. ASSUME NEW c \in Both
        PROVE  /\ Waits(tl_msg_buffer'[e], Due(Peer(e), c), Handled(e, c), c)
               /\ Handled(e, c) + Rank(tl_msg_buffer'[e], c, Len(tl_msg_buffer'[e]))
                     = Received(e, c) + One(m, c)
    <3> DEFINE n == Handled(e, c)
               ref == Due(Peer(e), c)
               r == Rank(queue, c, Len(queue))
    <3>1. n \in Nat /\ queue \in Seq(Msgs)
      BY DataTypes DEF Handled
    <3>2. Waits(queue, ref, n, c) /\ n + r = Received(e, c)
      BY <1>1 DEF DataInv, DataOK, HandlesInOrder
    <3>3. m.chan = c => Nth(ref, Received(e, c) + 1, m)
      BY <1>1, TurnData DEF m
    <3>4. Len(queue) \in Nat /\ Len(Append(queue, m)) = Len(queue) + 1
      BY <1>2, <3>1
    <3>5. Rank(Append(queue, m), c, Len(queue) + 1) = r + One(m, c) /\ r \in Nat
      BY <1>2, <3>1, <3>4, RankAppend, RankFact
    <3>6. One(m, c) \in {0, 1}
      BY OneFact
    <3> HIDE DEF n, ref, r, queue
    <3>7. n + (r + One(m, c)) = Received(e, c) + One(m, c)
      BY <3>1, <3>2, <3>5, <3>6
    <3>8. Waits(Append(queue, m), ref, n, c)
      <4>1. m.chan = c => Nth(ref, n + Rank(queue, c, Len(queue)) + 1, m)
        BY <3>2, <3>3 DEF r
      <4> QED BY <1>2, <3>1, <3>2, <4>1, WaitsPut
    <3> QED BY <2>2, <3>4, <3>5, <3>7, <3>8 DEF n, ref
  <2> QED BY <1>1, <2>1, <2>2, <2>3, AcceptData DEF m
<1> QED BY <1>4, <1>5

\* A zero-tlmsg frame has no message.
LEMMA ZeroRXData ==
    ASSUME TypeInv, LinkInv, DataInv,
           NEW e \in Endpoint, fabric[e] # <<>>, serve_zero_tlmsg_request(e, Head(fabric[e]))
    PROVE  DataInv'
<1>1. /\ Accept(e, Head(fabric[e])) /\ Head(fabric[e]).tlmsg = NULL
      /\ tl_msg_buffer' = tl_msg_buffer /\ exited' = exited
  BY DEF serve_zero_tlmsg_request
<1>2. exited[e] = "no" /\ HandlesInOrder(e)
  BY <1>1 DEF Accept, RXCommon, At, DataInv, DataOK
<1>3. \A c \in Both :
          /\ Waits(tl_msg_buffer[e], Due(Peer(e), c), Handled(e, c), c)
          /\ Handled(e, c) + Rank(tl_msg_buffer[e], c, Len(tl_msg_buffer[e])) = Received(e, c)
  BY <1>2 DEF HandlesInOrder
<1>4. \A c \in Both : Received(e, c) \in Nat /\ One(NULL, c) = 0
  BY <1>1, TurnData, OneFact
<1>5. \A c \in Both : Received(e, c) + One(Head(fabric[e]).tlmsg, c) = Received(e, c)
  BY <1>1, <1>4
<1> QED BY <1>1, <1>3, <1>5, AcceptData

\* A step that moves no message.
LEMMA NoDataMoves ==
    ASSUME DataInv, UNCHANGED <<txlog, rxlog, request_tlmsg, message_buffer, response_buffer,
                                tl_msg_buffer, mem, results, submitted>>,
           \A e \in Endpoint : exited'[e] = "no" => exited[e] = "no"
    PROVE  DataInv'
<1> SUFFICES ASSUME NEW e \in Endpoint PROVE DataOK(e)'
  BY DEF DataInv
<1>1. DataOK(e)
  BY DEF DataInv
<1> QED BY <1>1, DataStays

\* A duplicate and a frame out of sequence are not queued.
LEMMA RefusedData ==
    ASSUME TypeInv, DataInv, NEW e \in Endpoint, NEW f, NEW entry,
           RXCommon(e, f), QueueAck(e, entry)
    PROVE  DataInv'
<1>1. UNCHANGED <<txlog, rxlog, request_tlmsg, message_buffer, response_buffer,
                  tl_msg_buffer, mem, results, submitted>>
  BY DEF RXCommon, QueueAck, loopVars, userVars
<1>2. exited \in [Endpoint -> {"no", "tl_msg_buffer", "ack_buffer", "bounds"}] /\ exited[e] = "no"
  BY DEF TypeInv, TypeOK, LoopTypeOK, RXCommon, At
<1>3. exited' = exited \/ exited' = [exited EXCEPT ![e] = "ack_buffer"]
  BY DEF QueueAck
<1>4. \A x \in Endpoint : exited'[x] = "no" => exited[x] = "no"
  BY <1>2, <1>3
<1> QED BY <1>1, <1>4, NoDataMoves
-------------------------------------------------------------------------------
\* The steps of the handler.

\* The message tl_handler takes is the one whose turn it is.
LEMMA HandledNext ==
    ASSUME TypeInv, LinkInv, DataInv, NEW e \in Endpoint, exited[e] = "no",
           tl_msg_buffer[e] # <<>>, NEW c \in Both
    PROVE  LET m == Head(tl_msg_buffer[e])
               n == Handled(e, c)
               rest == Tail(tl_msg_buffer[e])
           IN  /\ n \in Nat
               /\ m.chan = c => Nth(Due(Peer(e), c), n + 1, m)
               /\ Waits(rest, Due(Peer(e), c), n + One(m, c), c)
               /\ n + One(m, c) + Rank(rest, c, Len(rest)) = Received(e, c)
<1> DEFINE b == tl_msg_buffer[e]
           n == Handled(e, c)
           ref == Due(Peer(e), c)
<1>1. n \in Nat /\ b \in Seq(Msgs)
  BY DataTypes DEF Handled
<1>2. Waits(b, ref, n, c) /\ n + Rank(b, c, Len(b)) = Received(e, c)
  BY DEF DataInv, DataOK, HandlesInOrder
<1>3. Head(b) = b[1] /\ b # <<>>
  BY <1>1
<1> HIDE DEF b, n, ref
<1>4. /\ b[1].chan = c => Nth(ref, n + 1, b[1])
      /\ Waits(Tail(b), ref, n + One(b[1], c), c)
      /\ n + One(b[1], c) + Rank(Tail(b), c, Len(Tail(b))) = n + Rank(b, c, Len(b))
  BY <1>1, <1>2, <1>3, WaitsTake
<1> QED BY <1>1, <1>2, <1>3, <1>4 DEF b, n, ref

\* A message is handled: what the three handlers have in common.
LEMMA HandleData ==
    ASSUME TypeInv, LinkInv, DataInv, NEW e \in Endpoint, tl_msg_buffer[e] # <<>>,
           TLCommon(e, Head(tl_msg_buffer[e])),
           response_buffer'[Peer(e)] = response_buffer[Peer(e)],
           mem'[Peer(e)] = mem[Peer(e)], results'[Peer(e)] = results[Peer(e)],
           exited'[Peer(e)] = exited[Peer(e)],
           exited'[e] = "no" =>
              \A c \in Both : Handled(e, c)' = Handled(e, c) + One(Head(tl_msg_buffer[e]), c),
           SendsInOrder(e)', MemoryWritten(e)', Answered(e)'
    PROVE  DataInv'
<1> DEFINE p == Peer(e)
<1>1. p \in Endpoint /\ Peer(p) = e /\ p # e /\ Endpoint = {e, p} /\ DataOK(p)
  BY PeerFact DEF DataInv
<1>2. /\ UNCHANGED <<txlog, rxlog, request_tlmsg, message_buffer, submitted>>
      /\ tl_msg_buffer' = [tl_msg_buffer EXCEPT ![e] = Tail(tl_msg_buffer[e])]
      /\ exited[e] = "no"
  BY DEF TLCommon, loopVars, linkVars, At
<1>3. tl_msg_buffer'[e] = Tail(tl_msg_buffer[e]) /\ tl_msg_buffer'[p] = tl_msg_buffer[p]
  <2>1. tl_msg_buffer \in [Endpoint -> Seq(TLMsg)]
    BY DEF TypeInv, TypeOK, LoopTypeOK
  <2> QED BY <1>1, <1>2, <2>1
<1>4. DataOK(p)'
  BY <1>1, <1>2, <1>3, DataStays
<1>5. \A c \in Both : Due(p, c)' = Due(p, c) /\ Received(e, c)' = Received(e, c)
  BY <1>2 DEF Due, Received
<1>6. HandlesInOrder(e)'
  <2> SUFFICES ASSUME exited'[e] = "no", NEW c \in Both
               PROVE  /\ Waits(tl_msg_buffer'[e], Due(p, c)', Handled(e, c)', c)
                      /\ Handled(e, c)' + Rank(tl_msg_buffer'[e], c, Len(tl_msg_buffer'[e]))
                            = Received(e, c)'
    BY DEF HandlesInOrder
  <2>1. Handled(e, c)' = Handled(e, c) + One(Head(tl_msg_buffer[e]), c)
    OBVIOUS
  <2> QED BY <1>2, <1>3, <1>5, <2>1, HandledNext
<1> QED BY <1>1, <1>4, <1>6 DEF DataInv, DataOK

\* An answer is queued.
LEMMA RespondData ==
    ASSUME TypeInv, LinkInv, DataInv, NEW e \in Endpoint, NEW x \in Answer,
           Nth(Expected(submitted[Peer(e)]), Executed(e) + 1, x),
           UNCHANGED <<txlog, request_tlmsg, message_buffer, submitted>>,
           response_buffer' = [response_buffer EXCEPT ![e] = Append(response_buffer[e], x)]
    PROVE  /\ SendsInOrder(e)' /\ Executed(e)' = Executed(e) + 1
           /\ response_buffer'[Peer(e)] = response_buffer[Peer(e)]
<1> DEFINE msgs == Messages(txlog[e])
           held == request_tlmsg[e]
           queue == response_buffer[e]
           ref == Expected(submitted[Peer(e)])
           t == Taken(msgs, held, CHANNEL_D)
<1>1. /\ queue \in Seq(Msgs) /\ Len(queue) \in Nat /\ x \in Msgs
      /\ t \in Nat /\ CHANNEL_D \in Both /\ CHANNEL_A \in Both /\ CHANNEL_A # CHANNEL_D
  BY DataTypes, ChannelFact, MsgFact DEF Msgs
<1>2. response_buffer'[e] = Append(queue, x) /\ response_buffer'[Peer(e)] = response_buffer[Peer(e)]
  <2>1. response_buffer \in [Endpoint -> Seq(Answer)]
    BY DEF TypeInv, TypeOK, LoopTypeOK
  <2> QED BY <2>1, PeerFact
<1>3. SendsInOrder(e)
  BY DEF DataInv, DataOK
<1>4. Executed(e) = t + Len(queue) /\ Executed(e)' = t + Len(Append(queue, x))
  BY <1>2 DEF Executed
<1>5. Lined(msgs, held, queue, ref, CHANNEL_D)
  BY <1>1, <1>3 DEF SendsInOrder, Source, Due
<1> HIDE DEF msgs, held, queue, ref, t
<1>6. Len(Append(queue, x)) = Len(queue) + 1
  BY <1>1
<1>7. Executed(e)' = Executed(e) + 1
  BY <1>1, <1>4, <1>6
<1>8. Lined(msgs, held, Append(queue, x), ref, CHANNEL_D)
  <2>1. Nth(ref, t + Len(queue) + 1, x)
    BY <1>4 DEF ref
  <2> QED BY <1>1, <1>5, <2>1, LinedPut DEF t
<1>9. ASSUME NEW c \in Both
      PROVE  Lined(Messages(txlog'[e]), request_tlmsg'[e], Source(e, c)', Due(e, c)', c)
  <2>1. c = CHANNEL_A \/ c = CHANNEL_D
    BY DEF Both
  <2>2. CASE c = CHANNEL_A
    BY <1>3, <2>2 DEF SendsInOrder, Source, Due
  <2>3. CASE c = CHANNEL_D
    BY <1>1, <1>2, <1>8, <2>3 DEF Source, Due, msgs, held, ref
  <2> QED BY <2>1, <2>2, <2>3
<1> QED BY <1>2, <1>3, <1>7, <1>9 DEF SendsInOrder

\* The request tl_handler takes, and what the peer's user must be answered.
LEMMA RequestData ==
    ASSUME TypeInv, LinkInv, DataInv, NEW e \in Endpoint, exited[e] = "no",
           tl_msg_buffer[e] # <<>>, Head(tl_msg_buffer[e]).chan = CHANNEL_A
    PROVE  LET m == Head(tl_msg_buffer[e])
               k == Executed(e)
               s == submitted[Peer(e)]
               x == IF m.opcode = A_PUTFULLDATA_OPCODE THEN AccessAck
                    ELSE AccessAckData(m.size, mem[e][m.addr])
           IN  /\ k \in Nat /\ k + 1 \in 1 .. Len(s) /\ m = s[k + 1] /\ m \in Request
               /\ x \in Answer
               /\ Nth(Expected(s), k + 1, x)
<1> DEFINE m == Head(tl_msg_buffer[e])
           k == Executed(e)
           s == submitted[Peer(e)]
           x == IF m.opcode = A_PUTFULLDATA_OPCODE THEN AccessAck
                ELSE AccessAckData(m.size, mem[e][m.addr])
<1>1. s \in Seq(Request) /\ k \in Nat
  BY PeerFact, DataTypes
<1>2. Handled(e, CHANNEL_A) = k /\ Due(Peer(e), CHANNEL_A) = s
  BY DEF Handled, Due
<1>3. Nth(s, k + 1, m)
  BY <1>2, ChannelFact, HandledNext
<1>4. k + 1 \in 1 .. Len(s) /\ m = s[k + 1] /\ m \in Request
  BY <1>1, <1>3 DEF Nth
<1>5. m.addr \in Addr /\ m.size \in {0, 3}
  BY <1>4 DEF Request, Get, PutFullData
<1>6. mem[e][m.addr] = Written(s, k, m.addr) /\ mem[e][m.addr] \in Val \cup {0}
  <2>1. MemoryWritten(e)
    BY DEF DataInv, DataOK
  <2>2. mem[e] \in [Addr -> Val \cup {0}]
    BY DEF TypeInv, TypeOK, LoopTypeOK
  <2> HIDE DEF m, k, s
  <2> QED BY <1>5, <2>1, <2>2 DEF MemoryWritten, k, s
<1>7. x \in Answer
  BY <1>5, <1>6 DEF Answer
<1> HIDE DEF m, k, s
<1>8. Expected(s)[k + 1] = IF m.opcode = A_PUTFULLDATA_OPCODE THEN AccessAck
                           ELSE AccessAckData(m.size, Written(s, k + 1, m.addr))
  BY <1>1, <1>4, ExpectedFact
<1>9. m.opcode # A_PUTFULLDATA_OPCODE => Written(s, k + 1, m.addr) = Written(s, k, m.addr)
  BY <1>1, <1>4, WrittenStep
<1>10. Expected(s)[k + 1] = x
  BY <1>6, <1>8, <1>9
<1>11. Len(Expected(s)) = Len(s)
  BY <1>1, ExpectedFact
<1> HIDE DEF x
<1>12. Nth(Expected(s), k + 1, x)
  BY <1>4, <1>10, <1>11 DEF Nth
<1> QED BY <1>1, <1>4, <1>7, <1>12 DEF m, k, s, x

\* A request that is executed: its answer is queued behind the others.
LEMMA ExecuteData ==
    ASSUME TypeInv, LinkInv, DataInv, NEW e \in Endpoint, tl_msg_buffer[e] # <<>>,
           NEW m, m = Head(tl_msg_buffer[e]), m.chan = CHANNEL_A, TLCommon(e, m),
           Respond(e, IF m.opcode = A_PUTFULLDATA_OPCODE THEN AccessAck
                      ELSE AccessAckData(m.size, mem[e][m.addr])),
           mem' = [mem EXCEPT ![e] = [a \in Addr |->
                      IF m.opcode = A_PUTFULLDATA_OPCODE /\ m.addr = a THEN m.data
                      ELSE mem[e][a]]],
           exited' = exited, results' = results
    PROVE  DataInv'
<1> DEFINE p == Peer(e)
           k == Executed(e)
           s == submitted[p]
<1>1. /\ UNCHANGED <<txlog, request_tlmsg, message_buffer, submitted>>
      /\ exited[e] = "no"
  BY DEF TLCommon, loopVars, linkVars, At
<1>2. /\ k \in Nat /\ k + 1 \in 1 .. Len(s) /\ m = s[k + 1]
      /\ Len(s) \in Nat
  BY <1>1, RequestData, PeerFact, DataTypes
<1>3. /\ SendsInOrder(e)' /\ Executed(e)' = k + 1
      /\ response_buffer'[p] = response_buffer[p]
  BY <1>1, RequestData, RespondData DEF Respond
<1>4. /\ mem'[p] = mem[p]
      /\ \A a \in Addr : mem'[e][a] = IF m.opcode = A_PUTFULLDATA_OPCODE /\ m.addr = a THEN m.data
                                      ELSE mem[e][a]
  <2>1. mem \in [Endpoint -> [Addr -> Val \cup {0}]] /\ p # e /\ p \in Endpoint
    BY PeerFact DEF TypeInv, TypeOK, LoopTypeOK
  <2> QED BY <2>1
<1>5. MemoryWritten(e)'
  <2>1. \A a \in Addr : mem[e][a] = Written(s, k, a)
    BY DEF DataInv, DataOK, MemoryWritten
  <2> HIDE DEF k, s
  <2>2. ASSUME NEW a \in Addr
        PROVE  Written(s, k + 1, a) =
            IF m.opcode = A_PUTFULLDATA_OPCODE /\ m.addr = a THEN m.data ELSE Written(s, k, a)
    <3>1. Written(s, k + 1, a) =
              IF s[k + 1].opcode = A_PUTFULLDATA_OPCODE /\ s[k + 1].addr = a
              THEN s[k + 1].data ELSE Written(s, k, a)
      BY <1>2, WrittenStep
    <3>2. m = s[k + 1]
      BY <1>2
    <3> QED BY <3>1, <3>2
  <2>3. \A a \in Addr : mem'[e][a] = Written(s, k + 1, a)
    BY <1>4, <2>1, <2>2
  <2>4. k + 1 <= Len(s)
    BY <1>2
  <2> QED BY <1>1, <1>3, <2>3, <2>4 DEF MemoryWritten, s
<1>6. Answered(e)'
  BY <1>1 DEF DataInv, DataOK, Answered
<1>7. ASSUME NEW c \in Both PROVE Handled(e, c)' = Handled(e, c) + One(m, c)
  <2>1. CASE c = CHANNEL_A
    BY <1>3, <2>1 DEF Handled, One
  <2>2. CASE c = CHANNEL_D
    <3>1. One(m, c) = 0 /\ Len(results[e]) \in Nat
      BY <2>2, ChannelFact, DataTypes DEF One
    <3> QED BY <2>2, <3>1, ChannelFact DEF Handled
  <2> QED BY <2>1, <2>2 DEF Both
<1> QED BY <1>3, <1>4, <1>5, <1>6, <1>7, HandleData

\* A request beyond the end of the memory ends the process.
LEMMA BeyondData ==
    ASSUME TypeInv, LinkInv, DataInv, NEW e \in Endpoint, tl_msg_buffer[e] # <<>>,
           TLCommon(e, Head(tl_msg_buffer[e])),
           exited' = [exited EXCEPT ![e] = "bounds"],
           UNCHANGED <<mem, response_buffer, results>>
    PROVE  DataInv'
<1>1. UNCHANGED <<txlog, request_tlmsg, message_buffer, submitted>>
  BY DEF TLCommon, loopVars, linkVars
<1>2. exited'[e] # "no" /\ exited'[Peer(e)] = exited[Peer(e)]
  <2>1. exited \in [Endpoint -> {"no", "tl_msg_buffer", "ack_buffer", "bounds"}]
    BY DEF TypeInv, TypeOK, LoopTypeOK
  <2> QED BY <2>1, PeerFact
<1>3. Executed(e)' = Executed(e)
  BY <1>1 DEF Executed
<1>4. \A c \in Both : Source(e, c)' = Source(e, c) /\ Due(e, c)' = Due(e, c)
  BY <1>1 DEF Source, Due
<1>5. SendsInOrder(e)'
  BY <1>1, <1>4 DEF DataInv, DataOK, SendsInOrder
<1>6. MemoryWritten(e)' /\ Answered(e)'
  BY <1>1, <1>3 DEF DataInv, DataOK, MemoryWritten, Answered
<1> QED BY <1>2, <1>5, <1>6, HandleData

\* The answer whose turn it is is taken.
LEMMA AnswerData ==
    ASSUME TypeInv, LinkInv, DataInv, NEW e \in Endpoint, tl_msg_buffer[e] # <<>>,
           NEW m, m = Head(tl_msg_buffer[e]), m.chan = CHANNEL_D, TLCommon(e, m),
           results' = [results EXCEPT ![e] = Append(results[e], m)],
           UNCHANGED <<mem, response_buffer, exited>>
    PROVE  DataInv'
<1> DEFINE p == Peer(e)
           k == Len(results[e])
           ref == Expected(submitted[e])
<1>1. UNCHANGED <<txlog, request_tlmsg, message_buffer, submitted>> /\ exited[e] = "no"
  BY DEF TLCommon, loopVars, linkVars, At
<1>2. Executed(e)' = Executed(e) /\ Executed(e) \in Nat
  BY <1>1, DataTypes DEF Executed
<1>3. \A c \in Both : Source(e, c)' = Source(e, c) /\ Due(e, c)' = Due(e, c)
  BY <1>1 DEF Source, Due
<1>4. SendsInOrder(e)'
  BY <1>1, <1>3 DEF DataInv, DataOK, SendsInOrder
<1>5. MemoryWritten(e)'
  BY <1>1, <1>2 DEF DataInv, DataOK, MemoryWritten
<1>6. Nth(ref, k + 1, m) /\ k \in Nat
  <2>1. Handled(e, CHANNEL_D) = k /\ Due(p, CHANNEL_D) = ref
    BY ChannelFact, PeerFact DEF Handled, Due
  <2>2. CHANNEL_D \in Both
    BY ChannelFact
  <2>3. Nth(Due(p, CHANNEL_D), Handled(e, CHANNEL_D) + 1, m)
    BY <1>1, <2>2, HandledNext
  <2> QED BY <2>1, <2>3, DataTypes
<1>7. /\ results'[p] = results[p] /\ Len(results'[e]) = k + 1
      /\ results'[e][k + 1] = m
      /\ \A i \in 1 .. k : results'[e][i] = results[e][i]
  <2>1. results \in [Endpoint -> Seq(Answer)] /\ results[e] \in Seq(Answer) /\ p # e /\ p \in Endpoint
    BY PeerFact DEF TypeInv, TypeOK, LoopTypeOK
  <2>2. results'[e] = Append(results[e], m) /\ results'[p] = results[p]
    BY <2>1
  <2> QED BY <2>1, <2>2
<1>8. Answered(e)'
  <2>1. \A i \in 1 .. k : Nth(ref, i, results[e][i])
    BY DEF DataInv, DataOK, Answered
  <2> HIDE DEF k, ref
  <2>2. ASSUME NEW i \in 1 .. k + 1 PROVE Nth(ref, i, results'[e][i])
    <3>1. CASE i = k + 1
      BY <1>6, <1>7, <3>1
    <3>2. CASE i # k + 1
      <4>1. i \in 1 .. k
        BY <1>6, <3>2
      <4> QED BY <1>7, <2>1, <4>1
    <3> QED BY <3>1, <3>2
  <2> QED BY <1>1, <1>7, <2>2 DEF Answered, ref
<1>9. ASSUME NEW c \in Both PROVE Handled(e, c)' = Handled(e, c) + One(m, c)
  <2>1. CASE c = CHANNEL_A
    <3>1. One(m, c) = 0
      BY <2>1, ChannelFact DEF One
    <3> QED BY <1>2, <2>1, <3>1 DEF Handled
  <2>2. CASE c = CHANNEL_D
    BY <1>7, <2>2, ChannelFact DEF Handled, One
  <2> QED BY <2>1, <2>2 DEF Both
<1> QED BY <1>4, <1>5, <1>7, <1>8, <1>9, HandleData
-------------------------------------------------------------------------------
\* The user, and the invariant.

\* A request is queued behind the others.
LEMMA SubmitData ==
    ASSUME TypeInv, LinkInv, DataInv, NEW e \in Endpoint, NEW m \in Request, Submit(e, m)
    PROVE  DataInv'
<1> DEFINE p == Peer(e)
           s == submitted[e]
           msgs == Messages(txlog[e])
           held == request_tlmsg[e]
           queue == message_buffer[e]
           t == Taken(msgs, held, CHANNEL_A)
<1>1. p \in Endpoint /\ Peer(p) = e /\ p # e /\ Endpoint = {e, p} /\ DataOK(e) /\ DataOK(p)
  BY PeerFact DEF DataInv
<1>2. /\ message_buffer' = [message_buffer EXCEPT ![e] = Append(queue, m)]
      /\ submitted' = [submitted EXCEPT ![e] = Append(s, m)]
      /\ UNCHANGED <<txlog, rxlog, request_tlmsg, response_buffer, tl_msg_buffer, mem, results, exited>>
  BY DEF Submit, loopVars, linkVars, tlVars
<1>3. /\ message_buffer'[e] = Append(queue, m) /\ message_buffer'[p] = message_buffer[p]
      /\ submitted'[e] = Append(s, m) /\ submitted'[p] = submitted[p]
  <2>1. /\ message_buffer \in [Endpoint -> Seq(Request)]
        /\ submitted \in [Endpoint -> Seq(Request)]
    BY DEF TypeInv, TypeOK, LoopTypeOK
  <2> QED BY <1>1, <1>2, <2>1
<1>4. /\ s \in Seq(Request) /\ Len(s) \in Nat /\ queue \in Seq(Msgs) /\ Len(queue) \in Nat
      /\ t \in Nat /\ m \in Msgs
      /\ CHANNEL_A \in Both /\ CHANNEL_D \in Both /\ CHANNEL_A # CHANNEL_D
  BY DataTypes, ChannelFact, MsgFact DEF Msgs
<1>5. Len(s) = t + Len(queue) /\ Lined(msgs, held, queue, s, CHANNEL_A)
  BY <1>1, <1>4 DEF DataOK, SendsInOrder, Source, Due
<1>6. /\ Executed(e)' = Executed(e) /\ Executed(p)' = Executed(p)
      /\ \A c \in Both : /\ Handled(e, c)' = Handled(e, c) /\ Handled(p, c)' = Handled(p, c)
                          /\ Received(e, c)' = Received(e, c) /\ Received(p, c)' = Received(p, c)
  BY <1>2 DEF Executed, Handled, Received
<1> HIDE DEF s, msgs, held, queue, t
<1>7. /\ Begins(s, Append(s, m)) /\ Begins(Expected(s), Expected(Append(s, m)))
      /\ \A n \in 0 .. Len(s) : \A a : Written(Append(s, m), n, a) = Written(s, n, a)
  BY <1>4, MoreRequests
<1>8. /\ Append(s, m) \in Seq(Request)
      /\ Len(Append(s, m)) = Len(s) + 1 /\ Len(Append(queue, m)) = Len(queue) + 1
      /\ Append(s, m)[Len(s) + 1] = m
  BY <1>4
<1>9. /\ Len(Expected(s)) \in Nat /\ Len(Expected(Append(s, m))) \in Nat
      /\ Len(Append(s, m)) \in Nat
  BY <1>4, <1>8, ExpectedFact
<1>10. /\ Due(e, CHANNEL_A) = s /\ Due(e, CHANNEL_A)' = Append(s, m)
       /\ Due(p, CHANNEL_D) = Expected(s) /\ Due(p, CHANNEL_D)' = Expected(Append(s, m))
       /\ Due(e, CHANNEL_D)' = Due(e, CHANNEL_D)
       /\ Due(p, CHANNEL_A)' = Due(p, CHANNEL_A)
  BY <1>1, <1>3, <1>4 DEF Due, s
<1>11. ASSUME NEW c \in Both
       PROVE  Begins(Due(e, c), Due(e, c)') /\ Begins(Due(p, c), Due(p, c)')
              /\ Len(Due(e, c)) \in Nat /\ Len(Due(p, c)) \in Nat
              /\ Len(Due(e, c)') \in Nat /\ Len(Due(p, c)') \in Nat
  <2>1. submitted[p] \in Seq(Request) /\ Len(submitted[p]) \in Nat
    BY <1>1, DataTypes
  <2>2. Len(Expected(submitted[p])) \in Nat
    BY <2>1, ExpectedFact
  <2>3. Due(p, CHANNEL_A) = submitted[p] /\ Due(e, CHANNEL_D) = Expected(submitted[p])
    BY <1>4 DEF Due
  <2>4. \A x : Len(x) \in Nat => Begins(x, x)
    BY DEF Begins
  <2>5. CASE c = CHANNEL_A
    BY <1>4, <1>7, <1>9, <1>10, <2>1, <2>3, <2>4, <2>5
  <2>6. CASE c = CHANNEL_D
    BY <1>4, <1>7, <1>9, <1>10, <2>2, <2>3, <2>4, <2>6
  <2> QED BY <2>5, <2>6 DEF Both
<1>12. ASSUME NEW c \in Both
       PROVE  /\ \A k, x : Nth(Due(p, c), k, x) => Nth(Due(p, c)', k, x)
              /\ \A x, y, z : Lined(x, y, z, Due(e, c), c) => Lined(x, y, z, Due(e, c)', c)
              /\ \A x, y, z : Lined(x, y, z, Due(p, c), c) => Lined(x, y, z, Due(p, c)', c)
              /\ \A x, n : Waits(x, Due(e, c), n, c) => Waits(x, Due(e, c)', n, c)
              /\ \A x, n : Waits(x, Due(p, c), n, c) => Waits(x, Due(p, c)', n, c)
  BY <1>11, ExpectedGrows
<1>13. SendsInOrder(e)'
  <2>1. Lined(msgs, held, Append(queue, m), Append(s, m), CHANNEL_A)
    <3>1. Lined(msgs, held, queue, Append(s, m), CHANNEL_A)
      BY <1>4, <1>5, <1>7, <1>8, ExpectedGrows
    <3>2. Nth(Append(s, m), t + Len(queue) + 1, m)
      BY <1>4, <1>5, <1>8 DEF Nth
    <3> QED BY <1>4, <3>1, <3>2, LinedPut DEF t
  <2>2. ASSUME NEW c \in Both
        PROVE  Lined(Messages(txlog'[e]), request_tlmsg'[e], Source(e, c)', Due(e, c)', c)
    <3>1. CASE c = CHANNEL_A
      <4>1. Source(e, c)' = Append(queue, m)
        BY <1>3, <3>1 DEF Source
      <4> QED BY <1>2, <1>10, <2>1, <3>1, <4>1 DEF msgs, held
    <3>2. CASE c = CHANNEL_D
      <4>1. Source(e, c)' = Source(e, c)
        BY <1>2, <1>4, <3>2 DEF Source
      <4>2. Lined(Messages(txlog[e]), request_tlmsg[e], Source(e, c), Due(e, c), c)
        BY <1>1 DEF DataOK, SendsInOrder
      <4> QED BY <1>2, <1>10, <3>2, <4>1, <4>2
    <3> QED BY <3>1, <3>2 DEF Both
  <2>3. Len(submitted'[e]) = Taken(Messages(txlog'[e]), request_tlmsg'[e], CHANNEL_A)
                                + Len(message_buffer'[e])
    <3>1. Len(s) + 1 = t + (Len(queue) + 1)
      BY <1>4, <1>5
    <3> QED BY <1>2, <1>3, <1>8, <3>1 DEF t, msgs, held
  <2> QED BY <2>2, <2>3 DEF SendsInOrder
<1>14. SendsInOrder(p)'
  <2>1. \A c \in Both : Source(p, c)' = Source(p, c)
    BY <1>2, <1>3 DEF Source
  <2>2. \A c \in Both : Lined(Messages(txlog[p]), request_tlmsg[p], Source(p, c), Due(p, c), c)
    BY <1>1 DEF DataOK, SendsInOrder
  <2>3. \A c \in Both : Lined(Messages(txlog'[p]), request_tlmsg'[p], Source(p, c)', Due(p, c)', c)
    BY <1>2, <1>12, <2>1, <2>2
  <2>4. Len(submitted'[p]) = Taken(Messages(txlog'[p]), request_tlmsg'[p], CHANNEL_A)
                                + Len(message_buffer'[p])
    BY <1>1, <1>2, <1>3 DEF DataOK, SendsInOrder
  <2> QED BY <2>3, <2>4 DEF SendsInOrder
<1>15. HandlesInOrder(e)' /\ HandlesInOrder(p)'
  <2>1. HandlesInOrder(e) /\ HandlesInOrder(p)
    BY <1>1 DEF DataOK
  <2>2. HandlesInOrder(e)'
    BY <1>2, <1>6, <1>12, <2>1 DEF HandlesInOrder
  <2>3. HandlesInOrder(p)'
    BY <1>1, <1>2, <1>6, <1>12, <2>1 DEF HandlesInOrder
  <2> QED BY <2>2, <2>3
<1>16. MemoryWritten(e)'
  BY <1>1, <1>2, <1>3, <1>6 DEF DataOK, MemoryWritten
<1>17. MemoryWritten(p)'
  <2>1. Executed(p) \in 0 .. Len(s) /\ \A a \in Addr : mem[p][a] = Written(s, Executed(p), a)
    BY <1>1, <1>4, DataTypes DEF DataOK, MemoryWritten, s
  <2>2. Executed(p) <= Len(Append(s, m))
    BY <1>4, <1>8, <2>1
  <2>3. \A a \in Addr : mem[p][a] = Written(Append(s, m), Executed(p), a)
    BY <1>7, <2>1
  <2> QED BY <1>1, <1>2, <1>3, <1>6, <2>2, <2>3 DEF MemoryWritten
<1>18. Answered(e)' /\ Answered(p)'
  <2>1. Answered(p)'
    BY <1>1, <1>2, <1>3 DEF DataOK, Answered
  <2>2. \A i \in 1 .. Len(results[e]) : Nth(Expected(s), i, results[e][i])
    BY <1>1 DEF DataOK, Answered, s
  <2>3. \A i \in 1 .. Len(results[e]) : Nth(Expected(Append(s, m)), i, results[e][i])
    BY <1>4, <1>10, <1>12, <2>2
  <2> QED BY <1>2, <1>3, <2>1, <2>3 DEF Answered
<1> QED BY <1>1, <1>13, <1>14, <1>15, <1>16, <1>17, <1>18 DEF DataInv, DataOK

\* At first nothing has been asked.
LEMMA InitData == Init => DataInv
<1> SUFFICES ASSUME Init, NEW e \in Endpoint PROVE DataOK(e)
  BY DEF DataInv
<1> DEFINE p == Peer(e)
<1>1. p \in Endpoint /\ Peer(p) = e
  BY PeerFact
<1>2. /\ txlog[e] = <<>> /\ txlog[p] = <<>> /\ rxlog[e] = <<>> /\ request_tlmsg[e] = NULL
      /\ message_buffer[e] = <<>> /\ response_buffer[e] = <<>> /\ tl_msg_buffer[e] = <<>>
      /\ submitted[e] = <<>> /\ submitted[p] = <<>> /\ results[e] = <<>>
      /\ \A a \in Addr : mem[e][a] = 0
  BY <1>1 DEF Init, Fresh
<1>3. Messages(<<>>) = <<>> /\ Len(<<>>) = 0
  BY EmptySums
<1>4. \A x, c : Rank(x, c, 0) = 0
  BY RankFact
<1>5. ASSUME NEW c \in Both
      PROVE  /\ Taken(<<>>, NULL, c) = 0 /\ NULL.chan # c
             /\ Source(e, c) = <<>>
             /\ Received(e, c) = 0
  BY <1>1, <1>2, <1>3, <1>4, OneFact DEF Taken, Source, Received
<1>6. Executed(e) = 0
  BY <1>2, <1>3, <1>5, ChannelFact DEF Executed
<1>7. SendsInOrder(e)
  BY <1>2, <1>3, <1>5, ChannelFact DEF SendsInOrder, Lined
<1>8. HandlesInOrder(e)
  <2>1. \A c \in Both : Handled(e, c) = 0
    BY <1>2, <1>3, <1>6 DEF Handled
  <2> QED BY <1>2, <1>3, <1>4, <1>5, <2>1 DEF HandlesInOrder, Waits
<1>9. MemoryWritten(e) /\ Answered(e)
  <2>1. \A a : Written(<<>>, 0, a) = 0
    BY DEF Written
  <2> QED BY <1>2, <1>3, <1>6, <2>1 DEF MemoryWritten, Answered
<1> QED BY <1>7, <1>8, <1>9 DEF DataOK

\* Every step keeps the messages in order.
LEMMA NextData == TypeInv /\ LinkInv /\ DataInv /\ [Next]_vars => DataInv'
<1> SUFFICES ASSUME TypeInv, LinkInv, DataInv, [Next]_vars PROVE DataInv'
  OBVIOUS
<1>1. CASE UNCHANGED vars
  BY <1>1, NoDataMoves DEF vars, loopVars, linkVars, tlVars, userVars
<1>2. ASSUME NEW e \in Endpoint, TX(e)
      PROVE  DataInv'
  BY <1>2, HoldData, MessageData, ZeroData DEF TX
<1>3. ASSUME NEW e \in Endpoint, RX(e)
      PROVE  DataInv'
  <2>1. CASE RX_Idle(e)
    BY <2>1, NoDataMoves DEF RX_Idle, loopVars, linkVars, tlVars, userVars
  <2>2. CASE fabric[e] # <<>> /\ RX_Ackonly(e, Head(fabric[e]))
    BY <2>2, NoDataMoves DEF RX_Ackonly, RXCommon, loopVars, userVars
  <2>3. CASE fabric[e] # <<>> /\ serve_normal_request(e, Head(fabric[e]))
    BY <2>3, NormalRXData
  <2>4. CASE fabric[e] # <<>> /\ serve_zero_tlmsg_request(e, Head(fabric[e]))
    BY <2>4, ZeroRXData
  <2>5. CASE fabric[e] # <<>> /\ serve_duplicate_request(e, Head(fabric[e]))
    BY <2>5, RefusedData DEF serve_duplicate_request
  <2>6. CASE fabric[e] # <<>> /\ serve_oos_request(e, Head(fabric[e]))
    BY <2>6, RefusedData DEF serve_oos_request
  <2> QED BY <1>3, <2>1, <2>2, <2>3, <2>4, <2>5, <2>6 DEF RX
<1>4. ASSUME NEW e \in Endpoint, tl_handler(e)
      PROVE  DataInv'
  <2> DEFINE m == Head(tl_msg_buffer[e])
  <2>0. mem \in [Endpoint -> [Addr -> Val \cup {0}]]
    BY DEF TypeInv, TypeOK, LoopTypeOK
  <2>1. CASE TL_Skip(e)
    BY <2>1, NoDataMoves DEF TL_Skip, loopVars, linkVars, tlVars, userVars
  <2>2. CASE tl_msg_buffer[e] # <<>> /\ handle_A_PUTFULLDATA_opcode(e, m)
    <3>1. /\ m.chan = CHANNEL_A /\ m.opcode = A_PUTFULLDATA_OPCODE /\ TLCommon(e, m)
          /\ results' = results
      BY <2>2 DEF handle_A_PUTFULLDATA_opcode, Is
    <3>2. CASE BeyondEnd(m)
      <4>1. exited' = [exited EXCEPT ![e] = "bounds"] /\ UNCHANGED <<mem, response_buffer>>
        BY <2>2, <3>2 DEF handle_A_PUTFULLDATA_opcode
      <4> QED BY <2>2, <3>1, <4>1, BeyondData
    <3>3. CASE ~BeyondEnd(m)
      <4>1. /\ mem' = [mem EXCEPT ![e] = [mem[e] EXCEPT ![m.addr] = m.data]]
            /\ Respond(e, AccessAck) /\ exited' = exited
        BY <2>2, <3>3 DEF handle_A_PUTFULLDATA_opcode
      <4> HIDE DEF m
      <4>2. [mem[e] EXCEPT ![m.addr] = m.data]
              = [a \in Addr |-> IF m.opcode = A_PUTFULLDATA_OPCODE /\ m.addr = a THEN m.data
                                ELSE mem[e][a]]
        BY <2>0, <3>1
      <4> QED BY <2>2, <3>1, <4>1, <4>2, ExecuteData DEF m
    <3> QED BY <3>2, <3>3
  <2>3. CASE tl_msg_buffer[e] # <<>> /\ handle_A_GET_opcode(e, m)
    <3>1. /\ m.chan = CHANNEL_A /\ m.opcode # A_PUTFULLDATA_OPCODE /\ TLCommon(e, m)
          /\ results' = results /\ mem' = mem
      BY <2>3 DEF handle_A_GET_opcode, Is, A_GET_OPCODE, A_PUTFULLDATA_OPCODE
    <3>2. CASE BeyondEnd(m)
      <4>1. exited' = [exited EXCEPT ![e] = "bounds"] /\ UNCHANGED response_buffer
        BY <2>3, <3>2 DEF handle_A_GET_opcode
      <4> QED BY <2>3, <3>1, <4>1, BeyondData
    <3>3. CASE ~BeyondEnd(m)
      <4>1. Respond(e, AccessAckData(m.size, mem[e][m.addr])) /\ exited' = exited
        BY <2>3, <3>3 DEF handle_A_GET_opcode
      <4> HIDE DEF m
      <4>2. mem' = [mem EXCEPT ![e] =
                [a \in Addr |-> IF m.opcode = A_PUTFULLDATA_OPCODE /\ m.addr = a THEN m.data
                                ELSE mem[e][a]]]
        BY <2>0, <3>1
      <4> QED BY <2>3, <3>1, <4>1, <4>2, ExecuteData DEF m
    <3> QED BY <3>2, <3>3
  <2>4. CASE tl_msg_buffer[e] # <<>> /\ handle_D_opcode(e, m)
    <3>1. /\ m.chan = CHANNEL_D /\ TLCommon(e, m)
          /\ results' = [results EXCEPT ![e] = Append(results[e], m)]
          /\ UNCHANGED <<mem, response_buffer, exited>>
      BY <2>4 DEF handle_D_opcode, Is
    <3> QED BY <2>4, <3>1, AnswerData
  <2> QED BY <1>4, <2>1, <2>2, <2>3, <2>4 DEF tl_handler
<1>5. ASSUME NEW e \in Endpoint, User(e)
      PROVE  DataInv'
  <2>1. PICK m \in Request : Submit(e, m)
    <3>1. CASE read_memory(e)
      <4>1. PICK a \in Addr : Submit(e, Get(a, 3))
        BY <3>1 DEF read_memory
      <4>2. Get(a, 3) \in Request
        BY DEF Request
      <4> QED BY <4>1, <4>2
    <3>2. CASE write_memory(e)
      <4>1. PICK a \in Addr, v \in Val : Submit(e, PutFullData(a, v))
        BY <3>2 DEF write_memory
      <4>2. PutFullData(a, v) \in Request
        BY DEF Request
      <4> QED BY <4>1, <4>2
    <3>3. CASE create_and_enqueue_message(e)
      <4>1. PICK a \in HeapAddr : Submit(e, Get(a, 0))
        BY <3>3 DEF create_and_enqueue_message
      <4>2. Get(a, 0) \in Request
        BY DataAssumption DEF Request
      <4> QED BY <4>1, <4>2
    <3> QED BY <1>5, <3>1, <3>2, <3>3 DEF User
  <2> QED BY <2>1, SubmitData
<1>6. ASSUME NEW e \in Endpoint, Lose(e)
      PROVE  DataInv'
  BY <1>6, NoDataMoves DEF Lose, loopVars, linkVars, tlVars, userVars
<1> QED BY <1>1, <1>2, <1>3, <1>4, <1>5, <1>6 DEF Next, Thread

\* The answers that have been handled are the first ones of those due.
LEMMA DataReads == TypeInv /\ LinkInv /\ DataInv => ReadsSeeWrites
<1> SUFFICES ASSUME TypeInv, LinkInv, DataInv, NEW e \in Endpoint
             PROVE  /\ Len(results[e]) <= Len(submitted[e])
                    /\ \A i \in DOMAIN results[e] : results[e][i] = Expected(submitted[e])[i]
  BY DEF ReadsSeeWrites
<1> DEFINE n == Len(results[e])
<1>1. /\ results[e] \in Seq(Answer) /\ n \in Nat
      /\ submitted[e] \in Seq(Request) /\ Len(submitted[e]) \in Nat
  BY DataTypes
<1>2. Len(Expected(submitted[e])) = Len(submitted[e])
  BY <1>1, ExpectedFact
<1>3. \A i \in 1 .. n : i \in 1 .. Len(submitted[e]) /\ results[e][i] = Expected(submitted[e])[i]
  BY <1>2 DEF DataInv, DataOK, Answered, Nth
<1>4. DOMAIN results[e] = 1 .. n
  BY <1>1
<1>5. n <= Len(submitted[e])
  <2>1. CASE n = 0
    BY <1>1, <2>1
  <2>2. CASE n # 0
    <3>1. n \in 1 .. n
      BY <1>1, <2>2
    <3> QED BY <1>1, <1>3, <3>1
  <2> QED BY <2>1, <2>2
<1> QED BY <1>3, <1>4, <1>5

\* A user's answers are those its requests have when each one is executed once
\* and in order, for every size of the queues and of the window, for any
\* number of requests, and whatever the fabric loses
\* (select_buffer, serve_normal_request, handle_A_GET_opcode).
THEOREM ReadsCorrect == Spec => []ReadsSeeWrites
<1>1. Init => TypeInv /\ DataInv
  BY InitType, InitData
<1>2. TypeInv /\ LinkInv /\ [Next]_vars => TypeInv'
  BY NextType, LinkBound
<1>3. TypeInv /\ LinkInv /\ DataInv /\ [Next]_vars => DataInv'
  BY NextData
<1>4. TypeInv /\ LinkInv /\ DataInv => ReadsSeeWrites
  BY DataReads
<1> QED BY <1>1, <1>2, <1>3, <1>4, LinkInvariant, PTL DEF Spec
===============================================================================
