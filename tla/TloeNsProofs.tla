----------------------------- MODULE TloeNsProofs -----------------------------
(***************************************************************************)
(* The drop counters of the network simulator, and what it does to the     *)
(* messages, for all messages, counts and sizes of the queues.             *)
(***************************************************************************)
EXTENDS TloeNs, SequenceTheorems, TLAPS

\* The inductive invariant behind NoExcessDrops: a decrement that has begun has
\* read a counter that was not 0, and what it is about to write is covered by
\* what had been asked when it read.
DropInv ==
    /\ drop_count \in [Port -> Nat] /\ asked \in [Port -> Nat] /\ dropped \in [Port -> Nat]
    /\ from \in Port
    /\ NoExcessDrops
    /\ pc = "load" => drop_count[from] > 0
    /\ pc = "store" => loaded \in Nat \ {0} /\ loaded + dropped[from] <= asked[from]

\* The simulator starts with nothing to drop.
LEMMA DropInit == NsInit => DropInv
BY DEF NsInit, DropInv, NoExcessDrops, Port

\* A step that leaves the counters alone, reads nothing and leaves the decrement
\* where it is, or ends it.
LEMMA DropUnchanged ==
    ASSUME DropInv, UNCHANGED <<drop_count, asked, dropped>>, from' \in Port,
           \/ pc' \notin {"load", "store"}
           \/ UNCHANGED <<pc, from, loaded>>
    PROVE  DropInv'
BY DEF DropInv, NoExcessDrops

\* A step of the relay.
LEMMA DropRelay ==
    ASSUME DropInv, Relay
    PROVE  DropInv'
<1> USE DEF counters
<1>0. from \in Port /\ Other(from) \in Port
  BY DEF DropInv, Other, Port
<1>1. ASSUME NEW p \in Port, thread_init(p) PROVE DropInv'
  BY <1>0, <1>1, DropUnchanged DEF thread_init
<1>2. CASE test_done
  BY <1>2, DropUnchanged DEF test_done, Port
<1>3. CASE tloe_mq_recv
  BY <1>0, <1>3, DropUnchanged DEF tloe_mq_recv, PortServed
<1>4. CASE test_drop_count
  BY <1>4 DEF test_drop_count, DropInv, NoExcessDrops
<1>5. CASE load_drop_count
  <2>1. /\ pc = "load" /\ pc' = "store" /\ loaded' = drop_count[from]
        /\ UNCHANGED <<drop_count, asked, dropped, from>>
    BY <1>5 DEF load_drop_count
  <2>2. loaded' \in Nat \ {0} /\ loaded' + dropped'[from'] <= asked'[from']
    BY <2>1 DEF DropInv, NoExcessDrops
  <2> QED BY <2>1, <2>2 DEF DropInv, NoExcessDrops
<1>6. CASE store_drop_count
  <2>1. /\ pc = "store" /\ pc' \notin {"load", "store"} /\ from' \in Port
        /\ drop_count' = [drop_count EXCEPT ![from] = loaded - 1]
        /\ dropped' = [dropped EXCEPT ![from] = @ + 1]
        /\ asked' = asked
    BY <1>0, <1>6 DEF store_drop_count, PortServed
  <2>2. loaded \in Nat \ {0} /\ loaded + dropped[from] <= asked[from]
    BY <2>1 DEF DropInv
  <2>3. drop_count' \in [Port -> Nat] /\ dropped' \in [Port -> Nat] /\ asked' \in [Port -> Nat]
    BY <1>0, <2>1, <2>2 DEF DropInv
  <2>4. ASSUME NEW p \in Port PROVE dropped'[p] + drop_count'[p] <= asked'[p]
    <3>1. CASE p = from
      BY <1>0, <2>1, <2>2, <3>1 DEF DropInv
    <3>2. CASE p # from
      BY <2>1, <3>2 DEF DropInv, NoExcessDrops
    <3> QED BY <3>1, <3>2
  <2> QED BY <2>1, <2>3, <2>4 DEF DropInv, NoExcessDrops
<1>7. CASE tloe_mq_send
  BY <1>0, <1>7, DropUnchanged DEF tloe_mq_send, PortServed
<1>8. CASE thread_close
  BY <1>0, <1>8, DropUnchanged DEF thread_close
<1> QED BY <1>1, <1>2, <1>3, <1>4, <1>5, <1>6, <1>7, <1>8 DEF Relay

\* A step of the command line; one that sets a counter may find the thread in
\* the middle of a decrement.
LEMMA DropCommand ==
    ASSUME DropInv, CommandLine
    PROVE  DropInv'
<1> USE DEF counters, thread, cli
<1>0. from \in Port
  BY DEF DropInv
<1>1. CASE tloe_ns_thread_start
  BY <1>0, <1>1, DropUnchanged DEF tloe_ns_thread_start
<1>2. ASSUME NEW next \in {"stop", "quit"}, tloe_ns_thread_stop(next) PROVE DropInv'
  BY <1>0, <1>2, DropUnchanged DEF tloe_ns_thread_stop
<1>3. CASE join \/ quit
  BY <1>0, <1>3, DropUnchanged DEF join, quit
<1>4. ASSUME NEW ports \in {{"A"}, {"B"}, Port}, NEW count \in Counts,
             tloe_ns_set_drop_count(ports, count)
      PROVE  DropInv'
  <2>1. count \in Nat \ {0}
    BY NsAssumption
  <2>2. /\ drop_count' = [p \in Port |-> IF p \in ports THEN count ELSE drop_count[p]]
        /\ asked' = [p \in Port |-> IF p \in ports THEN asked[p] + count ELSE asked[p]]
        /\ UNCHANGED <<dropped, pc, from, loaded>>
    BY <1>4 DEF tloe_ns_set_drop_count
  <2>3. drop_count' \in [Port -> Nat] /\ dropped' \in [Port -> Nat] /\ asked' \in [Port -> Nat]
    BY <2>1, <2>2 DEF DropInv
  <2>4. \A p \in Port : asked'[p] >= asked[p]
    BY <2>1, <2>2 DEF DropInv
  <2>5. ASSUME NEW p \in Port PROVE dropped'[p] + drop_count'[p] <= asked'[p]
    <3>1. dropped[p] \in Nat /\ drop_count[p] \in Nat /\ asked[p] \in Nat
          /\ dropped[p] + drop_count[p] <= asked[p]
      BY DEF DropInv, NoExcessDrops
    <3> QED BY <2>1, <2>2, <3>1
  <2>6. pc' = "load" => drop_count'[from'] > 0
    BY <1>0, <2>1, <2>2 DEF DropInv
  <2>7. pc' = "store" => loaded' \in Nat \ {0} /\ loaded' + dropped'[from'] <= asked'[from']
    BY <1>0, <2>2, <2>3, <2>4 DEF DropInv
  <2> QED BY <1>0, <2>2, <2>3, <2>5, <2>6, <2>7 DEF DropInv, NoExcessDrops
<1>5. CASE tloe_ns_flush_ports \/ flush_message_queue \/ flush_done
  BY <1>0, <1>5, DropUnchanged DEF tloe_ns_flush_ports, flush_message_queue, flush_done
<1>6. CASE flush_crash \/ end_of_input
  BY <1>0, <1>6, DropUnchanged DEF flush_crash, end_of_input
<1> QED BY <1>1, <1>2, <1>3, <1>4, <1>5, <1>6 DEF CommandLine

LEMMA DropNext == DropInv /\ [NsNext]_nsVars => DropInv'
<1> SUFFICES ASSUME DropInv, [NsNext]_nsVars PROVE DropInv'
  OBVIOUS
<1>1. ASSUME NEW p \in Port, EndpointSends(p) \/ EndpointReads(p) PROVE DropInv'
  BY <1>1, DropUnchanged DEF EndpointSends, EndpointReads, counters, thread, DropInv
<1>2. CASE UNCHANGED nsVars
  BY <1>2, DropUnchanged DEF nsVars, counters, thread, DropInv
<1> QED BY <1>1, <1>2, DropRelay, DropCommand DEF NsNext

\* However commands and decrements interleave, the simulator never drops more
\* messages than it was told to (tloe_ns_set_drop_count_a_to_b, thread_fn).
THEOREM DropsBounded == NsSpec => []NoExcessDrops
<1>1. DropInv => NoExcessDrops
  BY DEF DropInv
<1> QED BY DropInit, DropNext, <1>1, PTL DEF NsSpec
-------------------------------------------------------------------------------
\* The relay.

IsTable(f) == f = [p \in Port |-> f[p]]

LEMMA PortFact ==
    /\ \A p \in Port : Other(p) \in Port /\ Other(p) # p /\ Other(Other(p)) = p
    /\ \A p \in Port : NONE \notin Message[p]
BY NsAssumption DEF Port, Other

\* No queue over its limit, and in each only messages that belong there.
QueuesOK ==
    /\ IsTable(rx) /\ IsTable(tx) /\ IsTable(got)
    /\ \A p \in Port :
          /\ rx[p] \in Seq(Message[p]) /\ Len(rx[p]) <= MQ_MAXMSG
          /\ tx[p] \in Seq(Message[Other(p)]) /\ Len(tx[p]) <= MQ_MAXMSG
          /\ got[p] \in Message[Other(p)] \cup {NONE}

\* The thread has a message in its buffer exactly while it deals with it, and
\* a thread is started only when there is none.
ThreadOK ==
    /\ port \subseteq Port
    /\ is_done \in BOOLEAN
    /\ pc \in {"none", "init", "loop", "recv", "test", "load", "store", "send", "close", "crashed"}
    /\ from \in Port
    /\ buffer \in Message[from] \cup {NONE}
    /\ command \in {"none", "stop", "flush", "quit", "crashed"}
    /\ buffer # NONE => pc \in {"test", "load", "store", "send", "crashed"}
    /\ pc \in {"test", "load", "store", "send"} => buffer # NONE
    /\ command = "flush" => ~is_done
    /\ is_done /\ command = "none" => pc = "none"

\* The inductive invariant behind NsTypeOK and RelaysBothWays.
RelayInv == QueuesOK /\ ThreadOK

\* Queueing and taking a message.
LEMMA QueueFact ==
    ASSUME NEW S, NEW q \in Seq(S), Len(q) <= MQ_MAXMSG
    PROVE  /\ Len(q) \in Nat
           /\ \A m \in S : mq_send(q, m) \in Seq(S) /\ Len(mq_send(q, m)) <= MQ_MAXMSG
           /\ q # <<>> => /\ Head(q) \in S /\ Tail(q) \in Seq(S) /\ Len(Tail(q)) <= MQ_MAXMSG
<1>1. Len(q) \in Nat /\ MQ_MAXMSG \in Nat
  BY NsAssumption
<1>2. ASSUME NEW m \in S PROVE mq_send(q, m) \in Seq(S) /\ Len(mq_send(q, m)) <= MQ_MAXMSG
  <2>1. Append(q, m) \in Seq(S) /\ Len(Append(q, m)) = Len(q) + 1
    OBVIOUS
  <2> QED BY <1>1, <2>1 DEF mq_send
<1>3. ASSUME q # <<>> PROVE Head(q) \in S /\ Tail(q) \in Seq(S) /\ Len(Tail(q)) <= MQ_MAXMSG
  <2>1. Head(q) \in S /\ Tail(q) \in Seq(S) /\ Len(Tail(q)) = Len(q) - 1
    BY <1>3, HeadTailProperties
  <2> QED BY <1>1, <2>1
<1> QED BY <1>1, <1>2, <1>3

LEMMA RelayInit == NsInit => RelayInv
BY NsAssumption DEF NsInit, RelayInv, QueuesOK, ThreadOK, IsTable, Port

\* The steps of the relay thread.
LEMMA RelayKeeps ==
    ASSUME QueuesOK, ThreadOK, Relay
    PROVE  QueuesOK' /\ ThreadOK'
<1>0. /\ from \in Port /\ Other(from) \in Port /\ NONE \notin Message[from]
      /\ Other(Other(from)) = from /\ "A" \in Port /\ "B" \in Port
  BY PortFact DEF ThreadOK, Port
<1>1. ASSUME UNCHANGED <<rx, tx, got>> PROVE QueuesOK'
  BY <1>1 DEF QueuesOK
<1>2. ASSUME NEW p \in Port, thread_init(p) PROVE QueuesOK' /\ ThreadOK'
  BY <1>1, <1>2 DEF thread_init, ThreadOK, queues, cli
<1>3. CASE test_done
  <2>1. UNCHANGED <<rx, tx, got, is_done, command, port, buffer>> /\ pc = "loop" /\ from' = "A"
        /\ pc' \in {"close", "recv"}
    BY <1>3 DEF test_done, queues, cli
  <2>2. buffer = NONE
    BY <2>1 DEF ThreadOK
  <2>3. ~(is_done /\ command = "none")
    BY <2>1 DEF ThreadOK
  <2> QED BY <1>0, <1>1, <2>1, <2>2, <2>3 DEF ThreadOK
<1>4. CASE tloe_mq_recv
  <2>1. /\ pc = "recv" /\ UNCHANGED <<tx, got, is_done, command, port>>
        /\ buffer = NONE /\ ~(is_done /\ command = "none")
    BY <1>4 DEF tloe_mq_recv, cli, ThreadOK
  <2>2. CASE rx[from] = <<>>
    <3>1. PortServed /\ UNCHANGED <<rx, buffer>>
      BY <1>4, <2>2 DEF tloe_mq_recv, mq_receive_fails
    <3> QED BY <1>0, <1>1, <2>1, <3>1 DEF PortServed, ThreadOK
  <2>3. CASE rx[from] # <<>>
    <3>1. /\ buffer' = Head(rx[from]) /\ rx' = [rx EXCEPT ![from] = Tail(rx[from])]
          /\ pc' = "test" /\ from' = from
      BY <1>4, <2>3 DEF tloe_mq_recv, mq_receive_fails, TLOE_MQ_MSG_SIZE
    <3>2. /\ Head(rx[from]) \in Message[from] /\ Tail(rx[from]) \in Seq(Message[from])
          /\ Len(Tail(rx[from])) <= MQ_MAXMSG
      BY <1>0, <2>3, QueueFact DEF QueuesOK
    <3>3. QueuesOK'
      BY <1>0, <2>1, <3>1, <3>2 DEF QueuesOK, IsTable
    <3>4. buffer' \in Message[from] /\ buffer' # NONE
      BY <1>0, <3>1, <3>2
    <3> QED BY <1>0, <2>1, <3>1, <3>3, <3>4 DEF ThreadOK
  <2> QED BY <2>2, <2>3
<1>5. CASE test_drop_count
  BY <1>1, <1>5 DEF test_drop_count, ThreadOK, queues, cli
<1>6. CASE load_drop_count
  BY <1>1, <1>6 DEF load_drop_count, ThreadOK, queues, cli
<1>7. CASE store_drop_count
  BY <1>0, <1>1, <1>7 DEF store_drop_count, PortServed, ThreadOK, queues, cli
<1>8. CASE tloe_mq_send
  <2>1. /\ pc = "send" /\ UNCHANGED <<rx, got, is_done, command, port>>
        /\ buffer' = NONE /\ PortServed /\ buffer \in Message[from]
        /\ tx' = [tx EXCEPT ![Other(from)] = mq_send(tx[Other(from)], buffer)]
    BY <1>8 DEF tloe_mq_send, cli, ThreadOK
  <2>2. /\ mq_send(tx[Other(from)], buffer) \in Seq(Message[from])
        /\ Len(mq_send(tx[Other(from)], buffer)) <= MQ_MAXMSG
    <3>1. tx[Other(from)] \in Seq(Message[from]) /\ Len(tx[Other(from)]) <= MQ_MAXMSG
      BY <1>0 DEF QueuesOK
    <3> QED BY <2>1, <3>1, QueueFact
  <2>3. QueuesOK'
    BY <1>0, <2>1, <2>2 DEF QueuesOK, IsTable
  <2> QED BY <1>0, <2>1, <2>3 DEF PortServed, ThreadOK
<1>9. CASE thread_close
  BY <1>1, <1>9 DEF thread_close, ThreadOK, queues, cli
<1> QED BY <1>2, <1>3, <1>4, <1>5, <1>6, <1>7, <1>8, <1>9 DEF Relay

\* The steps of the command line.
LEMMA CommandKeeps ==
    ASSUME QueuesOK, ThreadOK, CommandLine
    PROVE  QueuesOK' /\ ThreadOK' /\ UNCHANGED <<rx, tx, got, from>>
<1> USE DEF queues, thread, cli
<1>1. ASSUME UNCHANGED <<rx, tx, got>> PROVE QueuesOK'
  BY <1>1 DEF QueuesOK
<1>2. CASE tloe_ns_thread_start
  BY <1>1, <1>2 DEF tloe_ns_thread_start, Typed, ThreadOK
<1>3. ASSUME NEW next \in {"stop", "quit"}, tloe_ns_thread_stop(next)
      PROVE  QueuesOK' /\ ThreadOK' /\ UNCHANGED <<rx, tx, got, from>>
  BY <1>1, <1>3 DEF tloe_ns_thread_stop, Typed, ThreadOK
<1>4. CASE join
  BY <1>1, <1>4 DEF join, ThreadOK
<1>5. ASSUME NEW ports, NEW count, tloe_ns_set_drop_count(ports, count)
      PROVE  QueuesOK' /\ ThreadOK' /\ UNCHANGED <<rx, tx, got, from>>
  BY <1>1, <1>5 DEF tloe_ns_set_drop_count, Typed, ThreadOK
<1>6. CASE tloe_ns_flush_ports
  BY <1>1, <1>6 DEF tloe_ns_flush_ports, Typed, ThreadOK
<1>7. CASE flush_message_queue
  <2>1. mq_receive_fails(FlushQueue, BUFFER_SIZE)
    BY DEF mq_receive_fails, BUFFER_SIZE, TLOE_MQ_MSG_SIZE
  <2>2. UNCHANGED <<rx, tx, got, port, is_done, pc, from, buffer, command>>
    BY <1>7, <2>1 DEF flush_message_queue
  <2> QED BY <1>1, <2>2 DEF ThreadOK
<1>8. CASE flush_done
  BY <1>1, <1>8 DEF flush_done, ThreadOK
<1>9. CASE flush_crash
  BY <1>1, <1>9 DEF flush_crash, ThreadOK
<1>10. CASE quit
  BY <1>1, <1>10 DEF quit, Typed, ThreadOK
<1>11. CASE end_of_input
  BY <1>1, <1>11 DEF end_of_input, Typed, ThreadOK
<1> QED BY <1>2, <1>3, <1>4, <1>5, <1>6, <1>7, <1>8, <1>9, <1>10, <1>11 DEF CommandLine

\* The steps of the endpoints.
LEMMA EndpointKeeps ==
    ASSUME QueuesOK, ThreadOK, NEW p \in Port, EndpointSends(p) \/ EndpointReads(p)
    PROVE  QueuesOK' /\ ThreadOK'
<1>1. UNCHANGED <<port, is_done, pc, from, buffer, command>>
  BY DEF EndpointSends, EndpointReads, thread, cli
<1>2. ThreadOK'
  BY <1>1 DEF ThreadOK
<1>3. CASE EndpointSends(p)
  <2>1. PICK m \in Message[p] : rx' = [rx EXCEPT ![p] = mq_send(rx[p], m)]
    BY <1>3 DEF EndpointSends
  <2>2. mq_send(rx[p], m) \in Seq(Message[p]) /\ Len(mq_send(rx[p], m)) <= MQ_MAXMSG
    BY QueueFact DEF QueuesOK
  <2>3. UNCHANGED <<tx, got>>
    BY <1>3 DEF EndpointSends
  <2> QED BY <1>2, <2>1, <2>2, <2>3 DEF QueuesOK, IsTable
<1>4. CASE EndpointReads(p)
  <2>1. /\ tx[p] # <<>> /\ UNCHANGED rx
        /\ got' = [got EXCEPT ![p] = Head(tx[p])] /\ tx' = [tx EXCEPT ![p] = Tail(tx[p])]
    BY <1>4 DEF EndpointReads
  <2>2. /\ Head(tx[p]) \in Message[Other(p)] /\ Tail(tx[p]) \in Seq(Message[Other(p)])
        /\ Len(Tail(tx[p])) <= MQ_MAXMSG
    BY <2>1, QueueFact DEF QueuesOK
  <2> QED BY <1>2, <2>1, <2>2 DEF QueuesOK, IsTable
<1> QED BY <1>3, <1>4
\* Every step keeps the invariant.
LEMMA RelayNext == RelayInv /\ [NsNext]_nsVars => RelayInv'
<1> SUFFICES ASSUME QueuesOK, ThreadOK, [NsNext]_nsVars PROVE QueuesOK' /\ ThreadOK'
  BY DEF RelayInv
<1>1. CASE UNCHANGED nsVars
  BY <1>1 DEF nsVars, queues, thread, cli, QueuesOK, ThreadOK
<1> QED BY <1>1, RelayKeeps, CommandKeeps, EndpointKeeps DEF NsNext

\* The simulator keeps its types: no queue over its limit, no counter below
\* zero, and in the buffer of the thread only a message from the port it is
\* relaying from, however commands and the thread interleave.
THEOREM NsTypeCorrect == NsSpec => []NsTypeOK
<1>1. DropInv /\ RelayInv => NsTypeOK
  <2> SUFFICES ASSUME DropInv, RelayInv PROVE NsTypeOK
    OBVIOUS
  <2>1. \A p \in Port : drop_count[p] \in Nat
    BY DEF DropInv
  <2> QED BY <2>1 DEF RelayInv, NsTypeOK, QueuesOK, ThreadOK
<1> QED BY <1>1, DropInit, DropNext, RelayInit, RelayNext, PTL DEF NsSpec
-------------------------------------------------------------------------------
\* What is on its way: what is in front of the thread, what it holds, and what
\* is behind it.

\* Three queues in a row.
Row(ahead, held, behind) == ahead \o held \o behind

\* The i-th element of the row.
InRow(ahead, held, behind, i) ==
    IF i <= Len(ahead) THEN ahead[i]
    ELSE IF i <= Len(ahead) + Len(held) THEN held[i - Len(ahead)]
    ELSE behind[i - (Len(ahead) + Len(held))]

LEMMA RowFact ==
    ASSUME NEW S, NEW t \in Seq(S), NEW b \in Seq(S), NEW r \in Seq(S)
    PROVE  /\ Row(t, b, r) \in Seq(S)
           /\ Len(t) \in Nat /\ Len(b) \in Nat /\ Len(r) \in Nat
           /\ Len(Row(t, b, r)) = Len(t) + Len(b) + Len(r)
           /\ \A i \in 1 .. Len(t) + Len(b) + Len(r) : Row(t, b, r)[i] = InRow(t, b, r, i)
<1>1. /\ t \o b \in Seq(S) /\ Len(t \o b) = Len(t) + Len(b)
      /\ \A i \in 1 .. Len(t) + Len(b) : (t \o b)[i] = IF i <= Len(t) THEN t[i] ELSE b[i - Len(t)]
  BY ConcatProperties
<1> DEFINE u == t \o b
<1>2. /\ u \o r \in Seq(S) /\ Len(u \o r) = Len(u) + Len(r)
      /\ \A i \in 1 .. Len(u) + Len(r) : (u \o r)[i] = IF i <= Len(u) THEN u[i] ELSE r[i - Len(u)]
  <2>1. u \in Seq(S)
    BY <1>1
  <2> HIDE DEF u
  <2> QED BY <2>1, ConcatProperties
<1>3. Len(t) \in Nat /\ Len(b) \in Nat /\ Len(r) \in Nat
  OBVIOUS
<1>4. Len(u) = Len(t) + Len(b)
      /\ \A i \in 1 .. Len(t) + Len(b) : u[i] = IF i <= Len(t) THEN t[i] ELSE b[i - Len(t)]
  BY <1>1
<1>5. Row(t, b, r) = u \o r
  BY DEF Row
<1> HIDE DEF u
<1> QED BY <1>2, <1>3, <1>4, <1>5 DEF InRow

\* A message joins the row.
LEMMA RowJoin ==
    ASSUME NEW S, NEW t \in Seq(S), NEW b \in Seq(S), NEW r \in Seq(S), NEW m \in S
    PROVE  Row(t, b, Append(r, m)) = Append(Row(t, b, r), m)
<1>1. t \o b \in Seq(S)
  OBVIOUS
<1> DEFINE u == t \o b
<1> HIDE DEF u
<1>2. u \in Seq(S) /\ <<m>> \in Seq(S) /\ Append(r, m) = r \o <<m>>
  BY <1>1, AppendIsConcat DEF u
<1>3. u \o (r \o <<m>>) = (u \o r) \o <<m>>
  BY <1>2, ConcatAssociative
<1>4. u \o r \in Seq(S)
  BY <1>2, ConcatProperties
<1>5. Append(u \o r, m) = (u \o r) \o <<m>>
  BY <1>4, AppendIsConcat
<1> QED BY <1>2, <1>3, <1>5 DEF Row, u

\* A message passes from one queue of the row to the next.
LEMMA RowPass ==
    ASSUME NEW S, NEW t \in Seq(S), NEW r \in Seq(S), NEW m \in S
    PROVE  /\ Row(Append(t, m), <<>>, r) = Row(t, <<m>>, r)
           /\ r # <<>> => Row(t, <<Head(r)>>, Tail(r)) = Row(t, <<>>, r)
<1>1. Append(t, m) = t \o <<m>> /\ <<m>> \in Seq(S) /\ Append(t, m) \in Seq(S) /\ <<>> \in Seq(S)
  BY AppendIsConcat
<1>2. Append(t, m) \o <<>> = Append(t, m) /\ t \o <<>> = t
  BY <1>1, ConcatEmptySeq
<1>3. Row(Append(t, m), <<>>, r) = Row(t, <<m>>, r)
  BY <1>1, <1>2 DEF Row
<1>4. ASSUME r # <<>> PROVE Row(t, <<Head(r)>>, Tail(r)) = Row(t, <<>>, r)
  <2> DEFINE h == <<Head(r)>>
             l == Tail(r)
  <2>1. h \in Seq(S) /\ l \in Seq(S) /\ h \o l = r
    <3>1. Head(r) \in S /\ l \in Seq(S) /\ Len(l) = Len(r) - 1 /\ Head(r) = r[1]
          /\ \A i \in 1 .. Len(l) : l[i] = r[i + 1]
      BY <1>4, HeadTailProperties
    <3>2. h \in Seq(S) /\ Len(h) = 1 /\ h[1] = r[1] /\ Len(r) \in Nat \ {0}
      BY <1>4, <3>1
    <3> HIDE DEF h, l
    <3>3. /\ h \o l \in Seq(S) /\ Len(h \o l) = Len(h) + Len(l)
          /\ \A i \in 1 .. Len(h) + Len(l) : (h \o l)[i] = IF i <= Len(h) THEN h[i] ELSE l[i - Len(h)]
      BY <3>1, <3>2, ConcatProperties
    <3>4. Len(h \o l) = Len(r)
      BY <3>1, <3>2, <3>3
    <3>5. ASSUME NEW i \in 1 .. Len(r) PROVE (h \o l)[i] = r[i]
      <4>1. (h \o l)[i] = IF i <= 1 THEN h[i] ELSE l[i - 1]
        BY <3>1, <3>2, <3>3
      <4>2. CASE i = 1
        BY <3>2, <4>1, <4>2
      <4>3. CASE i # 1
        <5>1. i - 1 \in 1 .. Len(l) /\ (i - 1) + 1 = i /\ ~(i <= 1)
          BY <3>1, <3>2, <4>3
        <5> QED BY <3>1, <4>1, <5>1
      <4> QED BY <4>2, <4>3
    <3> QED BY <3>1, <3>2, <3>3, <3>4, <3>5, SeqEqual
  <2>2. ASSUME NEW x \in Seq(S), NEW y \in Seq(S) PROVE (t \o x) \o y = t \o (x \o y)
    BY ConcatAssociative
  <2>3. (t \o h) \o l = t \o (h \o l)
    BY <2>1, <2>2
  <2> HIDE DEF h, l
  <2> QED BY <1>2, <2>1, <2>3 DEF Row, h, l
<1> QED BY <1>3, <1>4

\* The first message leaves the row.
LEMMA RowLeave ==
    ASSUME NEW S, NEW t \in Seq(S), NEW b \in Seq(S), NEW r \in Seq(S), t # <<>>
    PROVE  /\ Row(t, b, r) # <<>>
           /\ Head(Row(t, b, r)) = Head(t)
           /\ Tail(Row(t, b, r)) = Row(Tail(t), b, r)
<1> DEFINE w == Row(t, b, r)
           v == Row(Tail(t), b, r)
           n == Len(t) + Len(b) + Len(r)
<1>1. /\ Tail(t) \in Seq(S) /\ Len(Tail(t)) = Len(t) - 1
      /\ \A i \in 1 .. Len(t) - 1 : Tail(t)[i] = t[i + 1]
      /\ Len(t) \in Nat \ {0} /\ Len(b) \in Nat /\ Len(r) \in Nat
  OBVIOUS
<1>2. /\ w \in Seq(S) /\ Len(w) = n
      /\ \A i \in 1 .. n : w[i] = InRow(t, b, r, i)
  BY RowFact
<1>3. /\ v \in Seq(S) /\ Len(v) = n - 1
      /\ \A i \in 1 .. n - 1 : v[i] = InRow(Tail(t), b, r, i)
  <2>1. /\ v \in Seq(S) /\ Len(v) = Len(Tail(t)) + Len(b) + Len(r)
        /\ \A i \in 1 .. Len(Tail(t)) + Len(b) + Len(r) : v[i] = InRow(Tail(t), b, r, i)
    <3>1. Tail(t) \in Seq(S)
      BY <1>1
    <3>2. ASSUME NEW l \in Seq(S)
          PROVE  /\ Row(l, b, r) \in Seq(S) /\ Len(Row(l, b, r)) = Len(l) + Len(b) + Len(r)
                 /\ \A i \in 1 .. Len(l) + Len(b) + Len(r) : Row(l, b, r)[i] = InRow(l, b, r, i)
      BY RowFact
    <3> QED BY <3>1, <3>2, Zenon
  <2>2. Len(Tail(t)) + Len(b) + Len(r) = n - 1
    BY <1>1
  <2> HIDE DEF v, n
  <2> QED BY <2>1, <2>2
<1> HIDE DEF w, v
<1>4. n \in Nat \ {0}
  BY <1>1
<1>5. w # <<>> /\ Head(w) = Head(t)
  <2>1. w[1] = t[1]
    BY <1>1, <1>2, <1>4 DEF InRow
  <2> HIDE DEF n
  <2> QED BY <1>1, <1>2, <1>4, <2>1
<1>6. /\ Tail(w) \in Seq(S) /\ Len(Tail(w)) = n - 1
      /\ \A i \in 1 .. n - 1 : Tail(w)[i] = w[i + 1]
  <2> HIDE DEF n
  <2>1. /\ Tail(w) \in Seq(S) /\ Len(Tail(w)) = Len(w) - 1
        /\ \A i \in 1 .. Len(Tail(w)) : Tail(w)[i] = w[i + 1]
    BY <1>2, <1>5, HeadTailProperties
  <2> QED BY <1>2, <1>4, <2>1
<1>7. ASSUME NEW i \in 1 .. n - 1 PROVE Tail(w)[i] = v[i]
  <2>1. i + 1 \in 1 .. n
    BY <1>4
  <2>2. Tail(w)[i] = InRow(t, b, r, i + 1) /\ v[i] = InRow(Tail(t), b, r, i)
    BY <1>2, <1>3, <1>6, <2>1
  <2>3. /\ i + 1 <= Len(t) <=> i <= Len(t) - 1
        /\ i + 1 <= Len(t) + Len(b) <=> i <= Len(t) - 1 + Len(b)
        /\ i + 1 - Len(t) = i - (Len(t) - 1)
        /\ i + 1 - (Len(t) + Len(b)) = i - (Len(t) - 1 + Len(b))
    BY <1>1, <1>4
  <2>4. i <= Len(t) - 1 => Tail(t)[i] = t[i + 1]
    BY <1>1
  <2>5. InRow(t, b, r, i + 1) = InRow(Tail(t), b, r, i)
    BY <1>1, <2>3, <2>4 DEF InRow
  <2> QED BY <2>2, <2>5
<1>8. Tail(w) = v
  <2> HIDE DEF n
  <2> QED BY <1>3, <1>6, <1>7, SeqEqual
<1> QED BY <1>5, <1>8 DEF w, v

\* The message the thread holds is lost.
LEMMA RowLose ==
    ASSUME NEW S, NEW t \in Seq(S), NEW r \in Seq(S), NEW h \in Seq(S), Len(h) = 1
    PROVE  LET w == Row(t, h, r)
               k == Len(t) + 1
           IN  /\ k \in DOMAIN w
               /\ Row(t, <<>>, r) = SubSeq(w, 1, k - 1) \o SubSeq(w, k + 1, Len(w))
<1> DEFINE w == Row(t, h, r)
           k == Len(t) + 1
<1>1. Len(t) \in Nat /\ Len(r) \in Nat
  OBVIOUS
<1>2. /\ w \in Seq(S) /\ Len(w) = Len(t) + 1 + Len(r)
      /\ \A i \in 1 .. Len(t) + 1 + Len(r) : w[i] = InRow(t, h, r, i)
  <2>1. /\ w \in Seq(S) /\ Len(w) = Len(t) + Len(h) + Len(r)
        /\ \A i \in 1 .. Len(t) + Len(h) + Len(r) : w[i] = InRow(t, h, r, i)
    <3>1. ASSUME NEW l \in Seq(S)
          PROVE  /\ Row(t, l, r) \in Seq(S) /\ Len(Row(t, l, r)) = Len(t) + Len(l) + Len(r)
                 /\ \A i \in 1 .. Len(t) + Len(l) + Len(r) : Row(t, l, r)[i] = InRow(t, l, r, i)
      BY RowFact
    <3> QED BY <3>1, Zenon
  <2> QED BY <1>1, <2>1
<1> HIDE DEF w
<1>3. k \in DOMAIN w /\ DOMAIN w = 1 .. Len(w)
  <2>1. DOMAIN w = 1 .. Len(w)
    BY <1>2
  <2> QED BY <1>1, <1>2, <2>1
<1>4. /\ \A i \in 1 .. Len(t) : w[i] = t[i]
      /\ \A i \in 1 .. Len(r) : w[k + i] = r[i]
  <2>1. ASSUME NEW i \in 1 .. Len(r) PROVE w[k + i] = r[i]
    <3> DEFINE j == k + i
    <3>1. /\ j \in 1 .. Len(t) + 1 + Len(r) /\ ~(j <= Len(t)) /\ ~(j <= Len(t) + 1)
          /\ j - (Len(t) + 1) = i
      BY <1>1
    <3> HIDE DEF j
    <3>2. w[j] = r[i]
      BY <1>1, <1>2, <3>1 DEF InRow
    <3> QED BY <3>2 DEF j
  <2>2. ASSUME NEW i \in 1 .. Len(t) PROVE w[i] = t[i]
    BY <1>1, <1>2 DEF InRow
  <2> QED BY <2>1, <2>2
<1>5. SubSeq(w, 1, k - 1) = t
  <2>1. k - 1 = Len(t) /\ \A i \in 1 .. Len(t) : w[i] \in S
    BY <1>1, <1>4
  <2>2. /\ SubSeq(w, 1, Len(t)) \in Seq(S) /\ Len(SubSeq(w, 1, Len(t))) = Len(t)
        /\ \A i \in 1 .. Len(t) : SubSeq(w, 1, Len(t))[i] = w[i]
    BY <1>1, <2>1
  <2>3. \A i \in 1 .. Len(t) : SubSeq(w, 1, Len(t))[i] = t[i]
    BY <1>4, <2>2
  <2> QED BY <2>1, <2>2, <2>3, SeqEqual
<1>6. SubSeq(w, k + 1, Len(w)) = r
  <2> DEFINE u == SubSeq(w, k + 1, Len(w))
  <2>1. /\ k + 1 \in Int /\ Len(w) \in Int /\ \A i \in k + 1 .. Len(w) : w[i] \in S
        /\ Len(w) - (k + 1) + 1 = Len(r)
        /\ IF k + 1 <= Len(w) THEN TRUE ELSE Len(r) = 0
    BY <1>1, <1>2, <1>3
  <2>2. /\ u \in Seq(S) /\ Len(u) = IF k + 1 <= Len(w) THEN Len(w) - (k + 1) + 1 ELSE 0
        /\ \A i \in 1 .. Len(w) - (k + 1) + 1 : u[i] = w[(k + 1) + i - 1]
    BY <2>1, SubSeqProperties
  <2> HIDE DEF u
  <2>3. Len(u) = Len(r)
    BY <2>1, <2>2
  <2>4. ASSUME NEW i \in 1 .. Len(r) PROVE u[i] = r[i]
    <3>1. u[i] = w[(k + 1) + i - 1]
      BY <2>1, <2>2
    <3>2. (k + 1) + i - 1 = k + i
      BY <1>1
    <3> QED BY <1>4, <3>1, <3>2
  <2>5. u = r
    BY <2>2, <2>3, <2>4, SeqEqual
  <2> QED BY <2>5 DEF u
<1>7. Row(t, <<>>, r) = t \o r
  <2>1. t \o <<>> = t
    BY ConcatEmptySeq
  <2> QED BY <2>1 DEF Row
<1> HIDE DEF k
<1> QED BY <1>3, <1>5, <1>6, <1>7 DEF w, k
-------------------------------------------------------------------------------
\* The refinement.

\* What the thread holds of the messages from p.
Held(p) == IF from = p /\ buffer # NONE THEN <<buffer>> ELSE <<>>

\* A step of the messages from p, as LossyFifo allows it.
Sends(p) ==
    \E m \in Message[p] : InFlight(p)' = Append(InFlight(p), m) /\ got'[Other(p)] = got[Other(p)]
Arrives(p) ==
    /\ InFlight(p) # <<>>
    /\ got'[Other(p)] = Head(InFlight(p))
    /\ InFlight(p)' = Tail(InFlight(p))
Loses(p) ==
    /\ \E i \in DOMAIN InFlight(p) :
          InFlight(p)' = SubSeq(InFlight(p), 1, i - 1) \o SubSeq(InFlight(p), i + 1, Len(InFlight(p)))
    /\ got'[Other(p)] = got[Other(p)]
Waits(p) == InFlight(p)' = InFlight(p) /\ got'[Other(p)] = got[Other(p)]
Moves(p) == Sends(p) \/ Arrives(p) \/ Loses(p) \/ Waits(p)

\* What is on its way is a row.
LEMMA FlightFact ==
    ASSUME RelayInv, NEW p \in Port
    PROVE  /\ InFlight(p) = Row(tx[Other(p)], Held(p), rx[p])
           /\ InFlight(p)' = Row(tx'[Other(p)], Held(p)', rx'[p])
           /\ tx[Other(p)] \in Seq(Message[p]) /\ Held(p) \in Seq(Message[p])
           /\ rx[p] \in Seq(Message[p])
<1>1. Other(p) \in Port /\ Other(Other(p)) = p
  BY PortFact
<1>2. tx[Other(p)] \in Seq(Message[p]) /\ rx[p] \in Seq(Message[p])
  BY <1>1 DEF RelayInv, QueuesOK
<1>3. Held(p) \in Seq(Message[p])
  <2>1. CASE from = p /\ buffer # NONE
    <3>1. buffer \in Message[p]
      BY <2>1 DEF RelayInv, ThreadOK
    <3>2. <<buffer>> \in Seq(Message[p])
      <4>1. \A S : \A m \in S : <<m>> \in Seq(S)
        OBVIOUS
      <4> QED BY <3>1, <4>1, Zenon
    <3>3. Held(p) = <<buffer>>
      BY <2>1 DEF Held
    <3> QED BY <3>2, <3>3
  <2>2. CASE ~(from = p /\ buffer # NONE)
    <3>1. Held(p) = <<>>
      BY <2>2 DEF Held
    <3> QED BY <3>1
  <2> QED BY <2>1, <2>2
<1> QED BY <1>2, <1>3 DEF InFlight, Row, Held

\* A step that leaves the queues and what the thread holds.
LEMMA FlightStays ==
    ASSUME RelayInv, NEW p \in Port, UNCHANGED <<rx, tx, got>>, Held(p)' = Held(p)
    PROVE  Waits(p)
BY FlightFact DEF Waits

\* The message the thread holds is dropped.
LEMMA FlightDropped ==
    ASSUME RelayInv, NEW p \in Port, UNCHANGED <<rx, tx, got>>, Held(p)' = <<>>
    PROVE  Loses(p) \/ Waits(p)
<1> DEFINE t == tx[Other(p)]
           h == Held(p)
           r == rx[p]
           k == Len(t) + 1
           w == Row(t, h, r)
<1>1. /\ InFlight(p) = w /\ InFlight(p)' = Row(t, <<>>, r)
      /\ t \in Seq(Message[p]) /\ h \in Seq(Message[p]) /\ r \in Seq(Message[p])
  BY FlightFact
<1>2. CASE from = p /\ buffer # NONE
  <2>1. Len(h) = 1
    BY <1>2 DEF Held
  <2> HIDE DEF t, h, r
  <2>2. /\ k \in DOMAIN w
        /\ Row(t, <<>>, r) = SubSeq(w, 1, k - 1) \o SubSeq(w, k + 1, Len(w))
    BY <1>1, <2>1, RowLose
  <2> HIDE DEF k, w
  <2>3. Loses(p)
    BY <1>1, <2>2 DEF Loses
  <2> QED BY <2>3
<1>3. CASE ~(from = p /\ buffer # NONE)
  <2>1. Held(p) = <<>>
    BY <1>3 DEF Held
  <2> QED BY <2>1, FlightStays
<1> QED BY <1>2, <1>3

\* The thread takes a message, or finds none.
LEMMA RecvMoves ==
    ASSUME RelayInv, NEW p \in Port, tloe_mq_recv
    PROVE  Waits(p)
<1>1. /\ pc = "recv" /\ buffer = NONE /\ from \in Port /\ UNCHANGED <<tx, got>>
      /\ rx = [x \in Port |-> rx[x]]
  BY DEF tloe_mq_recv, RelayInv, ThreadOK, QueuesOK, IsTable
<1>2. Held(p) = <<>>
  BY <1>1 DEF Held
<1>3. CASE rx[from] = <<>>
  <2>1. UNCHANGED <<rx, buffer>>
    BY <1>3 DEF tloe_mq_recv, mq_receive_fails
  <2>2. Held(p)' = <<>>
    BY <1>1, <2>1 DEF Held
  <2> QED BY <1>1, <1>2, <2>1, <2>2, FlightStays
<1>4. CASE rx[from] # <<>>
  <2>1. buffer' = Head(rx[from]) /\ rx' = [rx EXCEPT ![from] = Tail(rx[from])] /\ from' = from
    BY <1>4 DEF tloe_mq_recv, mq_receive_fails, TLOE_MQ_MSG_SIZE
  <2>2. CASE from # p
    <3>1. rx'[p] = rx[p] /\ Held(p)' = <<>>
      BY <1>1, <2>1, <2>2 DEF Held
    <3> QED BY <1>1, <1>2, <3>1, FlightFact DEF Waits
  <2>3. CASE from = p
    <3> DEFINE t == tx[Other(p)]
               r == rx[p]
    <3>1. /\ t \in Seq(Message[p]) /\ r \in Seq(Message[p]) /\ r # <<>>
          /\ InFlight(p) = Row(t, <<>>, r)
      BY <1>2, <1>4, <2>3, FlightFact
    <3>2. Head(r) \in Message[p]
      BY <3>1
    <3>3. Head(r) # NONE
      BY <3>2, PortFact
    <3>4. rx'[p] = Tail(r) /\ Held(p)' = <<Head(r)>>
      BY <1>1, <2>1, <2>3, <3>3 DEF Held
    <3>5. InFlight(p)' = Row(t, <<Head(r)>>, Tail(r))
      BY <1>1, <3>4, FlightFact
    <3>6. Row(t, <<Head(r)>>, Tail(r)) = Row(t, <<>>, r)
      <4> HIDE DEF t, r
      <4> QED BY <3>1, <3>2, RowPass
    <3> QED BY <1>1, <3>1, <3>5, <3>6 DEF Waits
  <2> QED BY <2>2, <2>3
<1> QED BY <1>3, <1>4

\* The thread passes the message on, or loses it to a full queue.
LEMMA SendMoves ==
    ASSUME RelayInv, NEW p \in Port, tloe_mq_send
    PROVE  Loses(p) \/ Waits(p)
<1>1. /\ pc = "send" /\ buffer # NONE /\ buffer \in Message[from] /\ buffer' = NONE
      /\ from \in Port /\ UNCHANGED <<rx, got>>
      /\ tx' = [tx EXCEPT ![Other(from)] = mq_send(tx[Other(from)], buffer)]
      /\ tx = [x \in Port |-> tx[x]]
  BY DEF tloe_mq_send, RelayInv, ThreadOK, QueuesOK, IsTable
<1>2. Held(p)' = <<>>
  BY <1>1 DEF Held
<1>3. Other(p) \in Port /\ Other(from) \in Port /\ (Other(p) = Other(from) => p = from)
  BY <1>1, PortFact
<1>4. CASE from # p
  <2>1. Held(p) = <<>> /\ tx'[Other(p)] = tx[Other(p)]
    BY <1>1, <1>3, <1>4 DEF Held
  <2> QED BY <1>1, <1>2, <2>1, FlightFact DEF Waits
<1>5. CASE from = p /\ Len(tx[Other(p)]) < MQ_MAXMSG
  <2> DEFINE t == tx[Other(p)]
             r == rx[p]
             m == buffer
  <2>1. tx'[Other(p)] = Append(t, m) /\ Held(p) = <<m>> /\ m \in Message[p]
    BY <1>1, <1>3, <1>5 DEF Held, mq_send
  <2>2. /\ t \in Seq(Message[p]) /\ r \in Seq(Message[p])
        /\ InFlight(p) = Row(t, <<m>>, r)
        /\ InFlight(p)' = Row(Append(t, m), <<>>, r)
    BY <1>1, <1>2, <2>1, FlightFact
  <2>3. Row(Append(t, m), <<>>, r) = Row(t, <<m>>, r)
    <3> HIDE DEF t, r, m
    <3> QED BY <2>1, <2>2, RowPass
  <2> QED BY <1>1, <2>2, <2>3 DEF Waits
<1>6. CASE from = p /\ ~(Len(tx[Other(p)]) < MQ_MAXMSG)
  <2>1. tx' = tx
    BY <1>1, <1>3, <1>6 DEF mq_send
  <2> QED BY <1>1, <1>2, <2>1, FlightDropped
<1> QED BY <1>4, <1>5, <1>6

\* The endpoints send and read.
LEMMA EndpointMoves ==
    ASSUME RelayInv, NEW p \in Port, NEW x \in Port, EndpointSends(x) \/ EndpointReads(x)
    PROVE  Moves(p)
<1>1. UNCHANGED <<from, buffer>>
  BY DEF EndpointSends, EndpointReads, thread
<1>2. Held(p)' = Held(p)
  BY <1>1 DEF Held
<1>3. /\ rx = [y \in Port |-> rx[y]] /\ tx = [y \in Port |-> tx[y]] /\ got = [y \in Port |-> got[y]]
      /\ Other(p) \in Port /\ Other(x) \in Port
  BY PortFact DEF RelayInv, QueuesOK, IsTable
<1> DEFINE t == tx[Other(p)]
           h == Held(p)
           r == rx[p]
<1>4. /\ InFlight(p) = Row(t, h, r) /\ InFlight(p)' = Row(tx'[Other(p)], h, rx'[p])
      /\ t \in Seq(Message[p]) /\ h \in Seq(Message[p]) /\ r \in Seq(Message[p])
  BY <1>2, FlightFact
<1>5. CASE EndpointSends(x)
  <2>1. UNCHANGED <<tx, got>>
    BY <1>5 DEF EndpointSends
  <2>2. PICK m \in Message[x] : rx' = [rx EXCEPT ![x] = mq_send(rx[x], m)]
    BY <1>5 DEF EndpointSends
  <2>3. CASE x # p \/ ~(Len(rx[x]) < MQ_MAXMSG)
    <3>1. rx'[p] = rx[p]
      BY <1>3, <2>2, <2>3 DEF mq_send
    <3> QED BY <1>4, <2>1, <3>1 DEF Moves, Waits
  <2>4. CASE x = p /\ Len(rx[x]) < MQ_MAXMSG
    <3>1. rx'[p] = Append(r, m) /\ m \in Message[p]
      BY <1>3, <2>2, <2>4 DEF mq_send
    <3> HIDE DEF t, h, r
    <3>2. Row(t, h, Append(r, m)) = Append(Row(t, h, r), m)
      <4>1. \A y \in Message[p] : Row(t, h, Append(r, y)) = Append(Row(t, h, r), y)
        <5> DEFINE S == Message[p]
        <5>1. t \in Seq(S) /\ h \in Seq(S) /\ r \in Seq(S)
          BY <1>4
        <5> HIDE DEF S
        <5>2. \A y \in S : Row(t, h, Append(r, y)) = Append(Row(t, h, r), y)
          BY <5>1, RowJoin
        <5> QED BY <5>2 DEF S
      <4> QED BY <3>1, <4>1
    <3>3. InFlight(p)' = Append(InFlight(p), m)
      BY <1>4, <2>1, <3>1, <3>2 DEF t
    <3> QED BY <2>1, <3>1, <3>3 DEF Moves, Sends
  <2> QED BY <2>3, <2>4
<1>6. CASE EndpointReads(x)
  <2>1. /\ tx[x] # <<>> /\ rx' = rx
        /\ got' = [got EXCEPT ![x] = Head(tx[x])] /\ tx' = [tx EXCEPT ![x] = Tail(tx[x])]
    BY <1>6 DEF EndpointReads
  <2>2. CASE x # Other(p)
    <3>1. tx'[Other(p)] = t /\ got'[Other(p)] = got[Other(p)]
      BY <1>3, <2>1, <2>2
    <3> QED BY <1>4, <2>1, <3>1 DEF Moves, Waits
  <2>3. CASE x = Other(p)
    <3>1. t # <<>> /\ tx'[Other(p)] = Tail(t) /\ got'[Other(p)] = Head(t)
      BY <1>3, <2>1, <2>3
    <3>2. InFlight(p)' = Row(Tail(t), h, r)
      BY <1>4, <2>1, <3>1
    <3> HIDE DEF t, h, r
    <3>3. /\ Row(t, h, r) # <<>> /\ Head(Row(t, h, r)) = Head(t)
          /\ Tail(Row(t, h, r)) = Row(Tail(t), h, r)
      BY <1>4, <3>1, RowLeave
    <3> QED BY <1>4, <3>1, <3>2, <3>3 DEF Moves, Arrives
  <2> QED BY <2>2, <2>3
<1> QED BY <1>5, <1>6

\* Every step moves the messages from a port as LossyFifo allows it.
LEMMA EveryStepMoves ==
    ASSUME RelayInv, [NsNext]_nsVars, NEW p \in Port
    PROVE  Moves(p)
<1> USE DEF queues, thread, cli
<1>0. ASSUME UNCHANGED <<rx, tx, got, from, buffer>> PROVE Moves(p)
  <2>1. Held(p)' = Held(p)
    BY <1>0 DEF Held
  <2> QED BY <1>0, <2>1, FlightStays DEF Moves
<1>1. CASE UNCHANGED nsVars
  BY <1>0, <1>1 DEF nsVars
<1>2. CASE Relay
  <2>1. ASSUME NEW x \in Port, thread_init(x) PROVE Moves(p)
    BY <1>0, <2>1 DEF thread_init
  <2>2. CASE test_done
    <3>1. buffer = NONE /\ UNCHANGED <<rx, tx, got, buffer>>
      BY <2>2 DEF test_done, RelayInv, ThreadOK
    <3>2. Held(p)' = Held(p)
      BY <3>1 DEF Held
    <3> QED BY <3>1, <3>2, FlightStays DEF Moves
  <2>3. CASE tloe_mq_recv
    BY <2>3, RecvMoves DEF Moves
  <2>4. CASE test_drop_count \/ load_drop_count \/ thread_close
    BY <1>0, <2>4 DEF test_drop_count, load_drop_count, thread_close
  <2>5. CASE store_drop_count
    <3>1. UNCHANGED <<rx, tx, got>> /\ buffer' = NONE
      BY <2>5 DEF store_drop_count
    <3>2. Held(p)' = <<>>
      BY <3>1 DEF Held
    <3> QED BY <3>1, <3>2, FlightDropped DEF Moves
  <2>6. CASE tloe_mq_send
    BY <2>6, SendMoves DEF Moves
  <2> QED BY <1>2, <2>1, <2>2, <2>3, <2>4, <2>5, <2>6 DEF Relay
<1>3. CASE CommandLine
  <2>1. UNCHANGED <<rx, tx, got, from>>
    BY <1>3, CommandKeeps DEF RelayInv
  <2>2. buffer' = buffer \/ buffer' = NONE
    BY <1>3 DEF CommandLine, tloe_ns_thread_start, tloe_ns_thread_stop, join,
                tloe_ns_set_drop_count, tloe_ns_flush_ports, flush_message_queue, flush_done,
                flush_crash, quit, end_of_input
  <2>3. CASE buffer' = NONE
    <3>1. Held(p)' = <<>>
      BY <2>3 DEF Held
    <3> QED BY <2>1, <3>1, FlightDropped DEF Moves
  <2> QED BY <1>0, <2>1, <2>2, <2>3
<1>4. ASSUME NEW x \in Port, EndpointSends(x) \/ EndpointReads(x) PROVE Moves(p)
  BY <1>4, EndpointMoves
<1> QED BY <1>1, <1>2, <1>3, <1>4 DEF NsNext

\* In both directions the simulator loses messages but does not reorder,
\* repeat, invent or misdirect any, however it is stopped, started, flushed
\* and told to drop while the thread is anywhere in its loop
\* (thread_fn, flush_message_queue).
THEOREM RelayIsFifo == NsSpec => RelaysBothWays
<1>1. NsInit => FromA!LossyInit /\ FromB!LossyInit
  BY DEF NsInit, FromA!LossyInit, FromB!LossyInit, InFlight, Port, Other
<1>2. RelayInv /\ [NsNext]_nsVars => [FromA!LossyNext]_(FromA!lossyVars)
  <2> SUFFICES ASSUME RelayInv, [NsNext]_nsVars PROVE [FromA!LossyNext]_(FromA!lossyVars)
    OBVIOUS
  <2>1. Moves("A") /\ Other("A") = "B"
    BY EveryStepMoves DEF Port, Other
  <2> QED BY <2>1 DEF Moves, Sends, Arrives, Loses, Waits, FromA!LossyNext, FromA!Transmit,
                      FromA!Receive, FromA!LoseOne, FromA!RemoveAt, FromA!lossyVars
<1>3. RelayInv /\ [NsNext]_nsVars => [FromB!LossyNext]_(FromB!lossyVars)
  <2> SUFFICES ASSUME RelayInv, [NsNext]_nsVars PROVE [FromB!LossyNext]_(FromB!lossyVars)
    OBVIOUS
  <2>1. Moves("B") /\ Other("B") = "A"
    BY EveryStepMoves DEF Port, Other
  <2> QED BY <2>1 DEF Moves, Sends, Arrives, Loses, Waits, FromB!LossyNext, FromB!Transmit,
                      FromB!Receive, FromB!LoseOne, FromB!RemoveAt, FromB!lossyVars
<1> QED BY <1>1, <1>2, <1>3, RelayInit, RelayNext, PTL
        DEF NsSpec, RelaysBothWays, FromA!LossySpec, FromB!LossySpec
===============================================================================
