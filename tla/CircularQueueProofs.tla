------------------------- MODULE CircularQueueProofs -------------------------
(***************************************************************************)
(* The ring of CircularQueue implements BoundedFifo for every SIZE and     *)
(* every set of messages, provided the machine keeps the two stores of     *)
(* enqueue in order.                                                       *)
(***************************************************************************)
EXTENDS CircularQueue, SequenceTheorems, TLAPS

QueueInv == QueueTypeOK /\ RingInv
------------------------------------------------------------------------------
\* Indices.

\* Successor without the remainder.
LEMMA SuccessorFact ==
    ASSUME NEW i \in Slots
    PROVE  /\ Successor(i) = IF i = SIZE - 1 THEN 0 ELSE i + 1
           /\ Successor(i) \in Slots
<1>1. CASE i = SIZE - 1
  BY <1>1, QueueAssumption DEF Successor, Slots
<1>2. CASE i # SIZE - 1
  BY <1>2, QueueAssumption DEF Successor, Slots
<1> QED BY <1>1, <1>2

\* How many messages the ring holds, and what empty and full mean.
LEMMA CountFact ==
    ASSUME QueueTypeOK
    PROVE  /\ Count \in 0 .. SIZE - 1
           /\ is_queue_empty <=> Count = 0
           /\ is_queue_full <=> Count = SIZE - 1
           /\ Slot(front + Count) = rear
<1>1. front \in Slots /\ rear \in Slots /\ SIZE \in Nat \ {0, 1}
  BY QueueAssumption DEF QueueTypeOK
<1>2. Successor(rear) = IF rear = SIZE - 1 THEN 0 ELSE rear + 1
  BY <1>1, SuccessorFact
<1> QED BY <1>1, <1>2 DEF Count, Slot, Slots, is_queue_empty, is_queue_full

\* The slots between front and rear are slots, other than the one at rear.
LEMMA SlotFact ==
    ASSUME QueueTypeOK, NEW i \in 1 .. Count
    PROVE  /\ Slot(front + i - 1) \in Slots
           /\ Slot(front + i - 1) # rear
<1>1. front \in Slots /\ rear \in Slots /\ SIZE \in Nat \ {0, 1}
  BY QueueAssumption DEF QueueTypeOK
<1> QED BY <1>1 DEF Count, Slot, Slots

\* Contents is a sequence of Count elements.
LEMMA ContentsFact ==
    ASSUME QueueTypeOK
    PROVE  /\ Contents \in Seq(Msg \cup {Garbage})
           /\ Len(Contents) = Count
           /\ DOMAIN Contents = 1 .. Count
           /\ Count \in Nat
<1>1. Count \in Nat
  BY CountFact, QueueAssumption
<1>2. \A i \in 1 .. Count : data[Slot(front + i - 1)] \in Msg \cup {Garbage}
  BY SlotFact DEF QueueTypeOK
<1> QED BY <1>1, <1>2 DEF Contents
------------------------------------------------------------------------------
\* The invariant.

\* The ring is created empty, with nobody inside.
LEMMA InitInv == QueueInit => QueueInv
BY QueueAssumption DEF QueueInit, QueueInv, QueueTypeOK, RingInv, Slots

\* Every step keeps QueueTypeOK.
LEMMA TypeStep ==
    ASSUME QueueInv, [QueueNext]_queueVars
    PROVE  QueueTypeOK'
<1> USE DEF QueueInv, QueueTypeOK, RingInv
<1>1. ASSUME NEW m \in Msg, Allocate(m) PROVE QueueTypeOK'
  BY <1>1 DEF Allocate, ring
<1>2. CASE WaitForRoom
  BY <1>2 DEF WaitForRoom, ring
<1>3. CASE enqueue_check
  BY <1>3 DEF enqueue_check, ring
<1>4. CASE enqueue_store
  BY <1>4 DEF enqueue_store
<1>5. CASE enqueue_publish
  BY <1>5, SuccessorFact DEF enqueue_publish
<1>7. CASE delete_and_create
  BY <1>7, QueueAssumption DEF delete_and_create, Slots
<1>8. CASE dequeue_check
  BY <1>8 DEF dequeue_check, ring
<1>9. CASE dequeue_load
  BY <1>9 DEF dequeue_load, ring
<1>10. CASE dequeue_advance
  BY <1>10, SuccessorFact DEF dequeue_advance
<1>11. CASE UNCHANGED queueVars
  BY <1>11 DEF queueVars, ring
<1> QED BY <1>1, <1>2, <1>3, <1>4, <1>5, <1>7, <1>8, <1>9, <1>10, <1>11
        DEF QueueNext, Producer, Consumer

\* Every step keeps RingInv: what one thread has found out, the other's steps
\* do not undo.
LEMMA RingStep ==
    ASSUME QueueInv, [QueueNext]_queueVars
    PROVE  RingInv'
<1>0. /\ front \in Slots /\ rear \in Slots /\ SIZE \in Nat \ {0, 1}
      /\ data \in [Slots -> Msg \cup {Garbage}]
  BY QueueAssumption DEF QueueInv, QueueTypeOK
<1>a. /\ Successor(rear) = IF rear = SIZE - 1 THEN 0 ELSE rear + 1
      /\ Successor(front) = IF front = SIZE - 1 THEN 0 ELSE front + 1
  BY <1>0, SuccessorFact
<1> USE DEF QueueInv, RingInv, is_queue_empty, is_queue_full
<1>1. ASSUME NEW m \in Msg, Allocate(m) PROVE RingInv'
  BY <1>1 DEF Allocate, ring
<1>2. CASE WaitForRoom
  BY <1>2 DEF WaitForRoom, ring
<1>3. CASE enqueue_check
  BY <1>3 DEF enqueue_check, ring
<1>4. CASE enqueue_store
  <2>1. /\ producer = "store" /\ producer' = "publish"
        /\ data' = [data EXCEPT ![rear] = item]
        /\ UNCHANGED <<front, rear, item, consumer, local>>
    BY <1>4 DEF enqueue_store
  <2>2. data'[rear'] = item'
    BY <1>0, <2>1
  <2>3. consumer' = "advance" => local' = data'[front']
    BY <1>0, <2>1
  <2> QED BY <2>1, <2>2, <2>3
<1>5. CASE enqueue_publish
  BY <1>0, <1>a, <1>5 DEF enqueue_publish, Slots
<1>7. CASE delete_and_create
  BY <1>7 DEF delete_and_create
<1>8. CASE dequeue_check
  BY <1>8 DEF dequeue_check, ring
<1>9. CASE dequeue_load
  BY <1>9 DEF dequeue_load, ring
<1>10. CASE dequeue_advance
  <2>1. /\ consumer = "advance" /\ consumer' = "idle"
        /\ front' = Successor(front)
        /\ UNCHANGED <<data, rear, producer, item>>
    BY <1>10 DEF dequeue_advance
  <2>2. producer' \in {"enqueue", "store", "publish"} => ~is_queue_full'
    BY <1>0, <1>a, <2>1 DEF Slots
  <2> QED BY <2>1, <2>2
<1>11. CASE UNCHANGED queueVars
  BY <1>11 DEF queueVars, ring
<1> QED BY <1>1, <1>2, <1>3, <1>4, <1>5, <1>7, <1>8, <1>9, <1>10, <1>11
        DEF QueueNext, Producer, Consumer

\* The invariant of the ring, whatever its size (enqueue, dequeue).
THEOREM RingInvariant ==
    QueueSpec => [](QueueTypeOK /\ RingInv)
<1>1. QueueInv /\ [QueueNext]_queueVars => QueueInv'
  BY TypeStep, RingStep DEF QueueInv
<1> QED BY InitInv, <1>1, PTL DEF QueueSpec, QueueInv

\* The indices stay within the ring and both threads in their code, and what
\* dequeue returns was allocated (create_queue, enqueue, dequeue).
THEOREM QueueTypeCorrect == QueueSpec => []QueueTypeOK
<1>1. QueueTypeOK /\ RingInv => QueueTypeOK
  OBVIOUS
<1> QED BY RingInvariant, <1>1, PTL

\* A message whose turn the user thread has awaited is never refused, for every
\* size of the ring (write_memory, enqueue).
THEOREM QueueNeverRefuses == QueueSpec => []NeverRefused
<1>1. RingInv => NeverRefused
  BY DEF RingInv, NeverRefused
<1> QED BY RingInvariant, <1>1, PTL

\* The slot one thread writes is not the one the other reads: a thread that is
\* past its test has found the ring neither full nor empty, and the other's steps
\* keep it so (enqueue, dequeue).
THEOREM QueueSharesNoSlot == QueueSpec => []NoSlotShared
<1>1. RingInv => NoSlotShared
  BY DEF RingInv, NoSlotShared, is_queue_empty
<1> QED BY RingInvariant, <1>1, PTL
------------------------------------------------------------------------------
\* The refinement: what each step does to Contents.

\* Append, as a function.
LEMMA AppendFunction ==
    ASSUME NEW S, NEW s \in Seq(S), NEW e \in S
    PROVE  Append(s, e) = [i \in 1 .. Len(s) + 1 |-> IF i = Len(s) + 1 THEN e ELSE s[i]]
<1>1. /\ Append(s, e) \in Seq(S) /\ Len(Append(s, e)) = Len(s) + 1
      /\ \A i \in 1 .. Len(s) : Append(s, e)[i] = s[i]
      /\ Append(s, e)[Len(s) + 1] = e
  BY AppendProperties
<1>2. Len(s) \in Nat /\ Append(s, e) \in [1 .. Len(s) + 1 -> S]
  BY <1>1, LenProperties
<1>3. \A i \in 1 .. Len(s) + 1 : i # Len(s) + 1 => i \in 1 .. Len(s)
  BY <1>2
<1> QED BY <1>1, <1>2, <1>3

\* Tail, as a function.
LEMMA TailFunction ==
    ASSUME NEW S, NEW s \in Seq(S), s # <<>>
    PROVE  Tail(s) = [i \in 1 .. Len(s) - 1 |-> s[i + 1]]
<1>1. /\ Tail(s) \in Seq(S) /\ Len(Tail(s)) = Len(s) - 1
      /\ \A i \in 1 .. Len(Tail(s)) : Tail(s)[i] = s[i + 1]
  BY HeadTailProperties
<1>2. Tail(s) \in [1 .. Len(s) - 1 -> S]
  BY <1>1, LenProperties
<1> QED BY <1>1, <1>2

\* Steps that leave the indices and the slots between them alone.
LEMMA SameContents ==
    ASSUME QueueTypeOK, front' = front, rear' = rear,
           \A j \in Slots : j # rear => data'[j] = data[j]
    PROVE  Contents' = Contents
<1>1. Count' = Count
  BY DEF Count
<1>2. \A i \in 1 .. Count : data'[Slot(front + i - 1)] = data[Slot(front + i - 1)]
  BY SlotFact
<1> QED BY <1>1, <1>2 DEF Contents, Slot

\* Publishing appends the message of the slot at rear.
LEMMA PublishAppends ==
    ASSUME QueueInv, enqueue_publish
    PROVE  /\ Contents' = Append(Contents, item)
           /\ Len(Contents) < SIZE - 1
<1>1. /\ front \in Slots /\ rear \in Slots /\ SIZE \in Nat \ {0, 1}
      /\ QueueTypeOK /\ ~is_queue_full /\ data[rear] = item
      /\ front' = front /\ data' = data /\ rear' = Successor(rear)
  BY QueueAssumption DEF QueueInv, QueueTypeOK, RingInv, enqueue_publish
<1>2. rear' = IF rear = SIZE - 1 THEN 0 ELSE rear + 1
  BY <1>1, SuccessorFact
<1>3. Count \in 0 .. SIZE - 1 /\ Count # SIZE - 1 /\ Slot(front + Count) = rear
  BY <1>1, CountFact
<1>4. Count' = Count + 1
  BY <1>1, <1>2, <1>3 DEF Count, Slots, Slot
<1>5. Contents' = [i \in 1 .. Count + 1 |-> data[Slot(front + i - 1)]]
  BY <1>1, <1>4 DEF Contents, Slot
<1>6. Contents \in Seq(Msg \cup {Garbage}) /\ Len(Contents) = Count
  BY <1>1, ContentsFact
<1>7. item \in Msg \cup {Garbage}
  BY DEF QueueInv, RingInv, enqueue_publish
<1>8. data[Slot(front + (Count + 1) - 1)] = item
  BY <1>1, <1>3 DEF Slots
<1>9. \A i \in 1 .. Count : Contents[i] = data[Slot(front + i - 1)]
  BY DEF Contents
<1>10. Append(Contents, item) =
        [i \in 1 .. Count + 1 |-> IF i = Count + 1 THEN item ELSE Contents[i]]
  BY <1>6, <1>7, AppendFunction
<1>11. \A i \in 1 .. Count + 1 :
         data[Slot(front + i - 1)] = IF i = Count + 1 THEN item ELSE Contents[i]
  BY <1>3, <1>8, <1>9
<1>12. Contents' = Append(Contents, item)
  BY <1>5, <1>10, <1>11
<1> QED BY <1>1, <1>3, <1>6, <1>12

\* dequeue returns the message at the front and takes it off.
LEMMA AdvanceTakesHead ==
    ASSUME QueueInv, dequeue_advance
    PROVE  /\ Contents # <<>>
           /\ got' = Head(Contents)
           /\ Contents' = Tail(Contents)
<1>1. /\ front \in Slots /\ rear \in Slots /\ SIZE \in Nat \ {0, 1}
      /\ QueueTypeOK /\ ~is_queue_empty /\ local = data[front]
      /\ front' = Successor(front) /\ data' = data /\ rear' = rear /\ got' = local
  BY QueueAssumption DEF QueueInv, QueueTypeOK, RingInv, dequeue_advance
<1>2. front' = IF front = SIZE - 1 THEN 0 ELSE front + 1
  BY <1>1, SuccessorFact
<1>3. Count \in 1 .. SIZE - 1
  BY <1>1, CountFact
<1>4. Count' = Count - 1
  BY <1>1, <1>2 DEF Count, Slots, is_queue_empty
<1>5. Contents \in Seq(Msg \cup {Garbage}) /\ Len(Contents) = Count
  BY <1>1, ContentsFact
<1>6. Contents # <<>> /\ Head(Contents) = Contents[1]
  BY <1>3, <1>5
<1>7. Contents[1] = data[front]
  BY <1>1, <1>3 DEF Contents, Slot, Slots
<1>8. \A i \in 1 .. Count - 1 : Slot(front' + i - 1) = Slot(front + (i + 1) - 1)
  BY <1>1, <1>2, <1>3 DEF Slot, Slots
<1>9. Contents' = [i \in 1 .. Count - 1 |-> data[Slot(front' + i - 1)]]
  BY <1>1, <1>4 DEF Contents, Slot
<1>10. \A i \in 1 .. Count - 1 : Contents[i + 1] = data[Slot(front + (i + 1) - 1)]
  BY <1>3 DEF Contents
<1>11. Tail(Contents) = [i \in 1 .. Count - 1 |-> Contents[i + 1]]
  BY <1>5, <1>6, TailFunction
<1>12. Contents' = Tail(Contents)
  BY <1>8, <1>9, <1>10, <1>11
<1> QED BY <1>1, <1>7, <1>12, <1>6

\* An empty ring has no contents.
LEMMA EmptyContents ==
    front = 0 /\ rear = 0 => Contents = <<>>
<1> SUFFICES ASSUME front = 0, rear = 0 PROVE Contents = <<>>
  OBVIOUS
<1>1. Count = 0
  BY DEF Count
<1> QED BY <1>1 DEF Contents

\* Every step of the ring is a step of the bounded queue, or none.
LEMMA FifoStep ==
    ASSUME QueueInv, [QueueNext]_queueVars
    PROVE  [Fifo!FifoNext]_(Fifo!fifoVars)
<1> USE DEF Fifo!fifoVars
<1>0. QueueTypeOK /\ rear \in Slots /\ data \in [Slots -> Msg \cup {Garbage}]
  BY DEF QueueInv, QueueTypeOK
<1>1. ASSUME UNCHANGED <<ring, got>> PROVE UNCHANGED Fifo!fifoVars
  BY <1>0, <1>1, SameContents DEF ring
<1>2. ASSUME NEW m \in Msg, Allocate(m) PROVE UNCHANGED <<ring, got>>
  BY <1>2 DEF Allocate
<1>3. CASE WaitForRoom \/ enqueue_check \/ dequeue_check \/ dequeue_load
  BY <1>1, <1>3 DEF WaitForRoom, enqueue_check, dequeue_check, dequeue_load
<1>4. CASE enqueue_store
  BY <1>0, <1>4, SameContents DEF enqueue_store
<1>5. CASE enqueue_publish
  <2>1. item \in Msg /\ got' = got
    BY <1>5 DEF enqueue_publish, QueueInv, RingInv
  <2>2. Fifo!Put(item)
    BY <1>5, <2>1, PublishAppends DEF Fifo!Put
  <2> QED BY <2>1, <2>2 DEF Fifo!FifoNext
<1>7. CASE delete_and_create
  <2>1. front' = 0 /\ rear' = 0 /\ got' = got
    BY <1>7 DEF delete_and_create
  <2>2. Contents' = <<>>
    <3>1. Count' = 0
      BY <2>1 DEF Count
    <3> QED BY <3>1 DEF Contents
  <2> QED BY <2>1, <2>2 DEF Fifo!Clear, Fifo!FifoNext
<1>8. CASE dequeue_advance
  BY <1>8, AdvanceTakesHead DEF Fifo!Get, Fifo!FifoNext
<1>9. CASE UNCHANGED queueVars
  BY <1>1, <1>9 DEF queueVars
<1> QED BY <1>1, <1>2, <1>3, <1>4, <1>5, <1>7, <1>8, <1>9
        DEF QueueNext, Producer, Consumer

\* The unlocked ring with one thread at each end is a bounded queue of SIZE - 1
\* messages (enqueue, dequeue, delete_queue), for every SIZE.
THEOREM RingIsFifo ==
    QueueSpec => IsFifo
<1>1. QueueInit => Fifo!FifoInit
  BY EmptyContents DEF QueueInit, Fifo!FifoInit
<1>2. QueueInv /\ [QueueNext]_queueVars => [Fifo!FifoNext]_(Fifo!fifoVars)
  BY FifoStep
<1>3. QueueInv /\ [QueueNext]_queueVars => QueueInv'
  BY TypeStep, RingStep DEF QueueInv
<1> QED BY InitInv, <1>1, <1>2, <1>3, PTL DEF QueueSpec, IsFifo, Fifo!FifoSpec
==============================================================================
