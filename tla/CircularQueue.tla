---------------------------- MODULE CircularQueue ----------------------------
(***************************************************************************)
(* util/circular_queue.c as message_buffer uses it: the user thread        *)
(* enqueues (read_memory, write_memory, create_and_enqueue_message), the   *)
(* endpoint thread dequeues (select_buffer), and neither takes the lock.   *)
(* One step per access to the shared ring, in the order of the program:    *)
(* the Makefile builds without optimisation, and x86-64 keeps the order of *)
(* stores.  The user thread also replaces the queue when it closes a       *)
(* connection, while the other thread waits.                               *)
(***************************************************************************)
EXTENDS Integers, Sequences

CONSTANTS
    Msg,            \* messages the user thread allocates
    NULL,           \* the null pointer
    Garbage,        \* what malloc leaves in a slot
    SIZE            \* create_queue(SIZE)

ASSUME QueueAssumption ==
    /\ NULL \notin Msg
    /\ Garbage \notin Msg
    /\ SIZE \in Nat \ {0, 1}

VARIABLES
    data, front, rear,
    producer,       \* where the user thread is
    item,           \* the message it wants to enqueue
    consumer,       \* where the endpoint thread is
    local,          \* data, the local of dequeue
    got             \* what dequeue returned last

ring == <<data, front, rear>>
queueVars == <<ring, producer, item, consumer, local, got>>

Slots == 0 .. SIZE - 1

\* A plausible slip: the index runs over the end of the array.
Mutant_no_wrap(i) == i + 1

Successor(i) == (i + 1) % SIZE

\* A plausible slip, off by one: the last message counts as none.
Mutant_last_stays == front = rear \/ Successor(front) = rear

is_queue_empty == front = rear

\* A plausible slip: the ring may fill up altogether, and then looks empty.
Mutant_fill_up == FALSE

is_queue_full == Successor(rear) = front

\* create_queue
QueueInit ==
    /\ data = [i \in Slots |-> Garbage]
    /\ front = 0
    /\ rear = 0
    /\ producer = "idle"
    /\ item = NULL
    /\ consumer = "idle"
    /\ local = NULL
    /\ got = NULL
------------------------------------------------------------------------------
\* The user thread.

\* It allocates a message ...
Allocate(m) ==
    /\ producer = "idle"
    /\ producer' = "wait"
    /\ item' = m
    /\ UNCHANGED <<ring, consumer, local, got>>

\* A plausible slip: it does not wait.
Mutant_no_wait ==
    /\ producer = "wait"
    /\ producer' = "enqueue"
    /\ UNCHANGED <<ring, item, consumer, local, got>>

\* ... and waits until there is room.
WaitForRoom ==
    /\ producer = "wait"
    /\ ~is_queue_full
    /\ producer' = "enqueue"
    /\ UNCHANGED <<ring, item, consumer, local, got>>

\* enqueue looks for itself; the caller frees a message that is refused.
enqueue_check ==
    /\ producer = "enqueue"
    /\ producer' = IF is_queue_full THEN "refused" ELSE "store"
    /\ UNCHANGED <<ring, item, consumer, local, got>>

enqueue_store ==
    /\ producer = "store"
    /\ producer' = "publish"
    /\ data' = [data EXCEPT ![rear] = item]
    /\ UNCHANGED <<front, rear, item, consumer, local, got>>

enqueue_publish ==
    /\ producer = "publish"
    /\ producer' = "idle"
    /\ rear' = Successor(rear)
    /\ UNCHANGED <<data, front, item, consumer, local, got>>

\* delete_queue frees what the queue holds; create_queue makes a new one.
delete_and_create ==
    /\ producer = "idle"
    /\ consumer = "idle"
    /\ front' = 0
    /\ rear' = 0
    /\ data' = [i \in Slots |-> Garbage]
    /\ UNCHANGED <<producer, item, consumer, local, got>>

Producer ==
    \/ \E m \in Msg : Allocate(m)
    \/ WaitForRoom \/ enqueue_check \/ enqueue_store \/ enqueue_publish
------------------------------------------------------------------------------
\* The endpoint thread; of an empty queue it gets NULL and asks again.

dequeue_check ==
    /\ consumer = "idle"
    /\ ~is_queue_empty
    /\ consumer' = "load"
    /\ UNCHANGED <<ring, producer, item, local, got>>

dequeue_load ==
    /\ consumer = "load"
    /\ consumer' = "advance"
    /\ local' = data[front]
    /\ UNCHANGED <<ring, producer, item, got>>

\* A plausible slip: front stays where it is.
Mutant_no_advance ==
    /\ consumer = "advance"
    /\ consumer' = "idle"
    /\ got' = local
    /\ UNCHANGED <<ring, producer, item, local>>

dequeue_advance ==
    /\ consumer = "advance"
    /\ consumer' = "idle"
    /\ front' = Successor(front)
    /\ got' = local
    /\ UNCHANGED <<data, rear, producer, item, local>>

Consumer == dequeue_check \/ dequeue_load \/ dequeue_advance

QueueNext == Producer \/ delete_and_create \/ Consumer

QueueSpec == QueueInit /\ [][QueueNext]_queueVars

\* Both threads are scheduled; nobody has to ask for anything.
FairQueueSpec ==
    /\ QueueSpec
    /\ WF_queueVars(Consumer)
    /\ WF_queueVars(WaitForRoom \/ enqueue_check \/ enqueue_store \/ enqueue_publish)
------------------------------------------------------------------------------
\* What the ring holds, oldest first.
Count == IF front <= rear THEN rear - front ELSE rear - front + SIZE
Slot(k) == IF k < SIZE THEN k ELSE k - SIZE
Contents == [i \in 1 .. Count |-> data[Slot(front + i - 1)]]

QueueTypeOK ==
    /\ data \in [Slots -> Msg \cup {Garbage}]
    /\ front \in Slots
    /\ rear \in Slots
    /\ producer \in {"idle", "wait", "enqueue", "refused", "store", "publish"}
    /\ item \in Msg \cup {NULL}
    /\ consumer \in {"idle", "load", "advance"}
    /\ local \in Msg \cup {Garbage, NULL}
    /\ got \in Msg \cup {Garbage, NULL}

\* A message for which the user thread has waited until there was room is never
\* refused: between the wait and the test of enqueue only the endpoint thread
\* moves front, and that makes room (write_memory, enqueue).
NeverRefused == producer # "refused"

\* The two threads never access the same slot, without the lock (enqueue, dequeue).
NoSlotShared ==
    ~(producer \in {"store", "publish"} /\ consumer \in {"load", "advance"} /\ front = rear)

\* The unlocked ring is a bounded queue of SIZE - 1 messages: every message is
\* got once, in order and complete, and none is overwritten (enqueue, dequeue,
\* delete_queue).
Fifo == INSTANCE BoundedFifo WITH NoMsg <- NULL, Capacity <- SIZE - 1, queue <- Contents
IsFifo == Fifo!FifoSpec

\* With both threads scheduled, what is put is got (select_buffer).
IsFairFifo == Fifo!FairFifoSpec

\* A user thread that waits for room, however full the queue, is let in.
WaitEnds == producer = "wait" ~> producer = "idle"

\* The inductive invariant of the proof: the endpoint thread is past its test
\* only if there is a message, whose slot it has read; the user thread is past
\* its tests only if there is room, and has written the slot it publishes.
RingInv ==
    /\ producer \in {"enqueue", "store", "publish"} => ~is_queue_full
    /\ producer \in {"wait", "enqueue", "store", "publish"} => item \in Msg
    /\ producer = "publish" => data[rear] = item
    /\ producer # "refused"
    /\ consumer \in {"load", "advance"} => ~is_queue_empty
    /\ consumer = "advance" => local = data[front]
==============================================================================
