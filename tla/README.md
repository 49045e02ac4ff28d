# A TLA+ model of the OmniXtend endpoint

OmniXtend carries TileLink messages over Ethernet (TLoE). The program is one
binary, `tloe_endpoint`, started once as master and once as slave, and a relay,
`tloe_ns`, that can be put between the two to lose frames. This directory holds
TLA+ models of the program, the TLC configurations that check small instances
of them, and proofs checked by TLAPS that hold for every instance.

## 1. The system

| part | source | state | operations | talks to |
|---|---|---|---|---|
| Sequence numbers | `tloe_seq_mgr.c` | `next_tx_seq`, `next_rx_seq`, `acked_seq` | compare, next, previous, advance | TX, RX, retransmission, connection |
| TileLink messages | `tilelink_msg.c` | none | header, data and flit sizes | flow control, endpoint loop |
| Flow control | `flowcontrol.c` | `credits`, `tx_flow_credits` per channel | spend, return, collect, choose the channel to return | TX, RX, endpoint loop, connection |
| Retransmission | `retransmission.c` | `retransmit_buffer` | `slide_window`, `retransmit` | TX (timeout), RX (acknowledgement) |
| Timeouts | `timeout.c` | `iteration_ts`, `send_time` of a frame | half and whole timeout | TX |
| Transmitter | `tloe_transmitter.c` | flags for ACKONLY frames | `TX` | all of the above, fabric |
| Receiver | `tloe_receiver.c` | `ack_buffer`, `tl_msg_buffer` | `RX` and its four handlers | all of the above, fabric |
| TileLink handler | `tilelink_handler.c` | `mem_storage`, `response_buffer` | Put, Get, their responses | endpoint loop |
| Endpoint | `tloe_endpoint.c` | `message_buffer`, `request_tlmsg`, `buffer_select_counter`, `connection`, `is_done` | thread loop, `select_buffer`, user commands c d q r w a t | everything |
| Connection | `tloe_connection.c` | the endpoint's counters | open and close handshakes | fabric, flow control |
| Frames | `tloe_frame.c` | none | header fields, mask, packet conversion | TX, RX, connection |
| Fabric | `tloe_fabric.c`, `tloe_mq.c`, `tloe_ether.c` | message queues or a raw socket | open, send, receive, close | the peer |
| Circular queue | `util/circular_queue.c` | ring, front, rear | enqueue, dequeue, full, empty | every buffer |
| Network simulator | `tloe_ns.c`, `tloe_ns_thread.c` | drop counters, flush request | relay, drop, flush | the fabric of both endpoints |
| Test hooks | `tloe_nsm.c` | none in the default build | drop a frame on purpose | TX, RX |

Each endpoint process has two threads. The user thread reads commands and puts
requests into `message_buffer`. The endpoint thread loops: choose a message
(`select_buffer`), `TX`, `RX`, `tl_handler`, and book the credit of the message
it handled. The two processes exchange frames through the fabric and share
nothing else.

What is hard about it:

* **The link.** Go-back-N with a window of 4 over a fabric that loses frames,
  with a sequence space that wraps, acknowledgements that ride on numbered
  frames (and so need a window slot), a queue of old acknowledgements that
  overrides the current one, and a timer that may expire while the answer is on
  its way. Correct when every payload is accepted once and in order and nothing
  unaccepted is ever discarded.
* **Credit.** It is spent when a message is numbered, collected when it is
  handled, returned as powers of two on frames that may be lost and repeated.
  Correct when it is conserved.
* **Progress.** Acknowledgements of duplicates have to be acknowledged
  themselves; full windows block acknowledgements; messages without credit block
  those behind them. Correct when every request is answered and the traffic
  comes to an end.
* **Memory.** Correct when results are those of executing a user's requests one
  by one.
* **Connections.** Both handshakes repeat frames that may still be on their way
  when the data plane starts, and closing frees queues the other thread uses.
* **Threads.** `message_buffer` and the drop counters of the relay are shared
  without a lock.

`PROJECT.json` lists each of these hazards at its line, with the properties
that would catch it.

## 2. The modules

```
TloeSeqMgr ── Retransmission ──┐                   ReliableChannel
TileLinkMsg ── FlowControl ────┴─ TloeEndpoint ──────────┘ (refined)
     │                              ├─ TloeEndpointProps ─┬─ MCTloeEndpoint
     │                              ├─ TloeLinkInv ───────┘
     │                              │     └─ TloeLinkProofs
     │                              ├─ TloeDataInv ── TloeDataProofs (with TloeLinkProofs)
     │                              └─ TloeConnection ── TloeConnectionProps ─┐
     │                   ┌────────────────────────────────────────────────────┤
     │                   ├─ TloeSessionInv ── MCTloeConnection                 │
     │                   │     └─ TloeSessionProofs (with TloeConnectionProofs)│
     │                   │           └─ TloeDeliveryProofs (with TloeDataProofs)
     │                   └──── TloeConnectionProofs (with TloeLinkProofs) ─────┘
     └─ TloeFrame ── MCTloeFrame, TloeFrameProofs

CircularQueue (refines BoundedFifo) ── MCCircularQueue, CircularQueueProofs
TloeNs        (refines LossyFifo)   ── MCTloeNs, TloeNsProofs
```

* **TloeSeqMgr**, **TileLinkMsg**, **FlowControl**, **Retransmission** are the
  functions of the four source files as operators. `MAX_SEQ_NUM` is a constant,
  so that TLC reaches the wrap-around. The sizes keep what the code's shift by
  -1 gives. `slide_window` and `retransmit` take the buffer and return what is
  left of it, or the frames to send.
* **TloeEndpoint** is the two processes with an open connection.
  **TloeEndpointProps** states the properties across the layers,
  **TloeLinkInv** the inductive invariant of the link, **TloeDataInv** that of the
  messages on it.
* **ReliableChannel** is what the link promises: payloads are handed over once
  and in order, with no more than a window of them outstanding.
* **TloeConnection** puts the open and close handshakes and commands c, d and q
  around the data plane of `TloeEndpoint`; **TloeConnectionProps** states what
  they must leave behind, **TloeSessionInv** the inductive invariants that keep
  successive connections apart, deliver what is sent on each and account for its
  credit.
* **CircularQueue** is the ring of `message_buffer`, one step per access of the
  user thread and the endpoint thread; **BoundedFifo** is what it promises.
* **TloeNs** is the relay thread, its command line and the message queues;
  **LossyFifo** is what an endpoint may rely on when it talks through it.
* **TloeFrame** is the way of a message into a frame, a packet and back, byte by
  byte, over Ethernet and message queues.
* The `MC` modules hold the values the configurations use; the `Proofs` modules
  the theorems.

How `TloeEndpoint` corresponds to the code:

| action | code |
|---|---|
| `read_memory`, `write_memory`, `create_and_enqueue_message` | commands r, w, a in the user thread (t is a series of w and r) |
| `TX_Hold`, `TX_Message`, `TX_Zero` | one call of `select_buffer` and `TX`: nothing is numbered; a frame with the message is; a frame without one is |
| `RX_Idle` | `RX` finds nothing |
| `RX_Ackonly`, `serve_normal_request`, `serve_zero_tlmsg_request`, `serve_duplicate_request`, `serve_oos_request` | `RX` of one frame, `serve_ack` included |
| `TL_Skip`, `handle_A_PUTFULLDATA_opcode`, `handle_A_GET_opcode`, `handle_D_opcode` | `tl_handler` and the booking of credit after it |
| `Lose` | a switch, or the relay, drops a frame |

Choices worth knowing:

* *Atomicity.* A pass of `select_buffer` and `TX` is one step, so are `RX` and
  `tl_handler`: each works on state of its own thread, apart from the fabric
  and the consuming end of `message_buffer`, and sends everything it sends in
  order. User and thread interleave between these steps.
* *Fabric.* One FIFO per direction of `FABRIC_BUF` frames. Sending is
  nonblocking and its result is ignored, so what does not fit is lost.
* *Time.* Only the two timeout tests of `TX` read the clock. `Elapsed` is the
  set of outcomes: early, past the half, due. While no answer is on its way
  (`Overdue`) a timer may expire any number of times; while one is, at most
  `MaxExpiry` times altogether. Both ends run the same 100 ms timer, so when
  both have frames outstanding neither expires more than `MaxLead` times
  without the other.
* *Exits.* `BUG_ON`, an overflow of `tl_msg_buffer` and an access beyond the
  memory end the process: `exited` records why, and the process takes no more
  steps.
* *Memory* is a function from disjoint 8-byte words. Command `a` sends an
  address from freed heap memory: any member of `HeapAddr`.
* *Init* is a quiescent moment of an open connection, anywhere on the circle of
  sequence numbers.
* *Histories.* `txlog` and `rxlog` record the payloads numbered and accepted,
  `submitted` and `results` a user's requests and the answers. No guard other
  than a bound reads them.

How `TloeConnection` corresponds to the code:

| action | code |
|---|---|
| `open_conn`, `close_conn`, `quit` | commands c, d, q begin |
| `serve_conn`, `serve_close_conn` | a pass of a handshake loop that sends, for the first time or again |
| `open_conn_wait` | a pass that reads a frame and still lacks credit |
| `open_conn_master`, `open_conn_slave` | the pass that completes the credit, and what the function does after its loop |
| `recv_close_conn`, `close_conn_master`, `close_conn_slave` | a pass of the close loops; the last two with the re-initialisation of command d |
| `Loop`, `Requests`, `LoseFrame` | the data plane: it waits while `connection` is 0 |

* *Users* open a connection that is closed and close one that is open. The code
  does not insist on either.
* *Timers.* `start` says whether `CONN_RESEND_TIME` (5 s) has passed. A handshake
  that has come to a halt is sent again any number of times; one that is getting
  answers, at most `MaxResend` times altogether. The slave's `start` is
  uninitialised until it has answered: `Uninitialised` is what it may compare as.
* *`Prompt`* says that the endpoint thread ends the iteration in which
  `connection` was cleared before the user thread goes on with the close. It does
  in practice, an iteration being microseconds; nothing in the code makes it (see
  the observations in section 4).

`CircularQueue` splits `enqueue` and `dequeue` at every access of the shared ring.
The two stores of `enqueue` are seen in program order: the build (`gcc -g`, no
optimisation) on x86-64 keeps it, though the code has no barrier that asks for it.
`delete_and_create` replaces the queue while neither thread is in it, which is the
assumption `Prompt` above.

`TloeNs` splits the relay at every access to a queue, to `is_done` and to a drop
counter; a decrement is a load and a store. `mq_receive` fails on an empty queue,
and also when the buffer it is given is smaller than the queue's `mq_msgsize`.
The queues are the kernel's and outlive the thread.

`TloeFrame` sends a message (or none) and receives it. Its messages are their
header fields and a payload of bytes that differ from each other; the header of
the frame is eight opaque bytes. A short Ethernet frame is padded with what the
stack holds.

## 3. What TLC checks

| run | instance | shows |
|---|---|---|
| `lossy_link` | one read, two losses anywhere, one expiry while the answer is on its way; 62 thousand states | `TypeOK`; `InOrderDelivery`: payloads are accepted once and in order; `UnackedRetained`: what the window has dropped was accepted, and it holds the rest unchanged, when a retry races the late answer too; `LinkIsReliable`: each direction implements `ReliableChannel`; no deadlock |
| `both_ways` | two requests one way and one the other, credit for barely one message, one loss; 0.2 million states | `LinkInv`, the invariant of the proofs; `CreditConservation`; no deadlock |
| `memory` | any two of r, w, a on two words, one at the end of the memory, one loss; 0.13 million states | `ReadsSeeWrites`: answers are those of sequential execution; `CreditConservation`. A process may exit on its bounds assertion, so the system may stop and deadlock is not checked |
| `recovery` | two reads or writes, one loss, fairness; 48 thousand states | `EveryRequestAnswered`; `EventuallyQuiet`: traffic ends with all credit home; `LinkDeliversAll`: the fair refinement |
| `connection` | c, d and q by both users in any order, one early repetition of a handshake, a slave's timer that may never expire, no loss, fairness; 64 thousand states | `OpenCompletes`, `CloseCompletes`, `ConnectedQuitEnds`; on the open connection `SessionDelivery`, `SessionCredit` |
| `reopen` | two connections, two requests on each, window 1, a close at any moment, one loss, a slave's timer that is right or wrong; 0.9 million states | `SessionDelivery`, `SessionCredit` while nothing is lost: nothing of the first connection reaches the second; `DataRecoverable`, losses or not: the frame an end expects can still come, unless it is one of the master's handshake; `SessionRequests`: but for the one request the endpoint thread holds, and no request is forgotten; `MasterInOrder`: losses or not, the master is never out of step; `SessionInv`, `DeliveryInv` and `CreditInv`, the invariants of the proofs; `ConnTypeOK` |
| `ring` | 4 slots, fairness | `IsFifo`, `IsFairFifo`: the unlocked ring implements a bounded FIFO; `NoSlotShared`, `NeverRefused`, `WaitEnds`, `QueueTypeOK`, `RingInv` (the invariant of the proof) |
| `relay` | three commands, queues of one, fairness; 0.3 million states | `RelaysBothWays`: each direction implements `LossyFifo`; `NoExcessDrops`; `StopEnds`, `BothPortsServed`; `NsTypeOK` |
| `frames` | every message the program builds, answers of up to 32 bytes, two frames in a row, both fabrics | `FramesUnderstood`: RX finds the bytes TX was given |

Three more runs expect a violation, because the code does not do what an assertion,
a comment or the repository's README says: `ack_buffer_room`, `nak_is_sent` and
`handshake_gap`. See the findings.

Deadlock is not checked in the connection, relay and frame runs: users need not
type anything, and a program that was quit has ended.

*Bounds.* `WINDOW_SIZE` is 2 (the code: 4): enough for a frame lost in front of
one that arrives, and for a full window. `MAX_SEQ_NUM` is 31 (2^22 - 1), and the
master starts at 30, so that the wrap-around falls among the first frames of
every behaviour. `MaxTx` (15) is never reached in the passing runs: they would
deadlock if it were. `CREDIT_DEFAULT` is 2 or 3 (10): 4 or 8 flits, so that
messages of 2 or 3 flits do wait for credit. `FABRIC_BUF` is 6 (10). Two
losses suffice to lose a frame and its repetition, or a frame and the
acknowledgement of another. One read is enough in `lossy_link`: the frames that
answer it and return its credit fill both windows and cross the wrap-around, and the
two losses and the expiry fall among them in every order. More requests, in both
directions, are in `both_ways` with one loss.

For connections `CREDIT_INIT` is 1 and `CREDIT_DEFAULT` 2 (7 and 10): the code
compares them only. `FABRIC_BUF` is the 10 of `tloe_mq.c` there, since it matters
how many handshakes fit; numbers start at 0, as the code does. Two sessions
suffice for something of one to reach the next. A ring of 4 slots wraps with three
messages in it. Relay queues hold one message (10), which makes them both empty
and full often; three commands are start, a count, and one more that races.
`connection` is without requests and losses, `reopen` without early repetitions:
each disturbance is in one of the two, all of them at once are beyond TLC's
reach in this model. A queue that overflows takes two early repetitions, as in
`handshake_gap`. On its constants, with one request, TLC also found
`DataRecoverable`, `SessionDelivery` and `SessionCredit` to hold (1.3 million states).

*Fairness.* Weak fairness of each endpoint thread: the operating system
schedules it and no call in its loop blocks. Strong fairness of `Timeout`: a
frame that nothing acknowledges is 100 ms old at some pass through `TX`. It is
strong because the pass is one of three points of the loop, so that the action
is not continuously enabled. The handshakes are the same: weak fairness of
the user thread's loop, strong fairness of `Resend`, the expiry of the 5 s timer
of a handshake that has come to a halt. Ring and relay assume that both threads
are scheduled. Nothing is assumed of users and of the fabric,
except that losses are bounded: a fabric that loses everything delivers nothing.

*Mutants.* Each property is paired with a plausible slip of the code (the
`Mutant_` operators) under which TLC finds it violated: a comparison without
wrap-around, an increment without mask, a duplicate accepted again, a timeout
that skips the front of the window, credit added as its exponent, a channel
left out of the scan, the address stored for the value; in the handshakes a number
used twice, a channel not waited for, a reset forgotten; in the ring a test left
out, a last message taken for none, an index not advanced; in the relay a message
sent back, a counter not decremented, a loop that does not look at its flag.

## 4. Findings

* **No NAK is ever sent** (`nak_is_sent`, `tloe_transmitter.c:142`).
  `serve_oos_request` queues a NAK, and its comment says one is sent; `TX` copies
  the entry's number only and leaves the flag at ACK. The retransmission in
  `serve_ack` never runs, and a loss is repaired by the timeout.
* **`ack_buffer` can overflow** (`ack_buffer_room`, `tloe_receiver.c:101`). The
  assertion that there is room fails when one direction loses its frames for
  long enough: the other end's timeouts deliver duplicates, each queues an entry,
  and the full window takes none out. With 2047 entries, a window of 4 and
  100 ms that is about a minute.
* **The handshake leaves a gap that nothing fills** (`handshake_gap`,
  `tloe_connection.c:142`). The last frame of the master's handshake bears a number
  and is in no retransmit buffer. When repetitions of the handshake fill the queue of
  10 for a slave that is slow, it is dropped without any fault of the link; both ends
  are then connected, and the slave waits for number 5 for ever. A loss on the link
  does the same. `Recoverable`, what the repository's README promises, is violated.
  `DataRecoverable` is what is true: no frame but those of the master's handshake can
  be missing for good.

Observations, not among the runs. The passing runs are bounded, or their properties
worded, so as to hold in spite of them; most can be seen by changing the constant
named.

* Opening is not safe against a loss (`OpenCompletes` with `MaxLoss = 1`). Each end
  leaves its loop when its own credit is complete and repeats its handshake no more
  (`tloe_connection.c:142`, `170`): if one of its frames was lost the other end waits
  for ever.
* If one of the master's handshake frames is lost, and the master repeats its
  handshake, the slave completes with the repetition and hands the rest of it to `RX`, which books it as returned credit
  (`tloe_connection.c:71`). `SessionCredit` therefore asks that nothing is lost.
* The slave's timer is read before it is set (`tloe_connection.c:167`). If `start`
  happens to lie in the future the slave never answers; it opens, and the master waits
  for ever. `OpenCompletes` says so.
* The slave answers CLOSE once; if the answer is lost the master repeats CLOSE for
  ever (`tloe_connection.c:266`; `CloseCompletes` with `MaxLoss = 1`).
* Quit without a connection hangs: the endpoint thread waits for one without
  looking at `is_done` (`tloe_endpoint.c:123`). Hence `ConnectedQuitEnds`.
* Closing replaces the queues without waiting for the endpoint thread
  (`tloe_endpoint.c:43`). With `Prompt = FALSE` the rest of an old iteration works
  on the next connection, and `SessionDelivery` fails; or its `RX` takes the only CLOSE
  frame the slave sends, and the master waits for ever (`CloseCompletes`).
* A drop count set while the relay decrements the counter is overwritten
  (`tloe_ns_thread.c:99`): fewer messages are dropped than asked for, never more
  (`NoExcessDrops`).
* Flush right after start dereferences a null port (`flush_crash`,
  `tloe_ns_thread.c:207`), and flush never flushes: its buffer of 1024 bytes is
  smaller than the `mq_msgsize` of 1600, so `mq_receive` always fails
  (`tloe_ns_thread.c:185`).
* The mask overwrites data of messages of 48 bytes or more: a frame has no room for
  both (`tloe_frame.c:31`; `FramesUnderstood` with a size of 6). The user's commands
  build smaller ones, and `MessageAssumption` says so.
* The example of the repository's README (Testing) gives the relay and both
  endpoints the same queue name; the endpoints then use queues of that name
  directly, the relay those with `-a` and `-b` appended.

## 5. What is proved

Everything below holds for all values of the constants that satisfy the
assumptions: every window, queue and fabric size, every set of words and values,
any number of losses, premature timeouts and repeated handshakes.

| theorem | module | states |
|---|---|---|
| `LinkInvariant` | `TloeLinkProofs` | `Spec => []LinkInv` |
| `LinkDelivers` | `TloeLinkProofs` | `Spec => []InOrderDelivery` |
| `LinkRetains` | `TloeLinkProofs` | `Spec => []UnackedRetained` |
| `LinkReliable` | `TloeLinkProofs` | `Spec => LinkIsReliable` (refinement) |
| `TypeCorrect` | `TloeLinkProofs` | `Spec => []TypeOK` |
| `CreditConserved` | `TloeDataProofs` | `Spec => []CreditConservation` |
| `ReadsCorrect` | `TloeDataProofs` | `Spec => []ReadsSeeWrites` |
| `ConnTypeCorrect` | `TloeConnectionProofs` | `ConnSpec => []ConnTypeOK` |
| `RequestsCarried` | `TloeConnectionProofs` | `ConnSpec => []SessionRequests` |
| `SessionsKeptApart` | `TloeSessionProofs` | with `Prompt`, `ConnSpec => []SessionInv` |
| `MasterStaysInOrder` | `TloeSessionProofs` | with `Prompt`, `ConnSpec => []MasterInOrder` |
| `DeliveryInvariant` | `TloeDeliveryProofs` | with `Prompt`, `ConnSpec => []DeliveryInv` |
| `SessionsDeliver` | `TloeDeliveryProofs` | with `Prompt`, `ConnSpec => []SessionDelivery` |
| `CreditInvariant` | `TloeDeliveryProofs` | with `Prompt`, `ConnSpec => []CreditInv` |
| `SessionsConserveCredit` | `TloeDeliveryProofs` | with `Prompt`, `ConnSpec => []SessionCredit` |
| `RingInvariant`, `QueueTypeCorrect`, `QueueNeverRefuses`, `QueueSharesNoSlot` | `CircularQueueProofs` | `QueueSpec =>` the invariant of the ring, `[]QueueTypeOK`, `[]NeverRefused`, `[]NoSlotShared` |
| `RingIsFifo` | `CircularQueueProofs` | `QueueSpec => IsFifo` (refinement) |
| `DropsBounded` | `TloeNsProofs` | `NsSpec => []NoExcessDrops` |
| `NsTypeCorrect` | `TloeNsProofs` | `NsSpec => []NsTypeOK` |
| `RelayIsFifo` | `TloeNsProofs` | `NsSpec => RelaysBothWays` (refinement) |
| `FramesCorrect` | `TloeFrameProofs` | `FrameSpec => []FramesUnderstood` |

*Assumptions.* `MaxSeqNumAssumption`: the sequence space has two halves and fits
the 22 bits of the header field.
`SizeAssumption`: windows and queues have room for something.
`StartAssumption`: start anywhere. `BoundAssumption`: an endpoint numbers fewer
than half the space of frames (`MaxTx < HALF_MAX_SEQ_NUM`). The last is a real
restriction, 2^21 - 1 frames in a session: an entry may stay in `ack_buffer` for
as long as the peer sends duplicates, and nothing in the code keeps it from
being compared once it is half the space old. `ConnAssumption`: the initial
credit is below the one granted (7 and 10 in the code), the sequence space holds
the numbers of a handshake (`MAX_SEQ_NUM >= 2 * CHANNEL_NUM`), and there is one
frame to be numbered (`MaxTx # 0`), since `open_conn_master` numbers one without
asking. `NsAssumption`: the empty buffer (`NONE`) is not a message.
`MessageAssumption`: a message has a channel, fits the fields of its header and
fits in front of the mask, 40 bytes; those the program builds have at most 24.
`Prompt`, where a theorem says so, is explained in section 2.

*The link.* `InOrderDelivery` is not inductive: that the next frame accepted is
the right one depends on the frames in flight, these on the retransmit buffer,
and what the buffer has dropped on the acknowledgements in flight and in
`ack_buffer`. `LinkInv` ties all of them to positions in the histories:
`next_tx_seq` and `next_rx_seq` are the numbers of the next positions of `txlog`
and `rxlog`; `rxlog` is a prefix of the peer's `txlog`; the buffer holds exactly
the last payloads of `txlog`; each numbered frame in flight carries the payload
at the position its number stands for; each acknowledgement, wherever it is,
stands for a position the receiver has passed. `CmpFacts` is the heart of the
arithmetic: for positions less than half the space apart `tloe_seqnum_cmp`
orders numbers as positions are ordered, so `tloe_rx_get_req_type` accepts the
next position only (`ArrivedFacts`) and `slide_window` pops accepted frames only
(`SlideGood`). There is one lemma per kind of step. All frames in flight are
ACKs, so the NAK branch of `serve_ack` sends nothing, which is the first finding
seen from the other side. The refinement `LinkReliable` follows: a step of the
endpoints either leaves `txlog` and `rxlog` of a direction alone, or appends one
payload to one of them, and `LinkInv` says that it is the right one and that the
window bounds the difference.

*Types.* `TypeOK` says more than the types: the queues stay within the size
`create_queue` gave them, the unsigned credit counters do not fall below zero,
and the exponent `TX` puts on a frame fits its 5 bits. The exponent is that of
the largest power of two in what is to be returned, so there must be a bound on
that. `CreditBound` is the strengthening: each accepted message waits in
`tl_msg_buffer` or has added at most three flits, so no channel holds more than
three times the frames accepted, and these are bounded (`AcceptedBound`): by
`LinkInv` in `TloeEndpoint`, by the numbers of a connection in `TloeConnection`.

*Credit.* `CreditConservation` is inductive given `LinkInv` and `TypeOK`. Each
flit is at one of five places: with the sender, in a message on its way, in one
that waits for `tl_handler`, in what the receiver has to return, in a frame that
returns it. A frame sent again is in no history a second time, so it moves
nothing. The sums over sequences are cardinalities of sets of units (`Total`):
what appending, removing the head and moving the front of a sequence do to a sum
follows from the theorems on finite sets, without induction. Of the link these
lemmas need only that no more was accepted than numbered (`Ordered`) and that what
is accepted is the next payload (`BringsNext`), so a connection can use them too.

*Answers.* `ReadsSeeWrites` speaks of `results` only. Its invariant `DataInv`
follows a request through `message_buffer`, the loop, the link, `tl_msg_buffer`
and memory, and its answer through `response_buffer` and back. For each place it
says which request or answer is there, by the number of messages of its channel
in front of it (`Rank`): requests and answers share the link, and `select_buffer`
interleaves them as it likes, but each channel keeps its own order. Memory holds
what the requests executed so far have written. A process that has exited on its
assertions has stopped handling in the middle, so its half of the account is
given up, and only that.

*Connections.* `LinkInv` is of no use once connections are opened and closed:
after a loss, frames of one connection do reach the next and are accepted there.
`ConnInv` has what remains true. Each connection starts its numbers at 0 and
numbers five frames for the handshake and at most `MaxTx` others, so no number in
flight or in a buffer is above `TopSeq`, and none wraps (`Numbers`). Accepting
a frame takes the number after the last one, so an endpoint accepts no more than
`next_rx_seq` and the one frame that `RX` may accept after `tloe_endpoint_init`
has reset it, in an iteration that was under way (`Accepted`). This covers
`Prompt = FALSE`. `SessionRequests` needs in addition that the account of the
requests holds while there is no connection (`Balanced`): `tloe_endpoint_init`
empties the queue and the histories, and what is left over is the message the
endpoint thread holds, at most one.

*Sessions.* `ConnInv` does not tell the frames of one connection from those of
another, and `MasterInOrder` depends on it: a leftover frame with the number the
master expects would be taken. What keeps them apart is that the fabric keeps the
order of frames and that the two ends take turns, which `SessionInv` says. The slave
is silent until it has read an OPEN frame and after its CLOSE frame; the master
sends OPEN frames only after it has read the CLOSE frame of the connection before
(`Turns`). So while the slave speaks, all frames on their way to the master are of
its present connection (`Served`): numbers 0 to 4 are the five of the handshake,
number n above carries entry n - 4 of the slave's log, and the master, which
takes a frame only if it has the number expected, has counted the handshake
completely before it accepts the first of the log. Until the slave speaks, the
master has nothing on its way to it (`MasterFresh`). There are two odd cases to
carry along: a slave whose `start` lies in the future never serves its
handshake although it gets its own credit, and then the master never opens
(`NotServed`); and the thread of an end that is closing may still be in its last
iteration (`ThreadsWait`), which is where `Prompt` is needed. Of the direction to the
slave `SessionInv` says nothing but the order of OPEN and CLOSE: after a loss that
direction is not in order (section 4). That no number wraps is taken from `ConnInv`.

*Delivery.* The slave takes the frames of a handshake whatever their numbers, so its
`next_rx_seq` is right only if the frame it opens with is. `DeliveryInv` says why it is
while nothing is lost. The master sends its handshake in rounds of five, any number
of them, and the full fabric cuts off the end of a round at most: on the way to the
slave each frame of a round has the one before it in front of it (`Chained`). So the
slave gets its credit channel by channel (`SlaveGranted`), that of channel E last,
with the frame that has number 4, and opens expecting 5, the first number of the
master's log. Rounds that are still on their way then are duplicates to
`tloe_rx_get_req_type`. Until the slave has opened, nothing of the master's log
carries a message or grants credit, because the master has received nothing
(`SlaveTakes`). The CLOSE frame of the master stays behind everything else
(`ClosesLast`), so once the slave has read it nothing of this connection is left for
the next. With the direction to the master from `SessionInv`, `SessionDelivery`
follows.

*Credit of a connection.* The two ends do not open at the same moment, and one of
them may use the connection before the other has it, so `SessionCredit`, which
speaks of a connection open at both, is not inductive. `CreditInv` speaks of each end
(`Accounted`): the slave's credit adds up from the moment it opens until the master
closes, the master's from the moment it opens for as long as the slave opens or has
the connection. It opens with everything granted (`Served`, `SlaveGranted`); the rest
of the sum is then 0, because an end that has not opened has neither accepted nor
returned anything (`NothingOwed`, `ReturnsNothing`): `tloe_endpoint_init` has emptied
its queues, and a slave that opened first gets nothing to handle until the master has
opened. In the data plane the lemmas of *Credit* apply, with `Ordered` and
`BringsNext` from `SessionInv` and `DeliveryInv`. Frames of a handshake that is sent
again, which RX would take for returned credit, are duplicates there and move nothing.

*Ring.* `RingInv` says that each thread's test still holds when it acts on it:
only the producer fills, only the consumer empties. The contents of the ring are
the slots from `front` to `rear`; the lemmas say what advancing either does to
that sequence.

*Relay.* `NoExcessDrops` alone is not inductive: between load and store the relay
holds a count that may be older than the counter. `DropInv` adds that what it
holds is no more than what was asked for and not yet dropped. `RelayIsFifo` rests
on `RelayInv`: the thread has a message in its buffer exactly while it deals with
it, it comes from the port being relayed, and no thread is started while there is
one. Each step then appends to, removes from or leaves alone the sequence of
messages in flight of each direction.

*Frames.* With `MessageAssumption` every frame has the default size of 56 bytes,
so it is known where everything is. `SwappedFact`: swapping the bytes of a word
stays within the word and undoes itself, so `packet_to_tloe_frame` gives back
the bytes `tloe_frame_to_packet` was given (`ToPacket`, `FromPacket`). `FlitsFact`:
the mask is behind the message. `SendFact`: the packet is not shorter than the
least Ethernet frame and not longer than a slot, so the fabric changes nothing.
`LocatedFact`: the mask has one bit, and it leads to flit 0. `GetFact`: channel,
opcode and size come out of the header word as they went in, and with them the
length. `ReadFact` puts these together, and `FrameInv` says that what is under way
is what TX was handed and RX has not read yet, in order, behind at most one frame
of another protocol.

`TypeOK`, `LinkInv`, `RingInv`, `SessionInv`, `DeliveryInv`, `CreditInv` and the
properties themselves are checked by the runs; `DataInv`, `ConnInv`, `Balanced` and
`FrameInv` were checked by TLC on the constants of `memory`, `reopen` and `frames`
before they were proved.

*Only model-checked*:

* liveness, which the prover does not handle: `EveryRequestAnswered`,
  `EventuallyQuiet`, `LinkDeliversAll`, `OpenCompletes`, `CloseCompletes`,
  `ConnectedQuitEnds`, `IsFairFifo`, `WaitEnds`, `StopEnds`, `BothPortsServed`;
* `DataRecoverable`. A proof would have to follow each frame of both handshakes
  through the retransmit buffers and the fabric under losses; the invariants proved
  here do so only while nothing is lost.

## 6. Not modelled

* Byte-wise overlap of memory accesses: all addresses are disjoint words.
* Opening of raw sockets and message queues, argument parsing, printing,
  statistics: I/O.
* A user who opens an open connection or closes a closed one, and frames swallowed
  by an iteration that is still under way when a close begins.
* The build with `-DWDE`, for a peer that grants three channels only.
* `tloe_nsm.c`: its hooks are constants 0 in the default build, and the other
  build does not compile.
* Failure of `malloc` and of `pthread_create`.

## 7. Plan

1. The link without `MaxTx`, with a sliding-window invariant and a bound on the
   age of acknowledgements.
2. `TloeConnection` without `Prompt`, with the accesses of the iteration under way
   split, and with the relay `TloeNs` as its fabric.
