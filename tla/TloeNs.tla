-------------------------------- MODULE TloeNs --------------------------------
(***************************************************************************)
(* The network simulator, tloe_ns.c and tloe_ns_thread.c: a thread that    *)
(* relays messages between an endpoint at port A and one at port B, and    *)
(* drops some when told to; and a command line that starts and stops the   *)
(* thread, sets the drop counters and flushes the queues while the thread  *)
(* runs.  The message queues are the kernel's: they outlive the thread.    *)
(* One step per access to a queue or to a variable the two threads share.  *)
(***************************************************************************)
EXTENDS Integers, Sequences

CONSTANTS
    Message,        \* what the endpoint at each port sends
    NONE,           \* no message
    MQ_MAXMSG,      \* messages a message queue holds
    Counts,         \* counts the commands a, b and w are given
    MaxCommands     \* bound: commands typed

ASSUME NsAssumption ==
    /\ NONE \notin Message["A"] \cup Message["B"]
    /\ MQ_MAXMSG \in Nat \ {0}
    /\ Counts \subseteq Nat \ {0}
    /\ MaxCommands \in Nat

VARIABLES
    rx, tx,         \* the queues the relay reads and writes at each port
    port,           \* the ports the relay has opened: ep_port_a, ep_port_b not NULL
    is_done,
    drop_count,     \* drop_count_a_to_b and drop_count_b_to_a, by the port of origin
    pc,             \* where the relay thread is; "none" if there is no thread
    from,           \* the port it is relaying from
    buffer,         \* the message it has read
    loaded,         \* the counter as read by the decrement
    command,        \* the command in progress
    flushing,       \* queues left to flush
    commands,       \* commands typed
    got,            \* what the endpoint at each port has read last
    asked,          \* history, by the port of origin: messages all commands told to drop
    dropped         \* ... messages dropped

queues == <<rx, tx>>
thread == <<pc, from, buffer, loaded>>
counters == <<drop_count, asked, dropped>>
cli == <<command, flushing, commands>>
nsVars == <<queues, port, is_done, counters, thread, cli, got>>

Port == {"A", "B"}
Other(p) == IF p = "A" THEN "B" ELSE "A"

NsInit ==
    /\ rx = [p \in Port |-> <<>>]
    /\ tx = [p \in Port |-> <<>>]
    /\ port = {}
    /\ is_done = TRUE
    /\ drop_count = [p \in Port |-> 0]
    /\ asked = [p \in Port |-> 0]
    /\ dropped = [p \in Port |-> 0]
    /\ pc = "none"
    /\ from = "A"
    /\ buffer = NONE
    /\ loaded = 0
    /\ command = "none"
    /\ flushing = <<>>
    /\ commands = 0
    /\ got = [p \in Port |-> NONE]
-------------------------------------------------------------------------------
\* The message queues: mq_send to a full queue and mq_receive from an empty one
\* fail, and nobody looks at the failure of a send (its result is unsigned).

mq_send(queue, m) == IF Len(queue) < MQ_MAXMSG THEN Append(queue, m) ELSE queue

\* mq_receive also fails (EMSGSIZE) when it is given less room than the largest
\* message the queue may hold, whatever the queue holds.
TLOE_MQ_MSG_SIZE == 1600
BUFFER_SIZE == 1024
mq_receive_fails(queue, msg_len) == queue = <<>> \/ msg_len < TLOE_MQ_MSG_SIZE

\* The endpoints.
EndpointSends(p) ==
    /\ \E m \in Message[p] : rx' = [rx EXCEPT ![p] = mq_send(@, m)]
    /\ UNCHANGED <<tx, port, is_done, counters, thread, cli, got>>

EndpointReads(p) ==
    /\ tx[p] # <<>>
    /\ got' = [got EXCEPT ![p] = Head(tx[p])]
    /\ tx' = [tx EXCEPT ![p] = Tail(@)]
    /\ UNCHANGED <<rx, port, is_done, counters, thread, cli>>
-------------------------------------------------------------------------------
\* The relay thread.

thread_init(p) ==
    /\ pc = "init"
    /\ p = IF "A" \in port THEN "B" ELSE "A"
    /\ port' = port \cup {p}
    /\ pc' = IF p = "B" THEN "loop" ELSE "init"
    /\ UNCHANGED <<queues, is_done, counters, from, buffer, loaded, cli, got>>

\* A plausible slip: the loop never ends.
Mutant_never_done ==
    /\ pc = "loop"
    /\ pc' = "recv"
    /\ from' = "A"
    /\ UNCHANGED <<queues, port, is_done, counters, buffer, loaded, cli, got>>

\* The thread looks at is_done before it turns to port A.
test_done ==
    /\ pc = "loop"
    /\ pc' = IF is_done THEN "close" ELSE "recv"
    /\ from' = "A"
    /\ UNCHANGED <<queues, port, is_done, counters, buffer, loaded, cli, got>>

\* A plausible slip: a port is served as long as it has messages.
Mutant_drain_port ==
    IF rx[from] # <<>> THEN pc' = "recv" /\ UNCHANGED from
    ELSE pc' = (IF from = "A" THEN "recv" ELSE "loop") /\ from' = Other(from)

\* When the message from the port has been dealt with, or there was none.
PortServed ==
    /\ pc' = IF from = "A" THEN "recv" ELSE "loop"
    /\ from' = Other(from)

tloe_mq_recv ==
    /\ pc = "recv"
    /\ IF mq_receive_fails(rx[from], TLOE_MQ_MSG_SIZE)
       THEN PortServed /\ UNCHANGED <<rx, buffer>>
       ELSE /\ buffer' = Head(rx[from])
            /\ rx' = [rx EXCEPT ![from] = Tail(@)]
            /\ pc' = "test"
            /\ UNCHANGED from
    /\ UNCHANGED <<tx, port, is_done, counters, loaded, cli, got>>

test_drop_count ==
    /\ pc = "test"
    /\ pc' = IF drop_count[from] > 0 THEN "load" ELSE "send"
    /\ UNCHANGED <<queues, port, is_done, counters, from, buffer, loaded, cli, got>>

\* drop_count--, a load and a store.
load_drop_count ==
    /\ pc = "load"
    /\ pc' = "store"
    /\ loaded' = drop_count[from]
    /\ UNCHANGED <<queues, port, is_done, counters, from, buffer, cli, got>>

\* A plausible slip: the message is dropped, and the counter stays.
Mutant_no_decrement ==
    /\ pc = "store"
    /\ dropped' = [dropped EXCEPT ![from] = @ + 1]
    /\ buffer' = NONE
    /\ PortServed
    /\ UNCHANGED <<queues, port, is_done, drop_count, asked, loaded, cli, got>>

store_drop_count ==
    /\ pc = "store"
    /\ drop_count' = [drop_count EXCEPT ![from] = loaded - 1]
    /\ dropped' = [dropped EXCEPT ![from] = @ + 1]
    /\ buffer' = NONE
    /\ PortServed
    /\ UNCHANGED <<queues, port, is_done, asked, loaded, cli, got>>

\* A plausible slip: the message goes back where it came from.
Mutant_send_back ==
    /\ pc = "send"
    /\ tx' = [tx EXCEPT ![from] = mq_send(@, buffer)]
    /\ buffer' = NONE
    /\ PortServed
    /\ UNCHANGED <<rx, port, is_done, counters, loaded, cli, got>>

tloe_mq_send ==
    /\ pc = "send"
    /\ tx' = [tx EXCEPT ![Other(from)] = mq_send(@, buffer)]
    /\ buffer' = NONE
    /\ PortServed
    /\ UNCHANGED <<rx, port, is_done, counters, loaded, cli, got>>

thread_close ==
    /\ pc = "close"
    /\ pc' = "none"
    /\ port' = {}
    /\ UNCHANGED <<queues, is_done, counters, from, buffer, loaded, cli, got>>

Relay ==
    \/ \E p \in Port : thread_init(p)
    \/ test_done \/ tloe_mq_recv \/ test_drop_count \/ load_drop_count \/ store_drop_count
    \/ tloe_mq_send \/ thread_close
-------------------------------------------------------------------------------
\* The command line.

\* A command is typed, and done at once or begun.
Typed(next) ==
    /\ command = "none"
    /\ commands < MaxCommands
    /\ commands' = commands + 1
    /\ command' = next

tloe_ns_thread_start ==
    /\ Typed("none")
    /\ is_done
    /\ is_done' = FALSE
    /\ pc' = "init"
    /\ UNCHANGED <<queues, port, counters, from, buffer, loaded, flushing, got>>

\* is_done is set, then the thread is joined.
tloe_ns_thread_stop(next) ==
    /\ Typed(next)
    /\ ~is_done
    /\ is_done' = TRUE
    /\ UNCHANGED <<queues, port, counters, thread, flushing, got>>

join ==
    /\ command = "stop"
    /\ pc = "none"
    /\ command' = "none"
    /\ UNCHANGED <<queues, port, is_done, counters, thread, flushing, commands, got>>

\* Commands a, b and w.
tloe_ns_set_drop_count(ports, count) ==
    /\ Typed("none")
    /\ drop_count' = [p \in Port |-> IF p \in ports THEN count ELSE drop_count[p]]
    /\ asked' = [p \in Port |-> IF p \in ports THEN asked[p] + count ELSE asked[p]]
    /\ UNCHANGED <<queues, port, is_done, dropped, thread, flushing, got>>

\* Flushing dereferences ep_port_a and ep_port_b, and takes messages off each of
\* the four queues until mq_receive fails.
tloe_ns_flush_ports ==
    /\ Typed("flush")
    /\ ~is_done
    /\ flushing' = << <<"A", "tx">>, <<"A", "rx">>, <<"B", "tx">>, <<"B", "rx">> >>
    /\ UNCHANGED <<queues, port, is_done, counters, thread, got>>

\* What the flush is about to access, if it is not done.
FlushPort == flushing[1][1]
FlushQueue == IF flushing[1][2] = "tx" THEN tx[FlushPort] ELSE rx[FlushPort]

flush_message_queue ==
    /\ command = "flush" /\ flushing # <<>>
    /\ FlushPort \in port
    /\ IF mq_receive_fails(FlushQueue, BUFFER_SIZE)
       THEN flushing' = Tail(flushing) /\ UNCHANGED queues
       ELSE /\ UNCHANGED flushing
            /\ IF flushing[1][2] = "tx"
               THEN tx' = [tx EXCEPT ![FlushPort] = Tail(@)] /\ UNCHANGED rx
               ELSE rx' = [rx EXCEPT ![FlushPort] = Tail(@)] /\ UNCHANGED tx
    /\ UNCHANGED <<port, is_done, counters, thread, command, commands, got>>

flush_done ==
    /\ command = "flush" /\ flushing = <<>>
    /\ command' = "none"
    /\ UNCHANGED <<queues, port, is_done, counters, thread, flushing, commands, got>>

\* A null pointer is dereferenced: the process is gone, with both threads.
flush_crash ==
    /\ command = "flush" /\ flushing # <<>>
    /\ FlushPort \notin port
    /\ command' = "crashed"
    /\ pc' = "crashed"
    /\ UNCHANGED <<queues, port, is_done, counters, from, buffer, loaded, flushing, commands, got>>

\* Without a thread there is nothing to stop.
quit ==
    /\ Typed("quit")
    /\ is_done
    /\ UNCHANGED <<queues, port, is_done, counters, thread, flushing, got>>

\* At the end of its input main returns, wherever the thread is.
end_of_input ==
    /\ Typed("quit")
    /\ pc' = "none"
    /\ buffer' = NONE
    /\ port' = {}
    /\ UNCHANGED <<queues, is_done, counters, from, loaded, flushing, got>>

CommandLine ==
    \/ tloe_ns_thread_start
    \/ \E next \in {"stop", "quit"} : tloe_ns_thread_stop(next)
    \/ join
    \/ \E ports \in {{"A"}, {"B"}, Port}, count \in Counts : tloe_ns_set_drop_count(ports, count)
    \/ tloe_ns_flush_ports \/ flush_message_queue \/ flush_done \/ flush_crash
    \/ quit \/ end_of_input

NsNext ==
    \/ Relay
    \/ CommandLine
    \/ \E p \in Port : EndpointSends(p) \/ EndpointReads(p)

NsSpec == NsInit /\ [][NsNext]_nsVars

\* The two threads are scheduled.
FairNsSpec == NsSpec /\ WF_nsVars(Relay) /\ WF_nsVars(join)
-------------------------------------------------------------------------------
\* Type correctness: no queue over its limit, no counter below zero, and a
\* message in the buffer of the thread only from the port it is relaying from.
NsTypeOK ==
    /\ \A p \in Port :
          /\ rx[p] \in Seq(Message[p]) /\ Len(rx[p]) <= MQ_MAXMSG
          /\ tx[p] \in Seq(Message[Other(p)]) /\ Len(tx[p]) <= MQ_MAXMSG
          /\ drop_count[p] \in Nat
          /\ got[p] \in Message[Other(p)] \cup {NONE}
    /\ port \subseteq Port
    /\ is_done \in BOOLEAN
    /\ pc \in {"none", "init", "loop", "recv", "test", "load", "store", "send", "close", "crashed"}
    /\ from \in Port
    /\ buffer \in Message[from] \cup {NONE}
    /\ command \in {"none", "stop", "flush", "quit", "crashed"}

\* Messages from the endpoint at p that are on their way, oldest first.
InFlight(p) ==
    tx[Other(p)] \o (IF from = p /\ buffer # NONE THEN <<buffer>> ELSE <<>>) \o rx[p]

\* In both directions the simulator loses messages but does not reorder,
\* repeat, invent or misdirect any, although it is stopped, started again and
\* flushed while messages are on their way (thread_fn, flush_message_queue).
FromA == INSTANCE LossyFifo WITH
    Msg <- Message["A"], NoMsg <- NONE, channel <- InFlight("A"), received <- got["B"]
FromB == INSTANCE LossyFifo WITH
    Msg <- Message["B"], NoMsg <- NONE, channel <- InFlight("B"), received <- got["A"]
RelaysBothWays == FromA!LossySpec /\ FromB!LossySpec

\* However the commands and the decrements interleave, no more messages are
\* dropped than the commands have asked for (drop_count_a_to_b--).
NoExcessDrops == \A p \in Port : dropped[p] + drop_count[p] <= asked[p]

\* Stopping the thread ends (pthread_join).
StopEnds == command = "stop" ~> command = "none"

\* A running thread gets round to both ports, however much arrives at one.
BothPortsServed ==
    \A p \in Port : ~is_done ~> (pc = "recv" /\ from = p) \/ is_done \/ command \in {"crashed", "quit"}
===============================================================================
