---------------------------- MODULE TloeSessionInv ----------------------------
(***************************************************************************)
(* Why the master of a connection accepts what the slave numbered in this  *)
(* connection and nothing else, whatever the fabric loses: the inductive   *)
(* invariant behind MasterInOrder, with Prompt.                            *)
(*                                                                         *)
(* The fabric keeps the order of frames, and the two ends take turns.  The *)
(* slave says nothing until it has read an OPEN frame and nothing after    *)
(* its CLOSE frame; the master sends OPEN frames only after it has read    *)
(* the CLOSE frame of the connection before.  So the frames on their way   *)
(* to the master are of one connection of the slave, and the numbers of    *)
(* that connection tell the handshake, 0 to 4, from data.                  *)
(*                                                                         *)
(* Behind it, for as long as nothing is lost: what brings the frames of    *)
(* the master to the slave in order (DeliveryInv), and where the credit of *)
(* a connection is from the moment it is open (CreditInv).                 *)
(***************************************************************************)
EXTENDS TloeConnectionProps

\* The slave has read the OPEN frame and has not sent its CLOSE frame.
Speaking ==
    \/ connection["slave"]
    \/ user["slave"] = "close"
    \/ user["slave"] = "open" /\ conn_flag["slave"]

\* It has also had the opportunity to send something.
Spoken == Speaking /\ ~(user["slave"] = "open" /\ next_tx_seq["slave"] = 0)

\* Frames of other types.
Without(type) == {f \in Frame : f.type # type}

\* No frame of the second type lies behind one of the first.
NoneBehind(queue, first, second) ==
    \A i, j \in 1 .. Len(queue) : i < j /\ queue[i].type = first => queue[j].type # second

\* A frame of this type is the last.
OnlyLast(queue, type) ==
    \A i, j \in 1 .. Len(queue) : i < j => queue[i].type # type

\* With Prompt, a thread without a connection waits at the top of its loop, except
\* in the iteration in which the connection is closed.
ThreadsWait ==
    \A e \in Endpoint : ~connection[e] /\ user[e] # "close" => ThreadParked(e)

\* What was kept for retransmission has not opened or closed a connection.
KeptNormal ==
    \A e \in Endpoint : retransmit_buffer[e] \in Seq({f \in Frame : f.type = TYPE_NORMAL})

\* The slave before it has a connection: nothing is granted until it has read the
\* OPEN frame, and its numbers start at 0, or at 5 once it has answered.
SlaveStarts ==
    ~connection["slave"] /\ user["slave"] \notin {"close", "last"} =>
        /\ retransmit_buffer["slave"] = <<>>
        /\ \/ user["slave"] = "open" /\ conn_flag["slave"] /\ next_tx_seq["slave"] \in {0, 5}
           \/ next_tx_seq["slave"] = 0 /\ credits["slave"] = init_flowcontrol(CREDIT_INIT)

\* Who has read what of the other's OPEN and CLOSE frames.
Turns ==
    /\ user["master"] = "open" =>
          NoneBehind(fabric["slave"], TYPE_OPEN_CONNECTION, TYPE_CLOSE_CONNECTION)
    /\ user["master"] = "close" =>
          NoneBehind(fabric["slave"], TYPE_CLOSE_CONNECTION, TYPE_OPEN_CONNECTION)
    /\ Speaking =>
          /\ connection["master"] \/ user["master"] \in {"open", "close"}
          /\ ~Spoken => user["master"] = "open"
          /\ fabric["master"] \in Seq(Without(TYPE_CLOSE_CONNECTION))
          /\ user["master"] # "close" => fabric["slave"] \in Seq(Without(TYPE_CLOSE_CONNECTION))
          /\ user["slave"] = "close" /\ conn_flag["slave"] =>
                /\ user["master"] = "close"
                /\ fabric["slave"] \in Seq(Without(TYPE_OPEN_CONNECTION))
    /\ ~Speaking =>
          /\ ~connection["master"]
          /\ user["master"] # "open" => fabric["slave"] \in Seq(Without(TYPE_OPEN_CONNECTION))
          /\ OnlyLast(fabric["master"], TYPE_CLOSE_CONNECTION)

\* The master before the slave has spoken to it.
MasterFresh ==
    /\ fabric["master"] = <<>>
    /\ next_rx_seq["master"] = 0
    /\ rxlog["master"] = <<>>
    /\ credits["master"] = init_flowcontrol(CREDIT_INIT)

\* The frames of the slave's connection: five of the handshake, numbered from 0,
\* and those of its log.
SlaveFrame(log) ==
    {f \in Frame :
        /\ f.type = TYPE_ACKONLY => f.seq_num >= 5
        /\ f.type # TYPE_ACKONLY /\ f.seq_num < 5 =>
              f.chan = f.seq_num + 1 /\ f.credit = CREDIT_DEFAULT
        /\ f.type # TYPE_ACKONLY /\ f.seq_num >= 5 =>
              f.seq_num - 4 \in 1 .. Len(log) /\ Payload(f) = log[f.seq_num - 4]}

\* The slave has sent the handshake: the master takes its frames in order, and
\* accepts the log in order once it has all five.
Served ==
    /\ next_tx_seq["slave"] = Len(txlog["slave"]) + 5
    /\ fabric["master"] \in Seq(SlaveFrame(txlog["slave"]))
    /\ retransmit_buffer["slave"] \in
          Seq({f \in SlaveFrame(txlog["slave"]) : f.type # TYPE_ACKONLY /\ f.seq_num >= 5})
    /\ user["master"] = "open" =>
          /\ next_rx_seq["master"] < 5
          /\ rxlog["master"] = <<>>
          /\ \A c \in CHANNEL_A .. CHANNEL_E :
                credits["master"][c] =
                    2^(IF c <= next_rx_seq["master"] THEN CREDIT_DEFAULT ELSE CREDIT_INIT)
    /\ connection["master"] =>
          /\ next_rx_seq["master"] = Len(rxlog["master"]) + 5
          /\ Len(rxlog["master"]) <= Len(txlog["slave"])
          /\ \A i \in 1 .. Len(rxlog["master"]) : rxlog["master"][i] = txlog["slave"][i]

\* The slave has its credit but never sends the handshake, because start was never
\* set: nothing it sends grants credit for channel E, and the master waits.
NotServed ==
    /\ user["slave"] # "open"
    /\ user["master"] = "open"
    /\ credits["master"][CHANNEL_E] = 2^CREDIT_INIT
    /\ fabric["master"] \in Seq({f \in Frame : f.chan # CHANNEL_E})
    /\ retransmit_buffer["slave"] \in Seq({f \in Frame : f.chan # CHANNEL_E})

\* The inductive invariant; with it MasterInOrder holds of every connection, however
\* often the handshake of this or an earlier one was sent again or lost in part
\* (serve_conn, recv_conn_master, close_conn_master, close_conn_slave).
SessionInv ==
    /\ ThreadsWait
    /\ KeptNormal
    /\ SlaveStarts
    /\ tx_flow_credits["slave"][CHANNEL_E] = 0
    /\ Turns
    /\ ~Spoken => user["master"] = "close" \/ MasterFresh
    /\ Spoken => Served \/ NotServed
-------------------------------------------------------------------------------
\* The direction to the slave, while nothing is lost.  The slave takes the frames
\* of a handshake whatever their numbers, but they reach it in rounds of five, each
\* of them cut off at its end at most: what it lacks last is the credit of channel
\* E, and the frame that grants it has number 4.

\* The frames of the master's connection: an OPEN frame, the others of the
\* handshake, those of its log, and acknowledgements.
MasterFrame(log) ==
    {f \in Frame :
        /\ f.type # TYPE_CLOSE_CONNECTION
        /\ f.type = TYPE_OPEN_CONNECTION => f.seq_num = 0
        /\ f.type = TYPE_ACKONLY => f.chan = CHANNEL_0
        /\ f.type # TYPE_ACKONLY /\ f.seq_num < 5 =>
              f.chan = f.seq_num + 1 /\ f.credit = CREDIT_DEFAULT
        /\ f.type # TYPE_ACKONLY /\ f.seq_num >= 5 =>
              f.seq_num - 4 \in 1 .. Len(log) /\ Payload(f) = log[f.seq_num - 4]}

CloseFrames == {f \in Frame : f.type = TYPE_CLOSE_CONNECTION}

\* A frame of a round, and one that is not the first of it.
InRound(f) == f.type # TYPE_ACKONLY /\ f.type # TYPE_CLOSE_CONNECTION /\ f.seq_num < 5
Later(f) == InRound(f) /\ f.seq_num # 0

\* Each frame of a round comes behind the one before it.
Chained(queue) ==
    \A i \in 1 .. Len(queue) - 1 :
        Later(queue[i + 1]) => InRound(queue[i]) /\ queue[i + 1].seq_num = queue[i].seq_num + 1

\* Behind a CLOSE frame there are only CLOSE frames.
ClosesLast(queue) ==
    \A i, j \in 1 .. Len(queue) :
        i < j /\ queue[i].type = TYPE_CLOSE_CONNECTION => queue[j].type = TYPE_CLOSE_CONNECTION

\* No message waits for tl_handler, and there is no credit to return.
NothingOwed(e) ==
    tl_msg_buffer[e] = <<>> /\ \A c \in Channel : tx_flow_credits[e][c] = 0

\* The numbers of the master in a connection, and before it has one.
MasterSends ==
    /\ connection["master"] =>
          /\ next_tx_seq["master"] = Len(txlog["master"]) + 5
          /\ retransmit_buffer["master"] \in
                Seq({f \in MasterFrame(txlog["master"]) : f.type # TYPE_ACKONLY /\ f.seq_num >= 5})
    /\ ~connection["master"] /\ user["master"] # "close" =>
          /\ txlog["master"] = <<>>
          /\ retransmit_buffer["master"] = <<>>
          /\ NothingOwed("master")
          /\ user["master"] = "open" /\ start["master"] # "past" => next_tx_seq["master"] = 5

\* What is on its way to the slave.
ToSlave ==
    /\ user["master"] # "close" =>
          /\ fabric["slave"] \in Seq(MasterFrame(txlog["master"]) \cup CloseFrames)
          /\ Chained(fabric["slave"])
    /\ user["master"] = "close" =>
          /\ ClosesLast(fabric["slave"])
          /\ ~Speaking \/ (user["slave"] = "close" /\ conn_flag["slave"]) =>
                fabric["slave"] \in Seq(CloseFrames) /\ ThreadParked("master")
          /\ ~ThreadParked("master") => fabric["slave"] \in Seq(Without(TYPE_CLOSE_CONNECTION))

\* The slave has the credit of the first n channels, and the next frame of a round
\* grants one of these or that of the next channel.
SlaveGranted(n) ==
    /\ \A c \in CHANNEL_A .. CHANNEL_E :
          credits["slave"][c] = 2^(IF c <= n THEN CREDIT_DEFAULT ELSE CREDIT_INIT)
    /\ fabric["slave"] # <<>> /\ Later(fabric["slave"][1]) => fabric["slave"][1].seq_num <= n

\* The slave has read the OPEN frame; what else the master sends grants nothing.
SlaveTakes ==
    /\ NothingOwed("master")
    /\ \A i \in 1 .. Len(txlog["master"]) : txlog["master"][i].chan = CHANNEL_0
    /\ \E n \in 1 .. 4 : SlaveGranted(n)

\* The slave accepts the master's log in order.
SlaveInOrder ==
    /\ next_rx_seq["slave"] = Len(rxlog["slave"]) + 5
    /\ Len(rxlog["slave"]) <= Len(txlog["master"])
    /\ \A i \in 1 .. Len(rxlog["slave"]) : rxlog["slave"][i] = txlog["master"][i]

SlaveReceives ==
    /\ ~connection["slave"] /\ user["slave"] \notin {"close", "last"} => rxlog["slave"] = <<>>
    /\ user["master"] # "close" =>
          /\ user["slave"] = "open" /\ conn_flag["slave"] => SlaveTakes
          /\ connection["slave"] => SlaveInOrder

\* The inductive invariant; with it and SessionInv both ends of a connection accept
\* what the other has numbered in it, however often a handshake was sent again
\* (serve_conn, recv_conn_slave, open_conn_slave).
DeliveryInv == losses = 0 => MasterSends /\ ToSlave /\ SlaveReceives
-------------------------------------------------------------------------------
\* The credit, while nothing is lost.  An end has all of it from the moment it
\* opens, though its peer may not have opened yet.

\* Nothing numbered here returns credit.
ReturnsNothing(log) == \A i \in 1 .. Len(log) : log[i].chan = CHANNEL_0

\* The credit granted to e is accounted for.
Accounted(e) ==
    exited[Peer(e)] = "no" => \A c \in Carrying : Balance(e, c) = 2^CREDIT_DEFAULT

\* No connection, and none being closed.
Unopened(e) == ~connection[e] /\ user[e] \notin {"close", "last"}

\* The connection is open at the slave and not yet at the master; open at the slave,
\* and the master is not closing it; open at the master, and the slave is opening
\* it or has it open.
SlaveFirst == connection["slave"] /\ user["master"] = "open"
SlaveUses == connection["slave"] /\ user["master"] # "close"
MasterUses == connection["master"] /\ (connection["slave"] \/ user["slave"] = "open")

\* The inductive invariant; with it, SessionInv and DeliveryInv the credit of a
\* connection is conserved at both ends, however often a handshake was sent again
\* (recv_conn, clear_flow_credit, tloe_endpoint_init).
CreditInv ==
    losses = 0 =>
        /\ Unopened("master") => rxlog["master"] = <<>>
        /\ Unopened("slave") \/ SlaveFirst => NothingOwed("slave")
        /\ SlaveFirst => ReturnsNothing(txlog["slave"])
        /\ SlaveUses => Accounted("slave")
        /\ MasterUses => Accounted("master")
===============================================================================
