---------------------------- MODULE TloeConnection ----------------------------
(***************************************************************************)
(* tloe_connection.c and the commands c, d and q of tloe_endpoint.c: how   *)
(* the user threads open and close the connection that the endpoint        *)
(* threads of TloeEndpoint work on.  The endpoint thread waits while       *)
(* connection is 0; the user thread then is the one that reads the fabric. *)
(* When a connection has been closed, tloe_endpoint_init empties every     *)
(* queue; the memory and the message the thread holds stay.                *)
(*                                                                         *)
(* Users open a connection that is closed and close one that is open; the  *)
(* code does not insist on either.  Time is abstracted to whether          *)
(* CONN_RESEND_TIME has passed since start.                                *)
(***************************************************************************)
EXTENDS TloeEndpoint

CONSTANTS
    CREDIT_INIT,        \* exponent of the credit before anything is granted
    Commands,           \* those of c, d and q the users type
    Uninitialised,      \* how the slave's start, before it is set, compares with now
    Prompt,             \* the endpoint thread ends its iteration before a close goes on
    MaxSessions,        \* bound: connections each user opens
    MaxResend           \* bound: handshake frames sent again while an answer is possible

ASSUME ConnAssumption ==
    /\ CREDIT_INIT \in 0 .. CREDIT_DEFAULT - 1
    /\ Commands \subseteq {"c", "d", "q"}
    /\ Uninitialised \subseteq {"past", "future"}
    /\ Prompt \in BOOLEAN
    /\ MaxSessions \in Nat
    /\ MaxResend \in Nat
    /\ MaxTx # 0                            \* open_conn_master numbers a frame
    /\ MAX_SEQ_NUM >= 2 * CHANNEL_NUM       \* and serve_conn numbers five

VARIABLES
    user,               \* the command the user thread is in; "last" ends close_conn_slave
    connection,
    is_done,            \* set by command q
    ended,              \* the endpoint thread has left its loop
    conn_flag,          \* the slave has seen the frame that opens or closes
    start,              \* when the handshake was sent: "past" if CONN_RESEND_TIME ago,
                        \* "now" if later, "future" if the clock never reaches it
    sessions, resends   \* what has been used of the bounds

connVars == <<user, connection, is_done, ended, conn_flag, start, sessions, resends>>
allVars == <<vars, connVars>>

\* tloe_endpoint_init and main: the thread waits for a connection.
ConnInit ==
    /\ Fresh
    /\ next_tx_seq = [e \in Endpoint |-> 0]
    /\ credits = [e \in Endpoint |-> init_flowcontrol(CREDIT_INIT)]
    /\ user = [e \in Endpoint |-> "idle"]
    /\ connection = [e \in Endpoint |-> FALSE]
    /\ is_done = [e \in Endpoint |-> FALSE]
    /\ ended = [e \in Endpoint |-> FALSE]
    /\ conn_flag = [e \in Endpoint |-> FALSE]
    /\ start = [e \in Endpoint |-> "past"]
    /\ sessions = [e \in Endpoint |-> 0]
    /\ resends = 0

\* The user thread is in this command.
UserIn(e, command) == user[e] = command /\ exited[e] = "no"

\* The endpoint thread, which may have been in the middle of an iteration when
\* connection was cleared, waits again.
ThreadParked(e) == pc[e] = "tx"
-------------------------------------------------------------------------------
\* The commands.

open_conn(e) ==
    /\ "c" \in Commands
    /\ UserIn(e, "idle") /\ ~connection[e]
    /\ sessions[e] < MaxSessions
    /\ user' = [user EXCEPT ![e] = "open"]
    /\ conn_flag' = [conn_flag EXCEPT ![e] = FALSE]
    /\ \E s \in IF e = "master" THEN {"past"} ELSE Uninitialised :
          start' = [start EXCEPT ![e] = s]
    /\ sessions' = [sessions EXCEPT ![e] = @ + 1]
    /\ UNCHANGED <<vars, connection, is_done, ended, resends>>

close_conn(e) ==
    /\ "d" \in Commands
    /\ UserIn(e, "idle") /\ connection[e]
    /\ user' = [user EXCEPT ![e] = "close"]
    /\ connection' = [connection EXCEPT ![e] = FALSE]
    /\ conn_flag' = [conn_flag EXCEPT ![e] = FALSE]
    /\ start' = [start EXCEPT ![e] = "past"]
    /\ UNCHANGED <<vars, is_done, ended, sessions, resends>>

\* The user thread then joins the endpoint thread.
quit(e) ==
    /\ "q" \in Commands
    /\ UserIn(e, "idle")
    /\ user' = [user EXCEPT ![e] = "quit"]
    /\ is_done' = [is_done EXCEPT ![e] = TRUE]
    /\ UNCHANGED <<vars, connection, ended, conn_flag, start, sessions, resends>>
-------------------------------------------------------------------------------
\* Sending: the five frames that grant the credit of channels A to E, and the
\* frame that closes.

send_frame(type, seq_num, seq_num_ack, chan, credit) ==
    [type |-> type, seq_num |-> seq_num, seq_num_ack |-> seq_num_ack, ack |-> TLOE_ACK,
     chan |-> chan, credit |-> credit, tlmsg |-> NULL]

OpenFrames(e) ==
    [i \in CHANNEL_A .. CHANNEL_E |->
        send_frame(IF e = "master" /\ i = CHANNEL_A THEN TYPE_OPEN_CONNECTION ELSE TYPE_NORMAL,
                   i - 1, tloe_seqnum_prev(next_rx_seq[e]), i, CREDIT_DEFAULT)]

CloseFrame(e) ==
    send_frame(TYPE_CLOSE_CONNECTION, next_tx_seq[e], tloe_seqnum_prev(next_rx_seq[e]),
               CHANNEL_0, 0)

\* Only the master speaks first.
MaySpeak(e) == e = "master" \/ conn_flag[e]

\* The next thing the user thread does is to send.
WillServe(e) == start[e] = "past" /\ MaySpeak(e)

\* The handshake has come to a halt: nothing is on its way, and the peer either
\* waits as well or has no connection and does not listen.
Halted(e) ==
    /\ fabric = [x \in Endpoint |-> <<>>]
    /\ \/ user[Peer(e)] = user[e] /\ ~WillServe(Peer(e))
       \/ user[Peer(e)] = "idle" /\ ~connection[Peer(e)]

\* A plausible slip: a handshake is sent once.
Mutant_no_resend(e) == start[e] = "past"

check_timer(e) == start[e] = "past" \/ (start[e] = "now" /\ (Halted(e) \/ resends < MaxResend))

\* The handshake is sent, for the first time or again.
Serve(e, frames) ==
    /\ MaySpeak(e)
    /\ check_timer(e)
    /\ fabric' = [fabric EXCEPT ![Peer(e)] = Carry(@, frames)]
    /\ start' = [start EXCEPT ![e] = "now"]
    /\ resends' = IF start[e] = "past" \/ Halted(e) THEN resends ELSE resends + 1

serve_conn(e) ==
    /\ UserIn(e, "open")
    /\ Serve(e, OpenFrames(e))
    /\ next_tx_seq' = [next_tx_seq EXCEPT ![e] = CHANNEL_NUM - 1]
    /\ UNCHANGED <<pc, loopVars, retransmit_buffer, ack_buffer, next_rx_seq, acked_seq, flagVars,
                   txlog, rxlog, fcVars, tlVars, userVars, losses, expiries, lead, exited,
                   user, connection, is_done, ended, conn_flag, sessions>>

\* What the thread had begun when connection was cleared.
CloseMayProceed(e) == Prompt => ThreadParked(e)

\* The slave answers once, and looks at the fabric once more.
serve_close_conn(e) ==
    /\ UserIn(e, "close")
    /\ CloseMayProceed(e)
    /\ Serve(e, <<CloseFrame(e)>>)
    /\ user' = [user EXCEPT ![e] = IF e = "master" THEN "close" ELSE "last"]
    /\ UNCHANGED <<pc, loopVars, linkVars, fcVars, tlVars, userVars, losses, expiries, lead,
                   exited, connection, is_done, ended, conn_flag, sessions>>
-------------------------------------------------------------------------------
\* Receiving while a connection is opened.

\* The slave takes every frame from the first OPEN frame on, whatever its
\* number; the master takes the one it expects.
Takes(e, f) ==
    IF e = "master" THEN tloe_seqnum_cmp(f.seq_num, next_rx_seq[e]) = 0
    ELSE conn_flag[e] \/ f.type = TYPE_OPEN_CONNECTION

CreditsAfter(e, f) ==
    IF Takes(e, f) THEN set_credit(credits[e], f.chan, f.credit) ELSE credits[e]

\* A plausible slip: next_rx_seq stays behind the frames read.
Mutant_next_rx_stays(e, f) ==
    /\ UserIn(e, "open")
    /\ ~WillServe(e)
    /\ conn_flag' = [conn_flag EXCEPT ![e] = @ \/ f.type = TYPE_OPEN_CONNECTION]
    /\ credits' = [credits EXCEPT ![e] = CreditsAfter(e, f)]
    /\ next_rx_seq' = IF e = "master" /\ Takes(e, f)
                      THEN [next_rx_seq EXCEPT ![e] = tloe_seqnum_next(f.seq_num)]
                      ELSE next_rx_seq
    /\ UNCHANGED <<pc, loopVars, retransmit_buffer, ack_buffer, flagVars, rxlog, tlVars,
                   userVars, losses, expiries, lead, exited, is_done, ended, start, sessions,
                   resends, tx_flow_credits, acked_seq>>

\* A frame is read, and what it tells is noted.
recv_conn(e, f) ==
    /\ UserIn(e, "open")
    /\ ~WillServe(e)
    /\ conn_flag' = [conn_flag EXCEPT ![e] = @ \/ f.type = TYPE_OPEN_CONNECTION]
    /\ credits' = [credits EXCEPT ![e] = CreditsAfter(e, f)]
    /\ IF Takes(e, f)
       THEN /\ tx_flow_credits' = [tx_flow_credits EXCEPT ![e] = clear_flow_credit(@, f.chan)]
            /\ next_rx_seq' = [next_rx_seq EXCEPT ![e] = tloe_seqnum_next(f.seq_num)]
            /\ UpdateAckedSeq(e, f)
       ELSE UNCHANGED <<tx_flow_credits, next_rx_seq, acked_seq>>
    /\ UNCHANGED <<pc, loopVars, retransmit_buffer, ack_buffer, flagVars, rxlog, tlVars,
                   userVars, losses, expiries, lead, exited, is_done, ended, start, sessions,
                   resends>>

\* Credit is still missing on some channel.
open_conn_wait(e, f) ==
    /\ recv_conn(e, f)
    /\ ~check_all_channels(CreditsAfter(e, f), CREDIT_INIT)
    /\ fabric' = [fabric EXCEPT ![e] = Tail(@)]
    /\ UNCHANGED <<next_tx_seq, txlog, user, connection>>

Opened(e) ==
    /\ user' = [user EXCEPT ![e] = "idle"]
    /\ connection' = [connection EXCEPT ![e] = TRUE]

\* A plausible slip: the number of the last frame is used again.
Mutant_reuse_number(f) ==
    LET last == send_frame(TYPE_NORMAL, next_tx_seq["master"],
                           tloe_seqnum_prev(next_rx_seq'["master"]), CHANNEL_0, 0)
    IN  /\ recv_conn("master", f)
        /\ check_all_channels(CreditsAfter("master", f), CREDIT_INIT)
        /\ fabric' = [fabric EXCEPT !["master"] = Tail(@), !["slave"] = Carry(@, <<last>>)]
        /\ txlog' = [txlog EXCEPT !["master"] = Append(@, Payload(last))]
        /\ UNCHANGED next_tx_seq
        /\ Opened("master")

\* Every channel has its credit: the master numbers one more frame, without
\* keeping it for retransmission; the slave sends an ACKONLY frame.
open_conn_master(f) ==
    LET last == send_frame(TYPE_NORMAL, next_tx_seq["master"],
                           tloe_seqnum_prev(next_rx_seq'["master"]), CHANNEL_0, 0)
    IN  /\ recv_conn("master", f)
        /\ check_all_channels(CreditsAfter("master", f), CREDIT_INIT)
        /\ fabric' = [fabric EXCEPT !["master"] = Tail(@), !["slave"] = Carry(@, <<last>>)]
        /\ next_tx_seq' = [next_tx_seq EXCEPT !["master"] = tloe_seqnum_next(@)]
        /\ txlog' = [txlog EXCEPT !["master"] = Append(@, Payload(last))]
        /\ Opened("master")

open_conn_slave(f) ==
    LET last == send_frame(TYPE_ACKONLY, next_tx_seq["slave"],
                           tloe_seqnum_prev(next_rx_seq'["slave"]), CHANNEL_0, 0)
    IN  /\ recv_conn("slave", f)
        /\ check_all_channels(CreditsAfter("slave", f), CREDIT_INIT)
        /\ fabric' = [fabric EXCEPT !["slave"] = Tail(@), !["master"] = Carry(@, <<last>>)]
        /\ UNCHANGED <<next_tx_seq, txlog>>
        /\ Opened("slave")

Opening(e) ==
    \/ serve_conn(e)
    \/ /\ fabric[e] # <<>>
       /\ LET f == Head(fabric[e])
          IN  \/ open_conn_wait(e, f)
              \/ e = "master" /\ open_conn_master(f)
              \/ e = "slave" /\ open_conn_slave(f)
-------------------------------------------------------------------------------
\* Receiving while a connection is closed.

\* tloe_endpoint_init, after the close, in three parts.

\* A plausible slip: the requests not yet sent are forgotten to be discarded.
Mutant_keep_requests(e) ==
    /\ response_buffer' = [response_buffer EXCEPT ![e] = <<>>]
    /\ tl_msg_buffer' = [tl_msg_buffer EXCEPT ![e] = <<>>]
    /\ UNCHANGED message_buffer

ResetQueues(e) ==
    /\ message_buffer' = [message_buffer EXCEPT ![e] = <<>>]
    /\ response_buffer' = [response_buffer EXCEPT ![e] = <<>>]
    /\ tl_msg_buffer' = [tl_msg_buffer EXCEPT ![e] = <<>>]

\* A plausible slip: acked_seq starts below the first number.
Mutant_acked_below_zero(e) ==
    /\ next_tx_seq' = [next_tx_seq EXCEPT ![e] = 0]
    /\ next_rx_seq' = [next_rx_seq EXCEPT ![e] = 0]
    /\ acked_seq' = [acked_seq EXCEPT ![e] = -1]
    /\ should_send_ackonly_frame' = [should_send_ackonly_frame EXCEPT ![e] = FALSE]
    /\ ackonly_frame_sent' = [ackonly_frame_sent EXCEPT ![e] = FALSE]

ResetNumbers(e) ==
    /\ next_tx_seq' = [next_tx_seq EXCEPT ![e] = 0]
    /\ next_rx_seq' = [next_rx_seq EXCEPT ![e] = 0]
    /\ acked_seq' = [acked_seq EXCEPT ![e] = MAX_SEQ_NUM]
    /\ should_send_ackonly_frame' = [should_send_ackonly_frame EXCEPT ![e] = FALSE]
    /\ ackonly_frame_sent' = [ackonly_frame_sent EXCEPT ![e] = FALSE]

\* A plausible slip: frames of the old connection stay in the retransmit buffer.
Mutant_keep_frames(e) ==
    /\ ack_buffer' = [ack_buffer EXCEPT ![e] = <<>>]
    /\ UNCHANGED retransmit_buffer
    /\ ResetNumbers(e)

ResetLink(e) ==
    /\ retransmit_buffer' = [retransmit_buffer EXCEPT ![e] = <<>>]
    /\ ack_buffer' = [ack_buffer EXCEPT ![e] = <<>>]
    /\ ResetNumbers(e)

\* A plausible slip: the credit of the old connection stays.
Mutant_keep_credit(e) == UNCHANGED fcVars

ResetCredit(e) ==
    /\ credits' = [credits EXCEPT ![e] = init_flowcontrol(CREDIT_INIT)]
    /\ tx_flow_credits' = [tx_flow_credits EXCEPT ![e] = [c \in Channel |-> 0]]

\* tl_handler_init, called before, finds its memory allocated and keeps it.
\* The histories start again with the connection.
tloe_endpoint_init(e) ==
    /\ user' = [user EXCEPT ![e] = "idle"]
    /\ ResetQueues(e) /\ ResetLink(e) /\ ResetCredit(e)
    /\ submitted' = [submitted EXCEPT ![e] = <<>>]
    /\ results' = [results EXCEPT ![e] = <<>>]
    /\ txlog' = [txlog EXCEPT ![e] = <<>>]
    /\ rxlog' = [rxlog EXCEPT ![e] = <<>>]
    /\ UNCHANGED <<pc, loopVars, mem, losses, expiries, lead, exited,
                   connection, is_done, ended, conn_flag, start, sessions, resends>>

\* Frames of other types are read and forgotten.
recv_close_conn(e, f) ==
    /\ UserIn(e, "close")
    /\ CloseMayProceed(e)
    /\ ~WillServe(e)
    /\ fabric' = [fabric EXCEPT ![e] = Tail(@)]
    /\ conn_flag' = [conn_flag EXCEPT ![e] = f.type = TYPE_CLOSE_CONNECTION]
    /\ IF f.type = TYPE_CLOSE_CONNECTION
       THEN /\ next_rx_seq' = [next_rx_seq EXCEPT ![e] = tloe_seqnum_next(f.seq_num)]
            /\ acked_seq' = [acked_seq EXCEPT ![e] = f.seq_num_ack]
       ELSE UNCHANGED <<next_rx_seq, acked_seq>>
    /\ UNCHANGED <<pc, loopVars, retransmit_buffer, ack_buffer, next_tx_seq, flagVars, txlog,
                   rxlog, fcVars, tlVars, userVars, losses, expiries, lead, exited,
                   user, connection, is_done, ended, start, sessions, resends>>

\* The master is done with the first CLOSE frame it reads.
close_conn_master(f) ==
    /\ UserIn("master", "close")
    /\ CloseMayProceed("master")
    /\ ~WillServe("master")
    /\ f.type = TYPE_CLOSE_CONNECTION
    /\ fabric' = [fabric EXCEPT !["master"] = Tail(@)]
    /\ tloe_endpoint_init("master")

\* The slave is done after one more look at the fabric, whatever it finds.
close_conn_slave ==
    /\ UserIn("slave", "last")
    /\ CloseMayProceed("slave")
    /\ fabric' = [fabric EXCEPT !["slave"] = IF @ = <<>> THEN @ ELSE Tail(@)]
    /\ tloe_endpoint_init("slave")

Closing(e) ==
    \/ serve_close_conn(e)
    \/ e = "slave" /\ close_conn_slave
    \/ /\ fabric[e] # <<>>
       /\ LET f == Head(fabric[e])
          IN  \/ (e = "slave" \/ f.type # TYPE_CLOSE_CONNECTION) /\ recv_close_conn(e, f)
              \/ e = "master" /\ close_conn_master(f)
-------------------------------------------------------------------------------
\* A plausible slip: the thread does not look at is_done.
Mutant_deaf_loop(e) ==
    /\ (connection[e] /\ TX(e)) \/ RX(e) \/ tl_handler(e)
    /\ UNCHANGED connVars

\* The endpoint thread waits for the connection at the top of an iteration and
\* looks at is_done when it has ended one.
Loop(e) ==
    /\ ~ended[e]
    /\ \/ connection[e] /\ TX(e) /\ UNCHANGED ended
       \/ RX(e) /\ UNCHANGED ended
       \/ tl_handler(e) /\ ended' = [ended EXCEPT ![e] = is_done[e]]
    /\ UNCHANGED <<user, connection, is_done, conn_flag, start, sessions, resends>>

\* Requests are refused without a connection (is_conn).
Requests(e) ==
    /\ UserIn(e, "idle") /\ connection[e]
    /\ User(e)
    /\ UNCHANGED connVars

LoseFrame(e) == Lose(e) /\ UNCHANGED connVars

Handshake(e) == Opening(e) \/ Closing(e)

ConnNext ==
    \E e \in Endpoint :
        \/ open_conn(e) \/ close_conn(e) \/ quit(e)
        \/ Handshake(e) \/ Loop(e) \/ Requests(e) \/ LoseFrame(e)

ConnSpec == ConnInit /\ [][ConnNext]_allVars

\* The timer of a handshake that has come to a halt expires.
Resend(e) == Halted(e) /\ (serve_conn(e) \/ serve_close_conn(e))

DataTimeout(e) == ~ended[e] /\ connection[e] /\ Timeout(e) /\ UNCHANGED connVars

\* Both threads of a process are scheduled, and the clock moves.  Nobody has to
\* type a command.
ConnFairness ==
    \A e \in Endpoint :
        /\ WF_allVars(Loop(e)) /\ SF_allVars(DataTimeout(e))
        /\ WF_allVars(Handshake(e)) /\ SF_allVars(Resend(e))
ConnFairSpec == ConnSpec /\ ConnFairness
===============================================================================
