---------------------------- MODULE Retransmission ----------------------------
(***************************************************************************)
(* retransmission.c: the retransmit buffer of an endpoint, a sequence of   *)
(* the frames sent and not yet acknowledged, oldest first.  The send time  *)
(* of an element is not kept: TloeEndpoint lets the timer expire whenever  *)
(* the buffer is not empty.                                                *)
(***************************************************************************)
EXTENDS TloeSeqMgr, Sequences

\* The frames that remain once those up to seq_num_ack have been popped.
slide_window(retransmit_buffer, seq_num_ack) ==
    LET Acked(i) == tloe_seqnum_cmp(retransmit_buffer[i].seq_num, seq_num_ack) <= 0
        n == CHOOSE k \in 0 .. Len(retransmit_buffer) :
                /\ \A i \in 1 .. k : Acked(i)
                /\ k < Len(retransmit_buffer) => ~Acked(k + 1)
    IN  SubSeq(retransmit_buffer, n + 1, Len(retransmit_buffer))

\* A plausible slip: the timeout resends what follows the front, not the front.
Mutant_retransmit_after(retransmit_buffer, seq_num, seq_num_ack) ==
    [i \in 1 .. Len(retransmit_buffer) - 1 |->
        [retransmit_buffer[i + 1] EXCEPT !.seq_num_ack = seq_num_ack]]

\* The frames to send again, in order: those of the buffer from seq_num on,
\* each with its acknowledgement refreshed to seq_num_ack.  The buffer is in
\* sequence order, so the frames the code's loop skips are its first ones.
retransmit(retransmit_buffer, seq_num, seq_num_ack) ==
    LET Older(i) == tloe_seqnum_cmp(retransmit_buffer[i].seq_num, seq_num) < 0
        n == CHOOSE k \in 0 .. Len(retransmit_buffer) :
                /\ \A i \in 1 .. k : Older(i)
                /\ k < Len(retransmit_buffer) => ~Older(k + 1)
    IN  [i \in 1 .. Len(retransmit_buffer) - n |->
            [retransmit_buffer[n + i] EXCEPT !.seq_num_ack = seq_num_ack]]
===============================================================================
