------------------------------ MODULE TloeSeqMgr ------------------------------
(***************************************************************************)
(* tloe_seq_mgr.c: the 22-bit circular sequence numbers of TLoE frames.    *)
(* The code masks with MAX_SEQ_NUM, which is 2^22 - 1; here MAX_SEQ_NUM is *)
(* a parameter so that TLC can reach the wrap-around within a few frames,  *)
(* and the mask is the remainder modulo MAX_SEQ_NUM + 1.                   *)
(***************************************************************************)
EXTENDS Integers

CONSTANT MAX_SEQ_NUM    \* (1 << 22) - 1 in the code

\* The size of the sequence space is even, so that it has two halves, and a
\* number fits the 22 bits of its header field.
ASSUME MaxSeqNumAssumption ==
    /\ MAX_SEQ_NUM \in Nat
    /\ MAX_SEQ_NUM % 2 = 1
    /\ MAX_SEQ_NUM <= 2^22 - 1

SeqNum == 0 .. MAX_SEQ_NUM

HALF_MAX_SEQ_NUM == (MAX_SEQ_NUM + 1) \div 2

\* A plausible slip: a comparison that ignores the wrap-around.
Mutant_cmp_linear(a, b) == CASE a = b -> 0 [] a > b -> 1 [] a < b -> -1

\* Which of two sequence numbers is later on the circle: 1, 0 or -1.
tloe_seqnum_cmp(a, b) ==
    LET diff == a - b
    IN  CASE diff = 0 -> 0
          [] diff > 0 -> IF diff < HALF_MAX_SEQ_NUM THEN 1 ELSE -1
          [] diff < 0 -> IF -diff < HALF_MAX_SEQ_NUM THEN -1 ELSE 1

tloe_seqnum_prev(seq_num) == IF seq_num - 1 < 0 THEN MAX_SEQ_NUM ELSE seq_num - 1

\* A plausible slip: the increment without the mask.
Mutant_next_unmasked(seq_num) == seq_num + 1

tloe_seqnum_next(seq_num) == (seq_num + 1) % (MAX_SEQ_NUM + 1)

\* tloe_seqnum_update_acked_seq: acked_seq only moves forward on the circle.
tloe_seqnum_update_acked_seq(acked_seq, seq_num_ack) ==
    IF tloe_seqnum_cmp(seq_num_ack, acked_seq) > 0 THEN seq_num_ack ELSE acked_seq
===============================================================================
