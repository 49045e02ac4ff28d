------------------------------ MODULE FlowControl ------------------------------
(***************************************************************************)
(* flowcontrol.c / flowcontrol.h: credits per TileLink channel.  credits   *)
(* is what this endpoint may still send, in flits; tx_flow_credits is what *)
(* it has consumed and not yet returned to its peer.  A frame returns      *)
(* credit for one channel, as a power of two.  Each operator takes the     *)
(* array it works on and gives the new array or the value it computes.     *)
(***************************************************************************)
EXTENDS TileLinkMsg

\* The credit a frame of the opening handshake grants; set_credit also clears
\* the channel's entry of tx_flow_credits.
set_credit(credits, chan, credit) == [credits EXCEPT ![chan] = 2^credit]
clear_flow_credit(tx_flow_credits, chan) == [tx_flow_credits EXCEPT ![chan] = 0]

init_flowcontrol(credit_init) == [c \in Channel |-> 2^credit_init]

\* Plausible slips: the last channel left out, or channel 0 taken in.
Mutant_check_not_E(credits, credit_init) ==
    \A c \in CHANNEL_A .. CHANNEL_D : credits[c] > 2^credit_init
Mutant_check_with_0(credits, credit_init) ==
    \A c \in CHANNEL_0 .. CHANNEL_E : credits[c] > 2^credit_init

\* Every channel that carries messages has been granted its credit.
check_all_channels(credits, credit_init) ==
    \A c \in CHANNEL_A .. CHANNEL_E : credits[c] > 2^credit_init

\* A plausible slip: the scan ends before CHANNEL_D.
Mutant_select_ends_early(tx_flow_credits) ==
    CHOOSE i \in 0 .. CHANNEL_C :
        /\ \A j \in 0 .. CHANNEL_C : tx_flow_credits[j] <= tx_flow_credits[i]
        /\ \A j \in 0 .. CHANNEL_C : j < i => tx_flow_credits[j] < tx_flow_credits[i]

\* The channel with most credit to return, the first one among equals;
\* channel 0 when there is none.
select_max_credit_channel(tx_flow_credits) ==
    CHOOSE i \in Channel :
        /\ \A j \in Channel : tx_flow_credits[j] <= tx_flow_credits[i]
        /\ \A j \in Channel : j < i => tx_flow_credits[j] < tx_flow_credits[i]

\* 31 - clz(value): the exponent of the largest power of two within value.
get_largest_pow(value) == CHOOSE k \in 0 .. 31 : 2^k <= value /\ value < 2^(k + 1)

\* What get_outgoing_credits leaves of the credits still to be returned.
get_outgoing_credits(tx_flow_credits, chan) ==
    [tx_flow_credits EXCEPT ![chan] = @ - 2^get_largest_pow(@)]

\* fc_credit_dec gives -1 when try_dec_credits finds too few credits.
try_dec_credits(credits, tlmsg) == credits[tlmsg.chan] >= tlmsg_get_flits_cnt(tlmsg)

fc_credit_dec(credits, tlmsg) ==
    [credits EXCEPT ![tlmsg.chan] = @ - tlmsg_get_flits_cnt(tlmsg)]

\* A plausible slip: the exponent of the header field taken for the amount.
Mutant_inc_exponent(credits, chan, credit) ==
    IF chan = CHANNEL_0 THEN credits ELSE [credits EXCEPT ![chan] = @ + credit]

fc_credit_inc(credits, chan, credit) ==
    IF chan = CHANNEL_0 THEN credits ELSE [credits EXCEPT ![chan] = @ + 2^credit]

add_channel_flow_credits(tx_flow_credits, chan, total_flits) ==
    [tx_flow_credits EXCEPT ![chan] = @ + total_flits]
================================================================================
