------------------------------ MODULE TloeFrame ------------------------------
(***************************************************************************)
(* tloe_frame.c, tloe_ether.c and tloe_fabric.c: how a TileLink message    *)
(* becomes a frame, a packet and a message again.  TX builds the frame of  *)
(* one message (or of none) and hands the packet to the fabric; RX of the  *)
(* peer finds the messages by the mask in the last flit.  Bytes are        *)
(* modelled one by one, since the properties are about their places; the   *)
(* header of the frame is one opaque word.                                 *)
(***************************************************************************)
EXTENDS TileLinkMsg, Sequences

CONSTANTS
    Message,        \* the messages handed to TX
    Fabric,         \* subset of {"ether", "mq"}
    MaxFrames       \* frames one behaviour sends

VARIABLES
    fabric,         \* fabric_ops.type, set by tloe_fabric_init
    wire,           \* what is under way, oldest first
    sent,           \* history: what TX was handed, oldest first
    got             \* what RX made of each frame, oldest first

frameVars == <<fabric, wire, sent, got>>

WORD == 8
MAX_BUFFER_SIZE == 1500
MAX_SIZE_FLIT == 65
ETHER_HDR_LEN == 14
ETHERMTU == 1500
ETHER_MIN_LEN == 64
ETHER_MAX_LEN == 1518
TLOE_MQ_MSG_SIZE == 1600

AtMost(a, b) == IF a > b THEN b ELSE a
AtLeast(a, b) == IF a < b THEN b ELSE a

Zeros(n) == [j \in 1 .. n |-> 0]

\* memcpy of bs over the bytes of buf that follow the first at.
Overwrite(buf, at, bs) ==
    [j \in DOMAIN buf |-> IF j - at \in DOMAIN bs THEN bs[j - at] ELSE buf[j]]
------------------------------------------------------------------------------
\* A message is its header fields and the bytes behind the header word,
\* which are all different, so that a byte in the wrong place shows.
tl_header(tlmsg) ==
    <<0, 0, 0, 0, 0, 0, tlmsg.size, 2 * tlmsg.opcode + 16 * tlmsg.chan>>

TLBytes(tlmsg) ==
    [j \in 1 .. tlmsg_get_total_size(tlmsg) |->
        IF j <= WORD THEN tl_header(tlmsg)[j] ELSE tlmsg.data + j]

\* Header, five words and the mask.
DEFAULT_FRAME_SIZE == WORD * 7

\* The messages that fit in front of the mask of a frame of that size.  Those
\* the program builds have at most 24 bytes; the mask would overwrite the last
\* bytes of a message of more than 40.
ASSUME MessageAssumption ==
    \A tlmsg \in Message :
        /\ tlmsg.chan \in Channel \ {CHANNEL_0}
        /\ tlmsg.opcode \in 0 .. 7
        /\ tlmsg.size \in 0 .. 15
        /\ tlmsg.data \in Nat
        /\ tlmsg_get_total_size(tlmsg) \in WORD .. DEFAULT_FRAME_SIZE - 2 * WORD

tloe_get_fsize(tlmsg) ==
    AtLeast(IF tlmsg = NULL THEN 0 ELSE WORD + tlmsg_get_total_size(tlmsg),
            DEFAULT_FRAME_SIZE)

\* The first byte of the mask, counted in the flits behind the frame header.
MaskAt(size) == WORD * ((size \div WORD) - 2)

tloe_set_mask(flits, mask, size) ==
    Overwrite(flits, MaskAt(size), <<mask, 0, 0, 0, 0, 0, 0, 0>>)

tloe_get_mask(flits, size) ==
    SubSeq(flits, MaskAt(size) + 1, MaskAt(size) + WORD)

is_zero_tl_frame(flits, size) == tloe_get_mask(flits, size) = Zeros(WORD)

tloe_set_tlmsg(flits, tlmsg) == Overwrite(flits, 0, TLBytes(tlmsg))

\* The bytes of the message whose header is flit i of the frame.
tloe_get_tlmsg(flits, i) ==
    LET at == WORD * i
        header == [chan |-> (flits[at + 8] \div 16) % 8,
                   opcode |-> (flits[at + 8] \div 2) % 8,
                   size |-> flits[at + 7] % 16]
    IN SubSeq(flits, at + 1, at + tlmsg_get_total_size(header))

\* htobe64 and be64toh of the first n words; n words are taken or left whole.
SwapWords(bs, n) ==
    [j \in 1 .. WORD * n |-> bs[WORD * ((j - 1) \div WORD) + WORD - ((j - 1) % WORD)]]

\* A plausible slip: the header is counted among the flits to copy.
Mutant_one_flit_less(frame, size) ==
    Overwrite(Zeros(size), 0, SwapWords(frame, (size - WORD) \div WORD))

tloe_frame_to_packet(frame, size) ==
    Overwrite(Zeros(size), 0, SwapWords(frame, 1 + (size - WORD) \div WORD))

packet_to_tloe_frame(packet, size) ==
    Overwrite(Zeros(WORD * (1 + MAX_SIZE_FLIT)), 0, SwapWords(packet, size \div WORD))
------------------------------------------------------------------------------
\* The frame's own header, tloe_header_t: eight different bytes stand for it.
tloe_header == <<11, 12, 13, 14, 15, 16, 17, 18>>

\* prepare_normal_frame on a zeroed buffer of the frame's size.
prepare_normal_frame(tlmsg, size) ==
    LET empty == Zeros(size - WORD)
    IN tloe_header \o
       IF tlmsg = NULL THEN tloe_set_mask(empty, 0, size)
                       ELSE tloe_set_mask(tloe_set_tlmsg(empty, tlmsg), 1, size)

\* What the Ethernet carries behind its own header: a short frame is filled
\* up with whatever the buffer on the stack holds, here 255.
tloe_ether_send(payload) ==
    LET payload_size == AtMost(Len(payload), ETHERMTU)
        send_size == AtMost(AtLeast(ETHER_HDR_LEN + payload_size, ETHER_MIN_LEN),
                            ETHER_MAX_LEN)
    IN [j \in 1 .. send_size - ETHER_HDR_LEN |->
           IF j <= payload_size THEN payload[j] ELSE 255]

tloe_ether_recv(packet, payload_size) ==
    SubSeq(packet, 1, AtMost(Len(packet), payload_size))

\* Packets longer than a slot of the queue are refused (EMSGSIZE).
tloe_mq_send(data) == IF Len(data) <= TLOE_MQ_MSG_SIZE THEN <<data>> ELSE << >>

tloe_fabric_send(packet) ==
    IF fabric = "ether" THEN <<[ours |-> TRUE, bytes |-> tloe_ether_send(packet)]>>
    ELSE [k \in DOMAIN tloe_mq_send(packet) |-> [ours |-> TRUE, bytes |-> packet]]

\* TX as far as the bytes are concerned.
TX(tlmsg) ==
    LET size == tloe_get_fsize(tlmsg)
        packet == tloe_frame_to_packet(prepare_normal_frame(tlmsg, size), size)
    IN /\ wire' = wire \o tloe_fabric_send(packet)
       /\ sent' = Append(sent, tlmsg)
       /\ UNCHANGED <<fabric, got>>

\* The socket is bound to ETH_P_ALL: frames of other protocols come along.
OtherTraffic ==
    /\ fabric = "ether"
    /\ wire = << >>
    /\ wire' = <<[ours |-> FALSE, bytes |-> Zeros(ETHER_MIN_LEN)]>>
    /\ UNCHANGED <<fabric, sent, got>>

\* The flits whose bit is set in the mask, read byte by byte.
Located(mask) ==
    {i \in 0 .. WORD * 8 - 1 : (mask[1 + i \div 8] \div 2^(i % 8)) % 2 = 1}

\* serve_normal_request: one message for each bit of the mask.
serve_normal_request(flits, size) ==
    {tloe_get_tlmsg(flits, i) : i \in Located(tloe_get_mask(flits, size))}

\* tloe_ether_recv answers -1 to a frame of another protocol.
RX ==
    /\ wire # << >>
    /\ wire' = Tail(wire)
    /\ UNCHANGED <<fabric, sent>>
    /\ IF ~Head(wire).ours THEN UNCHANGED got
       ELSE LET packet == tloe_ether_recv(Head(wire).bytes, MAX_BUFFER_SIZE)
                size == Len(packet)
                frame == packet_to_tloe_frame(packet, size)
                flits == SubSeq(frame, WORD + 1, Len(frame))
            IN got' = Append(got, [header |-> SubSeq(frame, 1, WORD),
                                   tlmsgs |-> IF is_zero_tl_frame(flits, size) THEN {}
                                              ELSE serve_normal_request(flits, size)])

FrameInit ==
    /\ fabric \in Fabric
    /\ wire = << >>
    /\ sent = << >>
    /\ got = << >>

FrameNext ==
    \/ \E tlmsg \in Message \cup {NULL} : Len(sent) < MaxFrames /\ TX(tlmsg)
    \/ OtherTraffic
    \/ RX

FrameSpec == FrameInit /\ [][FrameNext]_frameVars
------------------------------------------------------------------------------
\* Every frame is understood the way it was meant: RX finds the header
\* and the very bytes of the message TX was handed, once, and nothing in a
\* zero-tlmsg frame, whatever the size of the message and of the packet that carried it
\* (tloe_get_fsize, tloe_set_mask, tloe_get_tlmsg, tloe_ether_send).
FramesUnderstood ==
    \A k \in DOMAIN got :
        got[k] = [header |-> tloe_header,
                  tlmsgs |-> IF sent[k] = NULL THEN {} ELSE {TLBytes(sent[k])}]
==============================================================================
