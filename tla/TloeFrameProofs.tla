--------------------------- MODULE TloeFrameProofs ---------------------------
(***************************************************************************)
(* What RX makes of the packet of a message is the message, for every      *)
(* message that fits in front of the mask.  The conversions are followed   *)
(* byte by byte: where TX puts each byte, that swapping the words twice    *)
(* puts it back, and that the mask and the header word lead RX to it.      *)
(* FrameInv then says that what is under way is what TX was handed and RX  *)
(* has not seen, in order, behind at most one frame of another protocol.   *)
(***************************************************************************)
EXTENDS TloeFrame, SequenceTheorems, TLAPS

\* What TX may be handed: a message, or none.
Handed == Message \cup {NULL}

\* The packet of a message, as TX builds it.
PacketOf(tlmsg) ==
    tloe_frame_to_packet(prepare_normal_frame(tlmsg, tloe_get_fsize(tlmsg)), tloe_get_fsize(tlmsg))

\* What RX finds in the bytes of a frame, as RX reads them.
ReadFrom(bytes) ==
    LET packet == tloe_ether_recv(bytes, MAX_BUFFER_SIZE)
        size == Len(packet)
        frame == packet_to_tloe_frame(packet, size)
        flits == SubSeq(frame, WORD + 1, Len(frame))
    IN [header |-> SubSeq(frame, 1, WORD),
        tlmsgs |-> IF is_zero_tl_frame(flits, size) THEN {}
                   ELSE serve_normal_request(flits, size)]

\* What RX should find in the frame of a message.
Meaning(tlmsg) ==
    [header |-> tloe_header, tlmsgs |-> IF tlmsg = NULL THEN {} ELSE {TLBytes(tlmsg)}]

\* One frame under way.
Carried(tlmsg) == [ours |-> TRUE, bytes |-> PacketOf(tlmsg)]

\* 1 when a frame of another protocol is the oldest under way.
Foreign == IF wire # << >> /\ ~wire[1].ours THEN 1 ELSE 0

FrameInv ==
    /\ sent \in Seq(Handed)
    /\ got \in Seq({Meaning(m) : m \in Handed})
    /\ wire \in Seq([ours : BOOLEAN, bytes : Seq(Nat)])
    /\ Len(wire) = Foreign + Len(sent) - Len(got)
    /\ Len(got) <= Len(sent)
    /\ \A k \in 1 .. Len(got) : got[k] = Meaning(sent[k])
    /\ \A i \in 1 .. Len(sent) - Len(got) : wire[Foreign + i] = Carried(sent[Len(got) + i])
-------------------------------------------------------------------------------
\* Sequences of bytes.

\* A function on 1 .. n is a sequence of n elements.
LEMMA BytesFact ==
    ASSUME NEW S, NEW n \in Nat, NEW f \in [1 .. n -> S]
    PROVE  f \in Seq(S) /\ Len(f) = n /\ DOMAIN f = 1 .. n
OBVIOUS

LEMMA ZerosFact ==
    ASSUME NEW n \in Nat
    PROVE  Zeros(n) \in [1 .. n -> Nat]
BY DEF Zeros

\* A piece of a sequence, element by element.
LEMMA PieceFact ==
    ASSUME NEW S, NEW s \in Seq(S), NEW a \in Nat, NEW n \in Nat, a + n <= Len(s)
    PROVE  /\ SubSeq(s, a + 1, a + n) \in Seq(S)
           /\ Len(SubSeq(s, a + 1, a + n)) = n
           /\ \A j \in 1 .. n : SubSeq(s, a + 1, a + n)[j] = s[a + j]
OBVIOUS

-------------------------------------------------------------------------------
\* The byte order of words.

\* Where byte j of a word goes.
Swapped(j) == WORD * ((j - 1) \div WORD) + WORD - ((j - 1) % WORD)

\* Bytes stay within their words, and go back where they came from.
LEMMA SwappedFact ==
    ASSUME NEW n \in Nat, NEW j \in 1 .. WORD * n
    PROVE  Swapped(j) \in 1 .. WORD * n /\ Swapped(Swapped(j)) = j
BY DEF Swapped, WORD

LEMMA SwapFact ==
    ASSUME NEW n \in Nat, NEW m \in Nat, WORD * n <= m, NEW bs \in [1 .. m -> Nat]
    PROVE  /\ SwapWords(bs, n) \in [1 .. WORD * n -> Nat]
           /\ \A j \in 1 .. WORD * n : SwapWords(bs, n)[j] = bs[Swapped(j)]
<1>1. SwapWords(bs, n) = [j \in 1 .. WORD * n |-> bs[Swapped(j)]]
  BY DEF SwapWords, Swapped
<1>2. ASSUME NEW j \in 1 .. WORD * n PROVE bs[Swapped(j)] \in Nat
  <2>1. Swapped(j) \in 1 .. WORD * n
    BY SwappedFact
  <2>2. WORD * n \in Nat
    BY DEF WORD
  <2>3. Swapped(j) \in 1 .. m
    BY <2>1, <2>2
  <2> QED BY <2>3
<1> QED BY <1>1, <1>2

\* The size of every frame, and of the buffer RX decodes it into.
SIZE == DEFAULT_FRAME_SIZE
BUFFER == WORD * (1 + MAX_SIZE_FLIT)

LEMMA SizeFact ==
    /\ SIZE \in Nat /\ SIZE = 56 /\ SIZE = WORD * 7 /\ SIZE \div WORD = 7
    /\ 1 + (SIZE - WORD) \div WORD = 7
    /\ BUFFER \in Nat /\ BUFFER = 528
BY DEF SIZE, BUFFER, DEFAULT_FRAME_SIZE, MAX_SIZE_FLIT, WORD

\* The bytes of seven words, swapped and copied to the start of a buffer.
LEMMA CopyFact ==
    ASSUME NEW n \in Nat, SIZE <= n, NEW bs \in [1 .. SIZE -> Nat]
    PROVE  /\ Overwrite(Zeros(n), 0, SwapWords(bs, 7)) \in [1 .. n -> Nat]
           /\ \A j \in 1 .. SIZE : Overwrite(Zeros(n), 0, SwapWords(bs, 7))[j] = bs[Swapped(j)]
<1> DEFINE sw == SwapWords(bs, 7)
<1>0. SIZE \in Nat /\ SIZE = WORD * 7 /\ WORD * 7 <= SIZE
  BY SizeFact
<1>1. sw \in [1 .. SIZE -> Nat] /\ \A j \in 1 .. SIZE : sw[j] = bs[Swapped(j)]
  <2>1. /\ sw \in [1 .. WORD * 7 -> Nat]
        /\ \A j \in 1 .. WORD * 7 : sw[j] = bs[Swapped(j)]
    BY <1>0, SwapFact
  <2> HIDE DEF sw
  <2> QED BY <1>0, <2>1
<1>2. Zeros(n) \in [1 .. n -> Nat]
  BY ZerosFact
<1> HIDE DEF sw
<1>3. Overwrite(Zeros(n), 0, sw)
        = [j \in 1 .. n |-> IF j \in 1 .. SIZE THEN sw[j] ELSE Zeros(n)[j]]
  <2>1. ASSUME NEW j \in 1 .. n PROVE j - 0 = j
    OBVIOUS
  <2> QED BY <1>1, <1>2, <2>1 DEF Overwrite
<1>4. Overwrite(Zeros(n), 0, sw) \in [1 .. n -> Nat]
  BY <1>1, <1>2, <1>3
<1>5. ASSUME NEW j \in 1 .. SIZE PROVE Overwrite(Zeros(n), 0, sw)[j] = bs[Swapped(j)]
  <2>1. j \in 1 .. n
    BY <1>0
  <2> QED BY <1>1, <1>3, <2>1
<1> QED BY <1>4, <1>5 DEF sw

\* A frame and the packet TX makes of it.
LEMMA ToPacket ==
    ASSUME NEW frame \in [1 .. SIZE -> Nat]
    PROVE  /\ tloe_frame_to_packet(frame, SIZE) \in [1 .. SIZE -> Nat]
           /\ \A j \in 1 .. SIZE : tloe_frame_to_packet(frame, SIZE)[j] = frame[Swapped(j)]
<1>1. tloe_frame_to_packet(frame, SIZE) = Overwrite(Zeros(SIZE), 0, SwapWords(frame, 7))
  BY SizeFact DEF tloe_frame_to_packet
<1>2. SIZE \in Nat /\ SIZE <= SIZE
  BY SizeFact
<1> QED BY <1>1, <1>2, CopyFact

\* RX gets the bytes of the frame back.
LEMMA FromPacket ==
    ASSUME NEW frame \in [1 .. SIZE -> Nat], NEW packet \in [1 .. SIZE -> Nat],
           \A j \in 1 .. SIZE : packet[j] = frame[Swapped(j)]
    PROVE  /\ packet_to_tloe_frame(packet, SIZE) \in [1 .. BUFFER -> Nat]
           /\ \A j \in 1 .. SIZE : packet_to_tloe_frame(packet, SIZE)[j] = frame[j]
<1>1. packet_to_tloe_frame(packet, SIZE) = Overwrite(Zeros(BUFFER), 0, SwapWords(packet, 7))
  BY SizeFact DEF packet_to_tloe_frame, BUFFER
<1>2. SIZE <= BUFFER /\ BUFFER \in Nat
  BY SizeFact
<1>3. /\ Overwrite(Zeros(BUFFER), 0, SwapWords(packet, 7)) \in [1 .. BUFFER -> Nat]
      /\ \A j \in 1 .. SIZE :
            Overwrite(Zeros(BUFFER), 0, SwapWords(packet, 7))[j] = packet[Swapped(j)]
  BY <1>2, CopyFact
<1>4. ASSUME NEW j \in 1 .. SIZE PROVE packet[Swapped(j)] = frame[j]
  <2>1. Swapped(j) \in 1 .. SIZE /\ Swapped(Swapped(j)) = j
    <3>1. SIZE = WORD * 7
      BY SizeFact
    <3> QED BY <3>1, SwappedFact
  <2> QED BY <2>1
<1> QED BY <1>1, <1>3, <1>4

-------------------------------------------------------------------------------
\* The frame of a message.

\* The flits behind the header, where their mask is, and its bytes.
FLITS == SIZE - WORD
MASK == MaskAt(SIZE)

LEMMA MaskFact ==
    FLITS \in Nat /\ FLITS = 48 /\ MASK \in Nat /\ MASK = 40 /\ MASK + WORD = FLITS /\ WORD = 8
BY DEF FLITS, MASK, MaskAt, SIZE, DEFAULT_FRAME_SIZE, WORD

LEMMA MessageFact ==
    ASSUME NEW m \in Message
    PROVE  /\ m.chan \in 1 .. 5 /\ m.opcode \in 0 .. 7 /\ m.size \in 0 .. 15 /\ m.data \in Nat
           /\ tlmsg_get_total_size(m) \in WORD .. MASK
           /\ m # NULL
<1>1. m.chan \in 1 .. 5
  BY MessageAssumption DEF Channel, CHANNEL_0, CHANNEL_NUM
<1>2. NULL.chan = 0
  BY DEF NULL, CHANNEL_0
<1>3. DEFAULT_FRAME_SIZE - 2 * WORD = MASK
  BY MaskFact DEF DEFAULT_FRAME_SIZE, WORD
<1> QED BY <1>1, <1>2, <1>3, MessageAssumption

LEMMA TLBytesFact ==
    ASSUME NEW m \in Message
    PROVE  /\ TLBytes(m) \in [1 .. tlmsg_get_total_size(m) -> Nat]
           /\ TLBytes(m)[7] = m.size
           /\ TLBytes(m)[8] = 2 * m.opcode + 16 * m.chan
<1> DEFINE T == tlmsg_get_total_size(m)
           h == tl_header(m)
<1>1. /\ T \in Nat /\ T >= 8 /\ m.data \in Nat /\ m.size \in Nat
      /\ 2 * m.opcode + 16 * m.chan \in Nat
  BY MessageFact, MaskFact
<1>2. \A j \in 1 .. 8 : h[j] \in Nat
  BY <1>1 DEF tl_header
<1>3. h[7] = m.size /\ h[8] = 2 * m.opcode + 16 * m.chan
  BY DEF tl_header
<1>4. TLBytes(m) = [j \in 1 .. T |-> IF j <= 8 THEN h[j] ELSE m.data + j]
  BY DEF TLBytes, WORD
<1> HIDE DEF T, h
<1>5. TLBytes(m) \in [1 .. T -> Nat]
  <2>1. ASSUME NEW j \in 1 .. T PROVE (IF j <= 8 THEN h[j] ELSE m.data + j) \in Nat
    <3>1. CASE j <= 8
      <4>1. j \in 1 .. 8
        BY <1>1, <3>1
      <4> QED BY <1>2, <3>1, <4>1
    <3>2. CASE ~(j <= 8)
      <4> DEFINE d == m.data
      <4>1. d \in Nat /\ j \in Nat
        BY <1>1
      <4> HIDE DEF d
      <4>2. d + j \in Nat
        BY <4>1
      <4> QED BY <3>2, <4>2 DEF d
    <3> QED BY <3>1, <3>2
  <2> QED BY <1>4, <2>1
<1>6. TLBytes(m)[7] = h[7] /\ TLBytes(m)[8] = h[8]
  BY <1>1, <1>4
<1> QED BY <1>3, <1>5, <1>6 DEF T

\* Every frame has the default size.
LEMMA FsizeFact ==
    ASSUME NEW m \in Handed
    PROVE  tloe_get_fsize(m) = SIZE
<1>1. CASE m = NULL
  BY <1>1 DEF tloe_get_fsize, AtLeast, SIZE, DEFAULT_FRAME_SIZE, WORD
<1>2. CASE m \in Message
  <2>1. m # NULL /\ tlmsg_get_total_size(m) \in 8 .. 40
    BY <1>2, MessageFact, MaskFact
  <2> QED BY <2>1 DEF tloe_get_fsize, AtLeast, SIZE, DEFAULT_FRAME_SIZE, WORD
<1> QED BY <1>1, <1>2 DEF Handed

\* What prepare_normal_frame puts behind the header.
FlitsOf(m) ==
    IF m = NULL THEN tloe_set_mask(Zeros(SIZE - WORD), 0, SIZE)
                ELSE tloe_set_mask(tloe_set_tlmsg(Zeros(SIZE - WORD), m), 1, SIZE)

\* The mask on the last flit.
LEMMA SetMaskFact ==
    ASSUME NEW buf \in [1 .. FLITS -> Nat], NEW bit \in Nat
    PROVE  /\ tloe_set_mask(buf, bit, SIZE) \in [1 .. FLITS -> Nat]
           /\ \A j \in 1 .. MASK : tloe_set_mask(buf, bit, SIZE)[j] = buf[j]
           /\ tloe_set_mask(buf, bit, SIZE)[MASK + 1] = bit
           /\ \A j \in 2 .. WORD : tloe_set_mask(buf, bit, SIZE)[MASK + j] = 0
<1> DEFINE w == <<bit, 0, 0, 0, 0, 0, 0, 0>>
<1>1. DOMAIN w = 1 .. 8 /\ w[1] = bit /\ \A j \in 2 .. 8 : w[j] = 0
  OBVIOUS
<1>2. \A j \in 1 .. 8 : w[j] \in Nat
  BY <1>1
<1>3. tloe_set_mask(buf, bit, SIZE)
        = [j \in 1 .. FLITS |-> IF j - MASK \in DOMAIN w THEN w[j - MASK] ELSE buf[j]]
  BY DEF tloe_set_mask, Overwrite, MASK
<1> HIDE DEF w
<1>4. tloe_set_mask(buf, bit, SIZE)
        = [j \in 1 .. FLITS |-> IF j - MASK \in 1 .. 8 THEN w[j - MASK] ELSE buf[j]]
  BY <1>1, <1>3
<1>5. tloe_set_mask(buf, bit, SIZE) \in [1 .. FLITS -> Nat]
  BY <1>2, <1>4
<1>6. \A j \in 1 .. MASK : tloe_set_mask(buf, bit, SIZE)[j] = buf[j]
  <2> SUFFICES ASSUME NEW j \in 1 .. MASK PROVE tloe_set_mask(buf, bit, SIZE)[j] = buf[j]
    OBVIOUS
  <2>1. j \in 1 .. FLITS /\ j - MASK \notin 1 .. 8
    BY MaskFact
  <2> QED BY <1>4, <2>1
<1>7. \A j \in 1 .. WORD : tloe_set_mask(buf, bit, SIZE)[MASK + j] = w[j]
  <2> SUFFICES ASSUME NEW j \in 1 .. WORD PROVE tloe_set_mask(buf, bit, SIZE)[MASK + j] = w[j]
    OBVIOUS
  <2>1. MASK + j \in 1 .. FLITS /\ (MASK + j) - MASK \in 1 .. 8 /\ (MASK + j) - MASK = j
    BY MaskFact
  <2> QED BY <1>4, <2>1
<1>8. 1 \in 1 .. WORD /\ 2 .. WORD \subseteq 1 .. WORD /\ 2 .. WORD = 2 .. 8
  BY MaskFact
<1> QED BY <1>1, <1>5, <1>6, <1>7, <1>8

\* The flits of a frame: the bytes of the message, and a mask that says so.
LEMMA FlitsFact ==
    ASSUME NEW m \in Handed
    PROVE  /\ FlitsOf(m) \in [1 .. FLITS -> Nat]
           /\ m # NULL => \A j \in 1 .. tlmsg_get_total_size(m) : FlitsOf(m)[j] = TLBytes(m)[j]
           /\ FlitsOf(m)[MASK + 1] = IF m = NULL THEN 0 ELSE 1
           /\ \A j \in 2 .. WORD : FlitsOf(m)[MASK + j] = 0
<1> DEFINE z == Zeros(FLITS)
<1>0. z \in [1 .. FLITS -> Nat] /\ SIZE - WORD = FLITS
  BY MaskFact, ZerosFact DEF FLITS
<1>1. CASE m = NULL
  <2>1. FlitsOf(m) = tloe_set_mask(z, 0, SIZE)
    BY <1>0, <1>1 DEF FlitsOf
  <2> HIDE DEF z
  <2> QED BY <1>0, <1>1, <2>1, SetMaskFact
<1>2. CASE m \in Message
  <2> DEFINE T == tlmsg_get_total_size(m)
             b == tloe_set_tlmsg(z, m)
             tb == TLBytes(m)
  <2>1. m # NULL /\ T \in Nat /\ T <= MASK /\ T <= FLITS
    BY <1>2, MessageFact, MaskFact
  <2>2. tb \in [1 .. T -> Nat]
    BY <1>2, TLBytesFact
  <2>3. FlitsOf(m) = tloe_set_mask(b, 1, SIZE)
    BY <1>0, <2>1 DEF FlitsOf
  <2>4. b = [j \in 1 .. FLITS |-> IF j \in 1 .. T THEN tb[j] ELSE z[j]]
    <3>1. ASSUME NEW j \in 1 .. FLITS PROVE j - 0 = j
      BY MaskFact
    <3>2. b = Overwrite(z, 0, tb)
      BY DEF tloe_set_tlmsg
    <3>3. DOMAIN z = 1 .. FLITS /\ DOMAIN tb = 1 .. T
      BY <1>0, <2>2
    <3> HIDE DEF z, tb, T, b
    <3> QED BY <3>1, <3>2, <3>3 DEF Overwrite
  <2> HIDE DEF z, b, T, tb
  <2>5. b \in [1 .. FLITS -> Nat]
    BY <1>0, <2>2, <2>4
  <2>6. ASSUME NEW j \in 1 .. T PROVE b[j] = tb[j] /\ j \in 1 .. MASK
    <3>1. j \in 1 .. FLITS /\ j \in 1 .. MASK
      BY <2>1, MaskFact
    <3> QED BY <2>4, <3>1
  <2>7. /\ tloe_set_mask(b, 1, SIZE) \in [1 .. FLITS -> Nat]
        /\ \A j \in 1 .. MASK : tloe_set_mask(b, 1, SIZE)[j] = b[j]
        /\ tloe_set_mask(b, 1, SIZE)[MASK + 1] = 1
        /\ \A j \in 2 .. WORD : tloe_set_mask(b, 1, SIZE)[MASK + j] = 0
    BY <2>5, SetMaskFact
  <2> QED BY <2>1, <2>3, <2>6, <2>7 DEF T, tb
<1> QED BY <1>1, <1>2 DEF Handed

\* The frame: header and flits.
LEMMA FrameFact ==
    ASSUME NEW m \in Handed
    PROVE  /\ prepare_normal_frame(m, SIZE) \in [1 .. SIZE -> Nat]
           /\ \A j \in 1 .. WORD : prepare_normal_frame(m, SIZE)[j] = tloe_header[j]
           /\ \A j \in 1 .. FLITS : prepare_normal_frame(m, SIZE)[WORD + j] = FlitsOf(m)[j]
<1> DEFINE h == tloe_header
           x == FlitsOf(m)
           f == h \o x
<1>1. prepare_normal_frame(m, SIZE) = f
  BY DEF prepare_normal_frame, FlitsOf
<1>2. h \in Seq(Nat) /\ Len(h) = WORD
  BY DEF tloe_header, WORD
<1>3. x \in Seq(Nat) /\ Len(x) = FLITS
  <2>1. x \in [1 .. FLITS -> Nat] /\ FLITS \in Nat
    BY FlitsFact, MaskFact
  <2> HIDE DEF x
  <2> QED BY <2>1, BytesFact
<1> HIDE DEF h, x
<1>4. WORD + FLITS = SIZE /\ WORD \in Nat /\ FLITS \in Nat
  BY MaskFact, SizeFact
<1>5. /\ f \in Seq(Nat) /\ Len(f) = SIZE
      /\ \A j \in 1 .. WORD : f[j] = h[j]
      /\ \A j \in 1 .. FLITS : f[WORD + j] = x[j]
  <2>1. /\ f \in Seq(Nat) /\ Len(f) = WORD + FLITS
        /\ \A j \in 1 .. WORD + FLITS : f[j] = IF j <= WORD THEN h[j] ELSE x[j - WORD]
    BY <1>2, <1>3, ConcatProperties
  <2> HIDE DEF f
  <2>2. ASSUME NEW j \in 1 .. WORD PROVE j \in 1 .. WORD + FLITS /\ j <= WORD
    BY <1>4
  <2>3. ASSUME NEW j \in 1 .. FLITS
        PROVE  /\ WORD + j \in 1 .. WORD + FLITS /\ ~(WORD + j <= WORD)
               /\ (WORD + j) - WORD = j
    BY <1>4
  <2> QED BY <1>4, <2>1, <2>2, <2>3
<1> HIDE DEF f
<1>6. f \in [1 .. SIZE -> Nat]
  BY <1>5, LenProperties
<1> QED BY <1>1, <1>5, <1>6 DEF h, x
-------------------------------------------------------------------------------
\* The fabric carries a packet as it is.

\* The packet of a message.
LEMMA PacketFact ==
    ASSUME NEW m \in Handed
    PROVE  /\ PacketOf(m) \in [1 .. SIZE -> Nat] /\ PacketOf(m) \in Seq(Nat)
           /\ Len(PacketOf(m)) = SIZE
           /\ \A j \in 1 .. SIZE : PacketOf(m)[j] = prepare_normal_frame(m, SIZE)[Swapped(j)]
<1> DEFINE f == prepare_normal_frame(m, SIZE)
           p == tloe_frame_to_packet(f, SIZE)
<1>1. PacketOf(m) = p
  BY FsizeFact DEF PacketOf
<1>2. f \in [1 .. SIZE -> Nat]
  BY FrameFact
<1>3. p \in [1 .. SIZE -> Nat] /\ \A j \in 1 .. SIZE : p[j] = f[Swapped(j)]
  BY <1>2, ToPacket
<1> HIDE DEF p
<1>4. p \in Seq(Nat) /\ Len(p) = SIZE
  <2>1. SIZE \in Nat
    BY SizeFact
  <2> QED BY <1>3, <2>1, BytesFact
<1> QED BY <1>1, <1>3, <1>4

\* Neither the Ethernet nor the queue changes a packet: it fills a frame of
\* the least length and fits into a slot.
LEMMA SendFact ==
    ASSUME NEW p \in [1 .. SIZE -> Nat], p \in Seq(Nat), Len(p) = SIZE
    PROVE  tloe_fabric_send(p) = <<[ours |-> TRUE, bytes |-> p]>>
<1>1. CASE fabric = "ether"
  <2>1. tloe_ether_send(p) = [j \in 1 .. SIZE |-> IF j <= SIZE THEN p[j] ELSE 255]
    <3>1. AtMost(SIZE, ETHERMTU) = SIZE
      BY SizeFact DEF AtMost, ETHERMTU
    <3>2. AtMost(AtLeast(ETHER_HDR_LEN + SIZE, ETHER_MIN_LEN), ETHER_MAX_LEN) - ETHER_HDR_LEN
            = SIZE
      BY SizeFact DEF AtMost, AtLeast, ETHER_HDR_LEN, ETHER_MIN_LEN, ETHER_MAX_LEN
    <3> QED BY <3>1, <3>2 DEF tloe_ether_send
  <2>2. \A j \in 1 .. SIZE : j <= SIZE
    BY SizeFact
  <2>3. tloe_ether_send(p) = p
    BY <2>1, <2>2
  <2> QED BY <1>1, <2>3 DEF tloe_fabric_send
<1>2. CASE fabric # "ether"
  <2>1. tloe_mq_send(p) = <<p>>
    BY SizeFact DEF tloe_mq_send, TLOE_MQ_MSG_SIZE
  <2>2. DOMAIN tloe_mq_send(p) = {1}
    BY <2>1
  <2>3. tloe_fabric_send(p) = [k \in {1} |-> [ours |-> TRUE, bytes |-> p]]
    BY <1>2, <2>2 DEF tloe_fabric_send
  <2> DEFINE c == [ours |-> TRUE, bytes |-> p]
  <2> HIDE DEF c
  <2>4. [k \in {1} |-> c] = <<c>>
    OBVIOUS
  <2> QED BY <2>3, <2>4 DEF c
<1> QED BY <1>1, <1>2

LEMMA RecvFact ==
    ASSUME NEW p \in Seq(Nat), Len(p) = SIZE
    PROVE  tloe_ether_recv(p, MAX_BUFFER_SIZE) = p
<1>1. AtMost(Len(p), MAX_BUFFER_SIZE) = Len(p)
  BY SizeFact DEF AtMost, MAX_BUFFER_SIZE
<1>2. SubSeq(p, 1, Len(p)) = p
  BY SubSeqFull
<1> QED BY <1>1, <1>2 DEF tloe_ether_recv

-------------------------------------------------------------------------------
\* What RX finds.

\* The weights of the bits of a byte.
LEMMA BitFact ==
    ASSUME NEW r \in 0 .. 7
    PROVE  /\ 2^r \in {1, 2, 4, 8, 16, 32, 64, 128}
           /\ r # 0 => 2^r # 1
           /\ 2^0 = 1
<1> DEFINE P(k) == 2^k
<1>1. /\ P(0) = 1 /\ P(1) = 2 /\ P(2) = 4 /\ P(3) = 8
      /\ P(4) = 16 /\ P(5) = 32 /\ P(6) = 64 /\ P(7) = 128
  OBVIOUS
<1>2. r = 0 \/ r = 1 \/ r = 2 \/ r = 3 \/ r = 4 \/ r = 5 \/ r = 6 \/ r = 7
  OBVIOUS
<1> HIDE DEF P
<1>3. P(r) \in {1, 2, 4, 8, 16, 32, 64, 128} /\ (r # 0 => P(r) # 1)
  BY <1>1, <1>2
<1> QED BY <1>1, <1>3 DEF P

\* The only bit of a mask that starts with 1.
LEMMA LocatedFact ==
    ASSUME NEW mask, mask[1] = 1, \A j \in 2 .. 8 : mask[j] = 0
    PROVE  Located(mask) = {0}
<1> DEFINE bit(i) == (mask[1 + i \div 8] \div 2^(i % 8)) % 2
<1>1. Located(mask) = {i \in 0 .. 63 : bit(i) = 1}
  BY DEF Located, WORD
<1>2. bit(0) = 1
  <2>1. 1 + 0 \div 8 = 1 /\ 0 % 8 = 0 /\ 2^0 = 1
    OBVIOUS
  <2>2. bit(0) = (1 \div 1) % 2
    BY <2>1
  <2> HIDE DEF bit
  <2> QED BY <2>2
<1>3. ASSUME NEW i \in 0 .. 63, i # 0 PROVE bit(i) # 1
  <2>1. CASE i < 8
    <3>1. 1 + i \div 8 = 1 /\ i % 8 = i /\ i \in 1 .. 7
      BY <1>3, <2>1
    <3>2. 2^i \in {1, 2, 4, 8, 16, 32, 64, 128} /\ 2^i # 1
      <4>1. i \in 0 .. 7 /\ i # 0
        BY <3>1
      <4> QED BY ONLY <4>1, BitFact
    <3> DEFINE d == 2^i
    <3>3. bit(i) = (1 \div d) % 2
      BY <3>1
    <3>4. d \in {1, 2, 4, 8, 16, 32, 64, 128} /\ d # 1
      BY <3>2
    <3> HIDE DEF d, bit
    <3>5. (1 \div d) % 2 = 0
      BY <3>4
    <3> QED BY <3>3, <3>5
  <2>2. CASE ~(i < 8)
    <3>1. 1 + i \div 8 \in 2 .. 8 /\ i % 8 \in 0 .. 7
      BY <2>2
    <3>2. mask[1 + i \div 8] = 0
      BY <3>1
    <3>3. 2^(i % 8) \in {1, 2, 4, 8, 16, 32, 64, 128}
      <4> DEFINE r == i % 8
      <4>1. r \in 0 .. 7
        BY <3>1
      <4> HIDE DEF r
      <4>2. 2^r \in {1, 2, 4, 8, 16, 32, 64, 128}
        BY <4>1, BitFact
      <4> QED BY <4>2 DEF r
    <3> DEFINE d == 2^(i % 8)
    <3>4. bit(i) = (0 \div d) % 2
      BY <3>2
    <3>5. d \in {1, 2, 4, 8, 16, 32, 64, 128}
      BY <3>3
    <3> HIDE DEF d, bit
    <3>6. (0 \div d) % 2 = 0
      BY <3>5
    <3> QED BY <3>4, <3>6
  <2> QED BY <2>1, <2>2
<1> HIDE DEF bit
<1> QED BY <1>1, <1>2, <1>3

\* The size of a message depends on three fields of its header.
LEMMA TotalFact ==
    ASSUME NEW m, NEW h, h.chan = m.chan, h.opcode = m.opcode, h.size = m.size
    PROVE  tlmsg_get_total_size(h) = tlmsg_get_total_size(m)
<1>1. tlmsg_get_header_size(h) = tlmsg_get_header_size(m)
  BY DEF tlmsg_get_header_size
<1>2. tlmsg_get_data_size(h) = tlmsg_get_data_size(m)
  BY DEF tlmsg_get_data_size
<1> QED BY <1>1, <1>2 DEF tlmsg_get_total_size

\* tloe_get_tlmsg finds the bytes of a message at the start of the flits.
LEMMA GetFact ==
    ASSUME NEW m \in Message, NEW flits \in Seq(Nat), Len(flits) >= FLITS,
           \A j \in 1 .. tlmsg_get_total_size(m) : flits[j] = TLBytes(m)[j]
    PROVE  tloe_get_tlmsg(flits, 0) = TLBytes(m)
<1> DEFINE T == tlmsg_get_total_size(m)
           tb == TLBytes(m)
           h == [chan |-> (flits[8] \div 16) % 8, opcode |-> (flits[8] \div 2) % 8,
                 size |-> flits[7] % 16]
<1>1. T \in Nat /\ 8 <= T /\ T <= FLITS /\ FLITS \in Nat
  <2>1. T \in WORD .. MASK
    BY MessageFact
  <2> HIDE DEF T
  <2> QED BY <2>1, MaskFact
<1>2. /\ tb \in [1 .. T -> Nat] /\ tb[7] = m.size /\ tb[8] = 2 * m.opcode + 16 * m.chan
      /\ m.chan \in 1 .. 5 /\ m.opcode \in 0 .. 7 /\ m.size \in 0 .. 15
  BY TLBytesFact, MessageFact
<1>3. flits[7] = m.size /\ flits[8] = 2 * m.opcode + 16 * m.chan
  <2>1. 7 \in 1 .. T /\ 8 \in 1 .. T
    BY <1>1
  <2> QED BY <1>2, <2>1
<1>4. h.chan = m.chan /\ h.opcode = m.opcode /\ h.size = m.size
  <2> DEFINE o == m.opcode
             c == m.chan
             z == m.size
  <2>1. c \in 1 .. 5 /\ o \in 0 .. 7 /\ z \in 0 .. 15
    BY <1>2
  <2>2. flits[7] = z /\ flits[8] = 2 * o + 16 * c
    BY <1>3
  <2> HIDE DEF o, c, z
  <2>3. ((2 * o + 16 * c) \div 16) % 8 = c /\ ((2 * o + 16 * c) \div 2) % 8 = o /\ z % 16 = z
    BY <2>1
  <2> QED BY <2>2, <2>3 DEF o, c, z
<1>5. tloe_get_tlmsg(flits, 0) = SubSeq(flits, 0 + 1, 0 + T)
  <2>1. tlmsg_get_total_size(h) = T
    BY <1>4, TotalFact
  <2>2. WORD * 0 = 0 /\ 0 + 8 = 8 /\ 0 + 7 = 7
    BY MaskFact
  <2> QED BY <2>1, <2>2 DEF tloe_get_tlmsg
<1> HIDE DEF T, h, tb
<1>6. /\ SubSeq(flits, 0 + 1, 0 + T) \in Seq(Nat) /\ Len(SubSeq(flits, 0 + 1, 0 + T)) = T
      /\ \A j \in 1 .. T : SubSeq(flits, 0 + 1, 0 + T)[j] = flits[0 + j]
  <2>1. 0 \in Nat /\ 0 + T <= Len(flits)
    BY <1>1, LenProperties
  <2> QED BY <1>1, <2>1, PieceFact
<1>7. tb \in Seq(Nat) /\ Len(tb) = T
  BY <1>1, <1>2, BytesFact
<1>8. \A j \in 1 .. T : 0 + j = j /\ flits[j] = tb[j]
  BY <1>1 DEF T, tb
<1>9. SubSeq(flits, 0 + 1, 0 + T) = tb
  BY <1>6, <1>7, <1>8, SeqEqual
<1> QED BY <1>5, <1>9 DEF tb
\* RX finds in the packet of a message what TX was handed.
LEMMA ReadFact ==
    ASSUME NEW m \in Handed
    PROVE  ReadFrom(PacketOf(m)) = Meaning(m)
<1> DEFINE f == prepare_normal_frame(m, SIZE)
           p == PacketOf(m)
           g == packet_to_tloe_frame(p, SIZE)
           x == SubSeq(g, WORD + 1, Len(g))
           mask == tloe_get_mask(x, SIZE)
<1>1. /\ f \in [1 .. SIZE -> Nat]
      /\ \A j \in 1 .. WORD : f[j] = tloe_header[j]
      /\ \A j \in 1 .. FLITS : f[WORD + j] = FlitsOf(m)[j]
  BY FrameFact
<1>2. /\ p \in [1 .. SIZE -> Nat] /\ p \in Seq(Nat) /\ Len(p) = SIZE
      /\ \A j \in 1 .. SIZE : p[j] = f[Swapped(j)]
  BY PacketFact
<1>3. g \in [1 .. BUFFER -> Nat] /\ \A j \in 1 .. SIZE : g[j] = f[j]
  <2> HIDE DEF f, p
  <2> QED BY <1>1, <1>2, FromPacket
<1>4. ReadFrom(p) = [header |-> SubSeq(g, 1, WORD),
                     tlmsgs |-> IF mask = Zeros(WORD) THEN {}
                                ELSE {tloe_get_tlmsg(x, i) : i \in Located(mask)}]
  <2>1. tloe_ether_recv(p, MAX_BUFFER_SIZE) = p /\ Len(p) = SIZE
    BY <1>2, RecvFact
  <2> HIDE DEF p
  <2> QED BY <2>1 DEF ReadFrom, is_zero_tl_frame, serve_normal_request
<1> HIDE DEF f, p, g
<1>5. g \in Seq(Nat) /\ Len(g) = BUFFER
  <2>1. BUFFER \in Nat
    BY SizeFact
  <2> QED BY <1>3, <2>1, BytesFact
<1>6. SubSeq(g, 1, WORD) = tloe_header
  <2> DEFINE s == SubSeq(g, 0 + 1, 0 + 8)
             t == tloe_header
  <2>1. 0 + 8 <= Len(g) /\ 0 \in Nat /\ 8 \in Nat
    BY <1>5, SizeFact
  <2>2. s \in Seq(Nat) /\ Len(s) = 8 /\ \A j \in 1 .. 8 : s[j] = g[0 + j]
    BY <1>5, <2>1, PieceFact
  <2>3. t \in Seq(Nat) /\ Len(t) = 8
    BY DEF tloe_header
  <2> HIDE DEF s, t
  <2>4. ASSUME NEW j \in 1 .. 8 PROVE s[j] = t[j]
    <3>1. j \in 1 .. SIZE /\ j \in 1 .. WORD /\ 0 + j = j
      BY SizeFact, MaskFact
    <3> QED BY <1>1, <1>3, <2>2, <3>1 DEF t
  <2>5. s = t
    BY <2>2, <2>3, <2>4, SeqEqual
  <2>6. 0 + 1 = 1 /\ 0 + 8 = WORD
    BY MaskFact
  <2> QED BY <2>5, <2>6 DEF s, t
<1>7. x \in Seq(Nat) /\ Len(x) >= FLITS /\ \A j \in 1 .. FLITS : x[j] = FlitsOf(m)[j]
  <2> DEFINE n == BUFFER - WORD
  <2>1. WORD \in Nat /\ n \in Nat /\ WORD + n <= Len(g) /\ WORD + n = Len(g) /\ n >= FLITS
    BY <1>5, SizeFact, MaskFact
  <2> HIDE DEF n
  <2>2. x = SubSeq(g, WORD + 1, WORD + n)
    BY <2>1
  <2>3. x \in Seq(Nat) /\ Len(x) = n /\ \A j \in 1 .. n : x[j] = g[WORD + j]
    BY <1>5, <2>1, <2>2, PieceFact
  <2> HIDE DEF x
  <2>4. ASSUME NEW j \in 1 .. FLITS PROVE x[j] = FlitsOf(m)[j]
    <3>1. j \in 1 .. n /\ WORD + j \in 1 .. SIZE
      BY <2>1, MaskFact, SizeFact
    <3> QED BY <1>1, <1>3, <2>3, <3>1
  <2> QED BY <2>1, <2>3, <2>4
<1> HIDE DEF x
<1>8. /\ mask \in Seq(Nat) /\ Len(mask) = WORD
      /\ mask[1] = (IF m = NULL THEN 0 ELSE 1) /\ \A j \in 2 .. WORD : mask[j] = 0
  <2>1. mask = SubSeq(x, MASK + 1, MASK + WORD)
    BY DEF tloe_get_mask, MASK
  <2>2. MASK \in Nat /\ WORD \in Nat /\ MASK + WORD <= Len(x)
    <3>1. Len(x) \in Nat
      BY <1>7, LenProperties
    <3> QED BY <1>7, <3>1, MaskFact
  <2> HIDE DEF mask
  <2>3. mask \in Seq(Nat) /\ Len(mask) = WORD /\ \A j \in 1 .. WORD : mask[j] = x[MASK + j]
    BY <1>7, <2>1, <2>2, PieceFact
  <2>4. ASSUME NEW j \in 1 .. WORD PROVE mask[j] = FlitsOf(m)[MASK + j]
    <3>1. MASK + j \in 1 .. FLITS
      BY MaskFact
    <3> QED BY <1>7, <2>3, <3>1
  <2>5. 1 \in 1 .. WORD /\ 2 .. WORD \subseteq 1 .. WORD
    BY MaskFact
  <2> QED BY <2>3, <2>4, <2>5, FlitsFact
<1> HIDE DEF mask
<1>9. CASE m = NULL
  <2>1. Zeros(WORD) \in [1 .. WORD -> Nat] /\ WORD \in Nat
    BY ZerosFact, MaskFact
  <2>2. Zeros(WORD) \in Seq(Nat) /\ Len(Zeros(WORD)) = WORD
    BY <2>1, BytesFact
  <2>3. ASSUME NEW j \in 1 .. WORD PROVE mask[j] = Zeros(WORD)[j]
    <3>1. j = 1 \/ j \in 2 .. WORD
      BY MaskFact
    <3> QED BY <1>8, <1>9, <3>1 DEF Zeros
  <2>4. mask = Zeros(WORD)
    BY <1>8, <2>2, <2>3, SeqEqual
  <2> QED BY <1>4, <1>6, <1>9, <2>4 DEF p, Meaning
<1>10. CASE m \in Message
  <2>1. m # NULL /\ tlmsg_get_total_size(m) \in WORD .. MASK
    BY <1>10, MessageFact
  <2>2. mask[1] = 1 /\ \A j \in 2 .. 8 : mask[j] = 0
    BY <1>8, <2>1, MaskFact
  <2>3. mask # Zeros(WORD)
    <3>1. Zeros(WORD)[1] = 0
      BY MaskFact DEF Zeros
    <3> QED BY <2>2, <3>1
  <2>4. Located(mask) = {0}
    BY <2>2, LocatedFact
  <2>5. tloe_get_tlmsg(x, 0) = TLBytes(m)
    <3>1. ASSUME NEW j \in 1 .. tlmsg_get_total_size(m) PROVE x[j] = TLBytes(m)[j]
      <4>1. j \in 1 .. FLITS
        BY <2>1, MaskFact
      <4> QED BY <1>7, <2>1, <4>1, FlitsFact
    <3> QED BY <1>7, <1>10, <3>1, GetFact
  <2>6. {tloe_get_tlmsg(x, i) : i \in Located(mask)} = {TLBytes(m)}
    BY <2>4, <2>5
  <2> QED BY <1>4, <1>6, <2>1, <2>3, <2>6 DEF p, Meaning
<1> QED BY <1>9, <1>10 DEF Handed
-------------------------------------------------------------------------------
\* FrameInv is inductive.

LEMMA InitFrame ==
    ASSUME FrameInit
    PROVE  FrameInv
<1>1. sent = << >> /\ got = << >> /\ wire = << >>
  BY DEF FrameInit
<1>2. sent \in Seq(Handed) /\ got \in Seq({Meaning(m) : m \in Handed})
      /\ wire \in Seq([ours : BOOLEAN, bytes : Seq(Nat)])
  BY <1>1
<1>3. Foreign = 0 /\ Len(sent) = 0 /\ Len(got) = 0 /\ Len(wire) = 0
  BY <1>1 DEF Foreign
<1> QED BY <1>2, <1>3 DEF FrameInv

\* The lengths the invariant speaks of.
LEMMA LengthFact ==
    ASSUME FrameInv
    PROVE  /\ Len(sent) \in Nat /\ Len(got) \in Nat /\ Len(wire) \in Nat
           /\ Foreign \in {0, 1} /\ Len(got) <= Len(sent)
           /\ Len(wire) = Foreign + Len(sent) - Len(got)
<1>1. Foreign \in {0, 1}
  BY DEF Foreign
<1> QED BY <1>1, LenProperties DEF FrameInv

\* Len of a longer sequence, and its elements.
LEMMA AppendFact ==
    ASSUME NEW S, NEW s \in Seq(S), NEW x \in S
    PROVE  /\ Append(s, x) \in Seq(S) /\ Len(Append(s, x)) = Len(s) + 1
           /\ Append(s, x)[Len(s) + 1] = x
           /\ \A i \in 1 .. Len(s) : Append(s, x)[i] = s[i]
           /\ Append(s, x) = s \o <<x>> /\ Append(s, x) # << >>
OBVIOUS

\* A frame under way, as the fabric carries it.
LEMMA CarriedFact ==
    ASSUME NEW m \in Handed
    PROVE  /\ Carried(m) \in [ours : BOOLEAN, bytes : Seq(Nat)]
           /\ Carried(m).ours = TRUE /\ Carried(m).bytes = PacketOf(m)
BY PacketFact DEF Carried

\* TX puts the frame of a message behind the others.
LEMMA TXFrame ==
    ASSUME FrameInv, NEW m \in Handed, TX(m)
    PROVE  FrameInv'
<1> DEFINE W == [ours : BOOLEAN, bytes : Seq(Nat)]
           c == Carried(m)
           n == Len(sent) - Len(got)
<1>1. wire' = Append(wire, c) /\ sent' = Append(sent, m) /\ got' = got
  <2>1. tloe_fabric_send(PacketOf(m)) = <<c>>
    BY PacketFact, SendFact DEF Carried
  <2>2. wire' = wire \o tloe_fabric_send(PacketOf(m))
    BY DEF TX, PacketOf
  <2>3. wire \in Seq(W) /\ c \in W
    BY CarriedFact DEF FrameInv
  <2> HIDE DEF W, c
  <2>4. wire' = Append(wire, c)
    BY <2>1, <2>2, <2>3, AppendFact
  <2> QED BY <2>4 DEF TX
<1>2. /\ wire \in Seq(W) /\ c \in W /\ c.ours = TRUE /\ sent \in Seq(Handed)
      /\ got \in Seq({Meaning(k) : k \in Handed})
  BY CarriedFact DEF FrameInv
<1>3. /\ Len(sent) \in Nat /\ Len(got) \in Nat /\ Len(wire) \in Nat /\ Foreign \in {0, 1}
      /\ Len(got) <= Len(sent) /\ Len(wire) = Foreign + n /\ n \in Nat
  BY LengthFact
<1>4. /\ wire' \in Seq(W) /\ Len(wire') = Len(wire) + 1 /\ wire'[Len(wire) + 1] = c
      /\ \A i \in 1 .. Len(wire) : wire'[i] = wire[i]
      /\ wire' # << >>
  <2> HIDE DEF W, c
  <2>1. wire \in Seq(W) /\ c \in W
    BY <1>2
  <2> QED BY ONLY <1>1, <2>1, AppendFact
<1>5. /\ sent' \in Seq(Handed) /\ Len(sent') = Len(sent) + 1 /\ sent'[Len(sent) + 1] = m
      /\ \A i \in 1 .. Len(sent) : sent'[i] = sent[i]
  BY <1>1, <1>2, AppendFact
<1>6. Foreign' = Foreign
  <2>1. CASE wire = << >>
    <3>1. Len(wire) = 0
      BY <2>1
    <3>2. wire'[1] = c
      BY <1>4, <3>1
    <3> QED BY <1>2, <1>4, <2>1, <3>2 DEF Foreign
  <2>2. CASE wire # << >>
    <3>1. 1 \in 1 .. Len(wire)
      BY <1>2, <1>3, <2>2
    <3> QED BY <1>4, <2>2, <3>1 DEF Foreign
  <2> QED BY <2>1, <2>2
<1> HIDE DEF W, c
<1>7. /\ Len(wire') = Foreign' + Len(sent') - Len(got') /\ Len(got') <= Len(sent')
      /\ Len(sent') - Len(got') = n + 1
  BY <1>1, <1>3, <1>4, <1>5, <1>6
<1>8. ASSUME NEW k \in 1 .. Len(got') PROVE got'[k] = Meaning(sent'[k])
  <2>1. k \in 1 .. Len(got) /\ k \in 1 .. Len(sent)
    BY <1>1, <1>3
  <2> QED BY <1>1, <1>5, <2>1 DEF FrameInv
<1>9. ASSUME NEW i \in 1 .. n + 1 PROVE wire'[Foreign' + i] = Carried(sent'[Len(got') + i])
  <2>1. CASE i = n + 1
    <3>1. Foreign + i = Len(wire) + 1 /\ Len(got) + i = Len(sent) + 1
      BY <1>3, <2>1
    <3> QED BY <1>1, <1>4, <1>5, <1>6, <3>1 DEF c
  <2>2. CASE i # n + 1
    <3>1. i \in 1 .. n /\ Foreign + i \in 1 .. Len(wire) /\ Len(got) + i \in 1 .. Len(sent)
      BY <1>3, <2>2
    <3>2. wire[Foreign + i] = Carried(sent[Len(got) + i])
      BY <3>1 DEF FrameInv
    <3> QED BY <1>1, <1>4, <1>5, <1>6, <3>1, <3>2
  <2> QED BY <2>1, <2>2
<1> QED BY <1>1, <1>2, <1>4, <1>5, <1>7, <1>8, <1>9 DEF FrameInv, W

\* A frame of another protocol arrives while none is under way.
LEMMA OtherFrame ==
    ASSUME FrameInv, OtherTraffic
    PROVE  FrameInv'
<1> DEFINE c == [ours |-> FALSE, bytes |-> Zeros(ETHER_MIN_LEN)]
<1>1. wire = << >> /\ wire' = <<c>> /\ sent' = sent /\ got' = got
  BY DEF OtherTraffic
<1>2. Len(wire) = 0 /\ Foreign = 0
  BY <1>1 DEF Foreign
<1>3. c \in [ours : BOOLEAN, bytes : Seq(Nat)] /\ c.ours = FALSE
  <2>1. ETHER_MIN_LEN \in Nat
    BY DEF ETHER_MIN_LEN
  <2>2. Zeros(ETHER_MIN_LEN) \in [1 .. ETHER_MIN_LEN -> Nat]
    BY <2>1, ZerosFact
  <2>3. Zeros(ETHER_MIN_LEN) \in Seq(Nat)
    BY <2>1, <2>2, BytesFact
  <2> QED BY <2>3
<1>4. Len(sent) = Len(got) /\ Len(sent) \in Nat
  BY <1>2, LengthFact
<1> HIDE DEF c
<1>5. /\ wire' \in Seq([ours : BOOLEAN, bytes : Seq(Nat)]) /\ Len(wire') = 1
      /\ wire'[1] = c /\ wire' # << >>
  BY <1>1, <1>3
<1>6. Foreign' = 1
  BY <1>3, <1>5 DEF Foreign
<1>7. /\ Len(wire') = Foreign' + Len(sent') - Len(got') /\ Len(got') <= Len(sent')
      /\ Len(sent') - Len(got') = 0
  BY <1>1, <1>4, <1>5, <1>6
<1>8. 1 .. Len(sent') - Len(got') = {}
  BY <1>7
<1> QED BY <1>1, <1>5, <1>7, <1>8 DEF FrameInv

\* The frames behind the oldest.
LEMMA TailFact ==
    ASSUME NEW S, NEW s \in Seq(S), s # << >>
    PROVE  /\ Tail(s) \in Seq(S) /\ Len(Tail(s)) = Len(s) - 1 /\ Len(s) \in Nat \ {0}
           /\ Head(s) = s[1]
           /\ \A i \in 1 .. Len(s) - 1 : Tail(s)[i] = s[i + 1]
           /\ Tail(s) # << >> => Len(s) >= 2
OBVIOUS

\* RX drops a frame of another protocol, and reads the frame of the message
\* after the last one read.
LEMMA RXFrame ==
    ASSUME FrameInv, RX
    PROVE  FrameInv'
<1> DEFINE W == [ours : BOOLEAN, bytes : Seq(Nat)]
           G == {Meaning(k) : k \in Handed}
           n == Len(sent) - Len(got)
<1>1. wire # << >> /\ wire' = Tail(wire) /\ sent' = sent
  BY DEF RX
<1>2. wire \in Seq(W) /\ got \in Seq(G) /\ sent \in Seq(Handed)
  BY DEF FrameInv
<1>3. /\ Len(sent) \in Nat /\ Len(got) \in Nat /\ Len(wire) \in Nat /\ Foreign \in {0, 1}
      /\ Len(got) <= Len(sent) /\ Len(wire) = Foreign + n /\ n \in Nat
  BY LengthFact
<1> HIDE DEF W, G
<1>4. /\ wire' \in Seq(W) /\ Len(wire') = Len(wire) - 1 /\ Len(wire) # 0
      /\ Head(wire) = wire[1]
      /\ \A i \in 1 .. Len(wire) - 1 : wire'[i] = wire[i + 1]
      /\ wire' # << >> => Len(wire) >= 2
  BY <1>1, <1>2, TailFact
<1>5. ASSUME NEW i \in 1 .. n
      PROVE  wire[Foreign + i] = Carried(sent[Len(got) + i]) /\ wire[Foreign + i].ours = TRUE
  <2>1. wire[Foreign + i] = Carried(sent[Len(got) + i])
    BY <1>5 DEF FrameInv
  <2>2. Len(got) + i \in 1 .. Len(sent)
    BY <1>3
  <2>3. sent[Len(got) + i] \in Handed
    BY <1>2, <2>2
  <2> QED BY <2>1, <2>3, CarriedFact
<1>6. Foreign' = 0
  <2>1. CASE wire' = << >>
    BY <2>1 DEF Foreign
  <2>2. CASE wire' # << >>
    <3>1. Len(wire) >= 2 /\ wire'[1] = wire[2]
      <4>1. Len(wire) >= 2
        BY <1>4, <2>2
      <4>2. 1 \in 1 .. Len(wire) - 1 /\ 1 + 1 = 2
        BY <1>3, <4>1
      <4> QED BY <1>4, <4>1, <4>2
    <3>2. 2 - Foreign \in 1 .. n /\ Foreign + (2 - Foreign) = 2
      BY <1>3, <3>1
    <3>3. wire[2].ours = TRUE
      BY <1>5, <3>2
    <3> QED BY <3>1, <3>3 DEF Foreign
  <2> QED BY <2>1, <2>2
<1>7. CASE ~wire[1].ours
  <2>1. got' = got
    BY <1>4, <1>7 DEF RX
  <2>2. Foreign = 1
    BY <1>1, <1>7 DEF Foreign
  <2>3. Len(wire') = Foreign' + Len(sent') - Len(got')
    BY <1>1, <1>3, <1>4, <1>6, <2>1, <2>2
  <2>4. ASSUME NEW i \in 1 .. Len(sent') - Len(got')
        PROVE  wire'[Foreign' + i] = Carried(sent'[Len(got') + i])
    <3>1. i \in 1 .. n
      BY <1>1, <2>1
    <3>2. i \in 1 .. Len(wire) - 1 /\ 0 + i = i /\ i + 1 = 1 + i
      BY <1>3, <2>2, <3>1
    <3>3. wire'[i] = wire[i + 1] /\ wire[1 + i] = Carried(sent[Len(got) + i])
      BY <1>4, <1>5, <2>2, <3>1, <3>2
    <3> QED BY <1>1, <1>6, <2>1, <3>2, <3>3
  <2>5. \A k \in 1 .. Len(got') : got'[k] = Meaning(sent'[k])
    BY <1>1, <2>1 DEF FrameInv
  <2> QED BY <1>1, <1>2, <1>3, <1>4, <2>1, <2>3, <2>4, <2>5 DEF FrameInv, W, G
<1>8. CASE wire[1].ours
  <2> DEFINE m == sent[Len(got) + 1]
  <2>1. Foreign = 0
    BY <1>8 DEF Foreign
  <2>2. n >= 1 /\ 1 \in 1 .. n /\ Len(got) + 1 \in 1 .. Len(sent) /\ 0 + 1 = 1
    BY <1>3, <1>4, <2>1
  <2>3. m \in Handed
    BY <1>2, <2>2
  <2>4. wire[1] = Carried(m)
    BY <1>5, <2>1, <2>2
  <2>5. got' = Append(got, Meaning(m))
    <3>1. got' = Append(got, ReadFrom(wire[1].bytes))
      BY <1>4, <1>8 DEF RX, ReadFrom
    <3>2. wire[1].bytes = PacketOf(m)
      BY <2>3, <2>4, CarriedFact
    <3> QED BY <2>3, <3>1, <3>2, ReadFact
  <2>6. Meaning(m) \in G
    BY <2>3 DEF G
  <2> HIDE DEF m
  <2>7. /\ got' \in Seq(G) /\ Len(got') = Len(got) + 1 /\ got'[Len(got) + 1] = Meaning(m)
        /\ \A i \in 1 .. Len(got) : got'[i] = got[i]
    BY <1>2, <2>5, <2>6, AppendFact
  <2>8. Len(wire') = Foreign' + Len(sent') - Len(got') /\ Len(got') <= Len(sent')
    BY <1>1, <1>3, <1>4, <1>6, <2>1, <2>2, <2>7
  <2>9. ASSUME NEW k \in 1 .. Len(got') PROVE got'[k] = Meaning(sent'[k])
    <3>1. CASE k = Len(got) + 1
      BY <1>1, <2>7, <3>1 DEF m
    <3>2. CASE k # Len(got) + 1
      <4>1. k \in 1 .. Len(got)
        BY <1>3, <2>7, <3>2
      <4> QED BY <1>1, <2>7, <4>1 DEF FrameInv
    <3> QED BY <3>1, <3>2
  <2>10. ASSUME NEW i \in 1 .. Len(sent') - Len(got')
         PROVE  wire'[Foreign' + i] = Carried(sent'[Len(got') + i])
    <3>1. i + 1 \in 1 .. n /\ i \in 1 .. Len(wire) - 1
      BY <1>1, <1>3, <2>1, <2>7
    <3>2. 0 + i = i /\ 0 + (i + 1) = i + 1 /\ Len(got') + i = Len(got) + (i + 1)
      BY <1>3, <2>7
    <3>3. wire'[i] = wire[i + 1]
      BY <1>4, <3>1
    <3>4. wire[i + 1] = Carried(sent[Len(got) + (i + 1)])
      BY <1>5, <2>1, <3>1, <3>2
    <3> QED BY <1>1, <1>6, <3>2, <3>3, <3>4
  <2> QED BY <1>1, <1>2, <1>4, <2>7, <2>8, <2>9, <2>10 DEF FrameInv, W, G
<1> QED BY <1>7, <1>8

\* Every step preserves the invariant.
LEMMA NextFrame ==
    ASSUME FrameInv, [FrameNext]_frameVars
    PROVE  FrameInv'
<1>1. ASSUME NEW tlmsg \in Message \cup {NULL}, TX(tlmsg) PROVE FrameInv'
  BY <1>1, TXFrame DEF Handed
<1>2. CASE UNCHANGED frameVars
  BY <1>2 DEF frameVars, FrameInv, Foreign
<1> QED BY <1>1, <1>2, OtherFrame, RXFrame DEF FrameNext

\* Whatever messages TX is handed, over either fabric and among frames of
\* other protocols, RX finds the header and the bytes of each message, once and
\* in order (prepare_normal_frame, tloe_frame_to_packet, packet_to_tloe_frame,
\* tloe_get_mask, tloe_get_tlmsg), if the messages fit in front of the mask.
THEOREM FramesCorrect == FrameSpec => []FramesUnderstood
<1>1. FrameInit => FrameInv
  BY InitFrame
<1>2. FrameInv /\ [FrameNext]_frameVars => FrameInv'
  BY NextFrame
<1>3. FrameInv => FramesUnderstood
  <2> SUFFICES ASSUME FrameInv, NEW k \in DOMAIN got
               PROVE  got[k] = Meaning(sent[k])
    BY DEF FramesUnderstood, Meaning
  <2>1. DOMAIN got = 1 .. Len(got)
    BY LenProperties DEF FrameInv
  <2> QED BY <2>1 DEF FrameInv
<1> QED BY <1>1, <1>2, <1>3, PTL DEF FrameSpec
==============================================================================
