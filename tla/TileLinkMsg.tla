------------------------------ MODULE TileLinkMsg ------------------------------
(***************************************************************************)
(* tilelink_msg.c / tilelink_msg.h: TileLink messages and the number of    *)
(* 8-byte flits each one occupies, the unit in which credits are counted.  *)
(* A message is a record of the header fields the program looks at and the *)
(* two payload words it uses: addr is data[0] of a request, data is        *)
(* data[1] of a Put and data[0] of an AccessAckData.                       *)
(***************************************************************************)
EXTENDS Integers

CHANNEL_NUM == 6
CHANNEL_0 == 0
CHANNEL_A == 1
CHANNEL_B == 2
CHANNEL_C == 3
CHANNEL_D == 4
CHANNEL_E == 5
Channel == 0 .. CHANNEL_NUM - 1

A_PUTFULLDATA_OPCODE == 0
A_GET_OPCODE == 4
D_ACCESSACK_OPCODE == 0
D_ACCESSACKDATA_OPCODE == 1

\* The null tl_msg_t pointer; channel 0 carries no message.
NULL == [chan |-> CHANNEL_0, opcode |-> 0, size |-> 0, addr |-> 0, data |-> 0]

convert_size_to_flits(size) == (size + 7) \div 8

\* Bytes of the header: 16 on the channels that carry an address and for the
\* grants of channel D (opcodes 4 and 5), 8 for the rest.  For an opcode or a
\* channel the switch does not know, the code computes 1ULL << -1, whose low
\* 32 bits are 0 in this build.
tlmsg_get_header_size(tlmsg) ==
    CASE tlmsg.chan \in {CHANNEL_A, CHANNEL_B, CHANNEL_C} -> 16
      [] tlmsg.chan = CHANNEL_D /\ tlmsg.opcode \in {0, 1, 2, 6} -> 8
      [] tlmsg.chan = CHANNEL_D /\ tlmsg.opcode \in {4, 5} -> 16
      [] tlmsg.chan = CHANNEL_E -> 8
      [] OTHER -> 0

\* Bytes of payload: 2^size for the opcodes that carry data, 0 for the others
\* (again 1ULL << -1).
tlmsg_get_data_size(tlmsg) ==
    IF \/ /\ tlmsg.chan \in {CHANNEL_A, CHANNEL_B, CHANNEL_C}
          /\ tlmsg.opcode \in {0, 1, 2, 3, 5, 7}
       \/ /\ tlmsg.chan = CHANNEL_D
          /\ tlmsg.opcode \in {D_ACCESSACKDATA_OPCODE, 5}
    THEN 2^tlmsg.size ELSE 0

tlmsg_get_flits_cnt(tlmsg) ==
    convert_size_to_flits(tlmsg_get_header_size(tlmsg))
        + convert_size_to_flits(tlmsg_get_data_size(tlmsg))

tlmsg_get_total_size(tlmsg) ==
    tlmsg_get_header_size(tlmsg) + tlmsg_get_data_size(tlmsg)
================================================================================
