----------------------------- MODULE MCTloeFrame -----------------------------
(***************************************************************************)
(* Messages of every kind the program builds or answers, with a payload of *)
(* up to 2^size bytes.                                                     *)
(***************************************************************************)
EXTENDS TloeFrame

CONSTANTS
    RequestSizes,   \* size of a Get or a PutFullData
    AnswerSizes,    \* size of an AccessAckData
    Data

MCMessage ==
    [chan : {CHANNEL_A}, opcode : {A_GET_OPCODE, A_PUTFULLDATA_OPCODE},
     size : RequestSizes, data : Data]
    \cup [chan : {CHANNEL_D}, opcode : {D_ACCESSACK_OPCODE}, size : {0}, data : Data]
    \cup [chan : {CHANNEL_D}, opcode : {D_ACCESSACKDATA_OPCODE},
          size : AnswerSizes, data : Data]
==============================================================================
