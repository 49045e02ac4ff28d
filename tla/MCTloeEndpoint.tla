---------------------------- MODULE MCTloeEndpoint ----------------------------
(***************************************************************************)
(* Small instances of the two endpoints for TLC.                           *)
(***************************************************************************)
EXTENDS TloeEndpointProps, TloeLinkInv

\* The master's first frames run over the end of the sequence space.
MCStartSeq == [e \in Endpoint |-> IF e = "master" THEN MAX_SEQ_NUM - 1 ELSE 5]

\* One request by the master's user and none by the slave's; then two and none;
\* then two and one.
MCOneByMaster == [e \in Endpoint |-> IF e = "master" THEN 1 ELSE 0]
MCTwoByMaster == [e \in Endpoint |-> IF e = "master" THEN 2 ELSE 0]
MCTwoAndOne == [e \in Endpoint |-> IF e = "master" THEN 2 ELSE 1]
===============================================================================
