--------------------------- MODULE MCTloeConnection ---------------------------
(***************************************************************************)
(* Small instances of opening, using and closing a connection for TLC.     *)
(***************************************************************************)
EXTENDS TloeSessionInv

\* tloe_endpoint_init starts the sequence numbers at 0.
MCFromZero == [e \in Endpoint |-> 0]

\* Requests by the master's user only.
MCNone == [e \in Endpoint |-> 0]
MCTwoByMaster == [e \in Endpoint |-> IF e = "master" THEN 2 ELSE 0]
===============================================================================
