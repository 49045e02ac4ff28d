------------------------------- MODULE MCTloeNs -------------------------------
(***************************************************************************)
(* Two different messages from port A, so that their order shows, and one  *)
(* from port B.                                                            *)
(***************************************************************************)
EXTENDS TloeNs

CONSTANTS a1, a2, b1

MCMessage == [p \in Port |-> IF p = "A" THEN {a1, a2} ELSE {b1}]
===============================================================================
