--------------------------- MODULE MCCircularQueue ---------------------------
(***************************************************************************)
(* A ring of four slots, three of them usable, and two distinct messages.  *)
(***************************************************************************)
EXTENDS CircularQueue
==============================================================================
