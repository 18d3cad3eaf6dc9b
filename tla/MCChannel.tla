------------------------------ MODULE MCChannel ------------------------------
(* TLC instances of the channel; the .cfg files choose the bounds. *)
EXTENDS Channel, TLC
=============================================================================
