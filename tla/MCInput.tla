------------------------------ MODULE MCInput -------------------------------
(***************************************************************************)
(* An instance of Input for TLC: both queues fill, and the ring wraps.     *)
(***************************************************************************)
EXTENDS Input

=============================================================================
