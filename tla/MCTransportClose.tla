------------------------- MODULE MCTransportClose -------------------------
(* Small instances of TransportClose for TLC. *)
EXTENDS TransportClose
=============================================================================
