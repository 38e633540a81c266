----------------------------- MODULE MCUdtServer -----------------------------
(* Instances of UdtServer for TLC. *)
EXTENDS UdtServer
=============================================================================
