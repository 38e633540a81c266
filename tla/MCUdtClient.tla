----------------------------- MODULE MCUdtClient -----------------------------
(* UdtClient in the two uses vocal makes of it, with small bounds. *)
EXTENDS UdtClient
=============================================================================
