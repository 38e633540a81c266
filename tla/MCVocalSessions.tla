-------------------------- MODULE MCVocalSessions ---------------------------
(* Instances of VocalSessions for TLC. *)
EXTENDS VocalSessions, TLC

CONSTANTS alice, d1, d2

OneOldKey == alice :> MaxConnects + 1
=============================================================================
