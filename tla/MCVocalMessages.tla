-------------------------- MODULE MCVocalMessages ---------------------------
(* Instances of VocalMessages for TLC: one device for each account of two; a third
   account, whose login is that of the first and a digit, has none. *)
EXTENDS VocalMessages, TLC

CONSTANTS al, al1, bob, da, db

OneDevice == (da :> al) @@ (db :> bob)
DigitAfter == {<<al, al1>>}
=============================================================================
