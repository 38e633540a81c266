--------------------------- MODULE MCVocalFriends ---------------------------
(* Instances of VocalFriends for TLC. *)
EXTENDS VocalFriends, TLC

CONSTANTS alice, bob, da, db, eve

\* One device per account.
OneDevice == (da :> alice) @@ (db :> bob)

\* The accounts are alike, each with its device.
Exchange == {p \in Permutations({alice, bob, da, db}) :
               \A d \in {da, db} : p[d] \in {da, db} /\ OneDevice[p[d]] = p[OneDevice[d]]}
=============================================================================
