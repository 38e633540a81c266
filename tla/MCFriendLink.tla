---------------------------- MODULE MCFriendLink ----------------------------
(* Instances of FriendLink for TLC. *)
EXTENDS FriendLink, TLC

CONSTANTS alice, bob

OneTwo == alice :> 1 @@ bob :> 2
TwoFriends == alice :> bob @@ bob :> alice
=============================================================================
