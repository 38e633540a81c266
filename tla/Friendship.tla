----------------------------- MODULE Friendship -----------------------------
(***************************************************************************)
(* What the friend lists of a server promise (VocalFriends says how): two  *)
(* users are friends once each has asked for the other, whatever the order *)
(* and however often they ask, and until one of them ends it, which also   *)
(* takes back what either has asked.                                       *)
(***************************************************************************)
CONSTANT Login

VARIABLES
    asked,     \* who has asked for whom
    friends    \* friendships, in both directions

vars == <<asked, friends>>

Init == asked = {} /\ friends = {}

\* The second of the two requests makes them friends.
Ask(a, b) ==
    /\ asked' = asked \cup {<<a, b>>}
    /\ friends' = IF <<b, a>> \in asked THEN friends \cup {<<a, b>>, <<b, a>>} ELSE friends

End(a, b) ==
    /\ asked' = asked \ {<<a, b>>, <<b, a>>}
    /\ friends' = friends \ {<<a, b>>, <<b, a>>}

Next == \E a, b \in Login : a # b /\ (Ask(a, b) \/ End(a, b))

Spec == Init /\ [][Next]_vars
=============================================================================
