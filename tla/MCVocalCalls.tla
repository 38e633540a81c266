---------------------------- MODULE MCVocalCalls ----------------------------
(* Instances of VocalCalls for TLC. *)
EXTENDS VocalCalls, TLC

CONSTANTS alice, bob, carol

\* Bob and Carol are friends of Alice.
Three == {alice, bob, carol}
Alices == alice :> {bob, carol} @@ bob :> {alice} @@ carol :> {alice}
Callers == Permutations({bob, carol})

Clicks(m, n, k) == {alice :> m @@ f :> n @@ (CHOOSE g \in Alices[alice] : g # f) :> k : f \in Alices[alice]}

\* Calls with one friend, over a link that breaks or lasts, and with two.
OneOrTwoCalls == [clicks: Clicks(2, 2, 0), breaks: {1}] \cup [clicks: Clicks(3, 2, 0), breaks: {0}]
                 \cup [clicks: Clicks(3, 1, 1), breaks: {0}]
=============================================================================
