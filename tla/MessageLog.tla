----------------------------- MODULE MessageLog -----------------------------
(***************************************************************************)
(* What offline messages promise (VocalMessages says how): a message is    *)
(* written once, posted once to its author and one other account, and      *)
(* shown by the devices of these two only; what was posted or shown is     *)
(* never taken back.  A message that is written may never be posted, one   *)
(* that is posted may never be shown.                                      *)
(***************************************************************************)
CONSTANTS Login, Device, Owner, Message

VARIABLES
    posted,   \* to whom each message is posted
    shown     \* what each device has shown

vars == <<posted, shown>>

Init ==
    /\ posted = {}
    /\ shown = [d \in Device |-> {}]

Posted(m) == \E l \in Login : <<m, l>> \in posted

Write(d, m) ==
    /\ ~Posted(m) /\ \A e \in Device : m \notin shown[e]
    /\ shown' = [shown EXCEPT ![d] = @ \cup {m}]
    /\ UNCHANGED posted

Post(d, m, f) ==
    /\ m \in shown[d] /\ ~Posted(m)
    /\ f # Owner[d]
    /\ posted' = posted \cup {<<m, Owner[d]>>, <<m, f>>}
    /\ UNCHANGED shown

Deliver(d, messages) ==
    /\ \A m \in messages : <<m, Owner[d]>> \in posted
    /\ shown' = [shown EXCEPT ![d] = @ \cup messages]
    /\ UNCHANGED posted

Next ==
    \E d \in Device :
        \/ \E m \in Message : Write(d, m)
        \/ \E m \in Message, f \in Login : Post(d, m, f)
        \/ \E messages \in SUBSET Message : Deliver(d, messages)

Spec == Init /\ [][Next]_vars
=============================================================================
