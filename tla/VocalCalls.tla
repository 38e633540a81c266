----------------------------- MODULE VocalCalls -----------------------------
(***************************************************************************)
(* Calls of the vocal messenger: CallStatus of TFriend                     *)
(* (vocal_client_lib/friend.cpp), CallingFriend of TClient, which gets the *)
(* sound of the microphone, and the window and the recorder of the         *)
(* graphical client (vocal_client_gui).                                    *)
(*                                                                         *)
(* Two threads of a process share a TFriend without a lock: the event      *)
(* thread handles packets, the thread of the windows handles clicks.  Each *)
(* is split where it sends, assigns CallStatus, and tells of it.  What the *)
(* event thread tells the windows is queued; what a click tells is shown   *)
(* at once.  FriendLink has the link: here it breaks, each side notices,   *)
(* it is made again and authenticated.  Packets of sound change no state.  *)
(***************************************************************************)
EXTENDS Naturals, Sequences, FiniteSets

CONSTANTS
    User,
    Friends,      \* Friends[u]: the friends of u
    None,
    Bounds        \* bounds: the clicks of each user, and the breaks of links, in one behaviour

ASSUME CallsAssumption ==
    /\ Friends \in [User -> SUBSET User] /\ None \notin User
    /\ \A u, v \in User : v \in Friends[u] <=> (u # v /\ u \in Friends[v])
    /\ Bounds \subseteq [clicks: [User -> Nat], breaks: Nat]

VARIABLES
    call,         \* CallStatus of each friend
    calling,      \* CallingFriend
    packets,      \* under way from a user to a friend
    telling,      \* what the event thread is still to tell: the friend and the new status
    clicking,     \* what the thread of the windows is still to do for a click
    signals,      \* signals for the windows
    window,       \* CallStatus of the TChatWindow for each friend
    recording,    \* AudioInput is started
    linked,       \* ConnectionStatus is COS_Connected or COS_AcceptedConnection
    authorized,   \* the keys are those of the link
    dead,         \* an exception has ended the process
    clicks, breaks, \* those still to come
    wanted,       \* history: the user wants to talk to that friend
    incidents     \* history: "Lost" when a link broke, "Raced" when both threads were at
                  \* work, "Stale" when a click came before a signal

linkVars == <<linked, authorized, breaks>>
vars == <<call, calling, packets, telling, clicking, signals, window, recording, linkVars,
          dead, clicks, wanted, incidents>>

-----------------------------------------------------------------------------
(* Data *)

\* ECallStatus.
CallStatus == {"NotCalling", "WaitingFriendConfirm", "WaitingSelfConfirm", "Established"}

\* EFriendPacketType, as far as calls are concerned.
Packet == {"CallRequest", "CallDrop"}

Pair == {l \in User \X User : l[2] \in Friends[l[1]]}
Back(l) == <<l[2], l[1]>>

\* What a thread is still to do: assign the status, and tell the windows of it.
Task == [friend: User, to: CallStatus, step: {"Assign", "Tell"}]
Idle == [friend |-> None, to |-> "NotCalling", step |-> "Tell"]

\* A packet arrives encrypted with the key of the link, or it cannot be decrypted.
Sent(l, packet) ==
    packets' = [packets EXCEPT ![l] = IF linked[Back(l)] /\ authorized[l] THEN Append(@, packet)
                                      ELSE @]

-----------------------------------------------------------------------------
(* The event thread *)

EventThreadFree(u) == ~dead[u] /\ telling[u] = Idle

\* The next packet of a friend.
Receive(u, f, packet) ==
    /\ EventThreadFree(u) /\ linked[<<u, f>>]
    /\ packets[<<f, u>>] # <<>> /\ Head(packets[<<f, u>>]) = packet
    /\ packets' = [packets EXCEPT ![<<f, u>>] = Tail(@)]
    /\ incidents' = incidents \cup IF clicking[u] # Idle THEN {"Raced"} ELSE {}
    /\ UNCHANGED <<calling, clicking, signals, window, recording, linkVars, dead, clicks>>

\* Assigns CallStatus; the windows are told next.
Becomes(u, f, status) ==
    /\ call' = [call EXCEPT ![<<u, f>>] = status]
    /\ telling' = [telling EXCEPT ![u] = [friend |-> f, to |-> status, step |-> "Tell"]]

\* FPT_CallRequest: a new call, or the answer to the user's own.  The mutant answers itself.
OnCallRequest_Accepted(u, f) ==
    /\ Receive(u, f, "CallRequest")
    /\ IF call[<<u, f>>] \in {"NotCalling", "WaitingFriendConfirm"}
       THEN Becomes(u, f, "Established") ELSE UNCHANGED <<call, telling>>
    /\ UNCHANGED wanted

OnCallRequest(u, f) ==
    /\ Receive(u, f, "CallRequest")
    /\ CASE call[<<u, f>>] = "NotCalling" -> Becomes(u, f, "WaitingSelfConfirm")
         [] call[<<u, f>>] = "WaitingFriendConfirm" -> Becomes(u, f, "Established")
         [] OTHER -> UNCHANGED <<call, telling>>
    /\ UNCHANGED wanted

\* FPT_CallDrop.  The mutant does not tell the windows.
OnCallDrop_Untold(u, f) ==
    /\ Receive(u, f, "CallDrop")
    /\ call' = [call EXCEPT ![<<u, f>>] = "NotCalling"]
    /\ UNCHANGED telling
    /\ wanted' = [wanted EXCEPT ![<<u, f>>] = FALSE]

OnCallDrop(u, f) ==
    /\ Receive(u, f, "CallDrop")
    /\ IF call[<<u, f>>] # "NotCalling" THEN Becomes(u, f, "NotCalling")
       ELSE UNCHANGED <<call, telling>>
    /\ wanted' = [wanted EXCEPT ![<<u, f>>] = FALSE]

\* SetFriendCalling, which every end of a call resets, and every established one sets.
SetFriendCalling(u, task) ==
    calling' = [calling EXCEPT ![u] = CASE task.to = "Established" -> task.friend
                                         [] task.to = "NotCalling" -> None
                                         [] OTHER -> @]

\* OnCallStatusChanged: the signal carries the status as it is now.  The mutant leaves
\* CallingFriend alone.
EventThreadTells_Unheard(u) ==
    LET t == telling[u] IN
    /\ ~dead[u] /\ t # Idle
    /\ telling' = [telling EXCEPT ![u] = Idle]
    /\ signals' = [signals EXCEPT ![u] = Append(@, [friend |-> t.friend,
                                                    status |-> call[<<u, t.friend>>]])]
    /\ UNCHANGED <<call, calling, packets, clicking, window, recording, linkVars, dead, clicks,
                   wanted, incidents>>

EventThreadTells(u) ==
    LET t == telling[u] IN
    /\ ~dead[u] /\ t # Idle
    /\ telling' = [telling EXCEPT ![u] = Idle]
    /\ signals' = [signals EXCEPT ![u] = Append(@, [friend |-> t.friend,
                                                    status |-> call[<<u, t.friend>>]])]
    /\ SetFriendCalling(u, t)
    /\ UNCHANGED <<call, packets, clicking, window, recording, linkVars, dead, clicks, wanted,
                   incidents>>

EventThread(u) ==
    \/ \E f \in Friends[u] : OnCallRequest(u, f) \/ OnCallDrop(u, f)
    \/ EventThreadTells(u)

-----------------------------------------------------------------------------
(* The thread of the windows *)

WindowThreadFree(u) == ~dead[u] /\ clicking[u] = Idle

\* OnFriendCallStatusChanged in the windows, OnCallStarted and OnCallFinished in the recorder.
Shown(u, f, status) ==
    /\ window' = [window EXCEPT ![<<u, f>>] = status]
    /\ recording' = [recording EXCEPT ![u] = CASE status = "Established" -> TRUE
                                               [] status = "NotCalling" -> FALSE
                                               [] OTHER -> @]

ShowSignal(u) ==
    /\ WindowThreadFree(u) /\ signals[u] # <<>>
    /\ signals' = [signals EXCEPT ![u] = Tail(@)]
    /\ Shown(u, Head(signals[u]).friend, Head(signals[u]).status)
    /\ UNCHANGED <<call, calling, packets, telling, clicking, linkVars, dead, clicks, wanted,
                   incidents>>

\* A click in the window of f: the window shows "shown" at once.
Clicked(u, f, shown) ==
    /\ WindowThreadFree(u) /\ clicks[u] > 0
    /\ clicks' = [clicks EXCEPT ![u] = @ - 1]
    /\ window' = [window EXCEPT ![<<u, f>>] = shown]
    /\ incidents' = incidents
         \cup (IF \E i \in 1..Len(signals[u]) : signals[u][i].friend = f THEN {"Stale"} ELSE {})
         \cup (IF telling[u] # Idle THEN {"Raced"} ELSE {})
    /\ UNCHANGED <<call, calling, telling, signals, recording, linkVars, dead>>

\* The rest of the click, after a packet was sent.  The mutant takes another enumeration.
Then_Offline(u, f, status) ==
    clicking' = [clicking EXCEPT ![u] = [friend |-> f, step |-> "Assign",
                    to |-> IF status = "NotCalling" THEN "Offline" ELSE status]]

Then(u, f, status) ==
    clicking' = [clicking EXCEPT ![u] = [friend |-> f, to |-> status, step |-> "Assign"]]

\* StartCall: a request, of a call or to accept one.  It throws when not connected, and the
\* window shows no call.
StartCall(u, f) ==
    /\ window[<<u, f>>] \in {"NotCalling", "WaitingSelfConfirm"}
    /\ wanted' = [wanted EXCEPT ![<<u, f>>] = linked[<<u, f>>]]
    /\ Clicked(u, f, CASE ~linked[<<u, f>>] -> "NotCalling"
                       [] window[<<u, f>>] = "NotCalling" -> "WaitingFriendConfirm"
                       [] OTHER -> "Established")
    /\ IF linked[<<u, f>>] /\ call[<<u, f>>] \in {"NotCalling", "WaitingSelfConfirm"}
       THEN /\ Sent(<<u, f>>, "CallRequest")
            /\ Then(u, f, IF call[<<u, f>>] = "NotCalling" THEN "WaitingFriendConfirm"
                          ELSE "Established")
       ELSE UNCHANGED <<packets, clicking>>

\* FinishCall, by the button or by DeclineButton.  It throws when not connected.  The mutant
\* tells the friend only of an established call.
FinishCall_Silent(u, f) ==
    /\ window[<<u, f>>] # "NotCalling"
    /\ wanted' = [wanted EXCEPT ![<<u, f>>] = FALSE]
    /\ Clicked(u, f, "NotCalling")
    /\ IF call[<<u, f>>] # "NotCalling" /\ linked[<<u, f>>]
       THEN /\ IF call[<<u, f>>] = "Established" THEN Sent(<<u, f>>, "CallDrop")
               ELSE UNCHANGED packets
            /\ Then(u, f, "NotCalling")
       ELSE UNCHANGED <<packets, clicking>>

FinishCall(u, f) ==
    /\ window[<<u, f>>] # "NotCalling"
    /\ wanted' = [wanted EXCEPT ![<<u, f>>] = FALSE]
    /\ Clicked(u, f, "NotCalling")
    /\ IF call[<<u, f>>] # "NotCalling" /\ linked[<<u, f>>]
       THEN /\ Sent(<<u, f>>, "CallDrop")
            /\ Then(u, f, "NotCalling")
       ELSE UNCHANGED <<packets, clicking>>

\* CallStatus is assigned; nothing is told of a call that is only asked for.
ClickAssigns(u) ==
    LET t == clicking[u] IN
    /\ ~dead[u] /\ t # Idle /\ t.step = "Assign"
    /\ call' = [call EXCEPT ![<<u, t.friend>>] = t.to]
    /\ clicking' = [clicking EXCEPT ![u] = IF t.to = "WaitingFriendConfirm" THEN Idle
                                           ELSE [t EXCEPT !.step = "Tell"]]
    /\ UNCHANGED <<calling, packets, telling, signals, window, recording, linkVars, dead, clicks,
                   wanted, incidents>>

\* OnCallStatusChanged in the thread of the windows: shown at once.
ClickTells(u) ==
    LET t == clicking[u] IN
    /\ ~dead[u] /\ t # Idle /\ t.step = "Tell"
    /\ clicking' = [clicking EXCEPT ![u] = Idle]
    /\ Shown(u, t.friend, call[<<u, t.friend>>])
    /\ SetFriendCalling(u, t)
    /\ UNCHANGED <<call, packets, telling, signals, linkVars, dead, clicks, wanted, incidents>>

\* Sound is sent to CallingFriend while the call is established.
Talking(u, f) == recording[u] /\ calling[u] = f /\ call[<<u, f>>] = "Established"

\* SendAudioData throws when not connected, which nobody catches.
AudioDies(u) ==
    /\ WindowThreadFree(u)
    /\ \E f \in Friends[u] : Talking(u, f) /\ ~linked[<<u, f>>]
    /\ dead' = [dead EXCEPT ![u] = TRUE]
    /\ UNCHANGED <<call, calling, packets, telling, clicking, signals, window, recording,
                   linkVars, clicks, wanted, incidents>>

WindowThread(u) ==
    ShowSignal(u) \/ ClickAssigns(u) \/ ClickTells(u) \/ AudioDies(u)
Click(u) == \E f \in Friends[u] : StartCall(u, f) \/ FinishCall(u, f)

-----------------------------------------------------------------------------
(* The link *)

OnlyLink == UNCHANGED <<call, calling, telling, clicking, signals, window, recording, dead,
                        clicks, wanted>>

\* One side loses the link, or its process is dead: what is under way is lost, and packets
\* of the other side are, until it notices.
LinkLost(l) ==
    /\ linked[l]
    /\ ~linked[Back(l)] \/ dead[l[2]] \/ breaks > 0
    /\ breaks' = IF ~linked[Back(l)] \/ dead[l[2]] THEN breaks ELSE breaks - 1
    /\ linked' = [linked EXCEPT ![l] = FALSE]
    /\ authorized' = [authorized EXCEPT ![l] = FALSE]
    /\ packets' = [packets EXCEPT ![l] = <<>>, ![Back(l)] = <<>>]
    /\ incidents' = incidents \cup {"Lost"}
    /\ OnlyLink

\* The friends are connected again, and then authenticate each other.
LinkMade(l) ==
    /\ ~linked[l] /\ ~linked[Back(l)] /\ ~dead[l[1]] /\ ~dead[l[2]]
    /\ linked' = [linked EXCEPT ![l] = TRUE, ![Back(l)] = TRUE]
    /\ OnlyLink /\ UNCHANGED <<packets, authorized, breaks, incidents>>

Authorized(l) ==
    /\ linked[l] /\ linked[Back(l)] /\ ~authorized[l]
    /\ authorized' = [authorized EXCEPT ![l] = TRUE]
    /\ OnlyLink /\ UNCHANGED <<packets, linked, breaks, incidents>>

-----------------------------------------------------------------------------

Init ==
    /\ call = [l \in Pair |-> "NotCalling"] /\ window = [l \in Pair |-> "NotCalling"]
    /\ calling = [u \in User |-> None]
    /\ packets = [l \in Pair |-> <<>>]
    /\ telling = [u \in User |-> Idle] /\ clicking = [u \in User |-> Idle]
    /\ signals = [u \in User |-> <<>>] /\ recording = [u \in User |-> FALSE]
    /\ linked = [l \in Pair |-> TRUE] /\ authorized = [l \in Pair |-> TRUE]
    /\ dead = [u \in User |-> FALSE]
    /\ \E b \in Bounds : clicks = b.clicks /\ breaks = b.breaks
    /\ wanted = [l \in Pair |-> FALSE] /\ incidents = {}

Next ==
    \/ \E u \in User : EventThread(u) \/ WindowThread(u) \/ Click(u)
    \/ \E l \in Pair : LinkLost(l) \/ LinkMade(l) \/ Authorized(l)

Spec == Init /\ [][Next]_vars

-----------------------------------------------------------------------------
(* Properties *)

\* Every variable holds values of its type.
TypeOK ==
    /\ call \in [Pair -> CallStatus] /\ window \in [Pair -> CallStatus]
    /\ calling \in [User -> User \cup {None}]
    /\ packets \in [Pair -> Seq(Packet)]
    /\ telling \in [User -> Task \cup {Idle}] /\ clicking \in [User -> Task \cup {Idle}]
    /\ signals \in [User -> Seq([friend: User, status: CallStatus])]
    /\ recording \in [User -> BOOLEAN]
    /\ linked \in [Pair -> BOOLEAN] /\ authorized \in [Pair -> BOOLEAN]
    /\ dead \in [User -> BOOLEAN] /\ clicks \in [User -> Nat] /\ breaks \in Nat
    /\ wanted \in [Pair -> BOOLEAN] /\ incidents \subseteq {"Lost", "Raced", "Stale"}

\* Nothing is left to do for a user, nor between two friends.
Quiet(u) == telling[u] = Idle /\ clicking[u] = Idle /\ signals[u] = <<>>
QuietLink(l) ==
    Quiet(l[1]) /\ Quiet(l[2]) /\ packets[l] = <<>> /\ packets[Back(l)] = <<>>

\* However requests, answers and drops of both friends cross (friend.cpp:389-405), also when
\* the user clicked on what was not true any more, but over a link that lasts and with no two
\* threads in a call at once ("Lost" and "Raced" are excluded: then it is false): once all is handled, who waits for an
\* answer is ringing at the friend, and nobody talks to a friend who shows no call.  A friend
\* may be ringing while the other already talks: a request that crosses a drop is a new call.
CallsAgree ==
    incidents \subseteq {"Stale"} => \A l \in Pair : QuietLink(l) =>
        /\ call[l] = "WaitingFriendConfirm" => call[Back(l)] = "WaitingSelfConfirm"
        /\ call[l] = "Established" => call[Back(l)] \in {"Established", "WaitingSelfConfirm"}

\* The window, which assumes what a click will do and learns the rest by signals, finally
\* shows CallStatus (chat_window.cpp:99-117), as long as no incident has happened: a signal
\* that was queued before a click overwrites what the click has shown ("Stale").
WindowShowsCall ==
    incidents = {} => \A l \in Pair : Quiet(l[1]) => window[l] = call[l]

\* The microphone is sent to a friend only if the user has called or accepted, and neither
\* of the two has hung up since, whatever the friend sends; not when a click and a packet
\* assigned CallStatus at once ("Raced"), or a drop was lost with the link ("Lost").
TalksWhenWanted ==
    incidents \subseteq {"Stale"} =>
    \A l \in Pair : Quiet(l[1]) /\ Talking(l[1], l[2]) => wanted[l]

\* CallingFriend and the recorder are one for all friends, and the calls with each set and
\* reset them (friend.cpp:167, 188, 396, 403; application.cpp:34-78): in whatever order calls
\* with several friends start and end in both threads, once all is told the sound goes only to
\* a friend with whom a call is established, unless both threads were at work at once, and
\* nothing is recorded when there is no call, as long as no incident has happened.  It may go
\* to nobody although a call is established: the end of any call resets CallingFriend.
MicrophoneFollowsCalls ==
    \A u \in User : Quiet(u) =>
        /\ "Raced" \notin incidents /\ calling[u] # None => call[<<u, calling[u]>>] = "Established"
        /\ incidents = {} /\ recording[u] => \E f \in Friends[u] : call[<<u, f>>] = "Established"
=============================================================================
