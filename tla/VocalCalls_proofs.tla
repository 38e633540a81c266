-------------------------- MODULE VocalCalls_proofs --------------------------
(***************************************************************************)
(* Proofs about VocalCalls, for every number of users and friends, clicks  *)
(* and broken links.                                                       *)
(***************************************************************************)
EXTENDS VocalCalls, SequenceTheorems, TLAPS

-----------------------------------------------------------------------------
(* Pairs and sequences *)

\* Friends are pairs, in both directions.
LEMMA Pairs ==
    /\ \A u \in User : \A f \in Friends[u] : f \in User /\ <<u, f>> \in Pair /\ <<f, u>> \in Pair
    /\ \A l \in Pair : Back(l) \in Pair /\ l = <<l[1], l[2]>> /\ Back(l) = <<l[2], l[1]>>
                       /\ l[1] \in User /\ l[2] \in User /\ l[2] \in Friends[l[1]]
                       /\ Back(Back(l)) = l /\ Back(l) # l
<1>2. ASSUME NEW u \in User, NEW f \in Friends[u]
      PROVE  f \in User /\ <<u, f>> \in Pair /\ <<f, u>> \in Pair
  <2>1. f \in User
    BY CallsAssumption
  <2>2. u \in Friends[f]
    BY <2>1, CallsAssumption
  <2> QED
    BY <2>1, <2>2 DEF Pair
<1>3. ASSUME NEW l \in Pair
      PROVE  /\ Back(l) \in Pair /\ l = <<l[1], l[2]>> /\ Back(l) = <<l[2], l[1]>>
             /\ l[1] \in User /\ l[2] \in User /\ l[2] \in Friends[l[1]]
             /\ Back(Back(l)) = l /\ Back(l) # l
  <2>1. l = <<l[1], l[2]>> /\ l[1] \in User /\ l[2] \in Friends[l[1]]
    BY DEF Pair
  <2>2. l[2] \in User /\ l[1] # l[2]
    BY <2>1, CallsAssumption
  <2> QED
    BY <1>2, <2>1, <2>2 DEF Back
<1> QED
  BY <1>2, <1>3

\* A sequence with an element more.
LEMMA Appended ==
    ASSUME NEW S, NEW q \in Seq(S), NEW e \in S
    PROVE  /\ Append(q, e) \in Seq(S) /\ Len(Append(q, e)) = Len(q) + 1 /\ Len(q) \in Nat
           /\ Append(q, e) # <<>>
           /\ \A i \in 1..Len(q) : Append(q, e)[i] = q[i]
           /\ Append(q, e)[Len(q) + 1] = e
BY AppendProperties

\* And without its first.
LEMMA Rest ==
    ASSUME NEW S, NEW q \in Seq(S), q # <<>>
    PROVE  /\ Tail(q) \in Seq(S) /\ Len(Tail(q)) = Len(q) - 1 /\ Len(q) \in Nat \ {0}
           /\ Head(q) = q[1] /\ q[1] \in S
           /\ \A i \in 1..Len(Tail(q)) : Tail(q)[i] = q[i + 1]
BY HeadTailProperties, EmptySeq

-----------------------------------------------------------------------------
(* Types *)

\* What the threads still have to do is about friends.
OfFriends ==
    \A u \in User :
        /\ telling[u] # Idle => telling[u].friend \in Friends[u] /\ telling[u].step = "Tell"
        /\ clicking[u] # Idle => clicking[u].friend \in Friends[u]
        /\ \A i \in 1..Len(signals[u]) : signals[u][i].friend \in Friends[u]

Signal == [friend: User, status: CallStatus]

\* Every step keeps types.
LEMMA TypeStep == TypeOK /\ OfFriends /\ [Next]_vars => TypeOK' /\ OfFriends'
<1> SUFFICES ASSUME TypeOK, OfFriends, [Next]_vars
             PROVE  TypeOK' /\ OfFriends'
  OBVIOUS
<1> USE DEF TypeOK, OfFriends, linkVars
<1>a. \A u \in User : \A f \in Friends[u] : f \in User /\ <<u, f>> \in Pair /\ <<f, u>> \in Pair
  BY Pairs
<1>b. \A f \in User, to \in CallStatus :
        /\ [friend |-> f, to |-> to, step |-> "Tell"] \in Task
        /\ [friend |-> f, to |-> to, step |-> "Assign"] \in Task
  BY DEF Task
<1>c. {"NotCalling", "WaitingFriendConfirm", "WaitingSelfConfirm", "Established"} = CallStatus
  BY DEF CallStatus
<1>e. \A l \in Pair, p \in Packet : Sent(l, p) => packets' \in [Pair -> Seq(Packet)]
  BY Appended DEF Sent
<1>f. {"CallRequest", "CallDrop"} = Packet
  BY DEF Packet
<1>1. ASSUME NEW u \in User, NEW f \in Friends[u], NEW p \in Packet, Receive(u, f, p)
      PROVE  /\ packets' \in [Pair -> Seq(Packet)]
             /\ incidents' \subseteq {"Lost", "Raced", "Stale"}
             /\ UNCHANGED <<calling, clicking, signals, window, recording, linkVars, dead, clicks>>
  <2>1. <<f, u>> \in Pair /\ packets[<<f, u>>] # <<>>
    BY <1>1, <1>a DEF Receive
  <2>2. Tail(packets[<<f, u>>]) \in Seq(Packet)
    BY <2>1, Rest
  <2> QED
    BY <1>1, <2>1, <2>2 DEF Receive
<1>2. ASSUME NEW u \in User, NEW f \in Friends[u], OnCallRequest(u, f) \/ OnCallDrop(u, f)
      PROVE  TypeOK' /\ OfFriends'
  <2>1. PICK p \in Packet : Receive(u, f, p)
    BY <1>2, <1>f DEF OnCallRequest, OnCallDrop
  <2>2. /\ call' \in [Pair -> CallStatus] /\ telling' \in [User -> Task \cup {Idle}]
        /\ \A v \in User : telling'[v] # Idle =>
              telling'[v].friend \in Friends[v] /\ telling'[v].step = "Tell"
    <3>1. CASE UNCHANGED <<call, telling>>
      BY <3>1
    <3>2. ASSUME NEW to \in CallStatus, Becomes(u, f, to)
          PROVE  /\ call' \in [Pair -> CallStatus] /\ telling' \in [User -> Task \cup {Idle}]
                 /\ \A v \in User : telling'[v] # Idle =>
                       telling'[v].friend \in Friends[v] /\ telling'[v].step = "Tell"
      <4>1. call' \in [Pair -> CallStatus]
        BY <3>2 DEF Becomes
      <4>2. PICK t \in Task : telling' = [telling EXCEPT ![u] = t] /\ t.friend = f /\ t.step = "Tell"
        <5> DEFINE t == [friend |-> f, to |-> to, step |-> "Tell"]
        <5>1. t \in Task /\ t.friend = f /\ t.step = "Tell"
          BY <1>a, <1>b
        <5>2. telling' = [telling EXCEPT ![u] = t]
          BY <3>2 DEF Becomes
        <5> QED
          BY <5>1, <5>2
      <4> QED
        BY <4>1, <4>2
    <3> QED
      BY <1>2, <1>c, <3>1, <3>2 DEF OnCallRequest, OnCallDrop
  <2>3. wanted' \in [Pair -> BOOLEAN]
    BY <1>2 DEF OnCallRequest, OnCallDrop
  <2> QED
    BY <2>1, <1>1, <2>2, <2>3
<1>3. ASSUME NEW u \in User, EventThreadTells(u)
      PROVE  TypeOK' /\ OfFriends'
  <2> DEFINE t == telling[u]
             e == [friend |-> t.friend, status |-> call[<<u, t.friend>>]]
  <2>1. t \in Task /\ t.friend \in Friends[u] /\ t.friend \in User /\ <<u, t.friend>> \in Pair
    BY <1>3, <1>a DEF EventThreadTells
  <2>2. calling' \in [User -> User \cup {None}]
    BY <1>3, <2>1 DEF EventThreadTells, SetFriendCalling
  <2>3. e \in Signal /\ signals[u] \in Seq(Signal)
    BY <2>1 DEF Signal
  <2>4. /\ signals' = [signals EXCEPT ![u] = Append(@, e)]
        /\ telling' = [telling EXCEPT ![u] = Idle]
    BY <1>3 DEF EventThreadTells
  <2> HIDE DEF e
  <2>5. /\ signals'[u] \in Seq(Signal) /\ \A i \in 1..Len(signals'[u]) : signals'[u][i].friend \in Friends[u]
    <3>1. e.friend \in Friends[u]
      BY <2>1 DEF e
    <3>2. \A i \in 1..Len(Append(signals[u], e)) : i \in 1..Len(signals[u]) \/ i = Len(signals[u]) + 1
      BY <2>3, Appended
    <3> QED
      BY <2>3, <2>4, <3>1, <3>2, Appended
  <2>6. signals' \in [User -> Seq(Signal)]
    BY <2>4, <2>5 DEF Signal
  <2>7. UNCHANGED <<call, packets, clicking, window, recording, linkVars, dead, clicks, wanted, incidents>>
    BY <1>3 DEF EventThreadTells
  <2> QED
    BY <2>2, <2>4, <2>5, <2>6, <2>7 DEF Signal
<1>4. ASSUME NEW u \in User, ShowSignal(u)
      PROVE  TypeOK' /\ OfFriends'
  <2>1. signals[u] \in Seq(Signal) /\ signals[u] # <<>>
    BY <1>4 DEF ShowSignal, Signal
  <2>2. /\ Head(signals[u]) \in Signal /\ Head(signals[u]).friend \in Friends[u]
        /\ Tail(signals[u]) \in Seq(Signal)
    <3>1. Head(signals[u]) = signals[u][1] /\ 1 \in 1..Len(signals[u])
      BY <2>1, Rest
    <3> QED
      BY <2>1, <3>1, Rest
  <2>3. window' \in [Pair -> CallStatus] /\ recording' \in [User -> BOOLEAN]
    BY <1>4, <1>a, <2>2 DEF ShowSignal, Shown, Signal
  <2>4. signals' = [signals EXCEPT ![u] = Tail(@)]
    BY <1>4 DEF ShowSignal
  <2>5. \A i \in 1..Len(signals'[u]) : signals'[u][i].friend \in Friends[u]
    <3>1. \A i \in 1..Len(Tail(signals[u])) : i + 1 \in 1..Len(signals[u])
                                            /\ Tail(signals[u])[i] = signals[u][i + 1]
      BY <2>1, Rest
    <3> QED
      BY <2>4, <3>1
  <2>6. signals' \in [User -> Seq(Signal)]
    BY <2>2, <2>4 DEF Signal
  <2>7. UNCHANGED <<call, calling, packets, telling, clicking, linkVars, dead, clicks, wanted, incidents>>
    BY <1>4 DEF ShowSignal
  <2> QED
    BY <2>3, <2>4, <2>5, <2>6, <2>7 DEF Signal
<1>5. ASSUME NEW u \in User, NEW f \in Friends[u], StartCall(u, f) \/ FinishCall(u, f)
      PROVE  TypeOK' /\ OfFriends'
  <2>1. PICK shown \in CallStatus : Clicked(u, f, shown)
    BY <1>5, <1>c DEF StartCall, FinishCall
  <2>2. packets' \in [Pair -> Seq(Packet)]
    BY <1>5, <1>a, <1>e, <1>f DEF StartCall, FinishCall
  <2>3. clicking' = clicking \/ \E to \in CallStatus : Then(u, f, to)
    BY <1>5, <1>c DEF StartCall, FinishCall
  <2>4. /\ clicking' \in [User -> Task \cup {Idle}]
        /\ \A v \in User : clicking'[v] # Idle => clicking'[v].friend \in Friends[v]
    <3>1. CASE clicking' = clicking
      BY <3>1
    <3>2. ASSUME NEW to \in CallStatus, Then(u, f, to)
          PROVE  /\ clicking' \in [User -> Task \cup {Idle}]
                 /\ \A v \in User : clicking'[v] # Idle => clicking'[v].friend \in Friends[v]
      <4>1. PICK t \in Task : clicking' = [clicking EXCEPT ![u] = t] /\ t.friend = f
        <5> DEFINE t == [friend |-> f, to |-> to, step |-> "Assign"]
        <5>1. t \in Task /\ t.friend = f
          BY <1>a, <1>b
        <5>2. clicking' = [clicking EXCEPT ![u] = t]
          BY <3>2 DEF Then
        <5> QED
          BY <5>1, <5>2
      <4> QED
        BY <4>1
    <3> QED
      BY <2>3, <3>1, <3>2
  <2>5. wanted' \in [Pair -> BOOLEAN]
    BY <1>5, <1>a DEF StartCall, FinishCall
  <2>6. window' \in [Pair -> CallStatus] /\ clicks' \in [User -> Nat]
        /\ incidents' \subseteq {"Lost", "Raced", "Stale"}
    <3>1. clicks[u] - 1 \in Nat
      BY <2>1 DEF Clicked
    <3>2. window' = [window EXCEPT ![<<u, f>>] = shown] /\ clicks' = [clicks EXCEPT ![u] = @ - 1]
      BY <2>1 DEF Clicked
    <3>3. incidents' \subseteq incidents \cup {"Stale", "Raced"}
      BY <2>1 DEF Clicked
    <3> QED
      BY <3>1, <3>2, <3>3
  <2>7. UNCHANGED <<call, calling, telling, signals, recording, linkVars, dead>>
    BY <2>1 DEF Clicked
  <2> QED
    BY <2>2, <2>4, <2>5, <2>6, <2>7
<1>6. ASSUME NEW u \in User, ClickAssigns(u)
      PROVE  TypeOK' /\ OfFriends'
  <2> DEFINE t == clicking[u]
  <2>1. t \in Task /\ t.friend \in Friends[u] /\ t.friend \in User /\ <<u, t.friend>> \in Pair
    BY <1>6, <1>a DEF ClickAssigns
  <2>2. call' \in [Pair -> CallStatus]
    BY <1>6, <2>1 DEF ClickAssigns, Task
  <2>3. [t EXCEPT !.step = "Tell"] \in Task /\ [t EXCEPT !.step = "Tell"].friend = t.friend
    BY <2>1 DEF Task
  <2>4. /\ clicking' \in [User -> Task \cup {Idle}]
        /\ \A v \in User : clicking'[v] # Idle => clicking'[v].friend \in Friends[v]
    BY <1>6, <2>1, <2>3 DEF ClickAssigns
  <2> QED
    BY <1>6, <2>2, <2>4 DEF ClickAssigns
<1>7. ASSUME NEW u \in User, ClickTells(u)
      PROVE  TypeOK' /\ OfFriends'
  <2> DEFINE t == clicking[u]
  <2>1. t \in Task /\ t.friend \in Friends[u] /\ t.friend \in User /\ <<u, t.friend>> \in Pair
    BY <1>7, <1>a DEF ClickTells
  <2>2. calling' \in [User -> User \cup {None}]
    BY <1>7, <2>1 DEF ClickTells, SetFriendCalling
  <2>3. window' \in [Pair -> CallStatus] /\ recording' \in [User -> BOOLEAN]
    BY <1>7, <2>1 DEF ClickTells, Shown
  <2> QED
    BY <1>7, <2>2, <2>3 DEF ClickTells
<1>8. ASSUME NEW u \in User, AudioDies(u)
      PROVE  TypeOK' /\ OfFriends'
  BY <1>8 DEF AudioDies
<1>9. ASSUME NEW l \in Pair, LinkLost(l)
      PROVE  TypeOK' /\ OfFriends'
  <2>1. Back(l) \in Pair /\ <<>> \in Seq(Packet)
    BY Pairs, EmptySeq
  <2>2. packets' \in [Pair -> Seq(Packet)]
    BY <1>9, <2>1 DEF LinkLost
  <2>3. breaks' \in Nat /\ linked' \in [Pair -> BOOLEAN] /\ authorized' \in [Pair -> BOOLEAN]
    BY <1>9 DEF LinkLost
  <2>4. incidents' \subseteq {"Lost", "Raced", "Stale"}
    BY <1>9 DEF LinkLost
  <2> QED
    BY <1>9, <2>2, <2>3, <2>4 DEF LinkLost, OnlyLink
<1>10. ASSUME NEW l \in Pair, LinkMade(l) \/ Authorized(l)
      PROVE  TypeOK' /\ OfFriends'
  BY <1>10, Pairs DEF LinkMade, Authorized, OnlyLink
<1>11. CASE UNCHANGED vars
  BY <1>11 DEF vars
<1> QED
  BY <1>2, <1>3, <1>4, <1>5, <1>6, <1>7, <1>8, <1>9, <1>10, <1>11
     DEF Next, EventThread, WindowThread, Click

-----------------------------------------------------------------------------
(* What a step does to a call *)

\* While no link has broken, friends are connected and authenticated.
AllLinked == "Lost" \notin incidents => \A l \in Pair : linked[l] /\ authorized[l]

\* Every step keeps this.
LEMMA LinkedStep == TypeOK /\ AllLinked /\ [Next]_vars => AllLinked' /\ incidents \subseteq incidents'
<1> SUFFICES ASSUME TypeOK, AllLinked, [Next]_vars
             PROVE  AllLinked' /\ incidents \subseteq incidents'
  OBVIOUS
<1> USE DEF AllLinked, linkVars
<1>1. ASSUME NEW u \in User, EventThread(u) \/ WindowThread(u) \/ Click(u)
      PROVE  UNCHANGED <<linked, authorized>> /\ incidents \subseteq incidents'
  <2>1. ASSUME NEW f \in Friends[u], OnCallRequest(u, f) \/ OnCallDrop(u, f)
        PROVE  UNCHANGED <<linked, authorized>> /\ incidents \subseteq incidents'
    BY <2>1 DEF OnCallRequest, OnCallDrop, Receive
  <2>2. ASSUME NEW f \in Friends[u], StartCall(u, f) \/ FinishCall(u, f)
        PROVE  UNCHANGED <<linked, authorized>> /\ incidents \subseteq incidents'
    BY <2>2 DEF StartCall, FinishCall, Clicked
  <2>3. CASE EventThreadTells(u) \/ WindowThread(u)
    BY <2>3 DEF EventThreadTells, WindowThread, ShowSignal, ClickAssigns, ClickTells, AudioDies
  <2> QED
    BY <1>1, <2>1, <2>2, <2>3 DEF EventThread, Click
<1>2. ASSUME NEW l \in Pair, LinkLost(l)
      PROVE  AllLinked' /\ incidents \subseteq incidents'
  BY <1>2 DEF LinkLost
<1>3. ASSUME NEW l \in Pair, LinkMade(l) \/ Authorized(l)
      PROVE  AllLinked' /\ incidents \subseteq incidents'
  BY <1>3, Pairs DEF LinkMade, Authorized, OnlyLink, TypeOK
<1>4. CASE UNCHANGED vars
  BY <1>4 DEF vars
<1> QED
  BY <1>1, <1>2, <1>3, <1>4 DEF Next

\* CallStatus, as it is when the click under way has assigned it.
Assigning(l) == clicking[l[1]].friend = l[2] /\ clicking[l[1]].step = "Assign"
Effective(l) == IF Assigning(l) THEN clicking[l[1]].to ELSE call[l]

\* CallStatus after a packet.
Ringing(status) ==
    CASE status = "NotCalling" -> "WaitingSelfConfirm"
      [] status = "WaitingFriendConfirm" -> "Established"
      [] OTHER -> status
AfterPacket(status, packet) == IF packet = "CallDrop" THEN "NotCalling" ELSE Ringing(status)

\* The steps of a call of l: a packet is handled, a request or a drop is sent.
Handles(l) ==
    /\ packets[Back(l)] # <<>> /\ packets' = [packets EXCEPT ![Back(l)] = Tail(@)]
    /\ Effective(l)' = AfterPacket(Effective(l), Head(packets[Back(l)]))
    /\ wanted' = IF Head(packets[Back(l)]) = "CallDrop" THEN [wanted EXCEPT ![l] = FALSE] ELSE wanted
Requests(l) ==
    /\ packets' = [packets EXCEPT ![l] = Append(@, "CallRequest")]
    /\ \/ Effective(l) = "NotCalling" /\ Effective(l)' = "WaitingFriendConfirm"
       \/ Effective(l) = "WaitingSelfConfirm" /\ Effective(l)' = "Established"
    /\ wanted' = [wanted EXCEPT ![l] = TRUE]
Drops(l) ==
    /\ packets' = [packets EXCEPT ![l] = Append(@, "CallDrop")]
    /\ Effective(l)' = "NotCalling"
    /\ wanted' = [wanted EXCEPT ![l] = FALSE]
Others(l) == \A k \in Pair : k # l => Effective(k)' = Effective(k)
Nothing ==
    /\ packets' = packets /\ \A k \in Pair : Effective(k)' = Effective(k)
    /\ \A k \in Pair : wanted'[k] = wanted[k] \/ wanted'[k] \/ Effective(k) = "NotCalling"

\* A step that breaks no link and races with none is one of these.
LEMMA CallSteps ==
    ASSUME TypeOK, OfFriends, AllLinked, [Next]_vars, incidents' \subseteq {"Stale"}
    PROVE  \/ \E l \in Pair : (Handles(l) \/ Requests(l) \/ Drops(l)) /\ Others(l)
           \/ Nothing
<1> USE DEF TypeOK, OfFriends, linkVars
<1>a. /\ \A u \in User : \A f \in Friends[u] : f \in User /\ <<u, f>> \in Pair /\ <<f, u>> \in Pair
                                                /\ Back(<<u, f>>) = <<f, u>>
      /\ \A l \in Pair : l[1] \in User /\ l = <<l[1], l[2]>> /\ Back(l) \in Pair
                          /\ l[2] \in User /\ l[2] # None
  BY Pairs, CallsAssumption DEF Back
<1>b. incidents \subseteq {"Stale"} /\ \A l \in Pair : linked[l] /\ authorized[l]
  BY LinkedStep DEF AllLinked
<1>c. /\ Idle.step = "Tell" /\ Idle.friend = None
      /\ \A l \in Pair : clicking[l[1]] = Idle => Effective(l) = call[l]
  BY DEF Idle, Effective, Assigning
<1>d. {"NotCalling", "WaitingFriendConfirm", "WaitingSelfConfirm", "Established"} = CallStatus
  BY DEF CallStatus
<1>1. ASSUME NEW u \in User, NEW f \in Friends[u], OnCallRequest(u, f) \/ OnCallDrop(u, f)
      PROVE  Handles(<<u, f>>) /\ Others(<<u, f>>)
  <2>1. PICK p \in {"CallRequest", "CallDrop"} :
           /\ Receive(u, f, p) /\ (p = "CallRequest" => OnCallRequest(u, f))
           /\ p = "CallDrop" => OnCallDrop(u, f)
    BY <1>1 DEF OnCallRequest, OnCallDrop
  <2>2. /\ packets[<<f, u>>] # <<>> /\ Head(packets[<<f, u>>]) = p
        /\ packets' = [packets EXCEPT ![<<f, u>>] = Tail(@)]
        /\ clicking' = clicking /\ clicking[u] = Idle
    BY <2>1 DEF Receive
  <2>3. call' = [call EXCEPT ![<<u, f>>] = AfterPacket(@, p)]
    <3>1. CASE p = "CallRequest"
      BY <1>a, <1>d, <2>1, <3>1 DEF OnCallRequest, Becomes, AfterPacket, Ringing
    <3>2. CASE p = "CallDrop"
      BY <1>a, <1>d, <2>1, <3>2 DEF OnCallDrop, Becomes, AfterPacket
    <3> QED
      BY <2>1, <3>1, <3>2
  <2>4. \A k \in Pair : /\ k # <<u, f>> => Effective(k)' = Effective(k)
                        /\ k = <<u, f>> => Effective(k)' = call'[k] /\ Effective(k) = call[k]
    BY <1>c, <2>2, <2>3 DEF Effective, Assigning
  <2>5. wanted' = IF p = "CallDrop" THEN [wanted EXCEPT ![<<u, f>>] = FALSE] ELSE wanted
    BY <2>1 DEF OnCallRequest, OnCallDrop
  <2>6. Others(<<u, f>>)
    BY <2>4 DEF Others
  <2>7. Effective(<<u, f>>)' = AfterPacket(Effective(<<u, f>>), p)
    <3>1. <<u, f>> \in Pair /\ call'[<<u, f>>] = AfterPacket(call[<<u, f>>], p)
      BY <1>a, <2>3
    <3>2. Effective(<<u, f>>)' = call'[<<u, f>>] /\ Effective(<<u, f>>) = call[<<u, f>>]
      BY <2>4, <3>1
    <3> QED
      BY <3>1, <3>2
  <2> QED
    BY <1>a, <2>2, <2>5, <2>6, <2>7 DEF Handles
<1>2. ASSUME NEW u \in User, NEW f \in Friends[u], StartCall(u, f) \/ FinishCall(u, f)
      PROVE  ((Requests(<<u, f>>) \/ Drops(<<u, f>>)) /\ Others(<<u, f>>)) \/ Nothing
  <2> DEFINE l == <<u, f>>
  <2>1. /\ l \in Pair /\ clicking[u] = Idle /\ call' = call /\ linked[l] /\ linked[Back(l)] /\ authorized[l]
        /\ l[1] = u /\ l[2] = f
    BY <1>2, <1>a, <1>b DEF StartCall, FinishCall, Clicked, WindowThreadFree
  <2>2. ASSUME NEW to \in CallStatus, Then(u, f, to)
        PROVE  Effective(l)' = to /\ Effective(l) = call[l] /\ Others(l)
    <3>1. clicking' = [clicking EXCEPT ![u] = [friend |-> f, to |-> to, step |-> "Assign"]]
      BY <2>2 DEF Then
    <3>2. Effective(l)' = to
      BY <2>1, <3>1 DEF Effective, Assigning
    <3>3. ASSUME NEW k \in Pair, k # l
          PROVE  Effective(k)' = Effective(k)
      <4>1. CASE k[1] = u
        <5>1. k[2] # f
          BY <1>a, <3>3, <4>1
        <5> QED
          BY <1>c, <2>1, <3>1, <4>1, <5>1 DEF Effective, Assigning
      <4>2. CASE k[1] # u
        BY <1>a, <2>1, <3>1, <4>2 DEF Effective, Assigning
      <4> QED
        BY <4>1, <4>2
    <3> QED
      BY <1>c, <2>1, <3>2, <3>3 DEF Others
  <2>3. CASE StartCall(u, f) /\ call[l] \in {"NotCalling", "WaitingSelfConfirm"}
    <3> DEFINE to == IF call[l] = "NotCalling" THEN "WaitingFriendConfirm" ELSE "Established"
    <3>1. /\ packets' = [packets EXCEPT ![l] = Append(@, "CallRequest")]
          /\ Then(u, f, to) /\ wanted' = [wanted EXCEPT ![l] = TRUE]
      BY <2>1, <2>3 DEF StartCall, Sent
    <3>2. to \in CallStatus
      BY <1>d
    <3>3. Effective(l)' = to /\ Effective(l) = call[l] /\ Others(l)
      BY <2>2, <3>1, <3>2
    <3> QED
      BY <2>3, <3>1, <3>3 DEF Requests
  <2>4. CASE FinishCall(u, f) /\ call[l] # "NotCalling"
    <3>1. /\ packets' = [packets EXCEPT ![l] = Append(@, "CallDrop")]
          /\ Then(u, f, "NotCalling") /\ wanted' = [wanted EXCEPT ![l] = FALSE]
      BY <2>1, <2>4 DEF FinishCall, Sent
    <3>2. Effective(l)' = "NotCalling" /\ Others(l)
      BY <1>d, <2>2, <3>1
    <3> QED
      BY <3>1, <3>2 DEF Drops
  <2>5. CASE \/ StartCall(u, f) /\ call[l] \notin {"NotCalling", "WaitingSelfConfirm"}
             \/ FinishCall(u, f) /\ call[l] = "NotCalling"
    <3>1. /\ UNCHANGED <<packets, clicking>>
          /\ wanted' = [wanted EXCEPT ![l] = TRUE] \/ call[l] = "NotCalling"
          /\ \A k \in Pair : k # l => wanted'[k] = wanted[k]
      BY <2>1, <2>5 DEF StartCall, FinishCall
    <3>2. \A k \in Pair : Effective(k)' = Effective(k)
      BY <2>1, <3>1 DEF Effective, Assigning
    <3>3. Effective(l) = call[l]
      BY <1>c, <2>1
    <3> QED
      BY <2>1, <3>1, <3>2, <3>3 DEF Nothing
  <2> QED
    BY <1>2, <2>3, <2>4, <2>5
<1>3. ASSUME NEW u \in User, ClickAssigns(u)
      PROVE  Nothing
  <2> DEFINE t == clicking[u]
  <2>1. /\ t \in Task /\ t.step = "Assign" /\ t.friend \in Friends[u] /\ <<u, t.friend>> \in Pair
        /\ UNCHANGED <<packets, wanted>>
        /\ call' = [call EXCEPT ![<<u, t.friend>>] = t.to]
    BY <1>3, <1>a DEF ClickAssigns
  <2>2. clicking' = [clicking EXCEPT ![u] = clicking'[u]] /\ clicking'[u].step = "Tell"
    BY <1>3, <1>c, <2>1 DEF ClickAssigns, Task
  <2>3. ASSUME NEW k \in Pair
        PROVE  Effective(k)' = Effective(k)
    <3>1. CASE k[1] = u /\ k[2] = t.friend
      <4>1. k = <<u, t.friend>>
        BY <1>a, <3>1
      <4>2. call'[k] = t.to
        BY <2>1, <4>1
      <4> QED
        BY <2>1, <2>2, <3>1, <4>2 DEF Effective, Assigning
    <3>2. CASE ~(k[1] = u /\ k[2] = t.friend)
      <4>1. k # <<u, t.friend>>
        BY <3>2
      <4>2. call'[k] = call[k]
        BY <2>1, <4>1
      <4> QED
        BY <1>a, <2>1, <2>2, <3>2, <4>2 DEF Effective, Assigning
    <3> QED
      BY <3>1, <3>2
  <2> QED
    BY <2>1, <2>3 DEF Nothing
<1>4. ASSUME NEW u \in User, ClickTells(u)
      PROVE  Nothing
  <2>1. /\ UNCHANGED <<call, packets, wanted>> /\ clicking[u].step = "Tell"
        /\ clicking' = [clicking EXCEPT ![u] = Idle]
    BY <1>4 DEF ClickTells
  <2>2. \A k \in Pair : Effective(k)' = Effective(k)
    BY <1>a, <1>c, <2>1 DEF Effective, Assigning
  <2> QED
    BY <2>1, <2>2 DEF Nothing
<1>5. ASSUME UNCHANGED <<call, packets, clicking, wanted>>
      PROVE  Nothing
  BY <1>5 DEF Nothing, Effective, Assigning
<1>6. ASSUME NEW u \in User, EventThreadTells(u) \/ ShowSignal(u) \/ AudioDies(u)
      PROVE  Nothing
  BY <1>5, <1>6 DEF EventThreadTells, ShowSignal, AudioDies
<1>7. ASSUME NEW l \in Pair, LinkLost(l) \/ LinkMade(l) \/ Authorized(l)
      PROVE  Nothing
  <2>1. ASSUME LinkLost(l)
        PROVE  FALSE
    <3>1. "Lost" \in incidents'
      BY <2>1 DEF LinkLost
    <3> QED
      BY <3>1
  <2> QED
    BY <1>5, <1>7, <2>1 DEF LinkMade, Authorized, OnlyLink
<1>8. CASE UNCHANGED vars
  BY <1>5, <1>8 DEF vars
<1> QED
  BY <1>a, <1>1, <1>2, <1>3, <1>4, <1>6, <1>7, <1>8 DEF Next, EventThread, WindowThread, Click

-----------------------------------------------------------------------------
(* Wanted calls *)

\* Who calls or talks wants to, from the click until either hangs up.
Wanted ==
    incidents \subseteq {"Stale"} => \A l \in Pair :
        Effective(l) \in {"WaitingFriendConfirm", "Established"} => wanted[l]

\* Every step keeps this.
LEMMA WantedStep ==
    TypeOK /\ OfFriends /\ AllLinked /\ Wanted /\ [Next]_vars => Wanted'
<1> SUFFICES ASSUME TypeOK, OfFriends, AllLinked, Wanted, [Next]_vars, incidents' \subseteq {"Stale"},
                    NEW k \in Pair,
                    Effective(k)' \in {"WaitingFriendConfirm", "Established"}
             PROVE  wanted'[k]
  BY DEF Wanted
<1>1. Effective(k) \in {"WaitingFriendConfirm", "Established"} => wanted[k]
  BY LinkedStep DEF Wanted
<1>2. wanted \in [Pair -> BOOLEAN]
  BY DEF TypeOK
<1>3. ASSUME NEW l \in Pair, Handles(l), Others(l)
      PROVE  wanted'[k]
  <2>1. CASE k = l
    <3>1. /\ Head(packets[Back(l)]) # "CallDrop"
          /\ Effective(l) \in {"WaitingFriendConfirm", "Established"}
      BY <1>3, <2>1 DEF Handles, AfterPacket, Ringing
    <3> QED
      BY <1>1, <1>3, <2>1, <3>1 DEF Handles
  <2>2. CASE k # l
    BY <1>1, <1>2, <1>3, <2>2 DEF Handles, Others
  <2> QED
    BY <2>1, <2>2
<1>4. ASSUME NEW l \in Pair, Requests(l), Others(l)
      PROVE  wanted'[k]
  BY <1>1, <1>2, <1>4 DEF Requests, Others
<1>5. ASSUME NEW l \in Pair, Drops(l), Others(l)
      PROVE  wanted'[k]
  BY <1>1, <1>2, <1>5 DEF Drops, Others
<1>6. CASE Nothing
  BY <1>1, <1>6 DEF Nothing
<1> QED
  BY <1>3, <1>4, <1>5, <1>6, CallSteps

-----------------------------------------------------------------------------
(* Calls of two friends *)

\* CallStatus after all packets under way: the last drop ends what was before, and a request
\* after it is a new call.  One request does what many do.
Dropped(q) == \E i \in 1..Len(q) : q[i] = "CallDrop"
AfterAll(status, q) ==
    CASE q = <<>> -> status
      [] q # <<>> /\ ~Dropped(q) -> Ringing(status)
      [] Dropped(q) -> IF q[Len(q)] = "CallDrop" THEN "NotCalling" ELSE "WaitingSelfConfirm"

\* A packet more, and the first packet less.
LEMMA AfterAppended ==
    ASSUME NEW q \in Seq(Packet), NEW p \in Packet, NEW status \in CallStatus
    PROVE  AfterAll(status, Append(q, p)) = AfterPacket(AfterAll(status, q), p)
<1> DEFINE r == Append(q, p)
<1>1. /\ Len(r) = Len(q) + 1 /\ Len(q) \in Nat /\ r # <<>> /\ r[Len(q) + 1] = p
      /\ \A i \in 1..Len(q) : r[i] = q[i]
  BY Appended
<1> HIDE DEF r
<1>2. Dropped(r) <=> Dropped(q) \/ p = "CallDrop"
  <2>1. \A i \in 1..Len(r) : i \in 1..Len(q) \/ i = Len(q) + 1
    BY <1>1
  <2>2. \A i \in 1..Len(q) : i \in 1..Len(r)
    BY <1>1
  <2>3. Len(q) + 1 \in 1..Len(r)
    BY <1>1
  <2> QED
    BY <1>1, <2>1, <2>2, <2>3 DEF Dropped
<1>3. r[Len(r)] = p
  BY <1>1
<1>4. p = "CallDrop" \/ p = "CallRequest"
  BY DEF Packet
<1>5. CASE p = "CallDrop"
  <2>1. AfterAll(status, r) = "NotCalling"
    BY <1>1, <1>2, <1>3, <1>5 DEF AfterAll
  <2> QED
    BY <1>5, <2>1 DEF AfterPacket, r
<1>6. CASE p = "CallRequest"
  <2>1. CASE Dropped(q)
    <3>1. q # <<>>
      BY <2>1 DEF Dropped
    <3>2. AfterAll(status, q) \in {"NotCalling", "WaitingSelfConfirm"}
      BY <2>1, <3>1 DEF AfterAll
    <3>3. AfterAll(status, r) = "WaitingSelfConfirm"
      BY <1>1, <1>2, <1>3, <1>6, <2>1 DEF AfterAll
    <3> QED
      BY <1>6, <3>2, <3>3 DEF AfterPacket, Ringing, r
  <2>2. CASE ~Dropped(q)
    <3>1. AfterAll(status, r) = Ringing(status)
      BY <1>1, <1>2, <1>6, <2>2 DEF AfterAll
    <3>2. AfterAll(status, q) \in {status, Ringing(status)}
      BY <2>2 DEF AfterAll
    <3>3. Ringing(Ringing(status)) = Ringing(status)
      BY DEF Ringing, CallStatus
    <3> QED
      BY <1>6, <3>1, <3>2, <3>3 DEF AfterPacket, r
  <2> QED
    BY <2>1, <2>2
<1> QED
  BY <1>4, <1>5, <1>6 DEF r

LEMMA AfterFirst ==
    ASSUME NEW q \in Seq(Packet), q # <<>>, NEW status \in CallStatus
    PROVE  AfterAll(AfterPacket(status, Head(q)), Tail(q)) = AfterAll(status, q)
<1> DEFINE r == Tail(q)
<1>1. /\ r \in Seq(Packet) /\ Len(r) = Len(q) - 1 /\ Len(q) \in Nat \ {0} /\ Head(q) = q[1] /\ q[1] \in Packet
      /\ \A i \in 1..Len(r) : r[i] = q[i + 1]
  BY Rest
<1> HIDE DEF r
<1>2. Dropped(q) <=> Dropped(r) \/ Head(q) = "CallDrop"
  <2>1. \A i \in 1..Len(q) : i = 1 \/ (i - 1 \in 1..Len(r) /\ r[i - 1] = q[i])
    <3>1. ASSUME NEW i \in 1..Len(q), i # 1
          PROVE  i - 1 \in 1..Len(r) /\ r[i - 1] = q[i]
      <4>1. i - 1 \in 1..Len(r) /\ (i - 1) + 1 = i
        BY <1>1, <3>1
      <4> QED
        BY <1>1, <4>1
    <3> QED
      BY <3>1
  <2>2. \A i \in 1..Len(r) : i + 1 \in 1..Len(q) /\ r[i] = q[i + 1]
    BY <1>1
  <2>3. 1 \in 1..Len(q)
    BY <1>1
  <2> QED
    BY <1>1, <2>1, <2>2, <2>3 DEF Dropped
<1>3. r # <<>> => r[Len(r)] = q[Len(q)]
  <2>1. ASSUME r # <<>>
        PROVE  Len(r) \in 1..Len(r) /\ Len(r) + 1 = Len(q)
    BY <1>1, <2>1, EmptySeq
  <2> QED
    BY <1>1, <2>1
<1>4. r = <<>> => Len(q) = 1 /\ ~Dropped(r)
  <2>1. ASSUME r = <<>>
        PROVE  Len(r) = 0
    BY <2>1
  <2>2. ASSUME Len(r) = 0
        PROVE  Len(q) = 1 /\ ~Dropped(r)
    <3>1. Len(q) = 1
      BY <1>1, <2>2
    <3>2. \A i \in 1..0 : FALSE
      OBVIOUS
    <3>3. 1..Len(r) = 1..0
      BY <2>2
    <3> QED
      BY <3>1, <3>2, <3>3 DEF Dropped
  <2> QED
    BY <2>1, <2>2
<1>5. Head(q) = "CallDrop" \/ Head(q) = "CallRequest"
  BY <1>1 DEF Packet
<1>6. q[Len(q)] \in Packet
  BY <1>1, ElementOfSeq
<1>7. CASE Head(q) = "CallDrop"
  <2>1. AfterPacket(status, Head(q)) = "NotCalling"
    BY <1>7 DEF AfterPacket
  <2>2. CASE r = <<>>
    BY <1>1, <1>2, <1>4, <1>7, <2>1, <2>2 DEF AfterAll, r
  <2>3. CASE r # <<>> /\ Dropped(r)
    BY <1>2, <1>3, <2>3 DEF AfterAll, r
  <2>4. CASE r # <<>> /\ ~Dropped(r)
    <3>1. r[Len(r)] # "CallDrop"
      <4>1. Len(r) \in 1..Len(r)
        BY <1>1, <2>4, EmptySeq
      <4> QED
        BY <2>4, <4>1 DEF Dropped
    <3>2. AfterAll("NotCalling", r) = "WaitingSelfConfirm"
      BY <2>4 DEF AfterAll, Ringing
    <3>3. AfterAll(status, q) = "WaitingSelfConfirm"
      BY <1>2, <1>3, <1>7, <2>4, <3>1 DEF AfterAll
    <3> QED
      BY <2>1, <3>2, <3>3 DEF r
  <2> QED
    BY <2>2, <2>3, <2>4
<1>8. CASE Head(q) = "CallRequest"
  <2>1. AfterPacket(status, Head(q)) = Ringing(status)
    BY <1>8 DEF AfterPacket
  <2>2. CASE Dropped(r)
    <3>1. r # <<>>
      BY <1>4, <2>2
    <3> QED
      BY <1>2, <1>3, <2>2, <3>1 DEF AfterAll, r
  <2>3. CASE ~Dropped(r)
    <3>1. AfterAll(status, q) = Ringing(status)
      BY <1>2, <1>8, <2>3 DEF AfterAll
    <3>2. AfterAll(Ringing(status), r) \in {Ringing(status), Ringing(Ringing(status))}
      BY <2>3 DEF AfterAll
    <3>3. Ringing(Ringing(status)) = Ringing(status)
      BY DEF Ringing, CallStatus
    <3> QED
      BY <2>1, <3>1, <3>2, <3>3 DEF r
  <2> QED
    BY <2>2, <2>3
<1> QED
  BY <1>5, <1>7, <1>8

\* Starting, accepting and ending a call before the packets under way arrive.
LEMMA AfterClick ==
    ASSUME NEW q \in Seq(Packet)
    PROVE  /\ AfterAll("NotCalling", q) \in {"NotCalling", "WaitingSelfConfirm"}
           /\ \A a, b \in CallStatus : Dropped(q) => AfterAll(a, q) = AfterAll(b, q)
           /\ ~Dropped(q) => \A a \in CallStatus :
                 (AfterAll(a, q) = a /\ q = <<>>) \/ (AfterAll(a, q) = Ringing(a) /\ q # <<>>)
BY DEF AfterAll, Ringing, Dropped

\* When all packets under way have arrived.
Finally(l) == AfterAll(Effective(l), packets[Back(l)])

\* Who waits for an answer is ringing at the friend; who talks, talks to one who talks or is
\* ringing.
Match(a, b) ==
    /\ a = "WaitingFriendConfirm" => b = "WaitingSelfConfirm"
    /\ a = "Established" => b \in {"Established", "WaitingSelfConfirm"}

Agree == incidents \subseteq {"Stale"} => \A l \in Pair : Match(Finally(l), Finally(Back(l)))

\* A request and a drop keep this, whatever is under way.
LEMMA MatchRequest ==
    ASSUME NEW q \in Seq(Packet), NEW e \in {"NotCalling", "WaitingSelfConfirm"}, NEW b \in CallStatus,
           Match(AfterAll(e, q), b), Match(b, AfterAll(e, q))
    PROVE  LET n == IF e = "NotCalling" THEN "WaitingFriendConfirm" ELSE "Established"
           IN  Match(AfterAll(n, q), Ringing(b)) /\ Match(Ringing(b), AfterAll(n, q))
<1> DEFINE n == IF e = "NotCalling" THEN "WaitingFriendConfirm" ELSE "Established"
<1>1. e \in CallStatus /\ n \in CallStatus /\ "NotCalling" \in CallStatus
  BY DEF CallStatus
<1>2. CASE Dropped(q)
  <2>1. AfterAll(n, q) = AfterAll(e, q) /\ AfterAll(e, q) \in {"NotCalling", "WaitingSelfConfirm"}
    BY <1>1, <1>2, AfterClick
  <2> QED
    BY <2>1 DEF Match, Ringing, CallStatus
<1>3. CASE ~Dropped(q)
  <2>1. \/ AfterAll(n, q) = n /\ AfterAll(e, q) = e
        \/ AfterAll(n, q) = Ringing(n) /\ AfterAll(e, q) = Ringing(e)
    BY <1>1, <1>3, AfterClick
  <2> QED
    BY <2>1 DEF Match, Ringing, CallStatus
<1> QED
  BY <1>2, <1>3

\* Every step keeps it.
LEMMA AgreeStep ==
    TypeOK /\ OfFriends /\ AllLinked /\ Agree /\ [Next]_vars => Agree'
<1> SUFFICES ASSUME TypeOK, OfFriends, AllLinked, Agree, [Next]_vars, incidents' \subseteq {"Stale"},
                    NEW k \in Pair
             PROVE  Match(Finally(k)', Finally(Back(k))')
  BY DEF Agree
<1>a. \A l \in Pair : Back(l) \in Pair /\ Back(Back(l)) = l /\ Back(l) # l
  BY Pairs
<1>b. \A l \in Pair : Match(Finally(l), Finally(Back(l)))
  BY LinkedStep DEF Agree
<1>c. \A l \in Pair : Effective(l) \in CallStatus /\ packets[l] \in Seq(Packet)
  <2>1. \A l \in Pair : Assigning(l) => clicking[l[1]] \in Task
    BY Pairs DEF Assigning, Idle, TypeOK
  <2> QED
    BY <2>1 DEF Effective, TypeOK, Task
<1>d. \A l \in Pair : Finally(l) \in CallStatus
  BY <1>a, <1>c DEF Finally, AfterAll, Ringing, CallStatus
<1>e. \A l, j \in Pair : l # j => Back(l) # Back(j)
  BY <1>a
<1>f. packets \in [Pair -> Seq(Packet)]
  BY DEF TypeOK
<1>1. ASSUME \A l \in Pair : Finally(l)' = Finally(l)
      PROVE  Match(Finally(k)', Finally(Back(k))')
  BY <1>1, <1>a, <1>b
<1>2. ASSUME NEW l \in Pair, Handles(l), Others(l)
      PROVE  Match(Finally(k)', Finally(Back(k))')
  <2>1. packets'[Back(l)] = Tail(packets[Back(l)]) /\ packets[Back(l)] # <<>>
    BY <1>2, <1>a, <1>f DEF Handles
  <2>2. Finally(l)' = Finally(l)
    BY <1>2, <1>a, <1>c, <2>1, AfterFirst DEF Finally, Handles
  <2>3. ASSUME NEW j \in Pair, j # l
        PROVE  Finally(j)' = Finally(j)
    <3>1. packets'[Back(j)] = packets[Back(j)]
      BY <1>2, <1>a, <1>e, <1>f, <2>3 DEF Handles
    <3> QED
      BY <1>2, <2>3, <3>1 DEF Finally, Others
  <2> QED
    BY <1>1, <2>2, <2>3
<1>3. ASSUME NEW l \in Pair, NEW p \in Packet, NEW n, Others(l), Effective(l)' = n,
             packets' = [packets EXCEPT ![l] = Append(@, p)],
             Match(AfterAll(n, packets[Back(l)]), AfterPacket(Finally(Back(l)), p)),
             Match(AfterPacket(Finally(Back(l)), p), AfterAll(n, packets[Back(l)]))
      PROVE  Match(Finally(k)', Finally(Back(k))')
  <2>1. /\ packets'[l] = Append(packets[l], p)
        /\ \A j \in Pair : j # l => packets'[j] = packets[j]
    BY <1>3, <1>f
  <2>2. Finally(l)' = AfterAll(n, packets[Back(l)])
    BY <1>3, <1>a, <2>1 DEF Finally
  <2>3. Finally(Back(l))' = AfterPacket(Finally(Back(l)), p)
    <3>1. Effective(Back(l))' = Effective(Back(l))
      BY <1>3, <1>a DEF Others
    <3>2. AfterAll(Effective(Back(l)), Append(packets[l], p))
             = AfterPacket(AfterAll(Effective(Back(l)), packets[l]), p)
      BY <1>a, <1>c, AfterAppended
    <3> QED
      BY <1>a, <2>1, <3>1, <3>2 DEF Finally
  <2>4. \A j \in Pair : j # l /\ j # Back(l) => Finally(j)' = Finally(j)
    <3>1. ASSUME NEW j \in Pair, j # l, j # Back(l)
          PROVE  Finally(j)' = Finally(j)
      <4>1. Back(j) # l
        BY <1>a, <3>1
      <4> QED
        BY <1>3, <1>a, <2>1, <3>1, <4>1 DEF Finally, Others
    <3> QED
      BY <3>1
  <2>5. CASE k = l \/ k = Back(l)
    BY <1>3, <1>a, <2>2, <2>3, <2>5
  <2>6. CASE k # l /\ k # Back(l)
    <3>1. Back(k) # l /\ Back(k) # Back(l)
      BY <1>a, <2>6
    <3> QED
      BY <1>a, <1>b, <2>4, <2>6, <3>1
  <2> QED
    BY <2>5, <2>6
<1>4. ASSUME NEW l \in Pair, Requests(l), Others(l)
      PROVE  Match(Finally(k)', Finally(Back(k))')
  <2> DEFINE n == IF Effective(l) = "NotCalling" THEN "WaitingFriendConfirm" ELSE "Established"
  <2>1. Effective(l) \in {"NotCalling", "WaitingSelfConfirm"} /\ Effective(l)' = n
    BY <1>4 DEF Requests
  <2>2. Match(Finally(l), Finally(Back(l))) /\ Match(Finally(Back(l)), Finally(l))
    BY <1>a, <1>b
  <2>3. /\ Match(AfterAll(n, packets[Back(l)]), Ringing(Finally(Back(l))))
        /\ Match(Ringing(Finally(Back(l))), AfterAll(n, packets[Back(l)]))
    <3>1. packets[Back(l)] \in Seq(Packet) /\ Finally(Back(l)) \in CallStatus
      BY <1>a, <1>c, <1>d
    <3> QED
      BY <2>1, <2>2, <3>1, MatchRequest DEF Finally
  <2>4. AfterPacket(Finally(Back(l)), "CallRequest") = Ringing(Finally(Back(l)))
    BY DEF AfterPacket
  <2>5. packets' = [packets EXCEPT ![l] = Append(@, "CallRequest")] /\ "CallRequest" \in Packet
    BY <1>4 DEF Requests, Packet
  <2> QED
    BY <1>3, <1>4, <2>1, <2>3, <2>4, <2>5
<1>5. ASSUME NEW l \in Pair, Drops(l), Others(l)
      PROVE  Match(Finally(k)', Finally(Back(k))')
  <2>1. AfterAll("NotCalling", packets[Back(l)]) \in {"NotCalling", "WaitingSelfConfirm"}
    BY <1>a, <1>c, AfterClick
  <2>2. AfterPacket(Finally(Back(l)), "CallDrop") = "NotCalling"
    BY DEF AfterPacket
  <2>3. /\ packets' = [packets EXCEPT ![l] = Append(@, "CallDrop")] /\ "CallDrop" \in Packet
        /\ Effective(l)' = "NotCalling"
    BY <1>5 DEF Drops, Packet
  <2>4. /\ Match(AfterAll("NotCalling", packets[Back(l)]), "NotCalling")
        /\ Match("NotCalling", AfterAll("NotCalling", packets[Back(l)]))
    BY <2>1 DEF Match
  <2> QED
    BY <1>3, <1>5, <2>2, <2>3, <2>4
<1>6. CASE Nothing
  <2>1. \A l \in Pair : Finally(l)' = Finally(l)
    BY <1>6 DEF Nothing, Finally
  <2> QED
    BY <1>1, <2>1
<1> QED
  BY <1>2, <1>4, <1>5, <1>6, CallSteps

-----------------------------------------------------------------------------
(* Windows *)

\* Signals of a friend that the windows have not seen yet, and the last of them.
SignalAt(l, i) == i \in 1..Len(signals[l[1]]) /\ signals[l[1]][i].friend = l[2]
LastSignal(l, i) == SignalAt(l, i) /\ \A j \in Nat : SignalAt(l, j) => j <= i
Told(l) == telling[l[1]].friend = l[2]
Clicking(l) == clicking[l[1]].friend = l[2]

\* The last signal carries CallStatus; without one the window shows it, or will when the click
\* is done.
View(l) ==
    /\ Clicking(l) => \A i \in Nat : ~SignalAt(l, i)
    /\ Clicking(l) /\ clicking[l[1]].step = "Assign" /\ clicking[l[1]].to = "WaitingFriendConfirm"
         => window[l] = "WaitingFriendConfirm"
    /\ ~Told(l) /\ ~Clicking(l) =>
         /\ \A i \in Nat : LastSignal(l, i) => signals[l[1]][i].status = call[l]
         /\ (\A i \in Nat : ~SignalAt(l, i)) => window[l] = call[l]

Views ==
    incidents = {} =>
        /\ \A u \in User : telling[u] = Idle \/ clicking[u] = Idle
        /\ \A l \in Pair : View(l)

\* What leaves all this alone keeps it.
LEMMA ViewKept ==
    ASSUME NEW l \in Pair, View(l), signals'[l[1]] = signals[l[1]],
           telling'[l[1]] = telling[l[1]], clicking'[l[1]] = clicking[l[1]],
           window'[l] = window[l], call'[l] = call[l]
    PROVE  View(l)'
BY DEF View, Told, Clicking, LastSignal, SignalAt

\* Every step keeps it.
LEMMA ViewStep ==
    TypeOK /\ OfFriends /\ AllLinked /\ Views /\ [Next]_vars => Views'
<1> SUFFICES ASSUME TypeOK, OfFriends, AllLinked, Views, [Next]_vars, incidents' = {}
             PROVE  /\ \A u \in User : telling'[u] = Idle \/ clicking'[u] = Idle
                    /\ \A l \in Pair : View(l)'
  BY DEF Views
<1> DEFINE Free == \A u \in User : telling'[u] = Idle \/ clicking'[u] = Idle
<1> USE DEF TypeOK, OfFriends, linkVars
<1>a. /\ \A u \in User : \A f \in Friends[u] : f \in User /\ <<u, f>> \in Pair
      /\ \A l \in Pair : l[1] \in User /\ l = <<l[1], l[2]>> /\ l[2] \in User /\ l[2] # None
                          /\ l[2] \in Friends[l[1]] /\ Back(l) \in Pair
  <2>1. \A u \in User : \A f \in Friends[u] : f \in User /\ <<u, f>> \in Pair
    BY Pairs
  <2>2. \A l \in Pair : /\ l[1] \in User /\ l = <<l[1], l[2]>> /\ l[2] \in User
                        /\ l[2] \in Friends[l[1]] /\ Back(l) \in Pair
    BY Pairs
  <2> QED
    BY <2>1, <2>2, CallsAssumption
<1>b. /\ incidents = {} /\ \A l \in Pair : linked[l] /\ authorized[l]
      /\ \A u \in User : telling[u] = Idle \/ clicking[u] = Idle
      /\ \A l \in Pair : View(l)
  BY LinkedStep DEF AllLinked, Views
<1>c. /\ Idle.step = "Tell" /\ Idle.friend = None
      /\ \A l \in Pair : clicking[l[1]] = Idle => ~Clicking(l)
      /\ \A l \in Pair : telling[l[1]] = Idle => ~Told(l)
  BY <1>a DEF Idle, Clicking, Told
<1>d. {"NotCalling", "WaitingFriendConfirm", "WaitingSelfConfirm", "Established"} = CallStatus
  BY DEF CallStatus
<1>1. ASSUME NEW u \in User, NEW f \in Friends[u], OnCallRequest(u, f) \/ OnCallDrop(u, f)
      PROVE  Free /\ \A l \in Pair : View(l)'
  <2>1. /\ clicking[u] = Idle /\ telling[u] = Idle
        /\ UNCHANGED <<clicking, signals, window>>
    BY <1>1 DEF OnCallRequest, OnCallDrop, Receive, EventThreadFree
  <2>2. \/ UNCHANGED <<call, telling>>
        \/ \E to \in CallStatus : Becomes(u, f, to)
    BY <1>1, <1>d DEF OnCallRequest, OnCallDrop
  <2>3. ASSUME NEW to \in CallStatus, Becomes(u, f, to)
        PROVE  Free /\ \A l \in Pair : View(l)'
    <3>1. /\ call' = [call EXCEPT ![<<u, f>>] = to] /\ telling'[u].friend = f
          /\ \A v \in User : v # u => telling'[v] = telling[v]
      BY <2>3 DEF Becomes
    <3>2. ASSUME NEW l \in Pair
          PROVE  View(l)'
      <4>1. CASE l = <<u, f>>
        <5>1. Told(l)' /\ ~Clicking(l)'
          BY <1>a, <1>c, <2>1, <3>1, <4>1 DEF Told, Clicking
        <5> QED
          BY <5>1 DEF View
      <4>2. CASE l # <<u, f>> /\ l[1] = u
        <5>1. ~Told(l) /\ ~Clicking(l) /\ ~Told(l)' /\ ~Clicking(l)' /\ call'[l] = call[l]
          BY <1>a, <1>c, <2>1, <3>1, <4>2 DEF Told, Clicking
        <5>2. \A i \in Nat : SignalAt(l, i)' = SignalAt(l, i) /\ LastSignal(l, i)' = LastSignal(l, i)
          BY <2>1 DEF SignalAt, LastSignal
        <5> QED
          BY <1>b, <2>1, <5>1, <5>2 DEF View
      <4>3. CASE l[1] # u
        <5>1. l # <<u, f>>
          BY <1>a, <4>3
        <5> QED
          BY <1>a, <1>b, <2>1, <3>1, <4>3, <5>1, ViewKept
      <4> QED
        BY <4>1, <4>2, <4>3
    <3> QED
      BY <1>b, <2>1, <3>1, <3>2
  <2>4. CASE UNCHANGED <<call, telling>>
    BY <1>b, <2>1, <2>4, ViewKept
  <2> QED
    BY <2>2, <2>3, <2>4
<1>2. ASSUME NEW u \in User, EventThreadTells(u)
      PROVE  Free /\ \A l \in Pair : View(l)'
  <2> DEFINE t == telling[u]
             e == [friend |-> t.friend, status |-> call[<<u, t.friend>>]]
  <2>1. /\ t \in Task /\ t # Idle /\ t.friend \in Friends[u] /\ clicking[u] = Idle
        /\ <<u, t.friend>> \in Pair /\ t.friend \in User
    BY <1>2, <1>a, <1>b DEF EventThreadTells
  <2>2. /\ telling' = [telling EXCEPT ![u] = Idle] /\ signals' = [signals EXCEPT ![u] = Append(@, e)]
        /\ UNCHANGED <<call, clicking, window>>
    BY <1>2 DEF EventThreadTells
  <2>3. e \in Signal /\ signals[u] \in Seq(Signal) /\ e.friend = t.friend /\ e.status = call[<<u, t.friend>>]
    BY <2>1 DEF Signal
  <2> HIDE DEF e
  <2>4. /\ Len(signals'[u]) = Len(signals[u]) + 1 /\ Len(signals[u]) \in Nat
        /\ \A i \in 1..Len(signals[u]) : signals'[u][i] = signals[u][i]
        /\ signals'[u][Len(signals[u]) + 1] = e
    BY <2>2, <2>3, Appended
  <2>5. ASSUME NEW l \in Pair
        PROVE  View(l)'
    <3>1. CASE l[1] # u
      BY <1>a, <1>b, <2>2, <3>1, ViewKept
    <3>2. CASE l[1] = u /\ l[2] = t.friend
      <4>1. ~Clicking(l)'
        BY <1>c, <2>1, <2>2, <3>2 DEF Clicking
      <4>0. PICK n \in Nat : n = Len(signals[u]) + 1
        BY <2>4
      <4>2. SignalAt(l, n)'
        BY <2>3, <2>4, <3>2, <4>0 DEF SignalAt
      <4>3. ASSUME NEW i \in Nat, LastSignal(l, i)'
            PROVE  signals'[l[1]][i].status = call'[l]
        <5>1. n <= i
          BY <4>2, <4>3 DEF LastSignal
        <5>4. i <= n
          BY <2>4, <3>2, <4>0, <4>3 DEF LastSignal, SignalAt
        <5>2. i = Len(signals[u]) + 1
          BY <4>0, <5>1, <5>4
        <5>3. l = <<u, t.friend>>
          BY <1>a, <3>2
        <5> QED
          BY <2>2, <2>3, <2>4, <3>2, <5>2, <5>3
      <4> QED
        BY <4>1, <4>2, <4>3 DEF View
    <3>3. CASE l[1] = u /\ l[2] # t.friend
      <4>1. ~Clicking(l)' /\ ~Clicking(l) /\ ~Told(l)
        BY <1>c, <2>1, <2>2, <3>3 DEF Clicking, Told
      <4>2. ASSUME NEW i \in Nat
            PROVE  SignalAt(l, i)' <=> SignalAt(l, i)
        <5>1. i \in 1..Len(signals'[u]) => i \in 1..Len(signals[u]) \/ i = Len(signals[u]) + 1
          BY <2>4
        <5>2. i \in 1..Len(signals[u]) => i \in 1..Len(signals'[u])
          BY <2>4
        <5> QED
          BY <2>3, <2>4, <3>3, <5>1, <5>2 DEF SignalAt
      <4>3. \A i \in Nat : /\ LastSignal(l, i)' <=> LastSignal(l, i)
                           /\ SignalAt(l, i) => signals'[l[1]][i] = signals[l[1]][i]
        BY <2>4, <3>3, <4>2 DEF LastSignal, SignalAt
      <4>4. /\ window'[l] = window[l] /\ call'[l] = call[l] /\ View(l)
        BY <1>b, <2>2
      <4>5. ASSUME NEW i \in Nat, LastSignal(l, i)'
            PROVE  signals'[l[1]][i].status = call'[l]
        <5>1. LastSignal(l, i) /\ SignalAt(l, i)
          BY <4>3, <4>5 DEF LastSignal
        <5> QED
          BY <4>1, <4>3, <4>4, <5>1 DEF View
      <4>6. (\A i \in Nat : ~SignalAt(l, i)') => window'[l] = call'[l]
        BY <4>1, <4>2, <4>4 DEF View
      <4> QED
        BY <4>1, <4>5, <4>6 DEF View
    <3> QED
      BY <3>1, <3>2, <3>3
  <2>6. Free
    BY <1>b, <2>2
  <2> QED
    BY <2>5, <2>6
<1>3. ASSUME NEW u \in User, ShowSignal(u)
      PROVE  Free /\ \A l \in Pair : View(l)'
  <2> DEFINE q == signals[u]
             h == <<u, q[1].friend>>
  <2>1. /\ clicking[u] = Idle /\ q # <<>> /\ signals' = [signals EXCEPT ![u] = Tail(@)]
        /\ UNCHANGED <<call, telling, clicking>> /\ q \in Seq(Signal)
    BY <1>3 DEF ShowSignal, WindowThreadFree, Signal
  <2>2. /\ Len(signals'[u]) = Len(q) - 1 /\ Len(q) \in Nat \ {0} /\ Head(q) = q[1]
        /\ \A i \in 1..Len(signals'[u]) : signals'[u][i] = q[i + 1]
    BY <2>1, Rest
  <2>3. h \in Pair /\ 1 \in 1..Len(q)
    <3>1. 1 \in 1..Len(q)
      BY <2>2
    <3>2. q[1].friend \in Friends[u]
      BY <3>1
    <3> QED
      BY <1>a, <3>1, <3>2
  <2>4. window' = [window EXCEPT ![h] = q[1].status]
    BY <1>3, <2>2 DEF ShowSignal, Shown
  <2>5. ASSUME NEW l \in Pair
        PROVE  View(l)'
    <3>1. CASE l[1] # u
      <4>1. l # h
        BY <3>1
      <4> QED
        BY <1>a, <1>b, <2>1, <2>3, <2>4, <3>1, <4>1, ViewKept
    <3>2. CASE l[1] = u
      <4>1. ~Clicking(l) /\ ~Clicking(l)' /\ (Told(l)' <=> Told(l))
        BY <1>c, <2>1, <3>2 DEF Clicking, Told
      <4>2. \A i \in Nat : i \in 1..Len(signals'[u]) <=> i + 1 \in 1..Len(q) /\ i # 0
        BY <2>2
      <4>3. \A i \in Nat : i # 0 => (SignalAt(l, i)' <=> SignalAt(l, i + 1))
        BY <2>2, <3>2, <4>2 DEF SignalAt
      <4>4. ~SignalAt(l, 0)' /\ ~SignalAt(l, 0)
        BY <2>2 DEF SignalAt
      <4>5. ASSUME ~Told(l), NEW i \in Nat, LastSignal(l, i)'
            PROVE  signals'[l[1]][i].status = call'[l]
        <5>1. SignalAt(l, i)' /\ i # 0 /\ SignalAt(l, i + 1)
          BY <4>3, <4>4, <4>5 DEF LastSignal
        <5>2. ASSUME NEW j \in Nat, SignalAt(l, j)
              PROVE  j <= i + 1
          <6>1. CASE j \in {0, 1}
            BY <6>1
          <6>2. CASE j \notin {0, 1}
            <7>1. j - 1 \in Nat /\ j - 1 # 0 /\ (j - 1) + 1 = j
              BY <6>2
            <7>2. SignalAt(l, j - 1)'
              BY <4>3, <5>2, <7>1
            <7>3. j - 1 <= i
              BY <4>5, <7>1, <7>2 DEF LastSignal
            <7> QED
              BY <7>1, <7>3
          <6> QED
            BY <6>1, <6>2
        <5>3. LastSignal(l, i + 1) /\ i + 1 \in Nat
          BY <5>1, <5>2 DEF LastSignal
        <5>4. signals'[l[1]][i] = q[i + 1]
          BY <2>2, <3>2, <5>1 DEF SignalAt
        <5>5. signals[l[1]][i + 1].status = call[l]
          BY <1>b, <4>1, <4>5, <5>3 DEF View
        <5> QED
          BY <2>1, <3>2, <5>4, <5>5
      <4>6. ASSUME ~Told(l), \A i \in Nat : ~SignalAt(l, i)'
            PROVE  window'[l] = call'[l]
        <5>1. \A j \in Nat : SignalAt(l, j) => j = 1
          <6>1. ASSUME NEW j \in Nat, SignalAt(l, j), j # 1
                PROVE  FALSE
            <7>1. j - 1 \in Nat /\ j - 1 # 0 /\ (j - 1) + 1 = j
              BY <4>4, <6>1
            <7> QED
              BY <4>3, <4>6, <6>1, <7>1
          <6> QED
            BY <6>1
        <5>2. CASE l = h
          <6>1. LastSignal(l, 1)
            BY <2>3, <3>2, <5>1, <5>2 DEF LastSignal, SignalAt
          <6>2. signals[l[1]][1].status = call[l]
            BY <1>b, <4>1, <4>6, <6>1 DEF View
          <6> QED
            BY <2>1, <2>3, <2>4, <3>2, <5>2, <6>2
        <5>3. CASE l # h
          <6>1. ~SignalAt(l, 1)
            BY <1>a, <3>2, <5>3 DEF SignalAt
          <6>2. window[l] = call[l]
            BY <1>b, <4>1, <4>6, <5>1, <6>1 DEF View
          <6> QED
            BY <2>1, <2>4, <5>3, <6>2
        <5> QED
          BY <5>2, <5>3
      <4> QED
        BY <4>1, <4>5, <4>6 DEF View
    <3> QED
      BY <3>1, <3>2
  <2>6. Free
    BY <1>b, <2>1
  <2> QED
    BY <2>5, <2>6
<1>4. ASSUME NEW u \in User, NEW f \in Friends[u], StartCall(u, f) \/ FinishCall(u, f)
      PROVE  Free /\ \A l \in Pair : View(l)'
  <2> DEFINE k == <<u, f>>
  <2>1. PICK shown \in CallStatus : Clicked(u, f, shown)
    BY <1>4, <1>d DEF StartCall, FinishCall
  <2>2. /\ k \in Pair /\ k[1] = u /\ k[2] = f /\ linked[k] /\ clicking[u] = Idle /\ telling[u] = Idle
        /\ UNCHANGED <<call, telling, signals>> /\ window' = [window EXCEPT ![k] = shown]
    BY <1>a, <1>b, <2>1 DEF Clicked, WindowThreadFree
  <2>3. \A i \in Nat : ~SignalAt(k, i)
    BY <2>1, <2>2 DEF Clicked, SignalAt
  <2>4. window[k] = call[k]
    BY <1>b, <1>c, <2>2, <2>3 DEF View
  <2>5. \E to \in CallStatus : Then(u, f, to) /\ (to = "WaitingFriendConfirm" => window'[k] = to)
    <3>1. CASE StartCall(u, f)
      <4>1. window[k] \in {"NotCalling", "WaitingSelfConfirm"}
        BY <3>1 DEF StartCall
      <4>2. CASE window[k] = "NotCalling"
        <5>1. Then(u, f, "WaitingFriendConfirm") /\ Clicked(u, f, "WaitingFriendConfirm")
          BY <2>2, <2>4, <3>1, <4>2 DEF StartCall
        <5>2. window'[k] = "WaitingFriendConfirm"
          BY <2>2, <5>1 DEF Clicked
        <5> QED
          BY <1>d, <5>1, <5>2
      <4>3. CASE window[k] = "WaitingSelfConfirm"
        <5>1. Then(u, f, "Established")
          BY <2>2, <2>4, <3>1, <4>3 DEF StartCall
        <5> QED
          BY <1>d, <5>1
      <4> QED
        BY <4>1, <4>2, <4>3
    <3>2. CASE FinishCall(u, f)
      <4>1. Then(u, f, "NotCalling")
        BY <2>2, <2>4, <3>2 DEF FinishCall
      <4> QED
        BY <1>d, <4>1
    <3> QED
      BY <1>4, <3>1, <3>2
  <2>6. PICK to \in CallStatus : Then(u, f, to) /\ (to = "WaitingFriendConfirm" => window'[k] = to)
    BY <2>5
  <2>7. clicking' = [clicking EXCEPT ![u] = [friend |-> f, to |-> to, step |-> "Assign"]]
    BY <2>6 DEF Then
  <2>8. ASSUME NEW l \in Pair
        PROVE  View(l)'
    <3>1. CASE l = k
      <4>1. Clicking(l)' /\ clicking'[u].to = to
        BY <2>2, <2>7, <3>1 DEF Clicking
      <4>2. \A i \in Nat : ~SignalAt(l, i)'
        BY <2>2, <2>3, <3>1 DEF SignalAt
      <4> QED
        BY <2>2, <2>6, <3>1, <4>1, <4>2 DEF View
    <3>2. CASE l # k /\ l[1] = u
      <4>1. ~Told(l) /\ ~Clicking(l) /\ ~Told(l)' /\ ~Clicking(l)' /\ window'[l] = window[l]
        BY <1>a, <1>c, <2>2, <2>7, <3>2 DEF Told, Clicking
      <4>2. \A i \in Nat : SignalAt(l, i)' = SignalAt(l, i) /\ LastSignal(l, i)' = LastSignal(l, i)
        BY <2>2 DEF SignalAt, LastSignal
      <4> QED
        BY <1>b, <2>2, <4>1, <4>2 DEF View
    <3>3. CASE l[1] # u
      <4>1. l # k
        BY <2>2, <3>3
      <4> QED
        BY <1>a, <1>b, <2>2, <2>7, <3>3, <4>1, ViewKept
    <3> QED
      BY <3>1, <3>2, <3>3
  <2>9. Free
    BY <1>b, <2>2, <2>7
  <2> QED
    BY <2>8, <2>9
<1>5. ASSUME NEW u \in User, ClickAssigns(u)
      PROVE  Free /\ \A l \in Pair : View(l)'
  <2> DEFINE t == clicking[u]
             k == <<u, t.friend>>
  <2>1. /\ t \in Task /\ t # Idle /\ t.step = "Assign" /\ t.friend \in Friends[u] /\ k \in Pair
        /\ k[1] = u /\ k[2] = t.friend /\ t.friend \in User
        /\ telling[u] = Idle /\ UNCHANGED <<telling, signals, window>>
        /\ call' = [call EXCEPT ![k] = t.to]
    BY <1>5, <1>a, <1>b DEF ClickAssigns
  <2>2. clicking' = [clicking EXCEPT ![u] = IF t.to = "WaitingFriendConfirm" THEN Idle
                                            ELSE [t EXCEPT !.step = "Tell"]]
    BY <1>5 DEF ClickAssigns
  <2>3. ASSUME NEW l \in Pair
        PROVE  View(l)'
    <3>1. CASE l = k
      <4>1. Clicking(l) /\ (\A i \in Nat : ~SignalAt(l, i))
        BY <1>b, <2>1, <3>1 DEF View, Clicking
      <4>2. \A i \in Nat : ~SignalAt(l, i)' /\ ~LastSignal(l, i)'
        BY <2>1, <4>1 DEF SignalAt, LastSignal
      <4>3. CASE t.to = "WaitingFriendConfirm"
        <5>1. window[l] = "WaitingFriendConfirm"
          BY <1>b, <2>1, <3>1, <4>1, <4>3 DEF View
        <5>2. ~Clicking(l)'
          BY <1>a, <1>c, <2>1, <2>2, <3>1, <4>3 DEF Clicking
        <5>3. window'[l] = call'[l]
          BY <2>1, <3>1, <4>3, <5>1
        <5> QED
          BY <4>2, <5>2, <5>3 DEF View
      <4>4. CASE t.to # "WaitingFriendConfirm"
        <5>1. clicking'[u].step = "Tell" /\ clicking'[u].friend = t.friend
          BY <2>1, <2>2, <4>4 DEF Task
        <5>2. Clicking(l)'
          BY <2>1, <3>1, <5>1 DEF Clicking
        <5> QED
          BY <2>1, <3>1, <4>2, <5>1, <5>2 DEF View
      <4> QED
        BY <4>3, <4>4
    <3>2. CASE l # k /\ l[1] = u
      <4>1. /\ ~Told(l) /\ ~Clicking(l) /\ ~Told(l)' /\ call'[l] = call[l]
        BY <1>a, <1>c, <2>1, <3>2 DEF Told, Clicking
      <4>2. ~Clicking(l)'
        <5>1. l[2] # t.friend
          BY <1>a, <3>2
        <5>2. clicking'[u].friend \in {None, t.friend}
          BY <1>c, <2>1, <2>2 DEF Task
        <5> QED
          BY <1>a, <3>2, <5>1, <5>2 DEF Clicking
      <4>3. \A i \in Nat : SignalAt(l, i)' = SignalAt(l, i) /\ LastSignal(l, i)' = LastSignal(l, i)
        BY <2>1 DEF SignalAt, LastSignal
      <4> QED
        BY <1>b, <2>1, <4>1, <4>2, <4>3, SMTT(30) DEF View
    <3>3. CASE l[1] # u
      <4>1. l # k
        BY <2>1, <3>3
      <4> QED
        BY <1>a, <1>b, <2>1, <2>2, <3>3, <4>1, ViewKept
    <3> QED
      BY <3>1, <3>2, <3>3
  <2>4. Free
    BY <1>b, <2>1, <2>2
  <2> QED
    BY <2>3, <2>4
<1>6. ASSUME NEW u \in User, ClickTells(u)
      PROVE  Free /\ \A l \in Pair : View(l)'
  <2> DEFINE t == clicking[u]
             k == <<u, t.friend>>
  <2>1. /\ t \in Task /\ t # Idle /\ t.friend \in Friends[u] /\ k \in Pair
        /\ k[1] = u /\ k[2] = t.friend /\ t.friend \in User
        /\ telling[u] = Idle /\ UNCHANGED <<call, telling, signals>>
        /\ window' = [window EXCEPT ![k] = call[k]]
        /\ clicking' = [clicking EXCEPT ![u] = Idle]
    BY <1>6, <1>a, <1>b DEF ClickTells, Shown
  <2>2. ASSUME NEW l \in Pair
        PROVE  View(l)'
    <3>1. CASE l = k
      <4>1. Clicking(l) /\ (\A i \in Nat : ~SignalAt(l, i))
        BY <1>b, <2>1, <3>1 DEF View, Clicking
      <4>2. \A i \in Nat : ~SignalAt(l, i)' /\ ~LastSignal(l, i)'
        BY <2>1, <4>1 DEF SignalAt, LastSignal
      <4>3. ~Clicking(l)' /\ window'[l] = call'[l]
        BY <1>a, <1>c, <2>1, <3>1 DEF Clicking
      <4> QED
        BY <4>2, <4>3 DEF View
    <3>2. CASE l # k /\ l[1] = u
      <4>1. ~Told(l) /\ ~Clicking(l) /\ ~Told(l)' /\ ~Clicking(l)' /\ window'[l] = window[l]
        BY <1>a, <1>c, <2>1, <3>2 DEF Told, Clicking
      <4>2. \A i \in Nat : SignalAt(l, i)' = SignalAt(l, i) /\ LastSignal(l, i)' = LastSignal(l, i)
        BY <2>1 DEF SignalAt, LastSignal
      <4> QED
        BY <1>b, <2>1, <4>1, <4>2 DEF View
    <3>3. CASE l[1] # u
      <4>1. l # k
        BY <2>1, <3>3
      <4> QED
        BY <1>a, <1>b, <2>1, <3>3, <4>1, ViewKept
    <3> QED
      BY <3>1, <3>2, <3>3
  <2>3. Free
    BY <1>b, <2>1
  <2> QED
    BY <2>2, <2>3
<1>7. ASSUME UNCHANGED <<call, telling, clicking, signals, window>>
      PROVE  Free /\ \A l \in Pair : View(l)'
  BY <1>b, <1>7, ViewKept
<1>8. ASSUME NEW u \in User, AudioDies(u)
      PROVE  Free /\ \A l \in Pair : View(l)'
  BY <1>7, <1>8 DEF AudioDies
<1>9. ASSUME NEW l \in Pair, LinkLost(l) \/ LinkMade(l) \/ Authorized(l)
      PROVE  Free /\ \A k \in Pair : View(k)'
  BY <1>7, <1>9 DEF LinkLost, LinkMade, Authorized, OnlyLink
<1>10. CASE UNCHANGED vars
  BY <1>7, <1>10 DEF vars
<1> QED
  BY <1>1, <1>2, <1>3, <1>4, <1>5, <1>6, <1>8, <1>9, <1>10
     DEF Next, EventThread, WindowThread, Click

-----------------------------------------------------------------------------
(* What always holds *)

Inv == TypeOK /\ OfFriends /\ AllLinked /\ Wanted /\ Agree /\ Views

\* It holds at first.
LEMMA InvInit == Init => Inv
<1> SUFFICES ASSUME Init
             PROVE  Inv
  OBVIOUS
<1>1. /\ <<>> \in Seq(Packet) /\ <<>> \in Seq([friend: User, status: CallStatus]) /\ Len(<<>>) = 0
  BY EmptySeq
<1>2. TypeOK
  <2>1. PICK b \in Bounds : clicks = b.clicks /\ breaks = b.breaks
    BY DEF Init
  <2>2. clicks \in [User -> Nat] /\ breaks \in Nat
    BY <2>1, CallsAssumption
  <2> QED
    BY <1>1, <2>2, CallsAssumption DEF Init, TypeOK, CallStatus
<1>3. \A l \in Pair : /\ Back(l) \in Pair /\ l[1] \in User /\ l[2] # None
  BY Pairs, CallsAssumption
<1>4. \A i \in 1..0 : FALSE
  OBVIOUS
<1>5. OfFriends /\ AllLinked
  BY <1>1, <1>4 DEF Init, OfFriends, AllLinked
<1>6. \A l \in Pair : Effective(l) = "NotCalling" /\ packets[l] = <<>>
  BY <1>3 DEF Init, Effective, Assigning, Idle
<1>7. Wanted /\ Agree
  BY <1>3, <1>6 DEF Wanted, Agree, Finally, AfterAll, Match
<1>8. Views
  <2>1. ASSUME NEW l \in Pair
        PROVE  View(l)
    <3>1. ~Clicking(l) /\ window[l] = call[l]
      BY <1>3 DEF Init, Clicking, Idle
    <3>2. \A i \in Nat : ~SignalAt(l, i)
      BY <1>1, <1>3, <1>4 DEF Init, SignalAt
    <3> QED
      BY <3>1, <3>2 DEF View, LastSignal
  <2>2. \A u \in User : telling[u] = Idle
    BY DEF Init
  <2> QED
    BY <2>1, <2>2 DEF Views
<1> QED
  BY <1>2, <1>5, <1>7, <1>8 DEF Inv

\* And after every step.
LEMMA InvStep == Inv /\ [Next]_vars => Inv'
BY TypeStep, LinkedStep, WantedStep, AgreeStep, ViewStep DEF Inv

\* So it always holds.
THEOREM Invariance == Spec => []Inv
BY InvInit, InvStep, PTL DEF Spec

\* Every variable always holds values of its type.
THEOREM TypeCorrect == Spec => []TypeOK
<1>1. Inv => TypeOK
  BY DEF Inv
<1> QED
  BY <1>1, Invariance, PTL

\* When nothing is left to do between two friends, a call is what it will be.
LEMMA QuietFinally ==
    ASSUME Inv, NEW l \in Pair, QuietLink(l)
    PROVE  Finally(l) = call[l] /\ Finally(Back(l)) = call[Back(l)]
<1>1. l[1] \in User /\ l[2] \in User /\ Back(l)[1] = l[2] /\ Back(Back(l)) = l
  BY Pairs DEF Back
<1>2. clicking[l[1]] = Idle /\ clicking[l[2]] = Idle /\ packets[l] = <<>> /\ packets[Back(l)] = <<>>
  BY DEF QuietLink, Quiet
<1>3. Effective(l) = call[l] /\ Effective(Back(l)) = call[Back(l)]
  BY <1>1, <1>2 DEF Effective, Assigning, Idle
<1>4. \A status \in CallStatus : AfterAll(status, <<>>) = status
  <2>1. \A i \in 1..0 : FALSE
    OBVIOUS
  <2>2. ~Dropped(<<>>)
    BY <2>1, EmptySeq DEF Dropped
  <2> QED
    BY <2>2 DEF AfterAll
<1>5. call[l] \in CallStatus /\ call[Back(l)] \in CallStatus
  BY Pairs DEF Inv, TypeOK
<1> QED
  BY <1>1, <1>2, <1>3, <1>4, <1>5 DEF Finally

\* Two friends agree about their call when all packets have arrived, however requests, answers
\* and drops have crossed (friend.cpp:389-405).
THEOREM CallsAlwaysAgree == Spec => []CallsAgree
<1>1. ASSUME Inv, incidents \subseteq {"Stale"}, NEW l \in Pair, QuietLink(l)
      PROVE  /\ call[l] = "WaitingFriendConfirm" => call[Back(l)] = "WaitingSelfConfirm"
             /\ call[l] = "Established" => call[Back(l)] \in {"Established", "WaitingSelfConfirm"}
  BY <1>1, QuietFinally DEF Inv, Agree, Match
<1>2. Inv => CallsAgree
  BY <1>1 DEF CallsAgree
<1> QED
  BY <1>2, Invariance, PTL

\* Nobody is heard who has not called or accepted, or after either has hung up.
THEOREM TalksOnlyWhenWanted == Spec => []TalksWhenWanted
<1>1. ASSUME Inv, incidents \subseteq {"Stale"}, NEW l \in Pair, Quiet(l[1]), Talking(l[1], l[2])
      PROVE  wanted[l]
  <2>1. call[l] = "Established"
    BY <1>1, Pairs DEF Talking
  <2>2. Effective(l) = call[l]
    BY <1>1 DEF Effective, Assigning, Idle, Quiet
  <2> QED
    BY <1>1, <2>1, <2>2 DEF Inv, Wanted
<1>2. Inv => TalksWhenWanted
  BY <1>1 DEF TalksWhenWanted
<1> QED
  BY <1>2, Invariance, PTL

\* When nothing is left to do for a user, the windows show what is.
LEMMA QuietWindow ==
    ASSUME Inv, incidents = {}, NEW l \in Pair, Quiet(l[1])
    PROVE  window[l] = call[l]
<1>1. l[2] # None /\ l[1] \in User
  BY Pairs, CallsAssumption
<1>2. ~Told(l) /\ ~Clicking(l) /\ signals[l[1]] = <<>>
  BY <1>1 DEF Told, Clicking, Idle, Quiet
<1>3. \A i \in Nat : ~SignalAt(l, i)
  <2>1. \A i \in 1..0 : FALSE
    OBVIOUS
  <2>2. Len(signals[l[1]]) = 0
    BY <1>2
  <2> QED
    BY <2>1, <2>2 DEF SignalAt
<1> QED
  BY <1>2, <1>3 DEF Inv, Views, View

\* The window shows CallStatus when all signals have arrived (chat_window.cpp:99-117).
THEOREM WindowsShowCalls == Spec => []WindowShowsCall
<1>1. Inv => WindowShowsCall
  BY QuietWindow DEF WindowShowsCall
<1> QED
  BY <1>1, Invariance, PTL

-----------------------------------------------------------------------------
(* The microphone *)

\* A thread is about to tell of the end of the call that CallingFriend stands for.
Ending(u, task) == task.to = "NotCalling" /\ task.step = "Tell" /\ task.friend = calling[u]

\* What a thread tells is CallStatus; CallingFriend is a friend with whom a call is
\* established, or a thread is about to reset it.
Follows(u) ==
    LET c == telling[u]
        t == clicking[u]
    IN
    /\ c = Idle \/ t = Idle
    /\ c # Idle => c.to = call[<<u, c.friend>>]
    /\ t # Idle /\ t.step = "Tell" =>
         t.to = call[<<u, t.friend>>] /\ t.to \in {"NotCalling", "Established"}
    /\ t # Idle /\ t.step = "Assign" => t.to # "WaitingSelfConfirm"
    /\ t # Idle /\ t.step = "Assign" /\ t.to # "NotCalling" => call[<<u, t.friend>>] # "Established"
    /\ calling[u] # None =>
         /\ calling[u] \in Friends[u]
         /\ call[<<u, calling[u]>>] = "Established" \/ Ending(u, c) \/ Ending(u, t)

AllFollow == "Raced" \notin incidents => \A u \in User : Follows(u)

\* A step keeps the first parts, and then CallingFriend.
LEMMA FollowsStep == Inv /\ AllFollow /\ [Next]_vars => AllFollow'
<1> SUFFICES ASSUME Inv, AllFollow, [Next]_vars, "Raced" \notin incidents', NEW u \in User
             PROVE  Follows(u)'
  BY DEF AllFollow
<1>a. /\ \A v \in User : \A g \in Friends[v] : <<v, g>> \in Pair /\ g \in User /\ g # None
      /\ Idle.friend = None /\ Idle.step = "Tell" /\ Idle.to = "NotCalling"
      /\ \A f, g : <<u, f>> = <<u, g>> <=> f = g
      /\ \A v, f, g : v # u => <<v, f>> # <<u, g>>
  <2>1. \A v \in User : \A g \in Friends[v] : <<v, g>> \in Pair /\ g \in User
    BY Pairs
  <2>2. \A v \in User : \A g \in Friends[v] : g # None
    BY <2>1, CallsAssumption
  <2>3. Idle.friend = None /\ Idle.step = "Tell" /\ Idle.to = "NotCalling"
    BY DEF Idle
  <2> QED
    BY <2>1, <2>2, <2>3
<1>b. Follows(u)
  <2>1. "Raced" \notin incidents
    BY LinkedStep DEF Inv
  <2> QED
    BY <2>1 DEF AllFollow
<1>c. /\ call \in [Pair -> CallStatus]
      /\ calling \in [User -> User \cup {None}]
      /\ telling \in [User -> Task \cup {Idle}] /\ clicking \in [User -> Task \cup {Idle}]
  BY DEF Inv, TypeOK
<1>d. /\ \A v \in User : telling[v] # Idle => telling[v].friend \in Friends[v] /\ telling[v].step = "Tell"
      /\ \A v \in User : clicking[v] # Idle => clicking[v].friend \in Friends[v] /\ clicking[v] \in Task
  BY <1>c DEF Inv, OfFriends
<1>e. ASSUME UNCHANGED <<calling[u], telling[u], clicking[u]>>, \A f \in Friends[u] : call'[<<u, f>>] = call[<<u, f>>]
      PROVE  Follows(u)'
  BY <1>b, <1>d, <1>e DEF Follows, Ending
<1>1. ASSUME NEW v \in User, NEW g \in Friends[v], OnCallRequest(v, g) \/ OnCallDrop(v, g)
      PROVE  Follows(u)'
  <2>1. /\ clicking[v] = Idle /\ telling[v] = Idle
        /\ UNCHANGED <<calling, clicking>>
    <3>1. clicking[v] = Idle
      BY <1>1 DEF OnCallRequest, OnCallDrop, Receive
    <3> QED
      BY <1>1, <3>1 DEF OnCallRequest, OnCallDrop, Receive, EventThreadFree
  <2>2. \/ UNCHANGED <<call, telling>>
        \/ \E to \in CallStatus : Becomes(v, g, to) /\ (call[<<v, g>>] = "Established" => to = "NotCalling")
    BY <1>1 DEF OnCallRequest, OnCallDrop, CallStatus
  <2>3. CASE UNCHANGED <<call, telling>>
    BY <1>e, <2>1, <2>3
  <2>4. ASSUME NEW to \in CallStatus, Becomes(v, g, to), call[<<v, g>>] = "Established" => to = "NotCalling"
        PROVE  Follows(u)'
    <3>1. CASE v = u
      <4>1. /\ telling'[u].friend = g /\ telling'[u].to = to /\ telling'[u].step = "Tell"
            /\ call'[<<u, g>>] = to
            /\ \A f \in Friends[u] : f # g => call'[<<u, f>>] = call[<<u, f>>]
            /\ calling'[u] = calling[u] /\ clicking'[u] = Idle
        BY <1>a, <1>c, <2>1, <2>4, <3>1 DEF Becomes
      <4>2. calling[u] # None => calling[u] \in Friends[u] /\ call[<<u, calling[u]>>] = "Established"
        BY <1>a, <1>b, <2>1, <3>1 DEF Follows, Ending
      <4>3. calling'[u] # None =>
              /\ calling'[u] \in Friends[u]
              /\ call'[<<u, calling'[u]>>] = "Established" \/ Ending(u, telling[u])'
        BY <2>4, <3>1, <4>1, <4>2 DEF Ending
      <4> QED
        BY <4>1, <4>3 DEF Follows
    <3>2. CASE v # u
      BY <1>a, <1>c, <1>e, <2>1, <2>4, <3>2 DEF Becomes
    <3> QED
      BY <3>1, <3>2
  <2> QED
    BY <2>2, <2>3, <2>4
<1>2. ASSUME NEW v \in User, EventThreadTells(v)
      PROVE  Follows(u)'
  <2>1. /\ telling[v] # Idle /\ telling' = [telling EXCEPT ![v] = Idle]
        /\ SetFriendCalling(v, telling[v]) /\ UNCHANGED <<call, clicking>>
    BY <1>2 DEF EventThreadTells
  <2>2. CASE v = u
    <3> DEFINE c == telling[u]
    <3>1. /\ c # Idle /\ c.friend \in Friends[u] /\ c.friend # None /\ c.friend \in User
          /\ c.to = call[<<u, c.friend>>] /\ clicking[u] = Idle
      BY <1>a, <1>b, <1>d, <2>1, <2>2 DEF Follows
    <3>2. /\ telling'[u] = Idle /\ clicking'[u] = Idle
          /\ calling'[u] = CASE c.to = "Established" -> c.friend
                             [] c.to = "NotCalling" -> None
                             [] OTHER -> calling[u]
      BY <1>c, <2>1, <2>2, <3>1 DEF SetFriendCalling
    <3>3. calling'[u] # None => calling'[u] \in Friends[u] /\ call'[<<u, calling'[u]>>] = "Established"
      <4>1. CASE c.to = "Established"
        BY <2>1, <3>1, <3>2, <4>1
      <4>2. CASE c.to = "NotCalling"
        BY <3>2, <4>2
      <4>3. CASE c.to \notin {"Established", "NotCalling"}
        BY <1>a, <1>b, <2>1, <3>1, <3>2, <4>3 DEF Follows, Ending
      <4> QED
        BY <4>1, <4>2, <4>3
    <3> QED
      BY <3>2, <3>3 DEF Follows
  <2>3. CASE v # u
    BY <1>c, <1>e, <2>1, <2>3 DEF SetFriendCalling
  <2> QED
    BY <2>2, <2>3
<1>3. ASSUME NEW v \in User, NEW g \in Friends[v], StartCall(v, g) \/ FinishCall(v, g)
      PROVE  Follows(u)'
  <2>1. /\ clicking[v] = Idle /\ telling[v] = Idle /\ UNCHANGED <<call, calling, telling>>
    <3>1. telling[v] = Idle /\ clicking[v] = Idle
      BY <1>3 DEF StartCall, FinishCall, Clicked, WindowThreadFree
    <3> QED
      BY <1>3, <3>1 DEF StartCall, FinishCall, Clicked
  <2>2. \/ clicking' = clicking
        \/ \E to \in {"NotCalling", "WaitingFriendConfirm", "Established"} :
              Then(v, g, to) /\ (to # "NotCalling" => call[<<v, g>>] # "Established")
    BY <1>3 DEF StartCall, FinishCall
  <2>3. CASE clicking' = clicking
    BY <1>e, <2>1, <2>3
  <2>4. ASSUME NEW to \in {"NotCalling", "WaitingFriendConfirm", "Established"}, Then(v, g, to),
               to # "NotCalling" => call[<<v, g>>] # "Established"
        PROVE  Follows(u)'
    <3>1. CASE v = u
      <4>1. /\ clicking'[u].friend = g /\ clicking'[u].to = to /\ clicking'[u].step = "Assign"
            /\ telling'[u] = Idle
        BY <1>c, <2>1, <2>4, <3>1 DEF Then
      <4>2. calling[u] # None => calling[u] \in Friends[u] /\ call[<<u, calling[u]>>] = "Established"
        BY <1>a, <1>b, <2>1, <3>1 DEF Follows, Ending
      <4>3. to # "WaitingSelfConfirm"
        OBVIOUS
      <4> QED
        BY <2>1, <2>4, <3>1, <4>1, <4>2, <4>3 DEF Follows
    <3>2. CASE v # u
      BY <1>c, <1>e, <2>1, <2>4, <3>2 DEF Then
    <3> QED
      BY <3>1, <3>2
  <2> QED
    BY <2>2, <2>3, <2>4
<1>4. ASSUME NEW v \in User, ClickAssigns(v)
      PROVE  Follows(u)'
  <2>1. /\ clicking[v] # Idle /\ clicking[v].step = "Assign"
        /\ call' = [call EXCEPT ![<<v, clicking[v].friend>>] = clicking[v].to]
        /\ clicking' = [clicking EXCEPT ![v] = IF clicking[v].to = "WaitingFriendConfirm" THEN Idle
                                               ELSE [clicking[v] EXCEPT !.step = "Tell"]]
        /\ UNCHANGED <<calling, telling>>
    BY <1>4 DEF ClickAssigns
  <2>2. CASE v = u
    <3> DEFINE t == clicking[u]
    <3>1. /\ t \in Task /\ t.friend \in Friends[u] /\ telling[u] = Idle /\ t.step = "Assign"
          /\ t.to # "WaitingSelfConfirm" /\ (t.to # "NotCalling" => call[<<u, t.friend>>] # "Established")
      BY <1>b, <1>d, <2>1, <2>2 DEF Follows
    <3>2. t.to \in {"NotCalling", "WaitingFriendConfirm", "Established"}
      BY <3>1 DEF Task, CallStatus
    <3>3. /\ call'[<<u, t.friend>>] = t.to
          /\ \A f \in Friends[u] : f # t.friend => call'[<<u, f>>] = call[<<u, f>>]
          /\ telling'[u] = Idle /\ calling'[u] = calling[u]
      BY <1>a, <1>c, <2>1, <2>2, <3>1
    <3>4. calling[u] # None => calling[u] \in Friends[u] /\ call[<<u, calling[u]>>] = "Established"
      BY <1>a, <1>b, <2>1, <2>2, <3>1 DEF Follows, Ending
    <3>5. CASE t.to = "WaitingFriendConfirm"
      <4>1. clicking'[u] = Idle
        BY <1>c, <2>1, <2>2, <3>5
      <4>2. calling'[u] # None => calling'[u] \in Friends[u] /\ call'[<<u, calling'[u]>>] = "Established"
        BY <3>1, <3>3, <3>4, <3>5
      <4> QED
        BY <3>3, <4>1, <4>2 DEF Follows
    <3>6. CASE t.to # "WaitingFriendConfirm"
      <4>1. clicking'[u] = [t EXCEPT !.step = "Tell"]
        BY <1>c, <2>1, <2>2, <3>6
      <4>2. clicking'[u].friend = t.friend /\ clicking'[u].to = t.to /\ clicking'[u].step = "Tell"
        BY <3>1, <4>1 DEF Task
      <4>3. calling'[u] # None =>
              /\ calling'[u] \in Friends[u]
              /\ call'[<<u, calling'[u]>>] = "Established" \/ Ending(u, clicking[u])'
        BY <3>1, <3>2, <3>3, <3>4, <3>6, <4>2 DEF Ending
      <4> QED
        BY <3>2, <3>3, <3>6, <4>2, <4>3 DEF Follows
    <3> QED
      BY <3>5, <3>6
  <2>3. CASE v # u
    BY <1>a, <1>c, <1>d, <1>e, <2>1, <2>3
  <2> QED
    BY <2>2, <2>3
<1>5. ASSUME NEW v \in User, ClickTells(v)
      PROVE  Follows(u)'
  <2>1. /\ clicking[v] # Idle /\ clicking[v].step = "Tell" /\ clicking' = [clicking EXCEPT ![v] = Idle]
        /\ SetFriendCalling(v, clicking[v]) /\ UNCHANGED <<call, telling>>
    BY <1>5 DEF ClickTells
  <2>2. CASE v = u
    <3> DEFINE t == clicking[u]
    <3>1. /\ t.friend \in Friends[u] /\ t.friend # None /\ t.friend \in User /\ telling[u] = Idle
          /\ t.to = call[<<u, t.friend>>] /\ t.to \in {"NotCalling", "Established"}
      BY <1>a, <1>b, <1>d, <2>1, <2>2 DEF Follows
    <3>2. /\ telling'[u] = Idle /\ clicking'[u] = Idle
          /\ calling'[u] = IF t.to = "Established" THEN t.friend ELSE None
      BY <1>c, <2>1, <2>2, <3>1 DEF SetFriendCalling
    <3>3. calling'[u] # None => calling'[u] \in Friends[u] /\ call'[<<u, calling'[u]>>] = "Established"
      BY <2>1, <3>1, <3>2
    <3> QED
      BY <3>2, <3>3 DEF Follows
  <2>3. CASE v # u
    BY <1>c, <1>e, <2>1, <2>3 DEF SetFriendCalling
  <2> QED
    BY <2>2, <2>3
<1>6. ASSUME UNCHANGED <<call, calling, telling, clicking>>
      PROVE  Follows(u)'
  BY <1>e, <1>6
<1>7. ASSUME NEW v \in User, ShowSignal(v) \/ AudioDies(v)
      PROVE  Follows(u)'
  BY <1>6, <1>7 DEF ShowSignal, AudioDies
<1>8. ASSUME NEW l \in Pair, LinkLost(l) \/ LinkMade(l) \/ Authorized(l)
      PROVE  Follows(u)'
  BY <1>6, <1>8 DEF LinkLost, LinkMade, Authorized, OnlyLink
<1>9. CASE UNCHANGED vars
  BY <1>6, <1>9 DEF vars
<1> QED
  BY <1>1, <1>2, <1>3, <1>4, <1>5, <1>7, <1>8, <1>9 DEF Next, EventThread, WindowThread, Click
-----------------------------------------------------------------------------
(* The recorder *)

\* In a queue of signals and the window it is for: before a signal that rings, the last that
\* the window is told is the end of a call.
At(q, f, i) == i \in 1..Len(q) /\ q[i].friend = f
Rings(status) == status \notin {"NotCalling", "Established"}
Between(q, f, j, i) == \E k \in Nat : At(q, f, k) /\ j < k /\ k < i
Ends(q, f, w) ==
    /\ \A j \in Nat : At(q, f, j) /\ (\A k \in Nat : At(q, f, k) => k <= j) => q[j].status = "NotCalling"
    /\ (\A j \in Nat : ~At(q, f, j)) => w = "NotCalling"
Orderly(q, f, w) == \A i \in Nat : At(q, f, i) /\ Rings(q[i].status) =>
    /\ \A j \in Nat : At(q, f, j) /\ j < i /\ ~Between(q, f, j, i) => q[j].status = "NotCalling"
    /\ (\A j \in Nat : At(q, f, j) => i <= j) => w = "NotCalling"

\* A signal more.
LEMMA OrderlyAppended ==
    ASSUME NEW q \in Seq(Signal), NEW e \in Signal, NEW f, NEW w, Orderly(q, f, w),
           e.friend = f /\ Rings(e.status) => Ends(q, f, w)
    PROVE  Orderly(Append(q, e), f, w)
<1> DEFINE r == Append(q, e)
<1>1. PICK n \in Nat : n = Len(q)
  BY LenProperties
<1>2. /\ Len(r) = n + 1 /\ r[n + 1] = e
      /\ \A i \in 1..n : r[i] = q[i]
  BY <1>1, Appended
<1> HIDE DEF r
<1>3. \A i \in Nat : /\ i <= n => At(r, f, i) = At(q, f, i)
                     /\ At(q, f, i) => i <= n /\ r[i] = q[i]
                     /\ At(r, f, i) => i <= n + 1
                     /\ At(r, f, i) /\ i > n => i = n + 1 /\ r[i] = e /\ e.friend = f
  BY <1>1, <1>2 DEF At
<1>4. SUFFICES ASSUME NEW i \in Nat, At(r, f, i), Rings(r[i].status)
               PROVE  /\ \A j \in Nat : At(r, f, j) /\ j < i /\ ~Between(r, f, j, i) => r[j].status = "NotCalling"
                      /\ (\A j \in Nat : At(r, f, j) => i <= j) => w = "NotCalling"
  BY DEF Orderly, r
<1>5. CASE i <= n
  <2>1. At(q, f, i) /\ Rings(q[i].status)
    BY <1>3, <1>4, <1>5
  <2>2. ASSUME NEW j \in Nat, At(r, f, j), j < i, ~Between(r, f, j, i)
        PROVE  r[j].status = "NotCalling"
    <3>1. At(q, f, j) /\ r[j] = q[j]
      BY <1>3, <1>5, <2>2
    <3>2. ~Between(q, f, j, i)
      <4>1. \A k \in Nat : At(q, f, k) => At(r, f, k)
        BY <1>3
      <4> QED
        BY <2>2, <4>1 DEF Between
    <3> QED
      BY <2>1, <2>2, <3>1, <3>2 DEF Orderly
  <2>3. ASSUME \A j \in Nat : At(r, f, j) => i <= j
        PROVE  w = "NotCalling"
    <3>1. \A j \in Nat : At(q, f, j) => i <= j
      BY <1>3, <2>3
    <3> QED
      BY <2>1, <3>1 DEF Orderly
  <2> QED
    BY <2>2, <2>3
<1>6. CASE i > n
  <2>1. i = n + 1 /\ Ends(q, f, w)
    BY <1>3, <1>4, <1>6
  <2>2. ASSUME NEW j \in Nat, At(r, f, j), j < i, ~Between(r, f, j, i)
        PROVE  r[j].status = "NotCalling"
    <3>1. At(q, f, j) /\ r[j] = q[j]
      BY <1>3, <2>1, <2>2
    <3>2. ASSUME NEW k \in Nat, At(q, f, k)
          PROVE  k <= j
      <4>1. At(r, f, k) /\ k < i
        BY <1>3, <2>1, <3>2
      <4> QED
        BY <2>2, <4>1 DEF Between
    <3> QED
      BY <2>1, <3>1, <3>2 DEF Ends
  <2>3. ASSUME \A j \in Nat : At(r, f, j) => i <= j
        PROVE  w = "NotCalling"
    <3>1. ASSUME NEW j \in Nat, At(q, f, j)
          PROVE  FALSE
      BY <1>3, <2>1, <2>3, <3>1
    <3> QED
      BY <2>1, <3>1 DEF Ends
  <2> QED
    BY <2>2, <2>3
<1> QED
  BY <1>5, <1>6

\* The first signal is shown.
LEMMA OrderlyRest ==
    ASSUME NEW q \in Seq(Signal), q # <<>>, NEW f, NEW w,
           NEW v, v = IF Head(q).friend = f THEN Head(q).status ELSE w
    PROVE  /\ Orderly(q, f, w) => Orderly(Tail(q), f, v)
           /\ Ends(q, f, w) => Ends(Tail(q), f, v)
           /\ Orderly(q, f, w) /\ Head(q).friend = f /\ Rings(Head(q).status) => w = "NotCalling"
<1> DEFINE r == Tail(q)
<1>1. PICK n \in Nat : n = Len(q)
  BY LenProperties
<1>2. /\ n > 0 /\ Len(r) = n - 1 /\ Head(q) = q[1]
      /\ \A i \in 1..(n - 1) : r[i] = q[i + 1]
  BY <1>1, Rest
<1> HIDE DEF r
<1>3. \A i \in Nat : /\ At(r, f, i) => i > 0 /\ At(q, f, i + 1) /\ r[i] = q[i + 1]
                     /\ At(q, f, i) => i > 0
                     /\ At(q, f, i) /\ i > 1 => i - 1 \in Nat /\ At(r, f, i - 1)
  BY <1>1, <1>2 DEF At
<1>4. At(q, f, 1) <=> Head(q).friend = f
  BY <1>1, <1>2 DEF At
<1>5. ASSUME Orderly(q, f, w), NEW i \in Nat, At(r, f, i), Rings(r[i].status)
      PROVE  /\ \A j \in Nat : At(r, f, j) /\ j < i /\ ~Between(r, f, j, i) => r[j].status = "NotCalling"
             /\ (\A j \in Nat : At(r, f, j) => i <= j) => v = "NotCalling"
  <2>1. i + 1 \in Nat /\ At(q, f, i + 1) /\ Rings(q[i + 1].status) /\ i > 0
    BY <1>3, <1>5
  <2>2. ASSUME NEW j \in Nat, At(r, f, j), j < i, ~Between(r, f, j, i)
        PROVE  r[j].status = "NotCalling"
    <3>1. j + 1 \in Nat /\ At(q, f, j + 1) /\ j + 1 < i + 1 /\ r[j] = q[j + 1]
      BY <1>3, <2>2
    <3>2. ~Between(q, f, j + 1, i + 1)
      <4> SUFFICES ASSUME NEW k \in Nat, At(q, f, k), j + 1 < k, k < i + 1
                   PROVE  FALSE
        BY DEF Between
      <4>1. k > 1 /\ k - 1 \in Nat /\ j < k - 1 /\ k - 1 < i
        OBVIOUS
      <4>2. At(r, f, k - 1)
        BY <1>3, <4>1
      <4> QED
        BY <2>2, <4>1, <4>2 DEF Between
    <3> QED
      BY <1>5, <2>1, <3>1, <3>2 DEF Orderly
  <2>3. ASSUME \A j \in Nat : At(r, f, j) => i <= j
        PROVE  v = "NotCalling"
    <3>1. \A k \in Nat : At(q, f, k) /\ k > 1 => i + 1 <= k
      BY <1>3, <2>3
    <3>2. CASE Head(q).friend = f
      <4>1. At(q, f, 1) /\ 1 < i + 1 /\ ~Between(q, f, 1, i + 1)
        BY <1>4, <2>1, <3>1, <3>2 DEF Between
      <4>2. q[1].status = "NotCalling"
        BY <1>5, <2>1, <4>1 DEF Orderly
      <4> QED
        BY <1>2, <3>2, <4>2
    <3>3. CASE Head(q).friend # f
      <4>1. \A k \in Nat : At(q, f, k) => i + 1 <= k
        <5>1. ASSUME NEW k \in Nat, At(q, f, k)
              PROVE  k > 1
          BY <1>3, <1>4, <3>3, <5>1
        <5> QED
          BY <3>1, <5>1
      <4>2. w = "NotCalling"
        BY <1>5, <2>1, <4>1 DEF Orderly
      <4> QED
        BY <3>3, <4>2
    <3> QED
      BY <3>2, <3>3
  <2> QED
    BY <2>2, <2>3
<1>6. ASSUME Ends(q, f, w)
      PROVE  Ends(r, f, v)
  <2>1. ASSUME NEW j \in Nat, At(r, f, j), \A k \in Nat : At(r, f, k) => k <= j
        PROVE  r[j].status = "NotCalling"
    <3>1. j + 1 \in Nat /\ At(q, f, j + 1) /\ r[j] = q[j + 1] /\ j > 0
      BY <1>3, <2>1
    <3>2. ASSUME NEW k \in Nat, At(q, f, k)
          PROVE  k <= j + 1
      <4>1. CASE k > 1
        <5>1. k - 1 \in Nat /\ At(r, f, k - 1)
          BY <1>3, <3>2, <4>1
        <5>2. k - 1 <= j
          BY <2>1, <5>1
        <5> QED
          BY <5>2
      <4> QED
        BY <3>1, <4>1
    <3> QED
      BY <1>6, <3>1, <3>2 DEF Ends
  <2>2. ASSUME \A j \in Nat : ~At(r, f, j)
        PROVE  v = "NotCalling"
    <3>1. ASSUME NEW k \in Nat, At(q, f, k)
          PROVE  k = 1
      BY <1>3, <2>2, <3>1
    <3>2. CASE Head(q).friend = f
      <4>1. At(q, f, 1) /\ 1 \in Nat
        BY <1>4, <3>2
      <4>2. \A k \in Nat : At(q, f, k) => k <= 1
        BY <3>1
      <4>3. q[1].status = "NotCalling"
        BY <1>6, <4>1, <4>2 DEF Ends
      <4> QED
        BY <1>2, <3>2, <4>3
    <3>3. CASE Head(q).friend # f
      <4>1. \A k \in Nat : ~At(q, f, k)
        BY <1>4, <3>1, <3>3
      <4> QED
        BY <1>6, <3>3, <4>1 DEF Ends
    <3> QED
      BY <3>2, <3>3
  <2> QED
    BY <2>1, <2>2 DEF Ends
<1>7. ASSUME Orderly(q, f, w), Head(q).friend = f, Rings(Head(q).status)
      PROVE  w = "NotCalling"
  <2>1. At(q, f, 1) /\ Rings(q[1].status) /\ 1 \in Nat
    BY <1>2, <1>4, <1>7
  <2>2. \A j \in Nat : At(q, f, j) => 1 <= j
    BY <1>3
  <2> QED
    BY <1>7, <2>1, <2>2 DEF Orderly
<1> QED
  BY <1>5, <1>6, <1>7 DEF Orderly, r

\* What is queued for a window is in order, and so is what is still to tell.
Order(l) ==
    LET q == signals[l[1]] IN
    /\ Orderly(q, l[2], window[l])
    /\ Told(l) /\ Rings(telling[l[1]].to) => Ends(q, l[2], window[l])

\* Who records sees an established call, or has just hung up.
Records(u) == recording[u] => \E f \in Friends[u] :
    \/ window[<<u, f>>] = "Established"
    \/ clicking[u] # Idle /\ clicking[u].friend = f /\ clicking[u].to = "NotCalling"

Recorders == incidents = {} => (\A l \in Pair : Order(l)) /\ (\A u \in User : Records(u))

\* Every step keeps this.
LEMMA RecordersStep == Inv /\ AllFollow /\ Recorders /\ [Next]_vars => Recorders'
<1> SUFFICES ASSUME Inv, AllFollow, Recorders, [Next]_vars, incidents' = {}
             PROVE  (\A l \in Pair : Order(l)') /\ (\A u \in User : Records(u)')
  BY DEF Recorders
<1>a. /\ \A u \in User : \A f \in Friends[u] : f \in User /\ <<u, f>> \in Pair
      /\ \A l \in Pair : l[1] \in User /\ l = <<l[1], l[2]>> /\ l[2] \in Friends[l[1]] /\ l[2] # None
  BY Pairs, CallsAssumption
<1>b. /\ incidents = {} /\ \A l \in Pair : View(l) /\ Order(l) /\ linked[l]
      /\ \A u \in User : Follows(u) /\ Records(u)
  BY LinkedStep DEF Inv, AllLinked, Views, AllFollow, Recorders
<1>c. /\ call \in [Pair -> CallStatus] /\ window \in [Pair -> CallStatus]
      /\ recording \in [User -> BOOLEAN] /\ signals \in [User -> Seq(Signal)]
      /\ telling \in [User -> Task \cup {Idle}] /\ clicking \in [User -> Task \cup {Idle}]
  BY DEF Inv, TypeOK, Signal
<1>d. /\ \A u \in User : telling[u] # Idle => telling[u].friend \in Friends[u]
      /\ \A u \in User : clicking[u] # Idle => clicking[u].friend \in Friends[u] /\ clicking[u] \in Task
  BY <1>c DEF Inv, OfFriends
<1>e. /\ Idle.friend = None
      /\ \A l \in Pair : telling[l[1]] = Idle => ~Told(l)
      /\ \A l \in Pair : clicking[l[1]] = Idle => ~Clicking(l)
  BY <1>a DEF Idle, Told, Clicking
<1>o. ASSUME NEW l \in Pair, UNCHANGED <<signals[l[1]], telling[l[1]], window[l]>>
      PROVE  Order(l)'
  BY <1>b, <1>o DEF Order, Told
<1>r. ASSUME NEW u \in User, UNCHANGED <<recording[u], clicking[u]>>,
             \A f \in Friends[u] : window'[<<u, f>>] = window[<<u, f>>]
      PROVE  Records(u)'
  BY <1>b, <1>r DEF Records
<1>1. ASSUME NEW u \in User, NEW f \in Friends[u], OnCallRequest(u, f) \/ OnCallDrop(u, f)
      PROVE  (\A l \in Pair : Order(l)') /\ (\A v \in User : Records(v)')
  <2>1. /\ clicking[u] = Idle /\ telling[u] = Idle
        /\ UNCHANGED <<signals, clicking, window, recording>>
    <3>1. clicking[u] = Idle
      BY <1>1 DEF OnCallRequest, OnCallDrop, Receive
    <3> QED
      BY <1>1, <3>1 DEF OnCallRequest, OnCallDrop, Receive, EventThreadFree
  <2>2. \/ UNCHANGED telling
        \/ \E to \in CallStatus : Becomes(u, f, to) /\ (Rings(to) => call[<<u, f>>] = "NotCalling")
    BY <1>1 DEF OnCallRequest, OnCallDrop, CallStatus, Rings
  <2>3. ASSUME NEW to \in CallStatus, Becomes(u, f, to), Rings(to) => call[<<u, f>>] = "NotCalling",
               NEW l \in Pair
        PROVE  Order(l)'
    <3>1. /\ telling'[u] = [friend |-> f, to |-> to, step |-> "Tell"]
          /\ \A v \in User : v # u => telling'[v] = telling[v]
      BY <1>c, <2>3 DEF Becomes
    <3>2. CASE l[1] = u /\ l[2] = f
      <4>1. l = <<u, f>> /\ ~Told(l) /\ ~Clicking(l) /\ telling'[u].to = to
        BY <1>a, <1>e, <2>1, <3>1, <3>2
      <4>2. Rings(to) => Ends(signals[u], f, window[l])
        <5>1. \A i \in Nat : /\ SignalAt(l, i) <=> At(signals[u], f, i)
                             /\ LastSignal(l, i) <=> At(signals[u], f, i)
                                    /\ \A k \in Nat : At(signals[u], f, k) => k <= i
          BY <3>2 DEF SignalAt, LastSignal, At
        <5>2. View(l)
          BY <1>b
        <5> QED
          BY <2>3, <3>2, <4>1, <5>1, <5>2 DEF View, Ends
      <4> QED
        BY <1>b, <2>1, <3>2, <4>1, <4>2 DEF Order
    <3>3. CASE l[1] = u /\ l[2] # f
      <4>1. ~Told(l)'
        BY <3>1, <3>3 DEF Told
      <4> QED
        BY <1>b, <2>1, <4>1 DEF Order
    <3>4. CASE l[1] # u
      BY <1>a, <1>o, <2>1, <3>1, <3>4
    <3> QED
      BY <3>2, <3>3, <3>4
  <2>4. CASE UNCHANGED telling
    BY <1>o, <1>r, <2>1, <2>4
  <2>5. \A v \in User : Records(v)'
    BY <1>r, <2>1
  <2> QED
    BY <2>2, <2>3, <2>4, <2>5
<1>2. ASSUME NEW u \in User, EventThreadTells(u)
      PROVE  (\A l \in Pair : Order(l)') /\ (\A v \in User : Records(v)')
  <2> DEFINE t == telling[u]
             e == [friend |-> t.friend, status |-> call[<<u, t.friend>>]]
  <2>1. /\ t # Idle /\ t.friend \in Friends[u] /\ t.friend \in User /\ <<u, t.friend>> \in Pair
        /\ t.to = call[<<u, t.friend>>] /\ clicking[u] = Idle
    BY <1>2, <1>a, <1>b, <1>d DEF EventThreadTells, Follows
  <2>2. /\ telling' = [telling EXCEPT ![u] = Idle] /\ signals' = [signals EXCEPT ![u] = Append(@, e)]
        /\ UNCHANGED <<clicking, window, recording>>
    BY <1>2 DEF EventThreadTells
  <2>3. e \in Signal /\ signals[u] \in Seq(Signal) /\ e.friend = t.friend /\ e.status = t.to
    BY <1>c, <2>1 DEF Signal
  <2> HIDE DEF e
  <2>4. ASSUME NEW l \in Pair
        PROVE  Order(l)'
    <3>1. CASE l[1] = u
      <4>1. ~Told(l)'
        BY <1>a, <1>c, <1>e, <2>2, <3>1 DEF Told
      <4>2. Orderly(signals[u], l[2], window[l])
        BY <1>b, <3>1 DEF Order
      <4>3. e.friend = l[2] /\ Rings(e.status) => Ends(signals[u], l[2], window[l])
        BY <1>b, <2>3, <3>1 DEF Order, Told
      <4>4. Orderly(Append(signals[u], e), l[2], window[l])
        BY <2>3, <4>2, <4>3, OrderlyAppended
      <4>5. signals'[l[1]] = Append(signals[u], e) /\ window'[l] = window[l]
        BY <1>c, <2>2, <3>1
      <4> QED
        BY <4>1, <4>4, <4>5 DEF Order
    <3>2. CASE l[1] # u
      BY <1>a, <1>c, <1>o, <2>2, <3>2
    <3> QED
      BY <3>1, <3>2
  <2>5. \A v \in User : Records(v)'
    BY <1>r, <2>2
  <2> QED
    BY <2>4, <2>5
<1>3. ASSUME NEW u \in User, ShowSignal(u)
      PROVE  (\A l \in Pair : Order(l)') /\ (\A v \in User : Records(v)')
  <2>1. /\ clicking[u] = Idle /\ signals[u] \in Seq(Signal) /\ signals[u] # <<>>
        /\ signals' = [signals EXCEPT ![u] = Tail(@)]
        /\ UNCHANGED <<telling, clicking>>
    BY <1>3, <1>c DEF ShowSignal, WindowThreadFree
  <2>2. PICK e \in Signal : e = Head(signals[u]) /\ e.friend \in Friends[u]
    <3>1. Head(signals[u]) = signals[u][1] /\ 1 \in 1..Len(signals[u]) /\ signals[u][1] \in Signal
      BY <2>1, Rest
    <3> QED
      BY <3>1 DEF Inv, OfFriends
  <2> DEFINE k == <<u, e.friend>>
  <2>3. /\ k \in Pair /\ window' = [window EXCEPT ![k] = e.status]
        /\ recording' = [recording EXCEPT ![u] = CASE e.status = "Established" -> TRUE
                                                   [] e.status = "NotCalling" -> FALSE
                                                   [] OTHER -> @]
    BY <1>3, <1>a, <2>2 DEF ShowSignal, Shown
  <2>4. ASSUME NEW l \in Pair, l[1] = u
        PROVE  Order(l)' /\ (l = k /\ Rings(e.status) => window[l] = "NotCalling")
    <3>1. l = k <=> e.friend = l[2]
      BY <1>a, <2>4
    <3>2. window'[l] = IF e.friend = l[2] THEN e.status ELSE window[l]
      BY <1>c, <2>3, <3>1
    <3>3. /\ Orderly(signals[u], l[2], window[l]) => Orderly(Tail(signals[u]), l[2], window'[l])
          /\ Ends(signals[u], l[2], window[l]) => Ends(Tail(signals[u]), l[2], window'[l])
          /\ Orderly(signals[u], l[2], window[l]) /\ e.friend = l[2] /\ Rings(e.status)
               => window[l] = "NotCalling"
      BY <2>1, <2>2, <3>2, OrderlyRest
    <3>4. signals'[l[1]] = Tail(signals[u]) /\ telling' = telling
      BY <1>c, <2>1, <2>4
    <3> QED
      BY <1>b, <2>4, <3>1, <3>3, <3>4 DEF Order, Told
  <2>5. ASSUME NEW l \in Pair, l[1] # u
        PROVE  Order(l)'
    <3>1. l # k
      BY <2>5
    <3> QED
      BY <1>a, <1>c, <1>o, <2>1, <2>3, <2>5, <3>1
  <2>6. ASSUME recording'[u]
        PROVE  \E f \in Friends[u] : window'[<<u, f>>] = "Established"
    <3>1. CASE e.status = "Established"
      BY <1>c, <2>2, <2>3, <3>1
    <3>2. CASE e.status # "Established"
      <4>1. recording[u] /\ Rings(e.status)
        BY <1>c, <2>3, <2>6, <3>2 DEF Rings
      <4>2. PICK f \in Friends[u] : window[<<u, f>>] = "Established"
        BY <1>b, <2>1, <4>1 DEF Records
      <4>3. window[k] = "NotCalling"
        BY <2>3, <2>4, <4>1
      <4>4. <<u, f>> # k /\ <<u, f>> \in Pair
        BY <1>a, <4>2, <4>3
      <4>5. window'[<<u, f>>] = "Established"
        BY <1>c, <2>3, <4>2, <4>4
      <4> QED
        BY <4>5
    <3> QED
      BY <3>1, <3>2
  <2>7. ASSUME NEW v \in User
        PROVE  Records(v)'
    <3>1. CASE v = u
      BY <2>6, <3>1 DEF Records
    <3>2. CASE v # u
      <4>1. \A f \in Friends[v] : <<v, f>> # k /\ <<v, f>> \in Pair
        BY <1>a, <3>2
      <4> QED
        BY <1>c, <1>r, <2>1, <2>3, <3>2, <4>1
    <3> QED
      BY <3>1, <3>2
  <2> QED
    BY <2>4, <2>5, <2>7
<1>4. ASSUME NEW u \in User, NEW f \in Friends[u], StartCall(u, f) \/ FinishCall(u, f)
      PROVE  (\A l \in Pair : Order(l)') /\ (\A v \in User : Records(v)')
  <2> DEFINE k == <<u, f>>
  <2>1. /\ clicking[u] = Idle /\ telling[u] = Idle /\ k \in Pair /\ k[1] = u /\ k[2] = f
        /\ \A i \in Nat : ~SignalAt(k, i)
        /\ UNCHANGED <<telling, signals, recording>>
    <3>1. clicking[u] = Idle /\ k \in Pair /\ k[1] = u /\ k[2] = f
      BY <1>4, <1>a DEF StartCall, FinishCall, Clicked, WindowThreadFree
    <3>2. PICK shown : Clicked(u, f, shown)
      BY <1>4 DEF StartCall, FinishCall
    <3>3. telling[u] = Idle /\ \A i \in 1..Len(signals[u]) : signals[u][i].friend # f
      BY <3>2 DEF Clicked
    <3> QED
      BY <3>1, <3>2, <3>3 DEF Clicked, SignalAt
  <2>2. PICK shown : window' = [window EXCEPT ![k] = shown]
    BY <1>4 DEF StartCall, FinishCall, Clicked
  <2>3. window[k] = call[k]
    BY <1>b, <1>e, <2>1 DEF View
  <2>4. ASSUME NEW l \in Pair
        PROVE  Order(l)'
    <3>1. CASE l = k
      <4>1. \A i \in Nat : ~At(signals[u], f, i)
        BY <2>1 DEF SignalAt, At
      <4>2. Orderly(signals[u], f, window'[k])
        BY <4>1 DEF Orderly
      <4>3. ~Told(k)'
        BY <1>e, <2>1 DEF Told
      <4> QED
        BY <2>1, <3>1, <4>2, <4>3 DEF Order
    <3>2. CASE l # k
      BY <1>c, <1>o, <2>1, <2>2, <3>2
    <3> QED
      BY <3>1, <3>2
  <2>5. clicking' = clicking \/ \E to \in CallStatus : Then(u, f, to)
    BY <1>4 DEF StartCall, FinishCall, CallStatus
  <2>6. ASSUME recording[u]
        PROVE  \E g \in Friends[u] : \/ window'[<<u, g>>] = "Established"
                                     \/ clicking'[u] # Idle /\ clicking'[u].friend = g /\ clicking'[u].to = "NotCalling"
    <3>1. PICK g \in Friends[u] : window[<<u, g>>] = "Established"
      BY <1>b, <2>1, <2>6 DEF Records
    <3>2. CASE g # f
      <4>1. <<u, g>> # k /\ <<u, g>> \in Pair
        BY <1>a, <3>2
      <4> QED
        BY <1>c, <2>2, <3>1, <4>1
    <3>3. CASE g = f
      <4>1. FinishCall(u, f) /\ call[k] = "Established"
        BY <1>4, <2>3, <3>1, <3>3 DEF StartCall
      <4>2. Then(u, f, "NotCalling")
        BY <1>b, <2>1, <4>1 DEF FinishCall
      <4>3. clicking'[u] = [friend |-> f, to |-> "NotCalling", step |-> "Assign"]
        BY <1>c, <4>2 DEF Then
      <4>4. clicking'[u].friend = f /\ clicking'[u].to = "NotCalling" /\ clicking'[u] # Idle
        BY <1>a, <1>e, <2>1, <4>3
      <4> QED
        BY <4>4
    <3> QED
      BY <3>2, <3>3
  <2>7. ASSUME NEW v \in User
        PROVE  Records(v)'
    <3>1. CASE v = u
      BY <2>1, <2>6, <3>1 DEF Records
    <3>2. CASE v # u
      <4>1. \A g \in Friends[v] : <<v, g>> # k /\ <<v, g>> \in Pair
        BY <1>a, <3>2
      <4>2. clicking'[v] = clicking[v]
        BY <1>c, <2>5, <3>2 DEF Then
      <4> QED
        BY <1>c, <1>r, <2>1, <2>2, <4>1, <4>2
    <3> QED
      BY <3>1, <3>2
  <2> QED
    BY <2>4, <2>7
<1>5. ASSUME NEW u \in User, ClickAssigns(u)
      PROVE  (\A l \in Pair : Order(l)') /\ (\A v \in User : Records(v)')
  <2> DEFINE t == clicking[u]
  <2>1. /\ t # Idle /\ t \in Task /\ t.friend \in Friends[u]
        /\ clicking' = [clicking EXCEPT ![u] = IF t.to = "WaitingFriendConfirm" THEN Idle
                                               ELSE [t EXCEPT !.step = "Tell"]]
        /\ UNCHANGED <<telling, signals, window, recording>>
    BY <1>5, <1>d DEF ClickAssigns
  <2>2. \A l \in Pair : Order(l)'
    BY <1>o, <2>1
  <2>3. ASSUME NEW v \in User
        PROVE  Records(v)'
    <3>1. CASE v = u
      <4>1. CASE t.to = "NotCalling"
        <5>1. clicking'[u] = [t EXCEPT !.step = "Tell"]
          BY <1>c, <2>1, <4>1
        <5>2. clicking'[u].friend = t.friend /\ clicking'[u].to = "NotCalling"
          BY <2>1, <4>1, <5>1 DEF Task
        <5>3. clicking'[u] # Idle
          BY <1>a, <1>e, <2>1, <5>2
        <5> QED
          BY <2>1, <3>1, <5>2, <5>3 DEF Records
      <4>2. CASE t.to # "NotCalling"
        BY <1>b, <2>1, <3>1, <4>2 DEF Records
      <4> QED
        BY <4>1, <4>2
    <3>2. CASE v # u
      BY <1>c, <1>r, <2>1, <3>2
    <3> QED
      BY <3>1, <3>2
  <2> QED
    BY <2>2, <2>3
<1>6. ASSUME NEW u \in User, ClickTells(u)
      PROVE  (\A l \in Pair : Order(l)') /\ (\A v \in User : Records(v)')
  <2> DEFINE t == clicking[u]
             k == <<u, t.friend>>
  <2>1. /\ t # Idle /\ t.step = "Tell" /\ t.friend \in Friends[u] /\ k \in Pair /\ telling[u] = Idle
        /\ t.to = call[k] /\ t.to \in {"NotCalling", "Established"} /\ k[1] = u /\ k[2] = t.friend
    BY <1>6, <1>a, <1>b, <1>d DEF ClickTells, Follows
  <2>2. /\ clicking' = [clicking EXCEPT ![u] = Idle]
        /\ window' = [window EXCEPT ![k] = call[k]]
        /\ recording' = [recording EXCEPT ![u] = CASE call[k] = "Established" -> TRUE
                                                   [] call[k] = "NotCalling" -> FALSE
                                                   [] OTHER -> @]
        /\ UNCHANGED <<telling, signals>>
    BY <1>6 DEF ClickTells, Shown
  <2>3. ASSUME NEW l \in Pair
        PROVE  Order(l)'
    <3>1. CASE l = k
      <4>1. \A i \in Nat : ~At(signals[u], t.friend, i)
        <5>1. Clicking(k) /\ View(k)
          BY <1>b, <2>1 DEF Clicking
        <5> QED
          BY <2>1, <5>1 DEF View, SignalAt, At
      <4>2. Orderly(signals[u], t.friend, window'[k])
        BY <4>1 DEF Orderly
      <4>3. l[1] = u /\ l[2] = t.friend /\ t.friend # None /\ telling'[u] = Idle /\ signals' = signals
        BY <1>a, <2>1, <2>2, <3>1
      <4>4. ~Told(l)'
        BY <1>e, <4>3 DEF Told
      <4>5. Orderly(signals[u], t.friend, window'[l])
        BY <3>1, <4>2
      <4> QED
        BY <4>3, <4>4, <4>5 DEF Order
    <3>2. CASE l # k
      BY <1>c, <1>o, <2>2, <3>2
    <3> QED
      BY <3>1, <3>2
  <2>4. ASSUME NEW v \in User
        PROVE  Records(v)'
    <3>1. CASE v = u
      <4>1. CASE call[k] = "Established"
        <5>1. window'[<<u, t.friend>>] = "Established"
          BY <1>c, <2>1, <2>2, <4>1
        <5> QED
          BY <2>1, <3>1, <5>1 DEF Records
      <4>2. CASE call[k] = "NotCalling"
        <5>1. ~recording'[u]
          BY <1>c, <2>2, <4>2
        <5> QED
          BY <3>1, <5>1 DEF Records
      <4> QED
        BY <2>1, <4>1, <4>2
    <3>2. CASE v # u
      <4>1. \A f \in Friends[v] : <<v, f>> # k /\ <<v, f>> \in Pair
        BY <1>a, <3>2
      <4> QED
        BY <1>c, <1>r, <2>2, <3>2, <4>1
    <3> QED
      BY <3>1, <3>2
  <2> QED
    BY <2>3, <2>4
<1>7. ASSUME UNCHANGED <<telling, clicking, signals, window, recording>>
      PROVE  (\A l \in Pair : Order(l)') /\ (\A v \in User : Records(v)')
  BY <1>o, <1>r, <1>7
<1>8. ASSUME NEW u \in User, AudioDies(u)
      PROVE  (\A l \in Pair : Order(l)') /\ (\A v \in User : Records(v)')
  BY <1>7, <1>8 DEF AudioDies
<1>9. ASSUME NEW k \in Pair, LinkLost(k) \/ LinkMade(k) \/ Authorized(k)
      PROVE  (\A l \in Pair : Order(l)') /\ (\A v \in User : Records(v)')
  BY <1>7, <1>9 DEF LinkLost, LinkMade, Authorized, OnlyLink
<1>10. CASE UNCHANGED vars
  BY <1>7, <1>10 DEF vars
<1> QED
  BY <1>1, <1>2, <1>3, <1>4, <1>5, <1>6, <1>8, <1>9, <1>10
     DEF Next, EventThread, WindowThread, Click

\* The sound goes only to a friend with whom a call is established, and nothing is recorded
\* without a call, however the calls with several friends start and end (friend.cpp:167, 188,
\* 396, 403; application.cpp:34-78).
THEOREM MicrophoneFollows == Spec => []MicrophoneFollowsCalls
<1> DEFINE J == Inv /\ AllFollow /\ Recorders
<1>1. Init => J
  <2> SUFFICES ASSUME Init
               PROVE  J
    OBVIOUS
  <2>1. Inv
    BY InvInit
  <2>2. AllFollow
    BY DEF Init, AllFollow, Follows
  <2>3. \A l \in Pair : l[1] \in User /\ l[2] # None /\ Idle.friend = None
    BY Pairs, CallsAssumption DEF Idle
  <2>4. \A f, w : Orderly(<<>>, f, w)
    <3>1. \A i \in 1..0 : FALSE
      OBVIOUS
    <3>2. Len(<<>>) = 0
      BY EmptySeq
    <3> QED
      BY <3>1, <3>2 DEF Orderly, At
  <2>5. \A l \in Pair : Order(l)
    BY <2>3, <2>4 DEF Init, Order, Told
  <2>6. \A u \in User : Records(u)
    BY DEF Init, Records
  <2> QED
    BY <2>1, <2>2, <2>5, <2>6 DEF Recorders
<1>2. J /\ [Next]_vars => J'
  BY InvStep, FollowsStep, RecordersStep
<1>3. ASSUME J, NEW u \in User, Quiet(u)
      PROVE  /\ "Raced" \notin incidents /\ calling[u] # None => call[<<u, calling[u]>>] = "Established"
             /\ incidents = {} /\ recording[u] => \E f \in Friends[u] : call[<<u, f>>] = "Established"
  <2>1. telling[u] = Idle /\ clicking[u] = Idle /\ signals[u] = <<>>
    BY <1>3 DEF Quiet
  <2>2. ASSUME "Raced" \notin incidents, calling[u] # None
        PROVE  call[<<u, calling[u]>>] = "Established"
    <3>1. Follows(u)
      BY <1>3, <2>2 DEF AllFollow
    <3>2. calling[u] \in Friends[u] /\ Idle.friend = None
      BY <2>2, <3>1 DEF Follows, Idle
    <3> QED
      BY <2>1, <2>2, <3>1, <3>2 DEF Follows, Ending
  <2>3. ASSUME incidents = {}, recording[u]
        PROVE  \E f \in Friends[u] : call[<<u, f>>] = "Established"
    <3>1. PICK f \in Friends[u] : window[<<u, f>>] = "Established"
      BY <1>3, <2>1, <2>3 DEF Recorders, Records
    <3>2. <<u, f>> \in Pair
      BY Pairs
    <3>3. window[<<u, f>>] = call[<<u, f>>]
      BY <1>3, <2>1, <2>3, <3>2, QuietWindow DEF Quiet
    <3> QED
      BY <3>1, <3>3
  <2> QED
    BY <2>2, <2>3
<1>4. J => MicrophoneFollowsCalls
  BY <1>3 DEF MicrophoneFollowsCalls
<1> HIDE DEF J
<1> QED
  BY <1>1, <1>2, <1>4, PTL DEF Spec
=============================================================================
