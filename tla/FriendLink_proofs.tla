-------------------------- MODULE FriendLink_proofs --------------------------
(***************************************************************************)
(* Proofs about FriendLink, for every number of UDT clients, of links that *)
(* break, of attempts that time out and of packets of the server.          *)
(*                                                                         *)
(* That two friends who are linked have each other's keys, and show each   *)
(* other as available, is a consequence of an invariant, Meets, whose      *)
(* parts keep each other:                                                  *)
(*   LinkTypes, Control  the types, and which clients there can be            *)
(*   Clients          a client is in the state that its friend's           *)
(*                    ConnectionStatus says, or the news of it is queued   *)
(*   Greeted          one who waits on a port has greeted the server to be *)
(*   Exchanges        of two who face each other over a link, each has     *)
(*                    exchanged keys or what is under way will do it       *)
(*   Shown            who is authorized both ways is shown as available    *)
(*   HasClients       who is connected has a client                        *)
(* What is under way to a friend is its event queue and, behind it, the    *)
(* packets on the link: one sequence, In, of which the lemmas of the third *)
(* section say what taking, queueing and sending do to it.                 *)
(***************************************************************************)
EXTENDS FriendLink, SequenceTheorems, TLAPS

-----------------------------------------------------------------------------
(* Data *)

AnyPacket == Request \cup FriendPacket
Answer == ServerPacket \cup FriendPacket

\* The packets and events that the actions make.
LEMMA Packets ==
    /\ [type |-> "Hello"] \in Request
    /\ \A a \in BOOLEAN, n \in Port, c \in Client :
          [type |-> "Help", accepting |-> a, port |-> n, challenge |-> c] \in Request
    /\ [type |-> "Offline"] \in ServerPacket /\ [type |-> "Listen"] \in ServerPacket
    /\ \A c \in Client : [type |-> "Challenge", challenge |-> c] \in ServerPacket
    /\ \A t \in Target : /\ [type |-> "NatTraversal", target |-> t] \in ServerPacket
                         /\ [type |-> "Connect", target |-> t] \in ServerPacket
    /\ \A r \in Nat : [type |-> "RandomSequence", random |-> r] \in FriendPacket
    /\ \A r, k \in Nat : [type |-> "Confirm", random |-> r, key |-> k] \in FriendPacket
    /\ \A k \in Nat : [type |-> "Authorized", key |-> k] \in FriendPacket
<1>1. /\ [type |-> "Hello"] \in Request
      /\ \A a \in BOOLEAN, n \in Port, c \in Client :
            [type |-> "Help", accepting |-> a, port |-> n, challenge |-> c] \in Request
  BY DEF Request
<1>2. /\ [type |-> "Offline"] \in ServerPacket /\ [type |-> "Listen"] \in ServerPacket
      /\ \A c \in Client : [type |-> "Challenge", challenge |-> c] \in ServerPacket
      /\ \A t \in Target : /\ [type |-> "NatTraversal", target |-> t] \in ServerPacket
                           /\ [type |-> "Connect", target |-> t] \in ServerPacket
  BY DEF ServerPacket
<1>3. /\ \A r \in Nat : [type |-> "RandomSequence", random |-> r] \in FriendPacket
      /\ \A r, k \in Nat : [type |-> "Confirm", random |-> r, key |-> k] \in FriendPacket
      /\ \A k \in Nat : [type |-> "Authorized", key |-> k] \in FriendPacket
  BY DEF FriendPacket
<1> QED BY <1>1, <1>2, <1>3

\* The events that the workers make.
LEMMA Events ==
    /\ \A s \in BOOLEAN : [type |-> "Connected", success |-> s] \in Event
    /\ [type |-> "Accepted"] \in Event /\ [type |-> "Lost"] \in Event
    /\ \A d \in Answer : [type |-> "Data", packet |-> d] \in Event
BY DEF Event, Answer

\* What is in an event with a packet.
LEMMA Contents ==
    ASSUME NEW e \in Event, e.type = "Data"
    PROVE  /\ e.packet \in Answer
           /\ e.packet.type = "Challenge" => e.packet.challenge \in Client
           /\ e.packet.type \in {"NatTraversal", "Connect"} => e.packet.target \in Target
           /\ e.packet.type = "RandomSequence" => e.packet.random \in Nat
           /\ e.packet.type = "Confirm" => e.packet.random \in Nat /\ e.packet.key \in Nat
           /\ e.packet.type = "Authorized" => e.packet.key \in Nat
<1>1. e.packet \in Answer
  BY DEF Event, Answer
<1>2. e.packet \in ServerPacket \/ e.packet \in FriendPacket
  BY <1>1 DEF Answer
<1>3. CASE e.packet \in ServerPacket
  BY <1>1, <1>3 DEF ServerPacket
<1>4. CASE e.packet \in FriendPacket
  BY <1>1, <1>4 DEF FriendPacket
<1> QED BY <1>2, <1>3, <1>4

\* What is in a request for help.
LEMMA HelpContents ==
    ASSUME NEW r \in AnyPacket, r.type = "Help"
    PROVE  r.port \in Port /\ r.challenge \in Client
BY DEF AnyPacket, Request, FriendPacket

\* Targets.
LEMMA Targets ==
    /\ <<"None">> \in Target /\ <<"Server">> \in Target
    /\ \A i \in Client : <<"Client", i>> \in Target
    /\ \A n \in Port : <<"Port", n>> \in Target
    /\ \A t \in Target : t[1] = "Client" => t[2] \in Client
    /\ \A t \in Target : t[1] = "Port" => t[2] \in Port
    /\ \A t \in Target : t[1] = "Server" => t = <<"Server">>
    /\ 0 \in Port /\ Garbage \in Port
    /\ \A i \in Client : i \in Port /\ i # 0 /\ i \in 0..MaxClients
    /\ 0 \in 0..MaxClients /\ 0 \notin Client
<1>1. /\ <<"None">> \in Target /\ <<"Server">> \in Target
      /\ \A i \in Client : <<"Client", i>> \in Target
      /\ \A n \in Port : <<"Port", n>> \in Target
      /\ \A t \in Target : t[1] = "Client" => t[2] \in Client
      /\ \A t \in Target : t[1] = "Port" => t[2] \in Port
      /\ \A t \in Target : t[1] = "Server" => t = <<"Server">>
  BY DEF Target
<1>2. 0 \in Port /\ Garbage \in Port /\ \A i \in Client : i \in Port /\ i # 0 /\ i \in 0..MaxClients
  BY LinkAssumption DEF Port, Client
<1>3. 0 \in 0..MaxClients /\ 0 \notin Client
  BY LinkAssumption DEF Client
<1> QED BY <1>1, <1>2, <1>3

\* There are two friends, each the other's.
LEMMA Peers ==
    /\ \A p \in Peer : Other[p] \in Peer /\ Other[p] # p /\ Other[Other[p]] = p
BY LinkAssumption

\* What is appended to a sequence, and what is left without its head.
LEMMA Appended ==
    ASSUME NEW S, NEW q \in Seq(S), NEW e \in S
    PROVE  Append(q, e) \in Seq(S)
BY AppendProperties

LEMMA Rest ==
    ASSUME NEW S, NEW q \in Seq(S), q # <<>>
    PROVE  Head(q) \in S /\ Tail(q) \in Seq(S)
BY HeadTailProperties

LEMMA Nothing == \A S : <<>> \in Seq(S)
BY EmptySeq

\* The client of the friend that a client talks to.
LEMMA PeerClients ==
    ASSUME NEW i \in Client, client \in [Client -> ClientRecord]
    PROVE  /\ PeerClient(i) \in 0..MaxClients
           /\ PeerClient(i) # 0 => /\ PeerClient(i) \in Client
                                   /\ client[i].target = <<"Client", PeerClient(i)>>
                                   /\ client[PeerClient(i)].target = <<"Client", i>>
           /\ client[i].target = <<"Server">> => PeerClient(i) = 0
<1> DEFINE t == client[i].target
<1>1. t \in Target
  BY DEF ClientRecord
<1>2. t[1] = "Client" => t[2] \in Client /\ t = <<"Client", t[2]>>
  BY <1>1 DEF Target
<1>3. t = <<"Server">> => t[1] # "Client"
  OBVIOUS
<1> QED BY <1>2, <1>3, Targets DEF PeerClient

-----------------------------------------------------------------------------
(* Types *)

\* A client that asks a server belongs to the friend and is connected to it; only such a
\* client sends requests, and only one that connects to a port is accepted.
Control ==
    /\ \A p \in Peer :
          /\ mine[p] <= made /\ accepted[p] <= made
          /\ mine[p] # 0 => client[mine[p]].owner = p
          /\ cos[p] \in {"ConnectingToServer", "WaitingFriendAddress"} =>
               mine[p] # 0 /\ client[mine[p]].target = <<"Server">>
          /\ accepted[p] # 0 => client[accepted[p]].target[1] = "Port"
    /\ \A i \in Client :
          /\ i > made => client[i].target = <<"None">>
          /\ client[i].target # <<"Server">> => up[i] \in Seq(FriendPacket)

\* A packet is sent to the friend.
LEMMA SendsPacket ==
    ASSUME LinkTypes, NEW p \in Peer, NEW packet \in FriendPacket, SendRaw(p, packet)
    PROVE  /\ up' \in [Client -> Seq(AnyPacket)] /\ down' \in [Client -> Seq(Answer)]
           /\ \A i \in Client : up[i] \in Seq(FriendPacket) => up'[i] \in Seq(FriendPacket)
<1>1. up \in [Client -> Seq(AnyPacket)] /\ down \in [Client -> Seq(Answer)]
  BY DEF LinkTypes, AnyPacket, Answer
<1>2. packet \in AnyPacket /\ packet \in Answer
  BY DEF AnyPacket, Answer
<1>3. \A i \in Client : up'[i] = up[i] \/ up'[i] = Append(up[i], packet)
  BY DEF SendRaw
<1>4. \A i \in Client : down'[i] = down[i] \/ down'[i] = Append(down[i], packet)
  BY DEF SendRaw
<1>5. up' = [i \in Client |-> up'[i]] /\ down' = [i \in Client |-> down'[i]]
  BY DEF SendRaw
<1>6. \A i \in Client : Append(up[i], packet) \in Seq(AnyPacket)
  BY <1>1, <1>2, Appended
<1>7. \A i \in Client : Append(down[i], packet) \in Seq(Answer)
  BY <1>1, <1>2, Appended
<1>8. \A i \in Client : up[i] \in Seq(FriendPacket) => Append(up[i], packet) \in Seq(FriendPacket)
  BY Appended
<1> QED BY <1>1, <1>3, <1>4, <1>5, <1>6, <1>7, <1>8

\* A request is sent to the server.
LEMMA SendsRequest ==
    ASSUME LinkTypes, Control, NEW p \in Peer, NEW packet \in Request, SendRaw(p, packet),
           cos[p] = "ConnectingToServer"
    PROVE  /\ up' \in [Client -> Seq(AnyPacket)] /\ down' = down
           /\ \A i \in Client : client[i].target # <<"Server">> => up'[i] = up[i]
<1>1. up \in [Client -> Seq(AnyPacket)] /\ down \in [Client -> Seq(Answer)]
  BY DEF LinkTypes, AnyPacket, Answer
<1>2. mine[p] \in Client /\ client[mine[p]].target = <<"Server">>
  BY DEF LinkTypes, Control, Client
<1>3. PeerClient(mine[p]) = 0 /\ 0 \notin Client
  BY <1>2, PeerClients, Targets DEF LinkTypes
<1>4. down' = [j \in Client |-> down[j]]
  BY <1>3 DEF SendRaw
<1>5. \A i \in Client : up'[i] = up[i] \/ (i = mine[p] /\ up'[i] = Append(up[i], packet))
  BY DEF SendRaw
<1>6. up' = [i \in Client |-> up'[i]]
  BY DEF SendRaw
<1>7. \A i \in Client : Append(up[i], packet) \in Seq(AnyPacket)
  BY <1>1, Appended DEF AnyPacket
<1> QED BY <1>1, <1>2, <1>4, <1>5, <1>6, <1>7

\* No client changes its owner or its target.
SameTargets == \A i \in Client : /\ client'[i].owner = client[i].owner
                                 /\ client'[i].target = client[i].target

\* A client becomes connected or disconnected, its link breaks, or a server accepts it.
LEMMA ClientChanges ==
    ASSUME LinkTypes, NEW i, NEW u \in {"Disconnected", "Connecting", "Connected"}
    PROVE  /\ client' = [client EXCEPT ![i].udt = u] =>
                client' \in [Client -> ClientRecord] /\ SameTargets
           /\ client' = [client EXCEPT ![i].broken = TRUE] =>
                client' \in [Client -> ClientRecord] /\ SameTargets
           /\ client' = [client EXCEPT ![i].taken = TRUE] =>
                client' \in [Client -> ClientRecord] /\ SameTargets
<1>1. client \in [Client -> ClientRecord]
  BY DEF LinkTypes
<1>2. \A r \in ClientRecord : /\ [r EXCEPT !.udt = u] \in ClientRecord
                             /\ [r EXCEPT !.broken = TRUE] \in ClientRecord
                             /\ [r EXCEPT !.taken = TRUE] \in ClientRecord
  BY DEF ClientRecord
<1>3. \A r \in ClientRecord : /\ [r EXCEPT !.udt = u].owner = r.owner
                             /\ [r EXCEPT !.udt = u].target = r.target
                             /\ [r EXCEPT !.broken = TRUE].owner = r.owner
                             /\ [r EXCEPT !.broken = TRUE].target = r.target
                             /\ [r EXCEPT !.taken = TRUE].owner = r.owner
                             /\ [r EXCEPT !.taken = TRUE].target = r.target
  BY DEF ClientRecord
<1>4. ASSUME NEW f, f \in {[client[i] EXCEPT !.udt = u], [client[i] EXCEPT !.broken = TRUE],
                          [client[i] EXCEPT !.taken = TRUE]},
             client' = [client EXCEPT ![i] = f]
      PROVE  client' \in [Client -> ClientRecord] /\ SameTargets
  <2>1. CASE i \in Client
    <3>1. f \in ClientRecord /\ f.owner = client[i].owner /\ f.target = client[i].target
      BY <1>1, <1>2, <1>3, <1>4, <2>1
    <3> QED BY <1>1, <1>4, <2>1, <3>1 DEF SameTargets
  <2>2. CASE i \notin Client
    BY <1>1, <1>4, <2>2 DEF SameTargets
  <2> QED BY <2>1, <2>2
<1> QED BY <1>4

\* Control after a step that makes no client and turns none to another target.
LEMMA ControlKept ==
    ASSUME Control, LinkTypes, SameTargets, mine' = mine, made' = made,
           accepted' \in [Peer -> 0..MaxClients],
           \A p \in Peer : accepted'[p] \in {accepted[p], 0},
           \A p \in Peer : cos'[p] \in {"ConnectingToServer", "WaitingFriendAddress"} =>
                             cos[p] \in {"ConnectingToServer", "WaitingFriendAddress"},
           \A i \in Client : client[i].target # <<"Server">> =>
                               up'[i] = up[i] \/ up'[i] \in Seq(FriendPacket)
    PROVE  Control'
<1>1. made \in Nat /\ \A p \in Peer : mine[p] # 0 => mine[p] \in Client
  BY DEF LinkTypes, Client
<1>2. \A p \in Peer : accepted[p] # 0 => accepted[p] \in Client
  BY DEF LinkTypes, Client
<1>3. \A p \in Peer : /\ mine'[p] <= made' /\ accepted'[p] <= made'
                      /\ accepted'[p] # 0 => client'[accepted'[p]].target[1] = "Port"
  BY <1>1, <1>2 DEF Control, SameTargets
<1>4. \A p \in Peer : mine'[p] # 0 => client'[mine'[p]].owner = p
  BY <1>1 DEF Control, SameTargets
<1>5. \A p \in Peer : cos'[p] \in {"ConnectingToServer", "WaitingFriendAddress"} =>
                        mine'[p] # 0 /\ client'[mine'[p]].target = <<"Server">>
  BY <1>1 DEF Control, SameTargets
<1>6. \A i \in Client : /\ i > made' => client'[i].target = <<"None">>
                        /\ client'[i].target # <<"Server">> => up'[i] \in Seq(FriendPacket)
  BY DEF Control, SameTargets
<1> QED BY <1>3, <1>4, <1>5, <1>6 DEF Control

\* The event queue and the packets of the own server.
LEMMA Queues ==
    ASSUME LinkTypes, NEW p \in Peer
    PROVE  /\ \A e \in Event : Queued(p, e) => events' \in [Peer -> Seq(Event)]
           /\ events[p] # <<>> /\ PopEvent(p) =>
                Head(events[p]) \in Event /\ events' \in [Peer -> Seq(Event)]
           /\ main[p] # <<>> /\ PopMain(p) =>
                main' \in [Peer -> Seq({"SyncInfo", "ConnectToFriend"})]
<1>1. events \in [Peer -> Seq(Event)] /\ main \in [Peer -> Seq({"SyncInfo", "ConnectToFriend"})]
  BY DEF LinkTypes
<1>2. \A e \in Event : Append(events[p], e) \in Seq(Event)
  BY <1>1, Appended
<1>3. events[p] # <<>> => Head(events[p]) \in Event /\ Tail(events[p]) \in Seq(Event)
  BY <1>1, Rest
<1>4. main[p] # <<>> => Tail(main[p]) \in Seq({"SyncInfo", "ConnectToFriend"})
  BY <1>1, Rest
<1>5. \A e \in Event : Queued(p, e) => events' \in [Peer -> Seq(Event)]
  BY <1>1, <1>2 DEF Queued
<1>6. events[p] # <<>> /\ PopEvent(p) => events' \in [Peer -> Seq(Event)]
  BY <1>1, <1>3 DEF PopEvent
<1>7. main[p] # <<>> /\ PopMain(p) => main' \in [Peer -> Seq({"SyncInfo", "ConnectToFriend"})]
  BY <1>1, <1>4 DEF PopMain
<1> QED BY <1>3, <1>5, <1>6, <1>7

\* What is under way loses its first packet.
LEMMA Taken ==
    ASSUME LinkTypes, NEW i \in Client
    PROVE  /\ up[i] # <<>> => Head(up[i]) \in AnyPacket
           /\ down[i] # <<>> => Head(down[i]) \in Answer
           /\ up[i] # <<>> /\ up' = [up EXCEPT ![i] = Tail(@)] =>
                /\ up' \in [Client -> Seq(AnyPacket)]
                /\ \A j \in Client : up[j] \in Seq(FriendPacket) => up'[j] \in Seq(FriendPacket)
           /\ down[i] # <<>> /\ down' = [down EXCEPT ![i] = Tail(@)] =>
                down' \in [Client -> Seq(Answer)]
<1>1. up \in [Client -> Seq(AnyPacket)] /\ down \in [Client -> Seq(Answer)]
  BY DEF LinkTypes, AnyPacket, Answer
<1>2. up[i] # <<>> => Head(up[i]) \in AnyPacket /\ Tail(up[i]) \in Seq(AnyPacket)
  BY <1>1, Rest
<1>3. down[i] # <<>> => Head(down[i]) \in Answer /\ Tail(down[i]) \in Seq(Answer)
  BY <1>1, Rest
<1>4. up[i] # <<>> /\ up[i] \in Seq(FriendPacket) => Tail(up[i]) \in Seq(FriendPacket)
  BY Rest
<1>5. ASSUME up[i] # <<>>, up' = [up EXCEPT ![i] = Tail(@)]
      PROVE  /\ up' \in [Client -> Seq(AnyPacket)]
             /\ \A j \in Client : up[j] \in Seq(FriendPacket) => up'[j] \in Seq(FriendPacket)
  BY <1>1, <1>2, <1>4, <1>5
<1>6. ASSUME down[i] # <<>>, down' = [down EXCEPT ![i] = Tail(@)]
      PROVE  down' \in [Client -> Seq(Answer)]
  BY <1>1, <1>3, <1>6
<1> QED BY <1>2, <1>3, <1>5, <1>6

\* The friend is disconnected.
LEMMA Disconnects ==
    ASSUME LinkTypes, NEW p \in Peer, OnDisconnected(p)
    PROVE  /\ status' \in [Peer -> {"Offline", "Available"}] /\ cos' \in [Peer -> ConnectionStatus]
           /\ \A r \in Peer : cos'[r] \in {cos[r], "Offline"}
BY DEF LinkTypes, OnDisconnected, ConnectionStatus

\* A step of the worker of a client or of the server keeps the types.
LEMMA WorkerKeepsTypes ==
    ASSUME LinkTypes, Control, NEW p \in Peer, Worker(p) \/ WorkerTimedOut(p)
    PROVE  LinkTypes' /\ Control'
<1> USE DEF serverVars, authVars, linkVars
<1>1. CASE WorkerConnected(p)
  <2>1. client' \in [Client -> ClientRecord] /\ SameTargets
    BY <1>1, ClientChanges DEF WorkerConnected
  <2>2. events' \in [Peer -> Seq(Event)]
    BY <1>1, Queues, Events DEF WorkerConnected
  <2>3. LinkTypes'
    BY <1>1, <2>1, <2>2 DEF WorkerConnected, LinkTypes
  <2>4. Control'
    BY <1>1, <2>1, ControlKept DEF WorkerConnected, LinkTypes
  <2> QED BY <2>3, <2>4
<1>2. CASE WorkerTimedOut(p)
  <2>1. client' \in [Client -> ClientRecord] /\ SameTargets
    BY <1>2, ClientChanges DEF WorkerTimedOut
  <2>2. events' \in [Peer -> Seq(Event)]
    BY <1>2, Queues, Events DEF WorkerTimedOut
  <2>3. /\ status' \in [Peer -> {"Offline", "Available"}] /\ cos' \in [Peer -> ConnectionStatus]
        /\ \A r \in Peer : cos'[r] \in {cos[r], "Offline"}
    BY <1>2, Disconnects DEF WorkerTimedOut
  <2>4. LinkTypes'
    BY <1>2, <2>1, <2>2, <2>3 DEF WorkerTimedOut, LinkTypes
  <2>5. Control'
    BY <1>2, <2>1, <2>3, ControlKept DEF WorkerTimedOut, LinkTypes
  <2> QED BY <2>4, <2>5
<1>3. CASE WorkerLost(p)
  <2>1. client' \in [Client -> ClientRecord] /\ SameTargets
    BY <1>3, ClientChanges DEF WorkerLost
  <2>2. /\ status' \in [Peer -> {"Offline", "Available"}] /\ cos' \in [Peer -> ConnectionStatus]
        /\ \A r \in Peer : cos'[r] \in {cos[r], "Offline"}
    BY <1>3, Disconnects DEF WorkerLost
  <2>3. LinkTypes'
    BY <1>3, <2>1, <2>2 DEF WorkerLost, LinkTypes
  <2>4. Control'
    BY <1>3, <2>1, <2>2, ControlKept DEF WorkerLost, LinkTypes
  <2> QED BY <2>3, <2>4
<1>4. CASE ServerLost(p)
  <2>1. SameTargets
    BY <1>4 DEF ServerLost, SameTargets
  <2>2. events' \in [Peer -> Seq(Event)]
    BY <1>4, Queues, Events DEF ServerLost
  <2>3. accepted' \in [Peer -> 0..MaxClients] /\ \A r \in Peer : accepted'[r] \in {accepted[r], 0}
    BY <1>4, Targets DEF ServerLost, LinkTypes
  <2>4. LinkTypes'
    BY <1>4, <2>2, <2>3 DEF ServerLost, LinkTypes
  <2>5. Control'
    BY <1>4, <2>1, <2>3, ControlKept DEF ServerLost, LinkTypes
  <2> QED BY <2>4, <2>5
<1>5. CASE WorkerReceives(p)
  <2>1. SameTargets
    BY <1>5 DEF WorkerReceives, SameTargets
  <2>2. PICK i \in {mine[p], accepted[p]} \ {0} :
          \/ /\ down[i] # <<>> /\ Queued(p, [type |-> "Data", packet |-> Head(down[i])])
             /\ down' = [down EXCEPT ![i] = Tail(@)] /\ up' = up
          \/ /\ i = accepted[p]
             /\ up[i] # <<>> /\ Queued(p, [type |-> "Data", packet |-> Head(up[i])])
             /\ up' = [up EXCEPT ![i] = Tail(@)] /\ down' = down
    BY <1>5 DEF WorkerReceives
  <2>3. i \in Client
    BY <2>2 DEF LinkTypes, Client
  <2>6. incidents' \subseteq {"Lost", "Failed", "Crossed", "Late", "Stray"}
    BY <1>5 DEF WorkerReceives, LinkTypes
  <2>7. UNCHANGED <<serverVars, main, client, made, status, cos, accepting, port, mine,
                    listening, accepted, unreported, authVars>>
    BY <1>5 DEF WorkerReceives
  <2>4. CASE up' = up /\ down[i] # <<>> /\ Queued(p, [type |-> "Data", packet |-> Head(down[i])])
             /\ down' = [down EXCEPT ![i] = Tail(@)]
    <3>1. events' \in [Peer -> Seq(Event)]
      BY <2>3, <2>4, Queues, Events, Taken
    <3>2. down' \in [Client -> Seq(Answer)]
      BY <2>3, <2>4, Taken
    <3>3. LinkTypes'
      BY <2>4, <2>6, <2>7, <3>1, <3>2 DEF LinkTypes, Answer
    <3>4. Control'
      BY <2>1, <2>4, <2>7, ControlKept DEF LinkTypes
    <3> QED BY <3>3, <3>4
  <2>5. CASE /\ i = accepted[p] /\ down' = down
             /\ up[i] # <<>> /\ Queued(p, [type |-> "Data", packet |-> Head(up[i])])
             /\ up' = [up EXCEPT ![i] = Tail(@)]
    <3>1. client[i].target[1] = "Port" /\ <<"Server">>[1] = "Server"
      BY <2>2, <2>5 DEF Control
    <3>2. up[i] \in Seq(FriendPacket)
      BY <2>3, <3>1 DEF Control
    <3>3. Head(up[i]) \in Answer
      BY <2>5, <3>2, Rest DEF Answer
    <3>4. events' \in [Peer -> Seq(Event)]
      BY <2>5, <3>3, Queues, Events
    <3>5. /\ up' \in [Client -> Seq(AnyPacket)]
          /\ \A j \in Client : up[j] \in Seq(FriendPacket) => up'[j] \in Seq(FriendPacket)
      BY <2>3, <2>5, Taken
    <3>6. LinkTypes'
      BY <2>5, <2>6, <2>7, <3>4, <3>5 DEF LinkTypes, AnyPacket
    <3>7. \A j \in Client : client[j].target # <<"Server">> => up'[j] \in Seq(FriendPacket)
      BY <3>5 DEF Control
    <3>8. Control'
      BY <2>1, <2>7, <3>7, ControlKept DEF LinkTypes
    <3> QED BY <3>6, <3>8
  <2> QED BY <2>2, <2>4, <2>5
<1> QED BY <1>1, <1>2, <1>3, <1>4, <1>5 DEF Worker

\* Links of some clients break, and what is under way on them is lost.
LEMMA LinksLost ==
    ASSUME LinkTypes, NEW S,
           up' = [j \in Client |-> IF j \in S THEN <<>> ELSE up[j]],
           down' = [j \in Client |-> IF j \in S THEN <<>> ELSE down[j]]
    PROVE  /\ up' \in [Client -> Seq(AnyPacket)] /\ down' \in [Client -> Seq(Answer)]
           /\ \A j \in Client : up'[j] = up[j] \/ up'[j] \in Seq(FriendPacket)
<1>1. up \in [Client -> Seq(AnyPacket)] /\ down \in [Client -> Seq(Answer)]
  BY DEF LinkTypes, AnyPacket, Answer
<1>2. <<>> \in Seq(AnyPacket) /\ <<>> \in Seq(Answer) /\ <<>> \in Seq(FriendPacket)
  BY Nothing
<1> QED BY <1>1, <1>2

\* A step of the connections thread keeps the types.
LEMMA ConnectionsKeepTypes ==
    ASSUME LinkTypes, Control, NEW p \in Peer, Connections(p)
    PROVE  LinkTypes' /\ Control'
<1> USE DEF serverVars, authVars, linkVars
<1>1. CASE ReportAccepted(p)
  <2>1. SameTargets
    BY <1>1 DEF ReportAccepted, SameTargets
  <2>2. events' \in [Peer -> Seq(Event)]
    BY <1>1, Queues, Events DEF ReportAccepted
  <2>3. LinkTypes'
    BY <1>1, <2>2 DEF ReportAccepted, LinkTypes
  <2>4. Control'
    BY <1>1, <2>1, ControlKept DEF ReportAccepted, LinkTypes
  <2> QED BY <2>3, <2>4
<1>2. CASE Accept(p)
  <2>1. PICK i \in Client :
          /\ client[i].target[1] = "Port"
          /\ \/ /\ accepted' = [accepted EXCEPT ![p] = i]
                /\ cos' = [cos EXCEPT ![p] = "AcceptedConnection"]
                /\ unreported' = [unreported EXCEPT ![p] = TRUE]
                /\ client' = [client EXCEPT ![i].taken = TRUE]
                /\ UNCHANGED <<up, down>>
             \/ /\ client' = [client EXCEPT ![i].broken = TRUE]
                /\ up' = [up EXCEPT ![i] = <<>>] /\ down' = [down EXCEPT ![i] = <<>>]
                /\ UNCHANGED <<accepted, cos, unreported>>
    BY <1>2 DEF Accept, ListenerThere
  <2>2. UNCHANGED <<serverVars, main, made, status, accepting, port, mine, listening,
                    events, authVars, incidents>>
    BY <1>2 DEF Accept
  <2>3. CASE /\ accepted' = [accepted EXCEPT ![p] = i]
             /\ cos' = [cos EXCEPT ![p] = "AcceptedConnection"]
             /\ unreported' = [unreported EXCEPT ![p] = TRUE]
             /\ client' = [client EXCEPT ![i].taken = TRUE]
             /\ UNCHANGED <<up, down>>
    <3>1. i \in 0..MaxClients
      BY Targets
    <3>7. client' \in [Client -> ClientRecord] /\ SameTargets
      BY <2>3, ClientChanges
    <3>2. LinkTypes'
      BY <2>2, <2>3, <3>1, <3>7 DEF LinkTypes, ConnectionStatus
    <3>3. i <= made
      <4>1. i \in Nat /\ made \in Nat
        BY DEF LinkTypes, Client
      <4>2. ~(i > made)
        BY <2>1 DEF Control
      <4> QED BY <4>1, <4>2
    <3>4. \A r \in Peer : /\ accepted'[r] <= made'
                          /\ accepted'[r] # 0 => client'[accepted'[r]].target[1] = "Port"
      <4>1. \A r \in Peer : accepted'[r] = IF r = p THEN i ELSE accepted[r]
        BY <2>3 DEF LinkTypes
      <4>2. \A r \in Peer : accepted'[r] # 0 => accepted'[r] \in Client
        <5>1. \A n \in 0..MaxClients : n # 0 => n \in Client
          BY LinkAssumption DEF Client
        <5> QED BY <3>2, <5>1 DEF LinkTypes
      <4>3. \A r \in Peer : accepted'[r] # 0 => client[accepted'[r]].target[1] = "Port"
        BY <2>1, <4>1 DEF Control
      <4>4. \A r \in Peer : accepted'[r] <= made'
        BY <2>2, <3>3, <4>1 DEF Control
      <4> QED BY <3>7, <4>2, <4>3, <4>4 DEF SameTargets
    <3>5. \A r \in Peer : cos'[r] \in {"ConnectingToServer", "WaitingFriendAddress"} =>
                            cos'[r] = cos[r]
      BY <2>3 DEF LinkTypes
    <3>8. \A r \in Peer : mine'[r] <= made' /\ (mine'[r] # 0 => mine[r] \in Client)
      <4>1. \A n \in 0..MaxClients : n # 0 => n \in Client
        BY LinkAssumption DEF Client
      <4> QED BY <2>2, <4>1 DEF Control, LinkTypes
    <3>6. Control'
      BY <2>2, <2>3, <3>4, <3>5, <3>7, <3>8 DEF Control, SameTargets
    <3> QED BY <3>2, <3>6
  <2>4. CASE /\ client' = [client EXCEPT ![i].broken = TRUE]
             /\ up' = [up EXCEPT ![i] = <<>>] /\ down' = [down EXCEPT ![i] = <<>>]
             /\ UNCHANGED <<accepted, cos, unreported>>
    <3>1. client' \in [Client -> ClientRecord] /\ SameTargets
      BY <2>4, ClientChanges
    <3>2. /\ up' = [j \in Client |-> IF j \in {i} THEN <<>> ELSE up[j]]
          /\ down' = [j \in Client |-> IF j \in {i} THEN <<>> ELSE down[j]]
      BY <2>4 DEF LinkTypes
    <3>3. /\ up' \in [Client -> Seq(AnyPacket)] /\ down' \in [Client -> Seq(Answer)]
          /\ \A j \in Client : up'[j] = up[j] \/ up'[j] \in Seq(FriendPacket)
      BY <3>2, LinksLost
    <3>4. LinkTypes'
      BY <2>2, <2>4, <3>1, <3>3 DEF LinkTypes, AnyPacket, Answer
    <3>5. Control'
      BY <2>2, <2>4, <3>1, <3>3, ControlKept DEF LinkTypes
    <3> QED BY <3>4, <3>5
  <2> QED BY <2>1, <2>3, <2>4
<1> QED BY <1>1, <1>2 DEF Connections

\* A link that breaks keeps the types.
LEMMA BreaksKeepTypes ==
    ASSUME LinkTypes, Control, NEW i \in Client, LinkBreaks(i)
    PROVE  LinkTypes' /\ Control'
<1> USE DEF serverVars, authVars
<1> DEFINE ends == {i, PeerClient(i)} \ {0}
<1>1. /\ client' = [j \in Client |-> IF j \in ends THEN [client[j] EXCEPT !.broken = TRUE]
                                     ELSE client[j]]
      /\ up' = [j \in Client |-> IF j \in ends THEN <<>> ELSE up[j]]
      /\ down' = [j \in Client |-> IF j \in ends THEN <<>> ELSE down[j]]
  BY DEF LinkBreaks
<1> HIDE DEF ends
<1>2. \A r \in ClientRecord : /\ [r EXCEPT !.broken = TRUE] \in ClientRecord
                              /\ [r EXCEPT !.broken = TRUE].owner = r.owner
                              /\ [r EXCEPT !.broken = TRUE].target = r.target
  BY DEF ClientRecord
<1>3. client' \in [Client -> ClientRecord] /\ SameTargets
  BY <1>1, <1>2 DEF LinkTypes, SameTargets
<1>4. /\ up' \in [Client -> Seq(AnyPacket)] /\ down' \in [Client -> Seq(Answer)]
      /\ \A j \in Client : up'[j] = up[j] \/ up'[j] \in Seq(FriendPacket)
  BY <1>1, LinksLost
<1>5. incidents' = incidents \cup {"Lost"}
      /\ UNCHANGED <<serverVars, main, made, status, cos, accepting, port, mine, listening,
                     accepted, unreported, events, authVars>>
  BY DEF LinkBreaks
<1>6. LinkTypes'
  BY <1>3, <1>4, <1>5 DEF LinkTypes, AnyPacket, Answer
<1>7. Control'
  BY <1>3, <1>4, <1>5, ControlKept DEF LinkTypes
<1> QED BY <1>6, <1>7

\* An exception ends the process of a friend.
LEMMA DyingKeepsTypes ==
    ASSUME LinkTypes, Control, NEW p \in Peer, Dies(p),
           incidents' \subseteq {"Lost", "Failed", "Crossed", "Late", "Stray"}
    PROVE  LinkTypes' /\ Control'
<1> USE DEF serverVars, authVars
<1> DEFINE ends == ({mine[p], accepted[p]} \cup {PeerClient(i) : i \in {mine[p]} \ {0}}) \ {0}
<1>1. /\ client' = [i \in Client |->
             [client[i] EXCEPT !.udt = IF i = mine[p] THEN "Disconnected" ELSE @,
                               !.broken = @ \/ i \in ends]]
      /\ up' = [j \in Client |-> IF j \in ends THEN <<>> ELSE up[j]]
      /\ down' = [j \in Client |-> IF j \in ends THEN <<>> ELSE down[j]]
  BY DEF Dies
<1>2. /\ cos' = [cos EXCEPT ![p] = "Dead"] /\ status' = [status EXCEPT ![p] = "Offline"]
      /\ events' = [events EXCEPT ![p] = <<>>]
      /\ listening' = [listening EXCEPT ![p] = 0]
      /\ accepted' = [accepted EXCEPT ![p] = 0]
      /\ unreported' = [unreported EXCEPT ![p] = FALSE]
      /\ UNCHANGED <<serverVars, main, made, accepting, port, mine, authVars>>
  BY DEF Dies
<1> HIDE DEF ends
<1>3. \A i \in Client : client'[i] \in ClientRecord /\ client'[i].owner = client[i].owner
                        /\ client'[i].target = client[i].target
  <2> SUFFICES ASSUME NEW i \in Client
               PROVE  client'[i] \in ClientRecord /\ client'[i].owner = client[i].owner
                      /\ client'[i].target = client[i].target
    OBVIOUS
  <2>1. client[i] \in ClientRecord
    BY DEF LinkTypes
  <2> DEFINE b == client[i].broken \/ i \in ends
             u == IF i = mine[p] THEN "Disconnected" ELSE client[i].udt
  <2>2. b \in BOOLEAN /\ u \in {"Disconnected", "Connecting", "Connected"}
    BY <2>1 DEF ClientRecord
  <2>3. client'[i] = [client[i] EXCEPT !.udt = u, !.broken = b]
    BY <1>1, Zenon
  <2> HIDE DEF b, u
  <2>4. \A r \in ClientRecord, x \in BOOLEAN :
           \A y \in {"Disconnected", "Connecting", "Connected"} :
              client'[i] = [r EXCEPT !.udt = y, !.broken = x] =>
                 client'[i] \in ClientRecord /\ client'[i].owner = r.owner
                 /\ client'[i].target = r.target
    BY DEF ClientRecord
  <2> QED BY <2>1, <2>2, <2>3, <2>4, Zenon
<1>4. client' \in [Client -> ClientRecord] /\ SameTargets
  BY <1>1, <1>3 DEF SameTargets
<1>5. /\ up' \in [Client -> Seq(AnyPacket)] /\ down' \in [Client -> Seq(Answer)]
      /\ \A j \in Client : up'[j] = up[j] \/ up'[j] \in Seq(FriendPacket)
  BY <1>1, LinksLost
<1>6. events' \in [Peer -> Seq(Event)]
  BY <1>2, Nothing DEF LinkTypes
<1>7. /\ cos' \in [Peer -> ConnectionStatus] /\ status' \in [Peer -> {"Offline", "Available"}]
      /\ listening' \in [Peer -> Port] /\ accepted' \in [Peer -> 0..MaxClients]
      /\ unreported' \in [Peer -> BOOLEAN]
  BY <1>2, Targets DEF LinkTypes, ConnectionStatus
<1>8. LinkTypes'
  BY <1>2, <1>4, <1>5, <1>6, <1>7 DEF LinkTypes, AnyPacket, Answer
<1>9. Control'
  <2>1. \A r \in Peer : accepted'[r] \in {accepted[r], 0} /\ cos'[r] \in {cos[r], "Dead"}
    BY <1>2 DEF LinkTypes
  <2> QED BY <1>2, <1>4, <1>5, <1>7, <2>1, ControlKept
<1> QED BY <1>8, <1>9

\* A packet of the own server, which may make a client.
LEMMA MainKeepsTypes ==
    ASSUME LinkTypes, Control, NEW p \in Peer, HandleMain(p)
    PROVE  LinkTypes' /\ Control'
<1> USE DEF serverVars, authVars
<1>1. CASE KeepConnection(p)
  <2>1. SameTargets
    BY <1>1 DEF KeepConnection, SameTargets, linkVars
  <2>2. main' \in [Peer -> Seq({"SyncInfo", "ConnectToFriend"})]
    BY <1>1, Queues DEF KeepConnection, NextMain
  <2>3. LinkTypes'
    BY <1>1, <2>2 DEF KeepConnection, LinkTypes, linkVars
  <2>4. Control'
    BY <1>1, <2>1, ControlKept DEF KeepConnection, LinkTypes, linkVars
  <2> QED BY <2>3, <2>4
<1>2. CASE Connect(p) \/ ConnectAccept(p)
  <2>1. NewClient(p)
    BY <1>2 DEF Connect, ConnectAccept
  <2>2. main' \in [Peer -> Seq({"SyncInfo", "ConnectToFriend"})]
    BY <1>2, Queues DEF Connect, ConnectAccept, NextMain
  <2>3. made \in Nat /\ made' \in Client /\ made' \in 0..MaxClients /\ made' = made + 1
    <3>1. made \in 0..MaxClients /\ MaxClients \in Nat
      BY LinkAssumption DEF LinkTypes
    <3>2. made < MaxClients /\ made' = made + 1
      BY <2>1 DEF NewClient
    <3> QED BY <3>1, <3>2 DEF Client
  <2>4. \A r \in ClientRecord : /\ [r EXCEPT !.udt = "Disconnected"] \in ClientRecord
                                /\ [r EXCEPT !.udt = "Disconnected"].owner = r.owner
                                /\ [r EXCEPT !.udt = "Disconnected"].target = r.target
    BY DEF ClientRecord
  <2> DEFINE new == [owner |-> p, udt |-> "Connecting", target |-> <<"Server">>, broken |-> FALSE,
                     taken |-> FALSE]
  <2>5. new \in ClientRecord /\ new.owner = p /\ new.target = <<"Server">>
    BY Targets DEF ClientRecord
  <2> HIDE DEF new
  <2>6. client' = [i \in Client |->
           IF i = made' THEN new
           ELSE IF i = mine[p] THEN [client[i] EXCEPT !.udt = "Disconnected"]
           ELSE client[i]]
    BY <2>1 DEF NewClient, new
  <2>7. client' \in [Client -> ClientRecord]
    BY <2>4, <2>5, <2>6 DEF LinkTypes
  <2>8. client'[made'] = new
    BY <2>3, <2>6
  <2>9. \A i \in Client : i # made' => client'[i].owner = client[i].owner
                                       /\ client'[i].target = client[i].target
    BY <2>4, <2>6 DEF LinkTypes
  <2>10. mine' \in [Peer -> 0..MaxClients] /\ mine'[p] = made'
         /\ \A r \in Peer : r # p => mine'[r] = mine[r]
    BY <2>1, <2>3 DEF NewClient, LinkTypes
  <2>11. /\ status' \in [Peer -> {"Offline", "Available"}]
         /\ cos' \in [Peer -> ConnectionStatus] /\ cos'[p] = "ConnectingToServer"
         /\ \A r \in Peer : r # p => cos'[r] = cos[r]
    BY <2>1 DEF NewClient, LinkTypes, ConnectionStatus
  <2>12. /\ accepting' \in [Peer -> BOOLEAN]
         /\ incidents' \subseteq {"Lost", "Failed", "Crossed", "Late", "Stray"}
         /\ UNCHANGED <<serverVars, up, down, listening, accepted, unreported, events, authVars>>
    BY <1>2 DEF Connect, ConnectAccept, Failed, LinkTypes
  <2>13. port' \in [Peer -> Port]
    <3>1. made' \in Port /\ 0 \in Port
      BY <2>3, Targets
    <3>2. \A n \in Port : [port EXCEPT ![p] = n] \in [Peer -> Port]
      BY DEF LinkTypes
    <3>3. port[p] \in Port
      BY DEF LinkTypes
    <3>4. CASE Connect(p)
      <4>1. PICK n \in IF p \in HasNatPmp THEN {0, made'} ELSE {port[p]} :
                  port' = [port EXCEPT ![p] = n]
        BY <3>4 DEF Connect
      <4>2. n \in Port
        BY <3>1, <3>3
      <4> QED BY <3>2, <4>1, <4>2
    <3>5. CASE ConnectAccept(p)
      BY <3>5 DEF ConnectAccept, LinkTypes
    <3> QED BY <1>2, <3>4, <3>5
  <2>14. LinkTypes'
    BY <2>2, <2>3, <2>7, <2>10, <2>11, <2>12, <2>13 DEF LinkTypes
  <2>15. \A r \in Peer : /\ mine[r] # 0 => mine[r] \in Client /\ mine[r] # made'
                         /\ accepted[r] # 0 => accepted[r] \in Client /\ accepted[r] # made'
                         /\ mine[r] <= made' /\ accepted[r] <= made'
    <3>1. \A r \in Peer : mine[r] \in 0..MaxClients /\ accepted[r] \in 0..MaxClients
                          /\ mine[r] <= made /\ accepted[r] <= made
      BY DEF LinkTypes, Control
    <3>2. \A n \in 0..MaxClients : n <= made => n <= made' /\ n # made' /\ (n # 0 => n \in Client)
      BY <2>3, LinkAssumption DEF Client
    <3> QED BY <3>1, <3>2
  <2>16. \A r \in Peer : /\ mine'[r] <= made' /\ accepted'[r] <= made'
                         /\ mine'[r] # 0 => client'[mine'[r]].owner = r
                         /\ accepted'[r] # 0 => client'[accepted'[r]].target[1] = "Port"
    <3>1. \A r \in Peer : /\ mine[r] # 0 => client'[mine[r]].owner = r
                          /\ accepted[r] # 0 => client'[accepted[r]].target[1] = "Port"
      BY <2>9, <2>15 DEF Control
    <3>2. made' <= made' /\ client'[mine'[p]].owner = p
      BY <2>3, <2>5, <2>8, <2>10
    <3> QED BY <2>10, <2>12, <2>15, <3>1, <3>2
  <2>17. \A r \in Peer : cos'[r] \in {"ConnectingToServer", "WaitingFriendAddress"} =>
                           mine'[r] # 0 /\ client'[mine'[r]].target = <<"Server">>
    <3>1. \A r \in Peer : r # p /\ cos[r] \in {"ConnectingToServer", "WaitingFriendAddress"} =>
                            mine[r] # 0 /\ client'[mine[r]].target = <<"Server">>
      BY <2>9, <2>15 DEF Control
    <3>2. mine'[p] # 0 /\ client'[mine'[p]].target = <<"Server">>
      BY <2>3, <2>5, <2>8, <2>10, Targets
    <3> QED BY <2>10, <2>11, <3>1, <3>2
  <2>18. \A i \in Client : /\ i > made' => client'[i].target = <<"None">>
                           /\ client'[i].target # <<"Server">> => up'[i] \in Seq(FriendPacket)
    <3>1. \A i \in Client : i > made' => i > made /\ i # made'
      BY <2>3 DEF Client
    <3>2. client'[made'].target = <<"Server">>
      BY <2>5, <2>8
    <3> QED BY <2>9, <2>12, <3>1, <3>2 DEF Control
  <2>19. Control'
    BY <2>16, <2>17, <2>18 DEF Control
  <2> QED BY <2>14, <2>19
<1>3. CASE ConnectDies(p)
  <2>1. Dies(p) /\ incidents' = incidents \cup {"Failed"}
    BY <1>3 DEF ConnectDies
  <2>2. incidents' \subseteq {"Lost", "Failed", "Crossed", "Late", "Stray"}
    BY <2>1 DEF LinkTypes
  <2> QED BY <2>1, <2>2, DyingKeepsTypes
<1> QED BY <1>1, <1>2, <1>3 DEF HandleMain

\* The next event is taken.
LEMMA EventTaken ==
    ASSUME LinkTypes, NEW p \in Peer, NEW type, NextEvent(p, type), PopEvent(p)
    PROVE  /\ Head(events[p]) \in Event /\ Head(events[p]).type = type
           /\ events' \in [Peer -> Seq(Event)]
BY Queues DEF NextEvent

\* A client connects to the friend, with which it has exchanged nothing.
LEMMA Reconnects ==
    ASSUME LinkTypes, Control, NEW p \in Peer, NEW t \in Target, Reconnect(p, t),
           cos[p] = "WaitingFriendAddress",
           UNCHANGED <<mine, accepted, made>>
    PROVE  /\ client' \in [Client -> ClientRecord] /\ cos' \in [Peer -> ConnectionStatus]
           /\ up' \in [Client -> Seq(AnyPacket)] /\ down' \in [Client -> Seq(Answer)]
           /\ Control'
<1> DEFINE i == mine[p]
<1>1. i \in Client /\ client[i].target = <<"Server">> /\ client[i].owner = p
  BY DEF LinkTypes, Control, Client
<1> HIDE DEF i
<1>2. \A r \in ClientRecord :
         LET s == [r EXCEPT !.udt = "Connecting", !.target = t, !.broken = FALSE]
         IN  s \in ClientRecord /\ s.owner = r.owner /\ s.target = t
  BY DEF ClientRecord
<1>3. client' = [client EXCEPT ![i] =
                   [@ EXCEPT !.udt = "Connecting", !.target = t, !.broken = FALSE]]
  BY DEF Reconnect, i
<1>4. client[i] \in ClientRecord
  BY <1>1 DEF LinkTypes
<1>5. /\ client' \in [Client -> ClientRecord] /\ client'[i].owner = p /\ client'[i].target = t
      /\ \A j \in Client : j # i => client'[j] = client[j]
  BY <1>1, <1>2, <1>3, <1>4 DEF LinkTypes
<1>6. cos' \in [Peer -> ConnectionStatus] /\ cos'[p] = "ConnectingToFriend"
      /\ \A r \in Peer : r # p => cos'[r] = cos[r]
  BY DEF Reconnect, LinkTypes, ConnectionStatus
<1>7. /\ up' = [j \in Client |-> IF j \in {i} THEN <<>> ELSE up[j]]
      /\ down' = [j \in Client |-> IF j \in {i} THEN <<>> ELSE down[j]]
  BY DEF Reconnect, LinkTypes, i
<1>8. /\ up' \in [Client -> Seq(AnyPacket)] /\ down' \in [Client -> Seq(Answer)]
  BY <1>7, LinksLost
<1>9. Control'
  <2>1. \A r \in Peer : /\ mine[r] # 0 => mine[r] \in Client
                        /\ accepted[r] # 0 => accepted[r] \in Client
    <3>1. \A n \in 0..MaxClients : n # 0 => n \in Client
      BY LinkAssumption DEF Client
    <3> QED BY <3>1 DEF LinkTypes
  <2>2. \A r \in Peer : r # p => mine[r] # i
    BY <1>1, <2>1, Targets DEF Control
  <2>3. \A r \in Peer : accepted[r] # i
    BY <1>1, <2>1, Targets DEF Control
  <2>4. \A r \in Peer : /\ mine'[r] <= made' /\ accepted'[r] <= made'
                        /\ mine'[r] # 0 => client'[mine'[r]].owner = r
                        /\ accepted'[r] # 0 => client'[accepted'[r]].target[1] = "Port"
    BY <1>5, <2>1, <2>2, <2>3 DEF Control, i
  <2>5. \A r \in Peer : cos'[r] \in {"ConnectingToServer", "WaitingFriendAddress"} =>
                          mine'[r] # 0 /\ client'[mine'[r]].target = <<"Server">>
    BY <1>5, <1>6, <2>1, <2>2 DEF Control
  <2>6. \A j \in Client : /\ j > made' => client'[j].target = <<"None">>
                          /\ client'[j].target # <<"Server">> => up'[j] \in Seq(FriendPacket)
    <3>1. ~(i > made)
      BY <1>1 DEF Control
    <3>2. up'[i] \in Seq(FriendPacket)
      BY <1>1, <1>7, Nothing
    <3> QED BY <1>5, <1>7, <3>1, <3>2 DEF Control
  <2> QED BY <2>4, <2>5, <2>6 DEF Control
<1> QED BY <1>5, <1>6, <1>8, <1>9

\* A new random sequence is sent to the friend.
LEMMA Establishes ==
    ASSUME LinkTypes, NEW p \in Peer, OnConnectionEstablished(p)
    PROVE  /\ up' \in [Client -> Seq(AnyPacket)] /\ down' \in [Client -> Seq(Answer)]
           /\ \A i \in Client : up[i] \in Seq(FriendPacket) => up'[i] \in Seq(FriendPacket)
           /\ random' \in [Peer -> Nat] /\ drawn' \in [Peer -> Nat]
           /\ selfAuthorized' \in [Peer -> BOOLEAN] /\ friendAuthorized' \in [Peer -> BOOLEAN]
           /\ UNCHANGED <<selfKey, friendKey>>
<1>1. drawn' \in [Peer -> Nat] /\ drawn'[p] \in Nat
  BY DEF OnConnectionEstablished, LinkTypes
<1>2. random' \in [Peer -> Nat]
  BY <1>1 DEF OnConnectionEstablished, LinkTypes
<1>3. /\ selfAuthorized' \in [Peer -> BOOLEAN] /\ friendAuthorized' \in [Peer -> BOOLEAN]
      /\ UNCHANGED <<selfKey, friendKey>>
  BY DEF OnConnectionEstablished, LinkTypes
<1>4. /\ [type |-> "RandomSequence", random |-> drawn'[p]] \in FriendPacket
      /\ SendRaw(p, [type |-> "RandomSequence", random |-> drawn'[p]])
  BY <1>1, Packets DEF OnConnectionEstablished
<1> QED BY <1>1, <1>2, <1>3, <1>4, SendsPacket

\* An event of a connection keeps the types.
LEMMA ConnectionEventsKeepTypes ==
    ASSUME LinkTypes, Control, NEW p \in Peer,
           \/ OnConnectionFailed(p) \/ OnServerConnected(p) \/ OnFriendConnected(p)
           \/ OnAccepted(p) \/ OnConnectedDies(p) \/ OnConnectedLate(p) \/ OnServerLost(p)
    PROVE  LinkTypes' /\ Control'
<1> USE DEF serverVars, authVars, linkVars
<1>1. CASE OnConnectionFailed(p)
  <2>1. SameTargets
    BY <1>1 DEF OnConnectionFailed, SameTargets
  <2>2. events' \in [Peer -> Seq(Event)]
    BY <1>1, EventTaken DEF OnConnectionFailed
  <2>3. cos' \in [Peer -> ConnectionStatus] /\ \A r \in Peer : cos'[r] \in {cos[r], "Offline"}
    BY <1>1 DEF OnConnectionFailed, LinkTypes, ConnectionStatus
  <2>4. LinkTypes'
    BY <1>1, <2>2, <2>3 DEF OnConnectionFailed, LinkTypes
  <2>5. Control'
    BY <1>1, <2>1, <2>3, ControlKept DEF OnConnectionFailed, LinkTypes
  <2> QED BY <2>4, <2>5
<1>2. CASE OnServerConnected(p)
  <2>1. SameTargets
    BY <1>2 DEF OnServerConnected, SameTargets
  <2>2. events' \in [Peer -> Seq(Event)]
    BY <1>2, EventTaken DEF OnServerConnected
  <2>3. /\ up' \in [Client -> Seq(AnyPacket)] /\ down' = down
        /\ \A i \in Client : client[i].target # <<"Server">> => up'[i] = up[i]
    BY <1>2, SendsRequest, Packets DEF OnServerConnected
  <2>4. LinkTypes'
    BY <1>2, <2>2, <2>3 DEF OnServerConnected, LinkTypes, AnyPacket
  <2>5. Control'
    BY <1>2, <2>1, <2>3, ControlKept DEF OnServerConnected, LinkTypes
  <2> QED BY <2>4, <2>5
<1>3. CASE OnFriendConnected(p)
  <2>1. SameTargets
    BY <1>3 DEF OnFriendConnected, SameTargets
  <2>2. events' \in [Peer -> Seq(Event)]
    BY <1>3, EventTaken DEF OnFriendConnected
  <2>3. cos' \in [Peer -> ConnectionStatus] /\ \A r \in Peer : cos'[r] \in {cos[r], "Connected"}
    BY <1>3 DEF OnFriendConnected, LinkTypes, ConnectionStatus
  <2>4. OnConnectionEstablished(p)
        /\ UNCHANGED <<serverVars, main, client, made, status, accepting, port, mine, listening,
                       accepted, unreported, incidents>>
    BY <1>3 DEF OnFriendConnected
  <2>5. /\ up' \in [Client -> Seq(AnyPacket)] /\ down' \in [Client -> Seq(Answer)]
        /\ \A i \in Client : up[i] \in Seq(FriendPacket) => up'[i] \in Seq(FriendPacket)
        /\ random' \in [Peer -> Nat] /\ drawn' \in [Peer -> Nat]
        /\ selfAuthorized' \in [Peer -> BOOLEAN] /\ friendAuthorized' \in [Peer -> BOOLEAN]
        /\ UNCHANGED <<selfKey, friendKey>>
    BY <2>4, Establishes
  <2>6. LinkTypes'
    BY <2>2, <2>3, <2>4, <2>5 DEF LinkTypes, AnyPacket, Answer
  <2>7. \A i \in Client : client[i].target # <<"Server">> => up'[i] \in Seq(FriendPacket)
    BY <2>5 DEF Control
  <2>8. Control'
    BY <2>1, <2>3, <2>4, <2>7, ControlKept DEF LinkTypes
  <2> QED BY <2>6, <2>8
<1>4. CASE OnAccepted(p)
  <2>1. SameTargets
    BY <1>4 DEF OnAccepted, SameTargets
  <2>2. events' \in [Peer -> Seq(Event)]
    BY <1>4, EventTaken DEF OnAccepted
  <2>3. OnConnectionEstablished(p)
        /\ UNCHANGED <<serverVars, main, client, made, status, cos, accepting, port, mine,
                       listening, accepted, unreported, incidents>>
    BY <1>4 DEF OnAccepted
  <2>4. /\ up' \in [Client -> Seq(AnyPacket)] /\ down' \in [Client -> Seq(Answer)]
        /\ \A i \in Client : up[i] \in Seq(FriendPacket) => up'[i] \in Seq(FriendPacket)
        /\ random' \in [Peer -> Nat] /\ drawn' \in [Peer -> Nat]
        /\ selfAuthorized' \in [Peer -> BOOLEAN] /\ friendAuthorized' \in [Peer -> BOOLEAN]
        /\ UNCHANGED <<selfKey, friendKey>>
    BY <2>3, Establishes
  <2>5. LinkTypes'
    BY <2>2, <2>3, <2>4 DEF LinkTypes, AnyPacket, Answer
  <2>6. \A i \in Client : client[i].target # <<"Server">> => up'[i] \in Seq(FriendPacket)
    BY <2>4 DEF Control
  <2>7. Control'
    BY <2>1, <2>3, <2>6, ControlKept DEF LinkTypes
  <2> QED BY <2>5, <2>7
<1>5. CASE OnConnectedDies(p)
  BY <1>5, DyingKeepsTypes DEF OnConnectedDies, LinkTypes
<1>6. CASE OnConnectedLate(p)
  <2>1. SameTargets
    BY <1>6 DEF OnConnectedLate, SameTargets
  <2>2. events' \in [Peer -> Seq(Event)]
    BY <1>6, EventTaken DEF OnConnectedLate
  <2>3. LinkTypes'
    BY <1>6, <2>2 DEF OnConnectedLate, LinkTypes
  <2>4. Control'
    BY <1>6, <2>1, ControlKept DEF OnConnectedLate, LinkTypes
  <2> QED BY <2>3, <2>4
<1>7. CASE OnServerLost(p)
  <2>1. SameTargets
    BY <1>7 DEF OnServerLost, SameTargets
  <2>2. events' \in [Peer -> Seq(Event)]
    BY <1>7, EventTaken DEF OnServerLost
  <2>3. /\ status' \in [Peer -> {"Offline", "Available"}] /\ cos' \in [Peer -> ConnectionStatus]
        /\ \A r \in Peer : cos'[r] \in {cos[r], "Offline"}
    BY <1>7, Disconnects DEF OnServerLost
  <2>4. LinkTypes'
    BY <1>7, <2>2, <2>3 DEF OnServerLost, LinkTypes
  <2>5. Control'
    BY <1>7, <2>1, <2>3, ControlKept DEF OnServerLost, LinkTypes
  <2> QED BY <2>4, <2>5
<1> QED BY <1>1, <1>2, <1>3, <1>4, <1>5, <1>6, <1>7

\* A packet of the server or of the friend keeps the types.
LEMMA PacketsKeepTypes ==
    ASSUME LinkTypes, Control, NEW p \in Peer,
           \/ OnChallenge(p) \/ OnFriendOffline(p) \/ OnNatTraversal(p) \/ OnConnectTo(p)
           \/ OnListen(p) \/ OnRandomSequence(p) \/ OnConfirm(p) \/ OnAuthorized(p)
           \/ DropPacket(p)
    PROVE  LinkTypes' /\ Control'
<1> USE DEF serverVars, authVars, linkVars
<1>0. /\ events[p] # <<>> /\ Head(events[p]) \in Event /\ Head(events[p]).type = "Data"
      /\ events' \in [Peer -> Seq(Event)]
  <2>1. NextEvent(p, "Data") /\ PopEvent(p)
    BY DEF OnChallenge, OnFriendOffline, OnNatTraversal, OnConnectTo, OnListen, HelpPacket,
           HelpReceived, OnRandomSequence, OnConfirm, OnAuthorized, FriendData, DropPacket,
           NextPacket
  <2> QED BY <2>1, EventTaken DEF NextEvent
<1> DEFINE d == Packet(p)
<1>1. /\ d.type = "Challenge" => d.challenge \in Client
      /\ d.type \in {"NatTraversal", "Connect"} => d.target \in Target
      /\ d.type = "RandomSequence" => d.random \in Nat
      /\ d.type = "Confirm" => d.random \in Nat /\ d.key \in Nat
      /\ d.type = "Authorized" => d.key \in Nat
  BY <1>0, Contents DEF Packet
<1> HIDE DEF d
<1>2. CASE OnChallenge(p)
  <2>1. SameTargets
    BY <1>2 DEF OnChallenge, SameTargets
  <2>2. cos[p] = "ConnectingToServer" /\ cos' \in [Peer -> ConnectionStatus]
        /\ \A r \in Peer : cos'[r] = cos[r] \/ r = p
    BY <1>2 DEF OnChallenge, LinkTypes, ConnectionStatus
  <2>3. d.challenge \in Client
    BY <1>1, <1>2 DEF OnChallenge, NextPacket, Packet, d
  <2>4. [type |-> "Help", accepting |-> accepting[p], port |-> port[p], challenge |-> d.challenge]
           \in Request
    BY <2>3, Packets DEF LinkTypes
  <2>5. /\ up' \in [Client -> Seq(AnyPacket)] /\ down' = down
        /\ \A i \in Client : client[i].target # <<"Server">> => up'[i] = up[i]
    <3>1. CASE UNCHANGED <<up, down>>
      BY <3>1 DEF LinkTypes, AnyPacket
    <3>2. CASE SendRaw(p, [type |-> "Help", accepting |-> accepting[p], port |-> port[p],
                           challenge |-> d.challenge])
      BY <2>2, <2>4, <3>2, SendsRequest
    <3> QED BY <1>2, <3>1, <3>2 DEF OnChallenge, d
  <2>6. UNCHANGED <<serverVars, main, client, made, status, accepting, port, mine, listening,
                    accepted, unreported, authVars, incidents>>
    BY <1>2 DEF OnChallenge
  <2>7. LinkTypes'
    BY <1>0, <2>2, <2>5, <2>6 DEF LinkTypes, AnyPacket
  <2>8. Control'
    BY <2>1, <2>2, <2>5, <2>6, ControlKept DEF LinkTypes
  <2> QED BY <2>7, <2>8
<1>3. CASE OnFriendOffline(p)
  <2>1. client' \in [Client -> ClientRecord] /\ SameTargets
    BY <1>3, ClientChanges DEF OnFriendOffline
  <2>2. /\ status' \in [Peer -> {"Offline", "Available"}] /\ cos' \in [Peer -> ConnectionStatus]
        /\ \A r \in Peer : cos'[r] \in {cos[r], "Offline"}
    BY <1>3, Disconnects DEF OnFriendOffline
  <2>3. /\ accepted' \in [Peer -> 0..MaxClients] /\ listening' \in [Peer -> Port]
        /\ \A r \in Peer : accepted'[r] \in {accepted[r], 0}
    BY <1>3, Targets DEF OnFriendOffline, LinkTypes
  <2>4. LinkTypes'
    BY <1>0, <1>3, <2>1, <2>2, <2>3 DEF OnFriendOffline, StopServer, LinkTypes
  <2>5. Control'
    BY <1>3, <2>1, <2>2, <2>3, ControlKept DEF OnFriendOffline
  <2> QED BY <2>4, <2>5
<1>4. CASE OnNatTraversal(p)
  <2>1. cos[p] = "WaitingFriendAddress" /\ d.type = "NatTraversal"
    BY <1>4 DEF OnNatTraversal, HelpPacket, HelpReceived, NextPacket, Packet, d
  <2>2. /\ incidents' \subseteq {"Lost", "Failed", "Crossed", "Late", "Stray"}
        /\ UNCHANGED <<serverVars, main, made, status, accepting, port, mine, listening,
                       accepted, unreported, authVars>>
    BY <1>4 DEF OnNatTraversal, Reconnect, LinkTypes
  <2>3. CASE UNCHANGED <<client, up, down, cos>>
    <3>1. SameTargets
      BY <2>3 DEF SameTargets
    <3>2. LinkTypes'
      BY <1>0, <2>2, <2>3 DEF LinkTypes
    <3>3. Control'
      BY <2>2, <2>3, <3>1, ControlKept DEF LinkTypes
    <3> QED BY <3>2, <3>3
  <2>4. CASE cos' = [cos EXCEPT ![p] = "ConnectingToFriend"] /\ UNCHANGED <<client, up, down>>
    <3>1. SameTargets
      BY <2>4 DEF SameTargets
    <3>2. cos' \in [Peer -> ConnectionStatus]
          /\ \A r \in Peer : cos'[r] \in {cos[r], "ConnectingToFriend"}
      BY <2>4 DEF LinkTypes, ConnectionStatus
    <3>3. LinkTypes'
      BY <1>0, <2>2, <2>4, <3>2 DEF LinkTypes
    <3>4. Control'
      BY <2>2, <2>4, <3>1, <3>2, ControlKept DEF LinkTypes
    <3> QED BY <3>3, <3>4
  <2>5. ASSUME NEW t \in Target, Reconnect(p, t)
        PROVE  LinkTypes' /\ Control'
    <3>1. /\ client' \in [Client -> ClientRecord] /\ cos' \in [Peer -> ConnectionStatus]
          /\ up' \in [Client -> Seq(AnyPacket)] /\ down' \in [Client -> Seq(Answer)]
          /\ Control'
      BY <2>1, <2>2, <2>5, Reconnects
    <3> QED BY <1>0, <2>2, <3>1 DEF LinkTypes, AnyPacket, Answer
  <2>6. d.target \in Target /\ <<"Port", Garbage>> \in Target
    BY <1>1, <2>1, Targets
  <2> QED BY <1>4, <2>3, <2>4, <2>5, <2>6 DEF OnNatTraversal, d
<1>5. CASE OnConnectTo(p)
  <2>1. cos[p] = "WaitingFriendAddress" /\ d.type = "Connect" /\ Reconnect(p, d.target)
    BY <1>5 DEF OnConnectTo, HelpPacket, HelpReceived, NextPacket, Packet, d
  <2>2. /\ incidents' \subseteq {"Lost", "Failed", "Crossed", "Late", "Stray"}
        /\ UNCHANGED <<serverVars, main, made, status, accepting, port, mine, listening,
                       accepted, unreported, authVars>>
    BY <1>5 DEF OnConnectTo, Reconnect, LinkTypes
  <2>3. /\ client' \in [Client -> ClientRecord] /\ cos' \in [Peer -> ConnectionStatus]
        /\ up' \in [Client -> Seq(AnyPacket)] /\ down' \in [Client -> Seq(Answer)]
        /\ Control'
    BY <1>1, <2>1, <2>2, Reconnects
  <2> QED BY <1>0, <2>2, <2>3 DEF LinkTypes, AnyPacket, Answer
<1>6. CASE OnListen(p)
  <2>1. client' \in [Client -> ClientRecord] /\ SameTargets
    BY <1>6, ClientChanges DEF OnListen
  <2>2. /\ status' \in [Peer -> {"Offline", "Available"}] /\ cos' \in [Peer -> ConnectionStatus]
        /\ \A r \in Peer : cos'[r] \in {cos[r], "WaitingFriendConnection"}
    BY <1>6 DEF OnListen, LinkTypes, ConnectionStatus
  <2>3. /\ accepted' \in [Peer -> 0..MaxClients] /\ listening' \in [Peer -> Port]
        /\ \A r \in Peer : accepted'[r] \in {accepted[r], 0}
    BY <1>6, Targets DEF OnListen, LinkTypes
  <2>4. LinkTypes'
    BY <1>0, <1>6, <2>1, <2>2, <2>3 DEF OnListen, StopServer, LinkTypes
  <2>5. Control'
    BY <1>6, <2>1, <2>2, <2>3, ControlKept DEF OnListen
  <2> QED BY <2>4, <2>5
<1>7. CASE OnRandomSequence(p)
  <2>1. SameTargets
    BY <1>7 DEF OnRandomSequence, FriendData, SameTargets
  <2>2. d.random \in Nat
    BY <1>1, <1>7 DEF OnRandomSequence, FriendData, NextPacket, Packet, d
  <2>3. drawn' \in [Peer -> Nat] /\ drawn'[p] \in Nat
    BY <1>7 DEF OnRandomSequence, LinkTypes
  <2>4. selfKey' \in [Peer -> Nat]
    BY <1>7, <2>3 DEF OnRandomSequence, LinkTypes
  <2>5. /\ up' \in [Client -> Seq(AnyPacket)] /\ down' \in [Client -> Seq(Answer)]
        /\ \A i \in Client : up[i] \in Seq(FriendPacket) => up'[i] \in Seq(FriendPacket)
    <3>1. CASE UNCHANGED <<up, down>>
      BY <3>1 DEF LinkTypes, AnyPacket, Answer
    <3>2. CASE SendRaw(p, [type |-> "Confirm", random |-> d.random, key |-> drawn'[p]])
      BY <2>2, <2>3, <3>2, SendsPacket, Packets
    <3> QED BY <1>7, <3>1, <3>2 DEF OnRandomSequence, d
  <2>6. UNCHANGED <<serverVars, main, client, made, cos, accepting, port, mine, listening,
                    accepted, unreported, incidents, status, random, friendKey, selfAuthorized,
                    friendAuthorized>>
    BY <1>7 DEF OnRandomSequence, FriendData
  <2>7. LinkTypes'
    BY <1>0, <2>3, <2>4, <2>5, <2>6 DEF LinkTypes, AnyPacket, Answer
  <2>8. Control'
    BY <2>1, <2>5, <2>6, ControlKept DEF Control, LinkTypes
  <2> QED BY <2>7, <2>8
<1>8. CASE OnConfirm(p)
  <2>1. SameTargets
    BY <1>8 DEF OnConfirm, FriendData, SameTargets
  <2>2. d.key \in Nat
    BY <1>1, <1>8 DEF OnConfirm, FriendData, NextPacket, Packet, d
  <2>3. friendKey' \in [Peer -> Nat]
    BY <1>8, <2>2 DEF OnConfirm, LinkTypes, d
  <2>4. friendAuthorized' \in [Peer -> BOOLEAN]
    BY <1>8 DEF OnConfirm, LinkTypes
  <2>5. /\ up' \in [Client -> Seq(AnyPacket)] /\ down' \in [Client -> Seq(Answer)]
        /\ \A i \in Client : up[i] \in Seq(FriendPacket) => up'[i] \in Seq(FriendPacket)
    <3>1. CASE UNCHANGED <<up, down>>
      BY <3>1 DEF LinkTypes, AnyPacket, Answer
    <3>2. CASE SendRaw(p, [type |-> "Authorized", key |-> d.key])
      BY <2>2, <3>2, SendsPacket, Packets
    <3> QED BY <1>8, <3>1, <3>2 DEF OnConfirm, d
  <2>6. status' \in [Peer -> {"Offline", "Available"}]
    BY <1>8 DEF OnConfirm, UpdateOnlineStatus, LinkTypes
  <2>7. UNCHANGED <<serverVars, main, client, made, cos, accepting, port, mine, listening,
                    accepted, unreported, incidents, random, selfKey, selfAuthorized, drawn>>
    BY <1>8 DEF OnConfirm, FriendData
  <2>8. LinkTypes'
    BY <1>0, <2>3, <2>4, <2>5, <2>6, <2>7 DEF LinkTypes, AnyPacket, Answer
  <2>9. Control'
    BY <2>1, <2>5, <2>7, ControlKept DEF Control, LinkTypes
  <2> QED BY <2>8, <2>9
<1>9. CASE OnAuthorized(p)
  <2>1. SameTargets
    BY <1>9 DEF OnAuthorized, FriendData, SameTargets
  <2>2. status' \in [Peer -> {"Offline", "Available"}] /\ selfAuthorized' \in [Peer -> BOOLEAN]
    BY <1>9 DEF OnAuthorized, UpdateOnlineStatus, LinkTypes
  <2>3. UNCHANGED <<serverVars, main, client, up, down, made, cos, accepting, port, mine, listening,
                    accepted, unreported, incidents, random, selfKey, friendKey, friendAuthorized,
                    drawn>>
    BY <1>9 DEF OnAuthorized, FriendData
  <2>4. LinkTypes'
    BY <1>0, <2>2, <2>3 DEF LinkTypes
  <2>5. Control'
    BY <2>1, <2>3, ControlKept DEF LinkTypes
  <2> QED BY <2>4, <2>5
<1>10. CASE DropPacket(p)
  <2>1. SameTargets
    BY <1>10 DEF DropPacket, SameTargets
  <2>2. LinkTypes'
    BY <1>0, <1>10 DEF DropPacket, LinkTypes
  <2>3. Control'
    BY <1>10, <2>1, ControlKept DEF DropPacket, LinkTypes
  <2> QED BY <2>2, <2>3
<1> QED BY <1>2, <1>3, <1>4, <1>5, <1>6, <1>7, <1>8, <1>9, <1>10

\* A step of the server keeps the types.
LEMMA ServerKeepsTypes ==
    ASSUME LinkTypes, Control, NEW i \in Client, HandleRequest(i)
    PROVE  LinkTypes' /\ Control'
<1> USE DEF serverVars, authVars
<1>1. PICK type : Requested(i, type)
  BY DEF HandleRequest, HandleHello, HandleHelp, HandleAccepting
<1>2. /\ up[i] # <<>> /\ up' = [up EXCEPT ![i] = Tail(@)]
      /\ UNCHANGED <<made, status, cos, accepting, port, mine, listening, accepted,
                     unreported, events, authVars, incidents, syncs, client>>
  BY <1>1 DEF Requested, OnlyServer
<1>3. /\ Head(up[i]) \in AnyPacket
      /\ up' \in [Client -> Seq(AnyPacket)]
      /\ \A j \in Client : up[j] \in Seq(FriendPacket) => up'[j] \in Seq(FriendPacket)
  BY <1>2, Taken
<1>4. Control'
  <2>1. SameTargets
    BY <1>2 DEF SameTargets
  <2>2. \A j \in Client : client[j].target # <<"Server">> => up'[j] \in Seq(FriendPacket)
    BY <1>3 DEF Control
  <2> QED BY <1>2, <2>1, <2>2, ControlKept DEF LinkTypes
<1>5. \A j \in Client : \A a \in ServerPacket : Append(down[j], a) \in Seq(Answer)
  <2>1. \A j \in Client : down[j] \in Seq(Answer)
    BY DEF LinkTypes, Answer
  <2> QED BY <2>1, Appended DEF Answer
<1>6. CASE HandleHello(i)
  <2>1. down' \in [Client -> Seq(Answer)]
    BY <1>5, <1>6, Packets DEF HandleHello, LinkTypes, Answer
  <2> QED BY <1>2, <1>3, <1>4, <1>6, <2>1 DEF HandleHello, LinkTypes, AnyPacket, Answer
<1>7. CASE HandleHelp(i)
  <2> DEFINE r == Head(up[i])
             q == Other[client[i].owner]
  <2>1. Head(up[i]).type = "Help"
    BY <1>7 DEF HandleHelp, Requested
  <2>2. r.port \in Port
    BY <1>3, <2>1, HelpContents
  <2>3. q \in Peer
    BY Peers DEF LinkTypes, ClientRecord
  <2>4. i \in 0..MaxClients
    BY Targets
  <2>5. \/ UNCHANGED <<main, asked, down>>
        \/ /\ main' = [main EXCEPT ![q] = Append(@, "ConnectToFriend")]
           /\ asked' = [asked EXCEPT ![q] = [client |-> i, port |-> r.port]]
           /\ UNCHANGED down
        \/ /\ down' = [down EXCEPT ![i] = Append(@, [type |-> "Offline"])]
           /\ UNCHANGED <<main, asked>>
    BY <1>7 DEF HandleHelp
  <2> HIDE DEF r, q
  <2>10. \/ main' = main
         \/ main' = [main EXCEPT ![q] = Append(main[q], "ConnectToFriend")]
    BY <2>5
  <2>11. asked' = asked \/ asked' = [asked EXCEPT ![q] = [client |-> i, port |-> r.port]]
    BY <2>5
  <2>12. down' = down \/ down' = [down EXCEPT ![i] = Append(down[i], [type |-> "Offline"])]
    BY <2>5
  <2>6. main' \in [Peer -> Seq({"SyncInfo", "ConnectToFriend"})]
    <3>1. main[q] \in Seq({"SyncInfo", "ConnectToFriend"})
      BY <2>3 DEF LinkTypes
    <3>2. Append(main[q], "ConnectToFriend") \in Seq({"SyncInfo", "ConnectToFriend"})
      BY <3>1, Appended
    <3>3. main \in [Peer -> Seq({"SyncInfo", "ConnectToFriend"})]
      BY DEF LinkTypes
    <3> QED BY <2>10, <3>2, <3>3
  <2>7. asked' \in [Peer -> [client: 0..MaxClients, port: Port]]
    <3>1. [client |-> i, port |-> r.port] \in [client: 0..MaxClients, port: Port]
      BY <2>2, <2>4
    <3>2. asked \in [Peer -> [client: 0..MaxClients, port: Port]]
      BY DEF LinkTypes
    <3> QED BY <2>11, <3>1, <3>2
  <2>8. down' \in [Client -> Seq(Answer)]
    <3>1. Append(down[i], [type |-> "Offline"]) \in Seq(Answer) /\ down \in [Client -> Seq(Answer)]
      BY <1>5, Packets DEF LinkTypes, Answer
    <3> QED BY <2>12, <3>1
  <2>9. hello' = hello
    BY <1>7 DEF HandleHelp
  <2> QED BY <1>2, <1>3, <1>4, <2>6, <2>7, <2>8, <2>9 DEF LinkTypes, AnyPacket, Answer
<1>8. CASE HandleAccepting(i)
  <2> DEFINE r == Head(up[i])
             a == asked[client[i].owner]
             told == Meeting(i, r.port, a.client, a.port)
  <2>1. Head(up[i]).type = "Help"
    BY <1>8 DEF HandleAccepting, Requested
  <2>2. r.port \in Port
    BY <1>3, <2>1, HelpContents
  <2>3. a \in [client: 0..MaxClients, port: Port]
    BY DEF LinkTypes, ClientRecord
  <2>4. a.port \in Port /\ (a.client # 0 => a.client \in Client)
    <3>1. \A n \in 0..MaxClients : n # 0 => n \in Client
      BY LinkAssumption DEF Client
    <3> QED BY <2>3, <3>1
  <2>5. a.client # 0 => told[1] \in ServerPacket /\ told[2] \in ServerPacket
    <3>1. CASE r.port # 0
      BY <2>2, <3>1, Packets, Targets DEF Meeting
    <3>2. CASE r.port = 0 /\ a.port # 0
      BY <2>4, <3>2, Packets, Targets DEF Meeting
    <3>3. CASE r.port = 0 /\ a.port = 0 /\ a.client # 0
      BY <2>4, <3>3, Packets, Targets DEF Meeting
    <3> QED BY <3>1, <3>2, <3>3
  <2>6. UNCHANGED <<main, asked, hello>>
    BY <1>8 DEF HandleAccepting
  <2>7. \/ down' = down
        \/ /\ a.client # 0
           /\ down' = [j \in Client |->
                         IF j = i THEN Append(down[j], told[1])
                         ELSE IF j = a.client /\ AtServer(j) THEN Append(down[j], told[2])
                         ELSE down[j]]
    BY <1>8 DEF HandleAccepting
  <2> HIDE DEF r, a, told
  <2>8. down' \in [Client -> Seq(Answer)]
    <3>1. \A j \in Client : down[j] \in Seq(Answer)
      BY DEF LinkTypes, Answer
    <3>2. a.client # 0 => \A j \in Client : Append(down[j], told[1]) \in Seq(Answer)
                                            /\ Append(down[j], told[2]) \in Seq(Answer)
      BY <1>5, <2>5
    <3>3. down' = down \/ \A j \in Client : down'[j] \in {down[j], Append(down[j], told[1]),
                                                           Append(down[j], told[2])}
      BY <2>7
    <3>4. down' = down \/ down' = [j \in Client |-> down'[j]]
      BY <2>7
    <3>5. down \in [Client -> Seq(Answer)]
      BY DEF LinkTypes, Answer
    <3>6. CASE a.client = 0
      BY <2>7, <3>5, <3>6
    <3>7. CASE a.client # 0
      BY <3>1, <3>2, <3>3, <3>4, <3>5, <3>7
    <3> QED BY <3>6, <3>7
  <2> QED BY <1>2, <1>3, <1>4, <2>6, <2>8 DEF LinkTypes, AnyPacket, Answer
<1> QED BY <1>6, <1>7, <1>8 DEF HandleRequest

\* Another packet of its own server is sent to a friend.
LEMMA SyncKeepsTypes ==
    ASSUME LinkTypes, Control, NEW p \in Peer, SyncInfo(p)
    PROVE  LinkTypes' /\ Control'
<1> USE DEF serverVars, authVars
<1>1. UNCHANGED <<made, status, cos, accepting, port, mine, listening, accepted, unreported,
                  events, authVars, incidents, asked, hello, client, up, down>>
  BY DEF SyncInfo, OnlyServer
<1>2. syncs' \in [Peer -> Nat]
  BY DEF SyncInfo, LinkTypes
<1>3. main' \in [Peer -> Seq({"SyncInfo", "ConnectToFriend"})]
  <2>1. main[p] \in Seq({"SyncInfo", "ConnectToFriend"})
    BY DEF LinkTypes
  <2>2. Append(main[p], "SyncInfo") \in Seq({"SyncInfo", "ConnectToFriend"})
    BY <2>1, Appended
  <2> QED BY <2>2 DEF SyncInfo, LinkTypes
<1>4. LinkTypes'
  BY <1>1, <1>2, <1>3 DEF LinkTypes
<1>5. SameTargets
  BY <1>1 DEF SameTargets
<1> QED BY <1>1, <1>4, <1>5, ControlKept DEF LinkTypes

\* The initial state.
LEMMA TypeInit == Init => LinkTypes /\ Control
<1> SUFFICES ASSUME Init PROVE LinkTypes /\ Control
  OBVIOUS
<1>1. \A S : /\ [p \in Peer |-> <<>>] \in [Peer -> Seq(S)]
             /\ [i \in Client |-> <<>>] \in [Client -> Seq(S)]
  BY Nothing
<1>2. /\ main \in [Peer -> Seq({"SyncInfo", "ConnectToFriend"})]
      /\ events \in [Peer -> Seq(Event)]
      /\ up \in [Client -> Seq(AnyPacket)] /\ down \in [Client -> Seq(Answer)]
  BY <1>1 DEF Init
<1>3. syncs \in [Peer -> Nat] /\ \A i \in Client : up[i] \in Seq(FriendPacket)
  BY Nothing DEF Init
<1>4. asked \in [Peer -> [client: 0..MaxClients, port: Port]]
  BY Targets DEF Init
<1>5. /\ client \in [Client -> ClientRecord]
      /\ \A i \in Client : client[i].target = <<"None">>
  <2>1. (CHOOSE p \in Peer : TRUE) \in Peer
    BY LinkAssumption
  <2> DEFINE none == [owner |-> CHOOSE p \in Peer : TRUE, udt |-> "Disconnected",
                      target |-> <<"None">>, broken |-> FALSE, taken |-> FALSE]
  <2>2. none \in ClientRecord /\ none.target = <<"None">>
    BY <2>1, Targets DEF ClientRecord
  <2>3. client = [i \in Client |-> none]
    BY DEF Init
  <2> HIDE DEF none
  <2> QED BY <2>2, <2>3
<1>6. /\ hello \in [Client -> BOOLEAN] /\ made = 0 /\ made \in 0..MaxClients
      /\ status \in [Peer -> {"Offline", "Available"}] /\ cos = [p \in Peer |-> "Offline"]
      /\ accepting \in [Peer -> BOOLEAN] /\ unreported \in [Peer -> BOOLEAN]
  BY Targets DEF Init
<1>7. port \in [Peer -> Port] /\ listening \in [Peer -> Port]
  BY Targets DEF Init
<1>8. /\ mine = [p \in Peer |-> 0] /\ accepted = [p \in Peer |-> 0]
      /\ mine \in [Peer -> 0..MaxClients] /\ accepted \in [Peer -> 0..MaxClients]
  BY Targets DEF Init
<1>9. /\ random \in [Peer -> Nat] /\ selfKey \in [Peer -> Nat] /\ friendKey \in [Peer -> Nat]
      /\ selfAuthorized \in [Peer -> BOOLEAN] /\ friendAuthorized \in [Peer -> BOOLEAN]
      /\ drawn \in [Peer -> Nat] /\ incidents \subseteq {"Lost", "Failed", "Crossed", "Late", "Stray"}
  BY DEF Init
<1>10. cos \in [Peer -> ConnectionStatus]
  BY <1>6 DEF ConnectionStatus
<1>11. LinkTypes
  BY <1>2, <1>3, <1>4, <1>5, <1>6, <1>7, <1>8, <1>9, <1>10 DEF LinkTypes, AnyPacket, Answer
<1>12. Control
  BY <1>3, <1>5, <1>6, <1>8 DEF Control
<1> QED BY <1>11, <1>12

\* Every step.
LEMMA TypeStep == LinkTypes /\ Control /\ [Next]_vars => LinkTypes' /\ Control'
<1> SUFFICES ASSUME LinkTypes, Control, [Next]_vars PROVE LinkTypes' /\ Control'
  OBVIOUS
<1>1. CASE UNCHANGED vars
  BY <1>1 DEF vars, serverVars, linkVars, authVars, LinkTypes, Control
<1>2. ASSUME NEW p \in Peer, HandleEvent(p) PROVE LinkTypes' /\ Control'
  BY <1>2, ConnectionEventsKeepTypes, PacketsKeepTypes DEF HandleEvent
<1>3. ASSUME NEW p \in Peer,
             SyncInfo(p) \/ EventThread(p) \/ Worker(p) \/ WorkerTimedOut(p) \/ Connections(p)
      PROVE  LinkTypes' /\ Control'
  BY <1>2, <1>3, SyncKeepsTypes, MainKeepsTypes, WorkerKeepsTypes, ConnectionsKeepTypes
  DEF EventThread
<1>4. ASSUME NEW i \in Client, HandleRequest(i) \/ LinkBreaks(i) PROVE LinkTypes' /\ Control'
  BY <1>4, ServerKeepsTypes, BreaksKeepTypes
<1> QED BY <1>1, <1>3, <1>4 DEF Next, Server

\* Those without a worker are clients, and those who wait are processes.
Threads == silent \subseteq Client /\ stuck \subseteq Peer

LEMMA ThreadsStep == LinkTypes /\ Control /\ Threads /\ [Next]_vars => Threads'
<1> SUFFICES ASSUME LinkTypes, Control, Threads, [Next]_vars PROVE Threads'
  OBVIOUS
<1> USE DEF threadVars
<1>1. CASE UNCHANGED vars
  BY <1>1 DEF vars, Threads
<1>2. ASSUME NEW p \in Peer, NEW i \in Client, NEW b, Begin(p, i, b) PROVE Threads'
  BY <1>2 DEF Begin, Stop, Threads
<1>3. ASSUME NEW p \in Peer, NEW b, StopServer(p, b) PROVE Threads'
  BY <1>3 DEF StopServer, Stop, Threads
<1>4. ASSUME NEW p \in Peer, HandleMain(p) PROVE Threads'
  <2>1. CASE Connect(p) \/ ConnectAccept(p)
    <3>1. NewClient(p)
      BY <2>1 DEF Connect, ConnectAccept
    <3>2. Begin(p, made', Adding(p))
      BY <3>1 DEF NewClient
    <3>3. made' = made + 1 /\ made < MaxClients
      BY <3>1 DEF NewClient
    <3>4. made \in 0..MaxClients
      BY DEF LinkTypes
    <3>5. made' \in Client
      BY <3>3, <3>4, LinkAssumption DEF Client
    <3> QED BY <1>2, <3>2, <3>5
  <2>2. CASE KeepConnection(p) \/ ConnectDies(p)
    BY <2>2 DEF KeepConnection, ConnectDies, Dies, Threads
  <2> QED BY <1>4, <2>1, <2>2 DEF HandleMain
<1>5. ASSUME NEW p \in Peer, HandleEvent(p) PROVE Threads'
  <2>1. ASSUME NEW t, Reconnect(p, t), cos[p] = "WaitingFriendAddress" PROVE Threads'
    <3>1. mine[p] \in Client
      <4>1. mine[p] \in 0..MaxClients /\ mine[p] # 0
        BY <2>1 DEF Control, LinkTypes
      <4> QED BY <4>1, LinkAssumption DEF Client
    <3>2. Begin(p, mine[p], Adding(p) \/ ~Active(p))
      BY <2>1 DEF Reconnect
    <3> QED BY <1>2, <3>1, <3>2
  <2>2. CASE OnNatTraversal(p) \/ OnConnectTo(p)
    <3>1. cos[p] = "WaitingFriendAddress"
      BY <2>2 DEF OnNatTraversal, OnConnectTo, HelpPacket, HelpReceived
    <3>2. (\E t : Reconnect(p, t)) \/ UNCHANGED threadVars
      BY <2>2 DEF OnNatTraversal, OnConnectTo
    <3> QED BY <2>1, <3>1, <3>2 DEF Threads
  <2>3. CASE OnFriendOffline(p) \/ OnListen(p)
    BY <1>3, <2>3 DEF OnFriendOffline, OnListen
  <2>4. CASE \/ OnConnectionFailed(p) \/ OnServerConnected(p) \/ OnFriendConnected(p)
             \/ OnAccepted(p) \/ OnConnectedDies(p) \/ OnConnectedLate(p) \/ OnServerLost(p)
             \/ OnChallenge(p) \/ DropPacket(p)
    BY <2>4 DEF OnConnectionFailed, OnServerConnected, OnFriendConnected, OnAccepted,
                OnConnectedDies, Dies, OnConnectedLate, OnServerLost, OnChallenge, DropPacket,
                Threads
  <2>5. CASE OnRandomSequence(p) \/ OnConfirm(p) \/ OnAuthorized(p)
    BY <2>5 DEF OnRandomSequence, OnConfirm, OnAuthorized, FriendData, Threads
  <2> QED BY <1>5, <2>2, <2>3, <2>4, <2>5 DEF HandleEvent
<1>6. ASSUME NEW p \in Peer, SyncInfo(p) \/ Worker(p) \/ WorkerTimedOut(p) \/ Connections(p)
      PROVE  Threads'
  BY <1>6 DEF SyncInfo, OnlyServer, Worker, WorkerConnected, WorkerTimedOut, WorkerReceives,
              WorkerLost, ServerLost, Connections, Accept, ReportAccepted, Threads
<1>7. ASSUME NEW i \in Client, HandleRequest(i) \/ LinkBreaks(i) PROVE Threads'
  BY <1>7 DEF HandleRequest, HandleHello, HandleHelp, HandleAccepting, Requested, OnlyServer,
              LinkBreaks, Threads
<1> QED BY <1>1, <1>4, <1>5, <1>6, <1>7 DEF Next, Server, EventThread

\* Every variable holds values of its type: no packet and no event is ever handled as one of
\* another kind (friend.cpp:320), a client asks for help only over its connection to the
\* server, and only a client that connects to a port is accepted, for every number of
\* clients, breaks and packets of the server.
THEOREM TypeCorrect == Spec => []TypeOK
<1> DEFINE Inv == LinkTypes /\ Control /\ Threads
<1>1. Init => Inv
  BY TypeInit DEF Init, Threads
<1>2. Inv /\ [Next]_vars => Inv'
  BY TypeStep, ThreadsStep
<1>3. Inv => TypeOK
  BY DEF TypeOK, Threads
<1> QED BY <1>1, <1>2, <1>3, PTL DEF Spec

-----------------------------------------------------------------------------
(* Clients *)

\* Who traverses NAT is connected only to a client that does the same.
Traversing ==
    \A i \in Client :
        client[i].udt = "Connected" /\ client[i].target[1] = "Client" => PeerClient(i) # 0

News(p) == \E n \in 1..Len(events[p]) : events[p][n].type = "Connected" /\ events[p][n].success

\* The client of p is disconnected when p's server listens; it has been connected before
\* ConnectionStatus says so, and until then the news of that is queued; whom the server
\* has accepted is a client of the friend and marked as accepted.
ClientsOf(p) ==
    /\ mine[p] # 0 /\ cos[p] \in {"WaitingFriendConnection", "AcceptedConnection"} =>
         client[mine[p]].udt = "Disconnected"
    /\ mine[p] # 0 /\ cos[p] = "Connected" => client[mine[p]].udt # "Connecting"
    /\ accepted[p] # 0 =>
         client[accepted[p]].taken /\ Other[client[accepted[p]].owner] = p
    /\ mine[p] # 0 /\ cos[p] = "ConnectingToFriend" /\ client[mine[p]].udt = "Connected"
         /\ ~client[mine[p]].broken => News(p)

Clients == Traversing /\ \A p \in Peer : ClientsOf(p)

\* Client i changes at most in that it is disconnected, its link breaks or it is accepted.
Lasts(i) ==
    /\ client'[i].owner = client[i].owner /\ client'[i].target = client[i].target
    /\ client'[i].udt \in {client[i].udt, "Disconnected"}
    /\ client[i].broken => client'[i].broken
    /\ client[i].taken => client'[i].taken

LEMMA Numbers ==
    ASSUME LinkTypes
    PROVE  \A p \in Peer : /\ mine[p] # 0 => mine[p] \in Client
                           /\ accepted[p] # 0 => accepted[p] \in Client
                           /\ Other[p] \in Peer
<1>1. \A n \in 0..MaxClients : n # 0 => n \in Client
  BY LinkAssumption DEF Client
<1> QED BY <1>1, Peers DEF LinkTypes

LEMMA SamePeers ==
    ASSUME LinkTypes, SameTargets, NEW i \in Client
    PROVE  PeerClient(i)' = PeerClient(i)
<1>1. client[i].target \in Target
  BY DEF LinkTypes, ClientRecord
<1>2. client[i].target[1] = "Client" => client[i].target[2] \in Client
  BY <1>1, Targets
<1> QED BY <1>2 DEF PeerClient, SameTargets

LEMMA TraversingKept ==
    ASSUME LinkTypes, Traversing, SameTargets,
           \A i \in Client : client'[i].udt = "Connected" /\ client[i].target[1] = "Client" =>
                               client[i].udt = "Connected" \/ PeerClient(i) # 0
    PROVE  Traversing'
BY SamePeers DEF Traversing, SameTargets

LEMMA ClientsOfKept ==
    ASSUME LinkTypes, NEW p \in Peer, ClientsOf(p), mine'[p] = mine[p],
           accepted'[p] \in {accepted[p], 0},
           mine[p] # 0 => Lasts(mine[p]), accepted[p] # 0 => Lasts(accepted[p]),
           cos'[p] = cos[p] \/ cos'[p] \notin {"WaitingFriendConnection", "AcceptedConnection",
                                             "Connected", "ConnectingToFriend"},
           cos'[p] = "ConnectingToFriend" /\ News(p) => News(p)'
    PROVE  ClientsOf(p)'
<1>1. mine[p] # 0 => client[mine[p]].udt # "Disconnected" \/ client'[mine[p]].udt = "Disconnected"
  BY DEF Lasts
<1>2. mine[p] # 0 => client'[mine[p]].broken \/ ~client[mine[p]].broken
  BY DEF Lasts
<1>3. \/ cos'[p] \notin {"WaitingFriendConnection", "AcceptedConnection",
                         "Connected", "ConnectingToFriend"}
      \/ cos'[p] = cos[p]
  OBVIOUS
<1>4. accepted'[p] # 0 =>
         client'[accepted'[p]].taken /\ Other[client'[accepted'[p]].owner] = p
  BY DEF Lasts, ClientsOf
<1>5. mine'[p] # 0 /\ cos'[p] \in {"WaitingFriendConnection", "AcceptedConnection"} =>
         client'[mine'[p]].udt = "Disconnected"
  BY <1>1, <1>3 DEF ClientsOf
<1>6. mine'[p] # 0 /\ cos'[p] = "Connected" => client'[mine'[p]].udt # "Connecting"
  BY <1>3 DEF ClientsOf, Lasts
<1>7. mine'[p] # 0 /\ cos'[p] = "ConnectingToFriend" /\ client'[mine'[p]].udt = "Connected"
         /\ ~client'[mine'[p]].broken => News(p)'
  BY <1>2, <1>3 DEF ClientsOf, Lasts
<1> QED BY <1>4, <1>5, <1>6, <1>7 DEF ClientsOf

LEMMA AppendedTo ==
    ASSUME NEW S, NEW s \in Seq(S), NEW e
    PROVE  /\ Len(Append(s, e)) = Len(s) + 1 /\ Append(s, e)[Len(s) + 1] = e
           /\ \A n \in 1..Len(s) : Append(s, e)[n] = s[n]
<1>1. s \in Seq(S \cup {e})
  OBVIOUS
<1> QED BY <1>1, AppendProperties

\* The news stays queued when an event is queued, or another one is taken.
LEMMA NewsStays ==
    ASSUME LinkTypes, NEW p \in Peer, NEW r \in Peer
    PROVE  /\ \A e : Queued(r, e) /\ News(p) => News(p)'
           /\ events[r] # <<>> /\ PopEvent(r) /\ News(p)
                /\ (p = r => ~(Head(events[p]).type = "Connected" /\ Head(events[p]).success))
                => News(p)'
<1>1. events \in [Peer -> Seq(Event)] /\ events[p] \in Seq(Event)
  BY DEF LinkTypes
<1>2. ASSUME NEW e, Queued(r, e), News(p) PROVE News(p)'
  <2>1. CASE p # r
    BY <1>1, <1>2, <2>1 DEF Queued, News
  <2>2. CASE p = r
    <3>1. PICK n \in 1..Len(events[p]) : events[p][n].type = "Connected" /\ events[p][n].success
      BY <1>2 DEF News
    <3>2. events'[p] = Append(events[p], e)
      BY <1>1, <1>2, <2>2 DEF Queued
    <3>3. n \in 1..Len(events'[p]) /\ events'[p][n] = events[p][n]
      BY <1>1, <3>2, AppendedTo, LenProperties
    <3> QED BY <3>1, <3>3 DEF News
  <2> QED BY <2>1, <2>2
<1>3. ASSUME events[r] # <<>>, PopEvent(r), News(p),
             p = r => ~(Head(events[p]).type = "Connected" /\ Head(events[p]).success)
      PROVE  News(p)'
  <2>1. CASE p # r
    BY <1>1, <1>3, <2>1 DEF PopEvent, News
  <2>2. CASE p = r
    <3>1. PICK n \in 1..Len(events[p]) : events[p][n].type = "Connected" /\ events[p][n].success
      BY <1>3 DEF News
    <3>2. events'[p] = Tail(events[p])
      BY <1>1, <1>3, <2>2 DEF PopEvent
    <3>3. Head(events[p]) = events[p][1]
      BY <1>1, <1>3, <2>2, HeadTailProperties
    <3>4. n # 1
      BY <1>3, <2>2, <3>1, <3>3
    <3>5. /\ Len(Tail(events[p])) = Len(events[p]) - 1
          /\ \A m \in 1..Len(Tail(events[p])) : Tail(events[p])[m] = events[p][m + 1]
      BY <1>1, <1>3, <2>2, HeadTailProperties
    <3>6. Len(events[p]) \in Nat
      BY <1>1, LenProperties
    <3>7. n - 1 \in 1..Len(events'[p]) /\ (n - 1) + 1 = n
      BY <3>2, <3>4, <3>5, <3>6
    <3>8. events'[p][n - 1] = events[p][n]
      BY <3>2, <3>5, <3>7
    <3> QED BY <3>1, <3>7, <3>8 DEF News
  <2> QED BY <2>1, <2>2
<1> QED BY <1>2, <1>3

\* The ways in which clients change that last.
LEMMA LastsFrom ==
    ASSUME LinkTypes, NEW i
    PROVE  /\ client' = client => \A j \in Client : Lasts(j)
           /\ client' = [client EXCEPT ![i].udt = "Disconnected"] => \A j \in Client : Lasts(j)
           /\ client' = [client EXCEPT ![i].broken = TRUE] => \A j \in Client : Lasts(j)
           /\ client' = [client EXCEPT ![i].taken = TRUE] => \A j \in Client : Lasts(j)
<1>1. client \in [Client -> ClientRecord]
  BY DEF LinkTypes
<1>2. \A r \in ClientRecord :
        /\ [r EXCEPT !.udt = "Disconnected"].udt = "Disconnected"
        /\ [r EXCEPT !.udt = "Disconnected"].owner = r.owner
        /\ [r EXCEPT !.udt = "Disconnected"].target = r.target
        /\ [r EXCEPT !.udt = "Disconnected"].broken = r.broken
        /\ [r EXCEPT !.udt = "Disconnected"].taken = r.taken
  BY DEF ClientRecord
<1>3. \A r \in ClientRecord :
        /\ [r EXCEPT !.broken = TRUE].udt = r.udt
        /\ [r EXCEPT !.broken = TRUE].owner = r.owner
        /\ [r EXCEPT !.broken = TRUE].target = r.target
        /\ [r EXCEPT !.broken = TRUE].broken
        /\ [r EXCEPT !.broken = TRUE].taken = r.taken
  BY DEF ClientRecord
<1>4. \A r \in ClientRecord :
        /\ [r EXCEPT !.taken = TRUE].udt = r.udt
        /\ [r EXCEPT !.taken = TRUE].owner = r.owner
        /\ [r EXCEPT !.taken = TRUE].target = r.target
        /\ [r EXCEPT !.taken = TRUE].broken = r.broken
        /\ [r EXCEPT !.taken = TRUE].taken
  BY DEF ClientRecord
<1>5. client' = client => \A j \in Client : Lasts(j)
  BY DEF Lasts
<1>6. ASSUME client' = [client EXCEPT ![i].udt = "Disconnected"], NEW j \in Client PROVE Lasts(j)
  BY <1>1, <1>2, <1>6 DEF Lasts
<1>7. ASSUME client' = [client EXCEPT ![i].broken = TRUE], NEW j \in Client PROVE Lasts(j)
  BY <1>1, <1>3, <1>7 DEF Lasts
<1>8. ASSUME client' = [client EXCEPT ![i].taken = TRUE], NEW j \in Client PROVE Lasts(j)
  BY <1>1, <1>4, <1>8 DEF Lasts
<1> QED BY <1>5, <1>6, <1>7, <1>8

\* So do the clients of a link that breaks, and of a process that ends.
LEMMA BreakingLasts ==
    ASSUME LinkTypes, NEW i \in Client, LinkBreaks(i)
    PROVE  \A j \in Client : Lasts(j)
<1> DEFINE ends == {i, PeerClient(i)} \ {0}
<1>1. client' = [j \in Client |-> IF j \in ends THEN [client[j] EXCEPT !.broken = TRUE]
                                  ELSE client[j]]
  BY DEF LinkBreaks
<1> HIDE DEF ends
<1>2. \A r \in ClientRecord :
        /\ [r EXCEPT !.broken = TRUE].udt = r.udt
        /\ [r EXCEPT !.broken = TRUE].owner = r.owner
        /\ [r EXCEPT !.broken = TRUE].target = r.target
        /\ [r EXCEPT !.broken = TRUE].broken
        /\ [r EXCEPT !.broken = TRUE].taken = r.taken
  BY DEF ClientRecord
<1>3. \A j \in Client : client[j] \in ClientRecord
  BY DEF LinkTypes
<1> QED BY <1>1, <1>2, <1>3 DEF Lasts

LEMMA DyingLasts ==
    ASSUME LinkTypes, NEW p \in Peer, Dies(p)
    PROVE  \A j \in Client :
              /\ Lasts(j)
              /\ client'[j].broken \/ j \notin ({mine[p], accepted[p]} \cup {PeerClient(i) : i \in {mine[p]} \ {0}}) \ {0}
<1> DEFINE ends == ({mine[p], accepted[p]} \cup {PeerClient(i) : i \in {mine[p]} \ {0}}) \ {0}
<1>1. client' = [i \in Client |->
             [client[i] EXCEPT !.udt = IF i = mine[p] THEN "Disconnected" ELSE @,
                               !.broken = @ \/ i \in ends]]
  BY DEF Dies
<1> HIDE DEF ends
<1> SUFFICES ASSUME NEW j \in Client
             PROVE  Lasts(j) /\ (client'[j].broken \/ j \notin ends)
  BY DEF ends
<1>2. client[j] \in ClientRecord
  BY DEF LinkTypes
<1> DEFINE b == client[j].broken \/ j \in ends
           u == IF j = mine[p] THEN "Disconnected" ELSE client[j].udt
<1>3. b \in BOOLEAN /\ u \in {"Disconnected", "Connecting", "Connected"}
  BY <1>2 DEF ClientRecord
<1>4. client'[j] = [client[j] EXCEPT !.udt = u, !.broken = b]
  BY <1>1, Zenon
<1>5. /\ u \in {client[j].udt, "Disconnected"} /\ client[j].broken \in BOOLEAN
      /\ client[j].broken => b
      /\ j \in ends => b
  BY <1>2 DEF ClientRecord
<1> HIDE DEF b, u
<1>6. \A r \in ClientRecord, x \in BOOLEAN :
        \A y \in {"Disconnected", "Connecting", "Connected"} :
          client'[j] = [r EXCEPT !.udt = y, !.broken = x] =>
             /\ client'[j].owner = r.owner /\ client'[j].target = r.target
             /\ client'[j].taken = r.taken /\ client'[j].udt = y /\ client'[j].broken = x
  BY DEF ClientRecord
<1>7. /\ client'[j].owner = client[j].owner /\ client'[j].target = client[j].target
      /\ client'[j].taken = client[j].taken /\ client'[j].udt = u /\ client'[j].broken = b
  BY <1>2, <1>3, <1>4, <1>6, Zenon
<1>8. Lasts(j)
  BY <1>5, <1>7 DEF Lasts
<1>9. client'[j].broken \/ j \notin ends
  BY <1>5, <1>7
<1> QED BY <1>8, <1>9

LEMMA LastingTargets == (\A j \in Client : Lasts(j)) => SameTargets
BY DEF Lasts, SameTargets


LinkStatus == {"ConnectingToFriend", "Connected", "AcceptedConnection"}

\* No link is made or taken up: clients last, and who connects to the friend or is connected
\* goes on or gives up.
Quiet ==
    /\ \A j \in Client : Lasts(j)
    /\ mine' = mine
    /\ \A p \in Peer : accepted'[p] \in {accepted[p], 0}
    /\ \A p \in Peer : cos'[p] = cos[p] \/ cos'[p] \notin LinkStatus
    /\ \A p \in Peer : \/ cos'[p] # "WaitingFriendConnection" \/ cos[p] = cos'[p]
                       \/ mine[p] # 0 /\ client'[mine[p]].udt = "Disconnected"

\* The actions that make or take up a link.
Makes(p) == WorkerConnected(p) \/ Connect(p) \/ ConnectAccept(p) \/ Accept(p)
            \/ OnFriendConnected(p) \/ OnNatTraversal(p) \/ OnConnectTo(p)

LEMMA QuietIf ==
    ASSUME LinkTypes, \A j \in Client : Lasts(j), mine' = mine,
           accepted' = accepted \/ \E p \in Peer : accepted' = [accepted EXCEPT ![p] = 0],
           cos' = cos \/ \E p \in Peer : \E c \in {"Offline", "Dead", "WaitingFriendAddress"} :
                            cos' = [cos EXCEPT ![p] = c]
    PROVE  Quiet
<1>1. \A p \in Peer : accepted'[p] \in {accepted[p], 0}
  BY DEF LinkTypes
<1>2. \A p \in Peer : cos'[p] = cos[p] \/ cos'[p] \in {"Offline", "Dead", "WaitingFriendAddress"}
  BY DEF LinkTypes
<1> QED BY <1>1, <1>2 DEF Quiet, LinkStatus

LEMMA OfflineIf ==
    ASSUME LinkTypes, NEW p \in Peer, OnDisconnected(p)
    PROVE  cos' = cos \/ cos' = [cos EXCEPT ![p] = "Offline"]
BY DEF OnDisconnected, LinkTypes

\* Other steps of the workers and of the network are quiet.
LEMMA QuietLinks ==
    ASSUME LinkTypes
    PROVE  /\ \A p \in Peer : WorkerTimedOut(p) \/ WorkerReceives(p) \/ WorkerLost(p)
                                \/ ServerLost(p) \/ ReportAccepted(p) \/ SyncInfo(p) => Quiet
           /\ \A i \in Client : LinkBreaks(i) \/ HandleRequest(i) => Quiet
           /\ UNCHANGED vars => Quiet
<1> USE DEF linkVars, serverVars, authVars
<1>1. ASSUME NEW p \in Peer, WorkerTimedOut(p) \/ WorkerLost(p) PROVE Quiet
  <2>1. \A j \in Client : Lasts(j)
    BY <1>1, LastsFrom DEF WorkerTimedOut, WorkerLost
  <2>2. mine' = mine /\ accepted' = accepted /\ OnDisconnected(p)
    BY <1>1 DEF WorkerTimedOut, WorkerLost
  <2> QED BY <2>1, <2>2, QuietIf, OfflineIf
<1>2. ASSUME client' = client, mine' = mine, cos' = cos,
             accepted' = accepted \/ \E p \in Peer : accepted' = [accepted EXCEPT ![p] = 0]
      PROVE  Quiet
  <2>1. \A j \in Client : Lasts(j)
    BY <1>2, LastsFrom
  <2> QED BY <1>2, <2>1, QuietIf
<1>3. ASSUME NEW p \in Peer, WorkerReceives(p) \/ ServerLost(p) \/ ReportAccepted(p) \/ SyncInfo(p)
      PROVE  Quiet
  <2>1. client' = client /\ mine' = mine /\ cos' = cos
    BY <1>3 DEF WorkerReceives, ServerLost, ReportAccepted, SyncInfo, OnlyServer
  <2>2. accepted' = accepted \/ accepted' = [accepted EXCEPT ![p] = 0]
    BY <1>3 DEF WorkerReceives, ServerLost, ReportAccepted, SyncInfo, OnlyServer
  <2> QED BY <1>2, <2>1, <2>2
<1>4. ASSUME NEW i \in Client, HandleRequest(i) PROVE Quiet
  <2>1. client' = client /\ mine' = mine /\ cos' = cos /\ accepted' = accepted
    BY <1>4 DEF HandleRequest, HandleHello, HandleHelp, HandleAccepting, Requested, OnlyServer
  <2> QED BY <1>2, <2>1
<1>5. ASSUME NEW i \in Client, LinkBreaks(i) PROVE Quiet
  <2>1. mine' = mine /\ cos' = cos /\ accepted' = accepted
    BY <1>5 DEF LinkBreaks
  <2> QED BY <1>5, <2>1, BreakingLasts, QuietIf
<1>6. UNCHANGED vars => Quiet
  BY <1>2 DEF vars
<1> QED BY <1>1, <1>3, <1>4, <1>5, <1>6

\* So are the other steps of the event threads.
LEMMA QuietEvents ==
    ASSUME LinkTypes, Control, NEW p \in Peer, HandleMain(p) \/ HandleEvent(p), ~Makes(p)
    PROVE  Quiet
<1> USE DEF linkVars, serverVars, authVars
<1>1. ASSUME client' = client, mine' = mine, accepted' = accepted,
             cos' = cos \/ \E c \in {"Offline", "Dead", "WaitingFriendAddress"} :
                              cos' = [cos EXCEPT ![p] = c]
      PROVE  Quiet
  <2>1. \A j \in Client : Lasts(j)
    BY <1>1, LastsFrom
  <2> QED BY <1>1, <2>1, QuietIf
<1>2. CASE \/ KeepConnection(p) \/ OnServerConnected(p) \/ OnAccepted(p) \/ OnConnectedLate(p)
           \/ OnRandomSequence(p) \/ OnConfirm(p) \/ OnAuthorized(p) \/ DropPacket(p)
  <2>1. client' = client /\ mine' = mine /\ accepted' = accepted /\ cos' = cos
    BY <1>2 DEF KeepConnection, OnServerConnected, OnAccepted, OnConnectedLate, OnRandomSequence,
       OnConfirm, OnAuthorized, DropPacket, FriendData
  <2> QED BY <1>1, <2>1
<1>3. CASE OnConnectionFailed(p) \/ OnServerLost(p) \/ OnChallenge(p)
  <2>1. client' = client /\ mine' = mine /\ accepted' = accepted
    BY <1>3 DEF OnConnectionFailed, OnServerLost, OnChallenge
  <2>2. \/ cos' = [cos EXCEPT ![p] = "Offline"] \/ cos' = [cos EXCEPT ![p] = "WaitingFriendAddress"]
        \/ OnDisconnected(p)
    BY <1>3 DEF OnConnectionFailed, OnServerLost, OnChallenge
  <2> QED BY <1>1, <2>1, <2>2, OfflineIf
<1>4. CASE OnConnectedDies(p) \/ ConnectDies(p)
  <2>1. Dies(p)
    BY <1>4 DEF OnConnectedDies, ConnectDies
  <2>2. /\ mine' = mine /\ accepted' = [accepted EXCEPT ![p] = 0]
        /\ cos' = [cos EXCEPT ![p] = "Dead"]
    BY <2>1 DEF Dies
  <2> QED BY <2>1, <2>2, DyingLasts, QuietIf
<1>5. CASE OnFriendOffline(p)
  <2>1. /\ client' = [client EXCEPT ![mine[p]].udt = "Disconnected"] /\ mine' = mine
        /\ accepted' = [accepted EXCEPT ![p] = 0] /\ OnDisconnected(p)
    BY <1>5 DEF OnFriendOffline
  <2> QED BY <2>1, LastsFrom, OfflineIf, QuietIf
<1>6. CASE OnListen(p)
  <2>1. client' = [client EXCEPT ![mine[p]].udt = "Disconnected"] /\ mine' = mine
    BY <1>6 DEF OnListen
  <2>2. \A r \in Peer : accepted'[r] \in {accepted[r], 0}
    BY <1>6 DEF OnListen, LinkTypes
  <2>3. \A r \in Peer : cos'[r] = IF r = p THEN "WaitingFriendConnection" ELSE cos[r]
    BY <1>6 DEF OnListen, LinkTypes
  <2>4. mine[p] # 0 /\ mine[p] \in Client
    BY <1>6, Numbers DEF OnListen, HelpPacket, HelpReceived, Control
  <2>5. client'[mine[p]].udt = "Disconnected"
    <3>1. client[mine[p]] \in ClientRecord /\ client \in [Client -> ClientRecord]
      BY <2>4 DEF LinkTypes
    <3>2. \A r \in ClientRecord : [r EXCEPT !.udt = "Disconnected"].udt = "Disconnected"
      BY DEF ClientRecord
    <3> QED BY <2>1, <2>4, <3>1, <3>2
  <2>6. \A j \in Client : Lasts(j)
    BY <2>1, LastsFrom
  <2> QED BY <2>1, <2>2, <2>3, <2>4, <2>5, <2>6 DEF Quiet, LinkStatus
<1> QED BY <1>2, <1>3, <1>4, <1>5, <1>6 DEF HandleMain, HandleEvent, Makes

LEMMA QuietSteps ==
    ASSUME LinkTypes, Control, [Next]_vars
    PROVE  Quiet \/ \E p \in Peer : Makes(p)
<1>1. ASSUME NEW p \in Peer, EventThread(p) PROVE Quiet \/ Makes(p)
  BY <1>1, QuietEvents DEF EventThread
<1> QED BY <1>1, QuietLinks DEF Next, Worker, Connections, Server, Makes

\* What a step does to the event queues.
LEMMA EventSteps ==
    ASSUME LinkTypes, [Next]_vars
    PROVE  \/ events' = events
           \/ \E r \in Peer : \E e : Queued(r, e)
           \/ \E r \in Peer :
                 /\ HandleEvent(r) /\ events[r] # <<>> /\ PopEvent(r)
                 /\ ~(Head(events[r]).type = "Connected" /\ Head(events[r]).success
                      /\ cos[r] = "ConnectingToFriend" /\ cos'[r] = "ConnectingToFriend")
           \/ \E r \in Peer : cos'[r] = "Dead" /\ events' = [events EXCEPT ![r] = <<>>]
<1>1. CASE UNCHANGED vars
  BY <1>1 DEF vars
<1>2. ASSUME NEW p \in Peer, SyncInfo(p) \/ Accept(p) \/ WorkerLost(p) \/ Connect(p)
                               \/ KeepConnection(p) \/ ConnectAccept(p)
      PROVE  events' = events
  BY <1>2 DEF SyncInfo, OnlyServer, Connect, KeepConnection, ConnectAccept, Accept, WorkerLost
<1>3. ASSUME NEW p \in Peer, WorkerConnected(p) \/ WorkerTimedOut(p) \/ WorkerReceives(p)
                               \/ ServerLost(p) \/ ReportAccepted(p)
      PROVE  \E e : Queued(p, e)
  BY <1>3 DEF WorkerConnected, WorkerTimedOut, WorkerReceives, ServerLost, ReportAccepted
<1>4. ASSUME NEW i \in Client, HandleRequest(i) \/ LinkBreaks(i) PROVE events' = events
  BY <1>4 DEF HandleRequest, HandleHello, HandleHelp, HandleAccepting, Requested, OnlyServer,
     LinkBreaks
<1>5. ASSUME NEW p \in Peer, HandleEvent(p)
      PROVE  \/ /\ HandleEvent(p) /\ events[p] # <<>> /\ PopEvent(p)
                /\ ~(Head(events[p]).type = "Connected" /\ Head(events[p]).success
                     /\ cos[p] = "ConnectingToFriend" /\ cos'[p] = "ConnectingToFriend")
             \/ cos'[p] = "Dead" /\ events' = [events EXCEPT ![p] = <<>>]
  <2>1. HandleEvent(p)
    BY <1>5
  <2>2. CASE OnConnectionFailed(p) \/ OnServerConnected(p) \/ OnConnectedLate(p)
    BY <2>1, <2>2 DEF OnConnectionFailed, OnServerConnected, OnConnectedLate, NextEvent
  <2>3. CASE OnAccepted(p) \/ OnServerLost(p) \/ DropPacket(p)
    BY <2>1, <2>3 DEF OnAccepted, OnServerLost, DropPacket, NextEvent
  <2>4. CASE OnConnectedDies(p)
    BY <2>4 DEF OnConnectedDies, Dies, LinkTypes
  <2>5. CASE OnFriendConnected(p)
    BY <2>1, <2>5 DEF OnFriendConnected, NextEvent, LinkTypes
  <2>6. CASE \/ OnChallenge(p) \/ OnFriendOffline(p) \/ OnNatTraversal(p) \/ OnConnectTo(p)
             \/ OnListen(p)
    BY <2>1, <2>6 DEF OnChallenge, OnFriendOffline, OnNatTraversal, OnConnectTo, OnListen,
       HelpPacket, HelpReceived, NextPacket, NextEvent
  <2>7. CASE OnRandomSequence(p) \/ OnConfirm(p) \/ OnAuthorized(p)
    BY <2>1, <2>7 DEF OnRandomSequence, OnConfirm, OnAuthorized, FriendData, NextPacket, NextEvent
  <2> QED BY <1>5, <2>2, <2>3, <2>4, <2>5, <2>6, <2>7 DEF HandleEvent
<1>6. ASSUME NEW p \in Peer, ConnectDies(p)
      PROVE  cos'[p] = "Dead" /\ events' = [events EXCEPT ![p] = <<>>]
  BY <1>6 DEF ConnectDies, Dies, LinkTypes
<1>7. ASSUME NEW p \in Peer, HandleMain(p)
      PROVE  events' = events \/ (cos'[p] = "Dead" /\ events' = [events EXCEPT ![p] = <<>>])
  BY <1>2, <1>6, <1>7 DEF HandleMain
<1>8. ASSUME NEW p \in Peer, Worker(p) PROVE events' = events \/ \E e : Queued(p, e)
  BY <1>2, <1>3, <1>8 DEF Worker
<1> QED BY <1>1, <1>2, <1>3, <1>4, <1>5, <1>7, <1>8 DEF Next, EventThread, Connections, Server

\* As long as p is connecting to the friend, the news is not taken.
LEMMA NewsKept ==
    ASSUME LinkTypes, [Next]_vars, NEW p \in Peer, News(p),
           cos[p] = "ConnectingToFriend", cos'[p] = "ConnectingToFriend"
    PROVE  News(p)'
<1>1. CASE events' = events
  BY <1>1 DEF News
<1>2. ASSUME NEW r \in Peer, NEW e, Queued(r, e) PROVE News(p)'
  BY <1>2, NewsStays
<1>3. ASSUME NEW r \in Peer, events[r] # <<>>, PopEvent(r),
             ~(Head(events[r]).type = "Connected" /\ Head(events[r]).success
               /\ cos[r] = "ConnectingToFriend" /\ cos'[r] = "ConnectingToFriend")
      PROVE  News(p)'
  BY <1>3, NewsStays
<1>4. ASSUME NEW r \in Peer, cos'[r] = "Dead", events' = [events EXCEPT ![r] = <<>>]
      PROVE  News(p)'
  BY <1>4 DEF News
<1> QED BY <1>1, <1>2, <1>3, <1>4, EventSteps

\* A quiet step keeps what is known of clients.
LEMMA QuietKeepsClients ==
    ASSUME LinkTypes, Clients, Quiet, [Next]_vars
    PROVE  Clients'
<1>1. Traversing'
  BY LastingTargets, TraversingKept DEF Clients, Lasts, Quiet
<1>2. ASSUME NEW p \in Peer PROVE ClientsOf(p)'
  <2>1. CASE cos'[p] = cos[p]
    <3>1. cos'[p] = "ConnectingToFriend" /\ News(p) => News(p)'
      BY <2>1, NewsKept
    <3> QED BY <2>1, <3>1, Numbers, ClientsOfKept DEF Clients, Quiet
  <2>2. CASE cos'[p] # cos[p] /\ cos'[p] = "WaitingFriendConnection"
    <3>1. mine'[p] # 0 => client'[mine'[p]].udt = "Disconnected"
      BY <2>2 DEF Quiet
    <3>2. accepted'[p] # 0 => client'[accepted'[p]].taken /\ Other[client'[accepted'[p]].owner] = p
      BY Numbers DEF Quiet, Lasts, Clients, ClientsOf
    <3> QED BY <2>2, <3>1, <3>2 DEF ClientsOf
  <2>3. CASE cos'[p] # cos[p] /\ cos'[p] # "WaitingFriendConnection"
    <3>1. cos'[p] \notin {"WaitingFriendConnection", "AcceptedConnection",
                          "Connected", "ConnectingToFriend"}
      BY <2>3 DEF Quiet, LinkStatus
    <3> QED BY <3>1, Numbers, ClientsOfKept DEF Clients, Quiet
  <2> QED BY <2>1, <2>2, <2>3
<1> QED BY <1>1, <1>2 DEF Clients

\* A client of p becomes connected.
LEMMA ConnectingKeepsClients ==
    ASSUME LinkTypes, Control, Clients, NEW p \in Peer, WorkerConnected(p)
    PROVE  Clients' /\ \A j \in Client : /\ client'[j].owner = client[j].owner
                                         /\ client'[j].target = client[j].target
                                         /\ client'[j].broken = client[j].broken
                                         /\ client'[j].taken = client[j].taken
                                         /\ client'[j].udt = IF j = mine[p] THEN "Connected"
                                                             ELSE client[j].udt
<1>1. /\ client' = [client EXCEPT ![mine[p]].udt = "Connected"]
      /\ mine' = mine /\ cos' = cos /\ accepted' = accepted
      /\ Queued(p, [type |-> "Connected", success |-> TRUE])
  BY DEF WorkerConnected
<1>2. mine[p] \in Client /\ mine[p] # 0 /\ client[mine[p]].udt = "Connecting"
  BY Numbers DEF WorkerConnected
<1>3. \/ client[mine[p]].target = <<"Server">> \/ PeerClient(mine[p]) # 0
      \/ client[mine[p]].target[1] = "Port"
  BY DEF WorkerConnected, ListenerThere
<1>4. \A r \in ClientRecord :
        /\ [r EXCEPT !.udt = "Connected"].udt = "Connected"
        /\ [r EXCEPT !.udt = "Connected"].owner = r.owner
        /\ [r EXCEPT !.udt = "Connected"].target = r.target
        /\ [r EXCEPT !.udt = "Connected"].broken = r.broken
        /\ [r EXCEPT !.udt = "Connected"].taken = r.taken
  BY DEF ClientRecord
<1>5. \A j \in Client : /\ client'[j].owner = client[j].owner
                        /\ client'[j].target = client[j].target
                        /\ client'[j].broken = client[j].broken
                        /\ client'[j].taken = client[j].taken
                        /\ client'[j].udt = IF j = mine[p] THEN "Connected" ELSE client[j].udt
  BY <1>1, <1>2, <1>4 DEF LinkTypes
<1>6. Traversing'
  <2>1. SameTargets
    BY <1>5 DEF SameTargets
  <2>2. <<"Server">>[1] # "Client"
    OBVIOUS
  <2>3. \A i \in Client : client'[i].udt = "Connected" /\ client[i].target[1] = "Client" =>
                            client[i].udt = "Connected" \/ PeerClient(i) # 0
    BY <1>3, <1>5, <2>2
  <2> QED BY <2>1, <2>3, TraversingKept DEF Clients
<1>7. ASSUME NEW r \in Peer, r # p PROVE ClientsOf(r)'
  <2>1. mine[r] # 0 => mine[r] \in Client /\ mine[r] # mine[p]
    BY <1>2, <1>7, Numbers DEF Control
  <2>2. accepted[r] # 0 => accepted[r] \in Client
    BY Numbers
  <2>3. events'[r] = events[r]
    BY <1>1, <1>7 DEF Queued, LinkTypes
  <2>4. mine[r] # 0 => /\ client'[mine[r]].udt = client[mine[r]].udt
                       /\ client'[mine[r]].broken = client[mine[r]].broken
    BY <1>5, <2>1
  <2>5. accepted[r] # 0 => /\ client'[accepted[r]].owner = client[accepted[r]].owner
                           /\ client'[accepted[r]].taken = client[accepted[r]].taken
    BY <1>5, <2>2
  <2> QED BY <1>1, <2>3, <2>4, <2>5 DEF ClientsOf, Clients, News
<1>8. ClientsOf(p)'
  <2>1. News(p)'
    <3>1. events[p] \in Seq(Event) /\ Len(events[p]) \in Nat
      BY LenProperties DEF LinkTypes
    <3>2. events'[p] = Append(events[p], [type |-> "Connected", success |-> TRUE])
      BY <1>1 DEF Queued, LinkTypes
    <3>3. /\ Len(events'[p]) = Len(events[p]) + 1
          /\ events'[p][Len(events[p]) + 1] = [type |-> "Connected", success |-> TRUE]
      BY <3>1, <3>2, AppendedTo
    <3>4. Len(events[p]) + 1 \in 1..Len(events'[p])
      BY <3>1, <3>3
    <3> QED BY <3>3, <3>4 DEF News
  <2>2. accepted[p] # 0 => /\ client'[accepted[p]].owner = client[accepted[p]].owner
                           /\ client'[accepted[p]].taken = client[accepted[p]].taken
    BY <1>5, Numbers
  <2>3. client'[mine[p]].udt = "Connected"
    BY <1>2, <1>5
  <2>4. cos[p] \notin {"WaitingFriendConnection", "AcceptedConnection"}
    BY <1>2 DEF Clients, ClientsOf
  <2> QED BY <1>1, <2>1, <2>2, <2>3, <2>4 DEF ClientsOf, Clients
<1>9. \A r \in Peer : ClientsOf(r)'
  BY <1>7, <1>8
<1> QED BY <1>5, <1>6, <1>9 DEF Clients

\* What making a client does.
LEMMA NewClients ==
    ASSUME LinkTypes, Control, NEW p \in Peer, Connect(p) \/ ConnectAccept(p)
    PROVE  /\ made' \in Client /\ mine'[p] = made' /\ cos'[p] = "ConnectingToServer"
           /\ client'[made'].udt = "Connecting" /\ client'[made'].target = <<"Server">>
           /\ client[made'].target = <<"None">>
           /\ \A j \in Client : j # made' => Lasts(j)
           /\ \A r \in Peer : /\ mine[r] # made' /\ accepted[r] # made'
                              /\ r # p => mine'[r] = mine[r] /\ cos'[r] = cos[r]
                                          /\ status'[r] = status[r]
           /\ UNCHANGED <<up, down, accepted, unreported, events, authVars>>
<1>1. NewClient(p)
  BY DEF Connect, ConnectAccept
<1>2. made \in Nat /\ made' \in Client /\ made' = made + 1 /\ made' # 0
  <2>1. made \in 0..MaxClients /\ MaxClients \in Nat
    BY LinkAssumption DEF LinkTypes
  <2>2. made < MaxClients /\ made' = made + 1
    BY <1>1 DEF NewClient
  <2> QED BY <2>1, <2>2 DEF Client
<1>3. client' = [i \in Client |->
         IF i = made' THEN [owner |-> p, udt |-> "Connecting", target |-> <<"Server">>,
                            broken |-> FALSE, taken |-> FALSE]
         ELSE IF i = mine[p] THEN [client[i] EXCEPT !.udt = "Disconnected"]
         ELSE client[i]]
  BY <1>1 DEF NewClient
<1>4. client'[made'].udt = "Connecting" /\ client'[made'].target = <<"Server">>
  BY <1>2, <1>3
<1>5. \A r \in ClientRecord :
        /\ [r EXCEPT !.udt = "Disconnected"].udt = "Disconnected"
        /\ [r EXCEPT !.udt = "Disconnected"].owner = r.owner
        /\ [r EXCEPT !.udt = "Disconnected"].target = r.target
        /\ [r EXCEPT !.udt = "Disconnected"].broken = r.broken
        /\ [r EXCEPT !.udt = "Disconnected"].taken = r.taken
  BY DEF ClientRecord
<1>6. \A j \in Client : j # made' =>
         client'[j] = client[j] \/ client'[j] = [client[j] EXCEPT !.udt = "Disconnected"]
  BY <1>3
<1>7. ASSUME NEW j \in Client, j # made' PROVE Lasts(j)
  <2>1. client[j] \in ClientRecord
    BY DEF LinkTypes
  <2>2. CASE client'[j] = client[j]
    BY <2>2 DEF Lasts
  <2>3. CASE client'[j] = [client[j] EXCEPT !.udt = "Disconnected"]
    BY <1>5, <2>1, <2>3 DEF Lasts
  <2> QED BY <1>6, <1>7, <2>2, <2>3
<1>8. client[made'].target = <<"None">>
  <2>1. made' > made
    BY <1>2
  <2> QED BY <1>2, <2>1 DEF Control
<1>9. \A r \in Peer : mine[r] # made' /\ accepted[r] # made'
  <2>1. \A r \in Peer : mine[r] \in 0..MaxClients /\ accepted[r] \in 0..MaxClients
                        /\ mine[r] <= made /\ accepted[r] <= made
    BY DEF LinkTypes, Control
  <2>2. \A n \in 0..MaxClients : n <= made => n # made'
    BY <1>2, LinkAssumption
  <2> QED BY <2>1, <2>2
<1>10. /\ mine'[p] = made' /\ cos'[p] = "ConnectingToServer"
       /\ \A r \in Peer : r # p => mine'[r] = mine[r] /\ cos'[r] = cos[r]
                                   /\ status'[r] = status[r]
  BY <1>1 DEF NewClient, LinkTypes
<1>11. UNCHANGED <<up, down, accepted, unreported, events, authVars>>
  BY DEF Connect, ConnectAccept
<1> QED BY <1>2, <1>4, <1>7, <1>8, <1>9, <1>10, <1>11

\* A client that nobody talks to takes up another target.
LEMMA TraversingElsewhere ==
    ASSUME LinkTypes, Traversing, NEW n \in Client, client[n].target[1] # "Client",
           \A j \in Client : j # n => Lasts(j), client'[n].udt # "Connected"
    PROVE  Traversing'
<1> SUFFICES ASSUME NEW i \in Client, client'[i].udt = "Connected", client'[i].target[1] = "Client"
             PROVE  (PeerClient(i) # 0)'
  BY DEF Traversing
<1>1. i # n /\ client'[i].target = client[i].target /\ client[i].udt = "Connected"
  BY DEF Lasts
<1>2. PeerClient(i) # 0
  BY <1>1 DEF Traversing
<1>3. /\ PeerClient(i) = client[i].target[2] /\ client[i].target[2] \in Client
      /\ client[client[i].target[2]].target = <<"Client", i>>
  <2>1. client[i].target \in Target
    BY DEF LinkTypes, ClientRecord
  <2> QED BY <1>1, <1>2, <2>1, Targets DEF PeerClient
<1>4. client[i].target[2] # n
  BY <1>3
<1>5. client'[client[i].target[2]].target = <<"Client", i>>
  BY <1>3, <1>4 DEF Lasts
<1>6. PeerClient(i)' = client[i].target[2]
  BY <1>1, <1>5 DEF PeerClient
<1> QED BY <1>2, <1>3, <1>6

LEMMA NewKeepsClients ==
    ASSUME LinkTypes, Control, Clients, NEW p \in Peer, Connect(p) \/ ConnectAccept(p)
    PROVE  Clients'
<1>1. Traversing'
  <2>1. <<"None">>[1] # "Client"
    OBVIOUS
  <2> QED BY <2>1, NewClients, TraversingElsewhere DEF Clients
<1>2. ASSUME NEW r \in Peer, r # p PROVE ClientsOf(r)'
  <2>1. /\ mine'[r] = mine[r] /\ cos'[r] = cos[r] /\ accepted'[r] = accepted[r]
        /\ events' = events /\ mine[r] # made' /\ accepted[r] # made'
        /\ \A j \in Client : j # made' => Lasts(j)
    BY <1>2, NewClients
  <2>2. News(r) => News(r)'
    BY <2>1 DEF News
  <2> QED BY <2>1, <2>2, Numbers, ClientsOfKept DEF Clients
<1>3. ClientsOf(p)'
  <2>1. accepted'[p] = accepted[p] /\ cos'[p] = "ConnectingToServer"
    BY NewClients
  <2>2. accepted[p] # 0 => Lasts(accepted[p])
    BY NewClients, Numbers
  <2> QED BY <2>1, <2>2 DEF ClientsOf, Clients, Lasts
<1> QED BY <1>1, <1>2, <1>3 DEF Clients

\* What connecting to the friend does.
LEMMA Reconnecting ==
    ASSUME LinkTypes, Control, NEW p \in Peer, OnNatTraversal(p) \/ OnConnectTo(p)
    PROVE  /\ mine[p] \in Client /\ mine[p] # 0 /\ client[mine[p]].target = <<"Server">>
           /\ cos[p] = "WaitingFriendAddress"
           /\ UNCHANGED <<mine, accepted, unreported, status, authVars>>
           /\ \/ UNCHANGED <<client, up, down, cos>>
              \/ /\ UNCHANGED <<client, up, down>> /\ client[mine[p]].broken
                 /\ cos' = [cos EXCEPT ![p] = "ConnectingToFriend"]
              \/ /\ \A j \in Client : j # mine[p] => client'[j] = client[j]
                 /\ client'[mine[p]].udt = "Connecting"
                 /\ client'[mine[p]].taken = client[mine[p]].taken
                 /\ client'[mine[p]].owner = client[mine[p]].owner
                 /\ \A j \in Client : j # mine[p] => up'[j] = up[j] /\ down'[j] = down[j]
                 /\ cos' = [cos EXCEPT ![p] = "ConnectingToFriend"]
<1>1. /\ cos[p] = "WaitingFriendAddress"
      /\ UNCHANGED <<mine, accepted, unreported, status, authVars>>
  BY DEF OnNatTraversal, OnConnectTo, HelpPacket, HelpReceived
<1>2. mine[p] \in Client /\ mine[p] # 0 /\ client[mine[p]].target = <<"Server">>
  BY <1>1, Numbers DEF Control
<1>3. \/ UNCHANGED <<client, up, down, cos>>
      \/ /\ UNCHANGED <<client, up, down>> /\ client[mine[p]].broken
         /\ cos' = [cos EXCEPT ![p] = "ConnectingToFriend"]
      \/ \E target : Reconnect(p, target)
  BY DEF OnNatTraversal, OnConnectTo
<1>4. ASSUME NEW target, Reconnect(p, target)
      PROVE  /\ \A j \in Client : j # mine[p] => client'[j] = client[j]
             /\ client'[mine[p]].udt = "Connecting"
             /\ client'[mine[p]].taken = client[mine[p]].taken
             /\ client'[mine[p]].owner = client[mine[p]].owner
             /\ \A j \in Client : j # mine[p] => up'[j] = up[j] /\ down'[j] = down[j]
             /\ cos' = [cos EXCEPT ![p] = "ConnectingToFriend"]
  <2>1. /\ client' = [client EXCEPT ![mine[p]] =
                        [client[mine[p]] EXCEPT !.udt = "Connecting", !.target = target,
                                                !.broken = FALSE]]
        /\ up' = [up EXCEPT ![mine[p]] = <<>>] /\ down' = [down EXCEPT ![mine[p]] = <<>>]
        /\ cos' = [cos EXCEPT ![p] = "ConnectingToFriend"]
    BY <1>4 DEF Reconnect
  <2>2. \A r \in ClientRecord :
          LET n == [r EXCEPT !.udt = "Connecting", !.target = target, !.broken = FALSE] IN
          n.udt = "Connecting" /\ n.taken = r.taken /\ n.owner = r.owner
    BY DEF ClientRecord
  <2>3. client[mine[p]] \in ClientRecord /\ client \in [Client -> ClientRecord]
    BY <1>2 DEF LinkTypes
  <2>4. \A j \in Client : j # mine[p] => client'[j] = client[j]
    BY <2>1, <2>3
  <2>5. client'[mine[p]] = [client[mine[p]] EXCEPT !.udt = "Connecting", !.target = target,
                                                  !.broken = FALSE]
    BY <1>2, <2>1, <2>3
  <2>6. \A j \in Client : j # mine[p] => up'[j] = up[j] /\ down'[j] = down[j]
    BY <2>1 DEF LinkTypes
  <2> QED BY <2>1, <2>2, <2>3, <2>4, <2>5, <2>6
<1> QED BY <1>1, <1>2, <1>3, <1>4

LEMMA ReconnectKeepsClients ==
    ASSUME LinkTypes, Control, Clients, NEW p \in Peer, OnNatTraversal(p) \/ OnConnectTo(p),
           [Next]_vars
    PROVE  Clients'
<1>1. /\ mine[p] \in Client /\ mine[p] # 0 /\ client[mine[p]].target = <<"Server">>
      /\ mine' = mine /\ accepted' = accepted
  BY Reconnecting
<1>2. CASE UNCHANGED <<client, cos>>
  <2>1. \A j \in Client : Lasts(j)
    BY <1>2 DEF Lasts
  <2>2. Quiet
    BY <1>1, <1>2, <2>1 DEF Quiet
  <2> QED BY <2>2, QuietKeepsClients
<1>3. ASSUME NEW r \in Peer, r # p, \A j \in Client : j # mine[p] => client'[j] = client[j],
             client'[mine[p]].taken = client[mine[p]].taken,
             client'[mine[p]].owner = client[mine[p]].owner, cos'[r] = cos[r]
      PROVE  ClientsOf(r)'
  <2>1. mine[r] # 0 => client'[mine[r]] = client[mine[r]]
    BY <1>3, Numbers DEF Control
  <2>2. accepted[r] # 0 => /\ client'[accepted[r]].taken = client[accepted[r]].taken
                           /\ client'[accepted[r]].owner = client[accepted[r]].owner
    BY <1>3, Numbers
  <2>3. cos'[r] = "ConnectingToFriend" /\ News(r) => News(r)'
    BY <1>3, NewsKept
  <2> QED BY <1>1, <1>3, <2>1, <2>2, <2>3 DEF ClientsOf, Clients
<1>4. CASE /\ client' = client /\ client[mine[p]].broken
           /\ cos' = [cos EXCEPT ![p] = "ConnectingToFriend"]
  <2>1. Traversing'
    BY <1>4 DEF Clients, Traversing, PeerClient
  <2>2. \A r \in Peer : r # p => ClientsOf(r)'
    BY <1>3, <1>4 DEF LinkTypes
  <2>3. ClientsOf(p)'
    BY <1>1, <1>4 DEF ClientsOf, Clients, LinkTypes
  <2> QED BY <2>1, <2>2, <2>3 DEF Clients
<1>5. CASE /\ \A j \in Client : j # mine[p] => client'[j] = client[j]
           /\ client'[mine[p]].udt = "Connecting"
           /\ client'[mine[p]].taken = client[mine[p]].taken
           /\ client'[mine[p]].owner = client[mine[p]].owner
           /\ cos' = [cos EXCEPT ![p] = "ConnectingToFriend"]
  <2>1. Traversing'
    <3>1. <<"Server">>[1] # "Client"
      OBVIOUS
    <3>2. \A j \in Client : j # mine[p] => Lasts(j)
      BY <1>5 DEF Lasts
    <3> QED BY <1>1, <1>5, <3>1, <3>2, TraversingElsewhere DEF Clients
  <2>2. \A r \in Peer : r # p => ClientsOf(r)'
    BY <1>3, <1>5 DEF LinkTypes
  <2>3. ClientsOf(p)'
    <3>1. accepted[p] # 0 => /\ client'[accepted[p]].taken = client[accepted[p]].taken
                             /\ client'[accepted[p]].owner = client[accepted[p]].owner
      BY <1>5, Numbers
    <3>2. cos'[p] = "ConnectingToFriend"
      BY <1>5 DEF LinkTypes
    <3> QED BY <1>1, <1>5, <3>1, <3>2 DEF ClientsOf, Clients
  <2> QED BY <2>1, <2>2, <2>3 DEF Clients
<1> QED BY <1>2, <1>4, <1>5, Reconnecting

\* The friend is waited for.
Welcomes(p) == cos[p] = "WaitingFriendConnection" /\ p \notin stuck

\* The server of p accepts a client of the friend, or closes the connection.
LEMMA AcceptKeepsClients ==
    ASSUME LinkTypes, Control, Clients, NEW p \in Peer, Accept(p), [Next]_vars
    PROVE  Clients' /\ \A j \in Client : Lasts(j)
<1>1. UNCHANGED <<mine, events>>
  BY DEF Accept
<1>2. CASE Welcomes(p)
  <2>1. PICK i \in Client :
          /\ Other[client[i].owner] = p
          /\ accepted' = [accepted EXCEPT ![p] = i]
          /\ cos' = [cos EXCEPT ![p] = "AcceptedConnection"]
          /\ client' = [client EXCEPT ![i].taken = TRUE]
    BY <1>2 DEF Accept, Welcomes
  <2>2. \A j \in Client : Lasts(j)
    BY <2>1, LastsFrom
  <2>3. client'[i].taken
    <3>1. \A r \in ClientRecord : [r EXCEPT !.taken = TRUE].taken
      BY DEF ClientRecord
    <3> QED BY <2>1, <3>1 DEF LinkTypes
  <2>4. Traversing'
    BY <2>2, LastingTargets, TraversingKept DEF Clients, Lasts
  <2>5. ASSUME NEW r \in Peer, r # p PROVE ClientsOf(r)'
    <3>1. mine'[r] = mine[r] /\ cos'[r] = cos[r] /\ accepted'[r] = accepted[r]
      BY <1>1, <2>1, <2>5 DEF LinkTypes
    <3>2. News(r) => News(r)'
      BY <1>1 DEF News
    <3> QED BY <2>2, <3>1, <3>2, Numbers, ClientsOfKept DEF Clients
  <2>6. ClientsOf(p)'
    <3>1. cos'[p] = "AcceptedConnection" /\ accepted'[p] = i
      BY <2>1 DEF LinkTypes
    <3>2. mine[p] # 0 => client'[mine[p]].udt = "Disconnected"
      BY <1>2, <2>2, Numbers DEF Clients, ClientsOf, Lasts, Welcomes
    <3>3. Other[client'[i].owner] = p
      BY <2>1, <2>2 DEF Lasts
    <3> QED BY <1>1, <2>3, <3>1, <3>2, <3>3 DEF ClientsOf
  <2> QED BY <2>2, <2>4, <2>5, <2>6 DEF Clients
<1>3. CASE ~Welcomes(p)
  <2>1. PICK i \in Client :
          client' = [client EXCEPT ![i].broken = TRUE] /\ accepted' = accepted /\ cos' = cos
    BY <1>3 DEF Accept, Welcomes
  <2>2. \A j \in Client : Lasts(j)
    BY <2>1, LastsFrom
  <2>3. Quiet
    BY <1>1, <2>1, <2>2 DEF Quiet
  <2> QED BY <2>2, <2>3, QuietKeepsClients
<1> QED BY <1>2, <1>3

\* The friend is connected.
LEMMA FriendKeepsClients ==
    ASSUME LinkTypes, Control, Clients, NEW p \in Peer, OnFriendConnected(p), [Next]_vars
    PROVE  Clients' /\ client[mine[p]].udt = "Connected"
<1>1. UNCHANGED <<client, mine, accepted>> /\ cos' = [cos EXCEPT ![p] = "Connected"]
  BY DEF OnFriendConnected
<1>2. client[mine[p]].udt = "Connected"
  BY DEF OnFriendConnected, CanSend
<1>3. Traversing'
  BY <1>1 DEF Clients, Traversing, PeerClient
<1>4. ClientsOf(p)'
  BY <1>1, <1>2 DEF Clients, ClientsOf, LinkTypes
<1>5. ASSUME NEW r \in Peer, r # p PROVE ClientsOf(r)'
  <2>1. cos'[r] = cos[r]
    BY <1>1, <1>5 DEF LinkTypes
  <2>2. cos'[r] = "ConnectingToFriend" /\ News(r) => News(r)'
    BY <2>1, NewsKept
  <2> QED BY <1>1, <2>1, <2>2 DEF Clients, ClientsOf
<1> QED BY <1>2, <1>3, <1>4, <1>5 DEF Clients

\* Every step keeps what is known of clients.
LEMMA ClientsStep ==
    ASSUME LinkTypes, Control, Clients, [Next]_vars
    PROVE  Clients'
BY QuietSteps, QuietKeepsClients, ConnectingKeepsClients, NewKeepsClients, ReconnectKeepsClients,
   AcceptKeepsClients, FriendKeepsClients DEF Makes

\* At first there are no clients.
LEMMA ClientsInit == Init => Clients
<1> SUFFICES ASSUME Init PROVE Clients
  OBVIOUS
<1>1. \A i \in Client : client[i].udt = "Disconnected"
  BY DEF Init
<1>2. \A p \in Peer : mine[p] = 0 /\ accepted[p] = 0
  BY DEF Init
<1> QED BY <1>1, <1>2 DEF Clients, ClientsOf, Traversing

-----------------------------------------------------------------------------
(* What comes to a friend: s has length l, the first k of it are queued *)

\* s[n] is the last random sequence in s, and it is r.
LastRandom(s, l, n, r) ==
    /\ s[n].type = "RandomSequence" /\ s[n].random = r
    /\ \A m \in 1..l : m > n => s[m].type # "RandomSequence"

NoRandom(s, l) == \A n \in 1..l : s[n].type # "RandomSequence"

\* The last random sequence is r; one who is still connecting has first to learn that it is
\* connected.
Asked(s, l, k, r, connecting) ==
    \E n \in 1..l :
        /\ LastRandom(s, l, n, r)
        /\ connecting /\ n <= k => \E m \in 1..l : m < n /\ s[m].type = "Connected" /\ s[m].success

\* The last confirmation of r has the key.
Confirms(e, r) == e.type = "Confirm" /\ e.random = r
NoConfirm(s, l, r) == \A n \in 1..l : ~Confirms(s[n], r)
Confirmed(s, l, r, key) ==
    \E n \in 1..l :
        /\ Confirms(s[n], r) /\ s[n].key = key
        /\ \A m \in 1..l : m > n => ~Confirms(s[m], r)

\* An authorization with the key is to come, and no news of an acceptance behind it; when
\* that is not even queued, the authorization is not either.
Told(s, l, k, key, unrep) ==
    \E n \in 1..l :
        /\ s[n].type = "Authorized" /\ s[n].key = key /\ (unrep => n > k)
        /\ \A m \in 1..l : m > n => s[m].type # "Accepted"

\* The first is taken; e is put behind the j-th; one more is queued.
Takes(s, l, k, t, m, h) ==
    /\ l # 0 /\ k # 0 /\ m = l - 1 /\ h = k - 1
    /\ \A n \in 1..m : t[n] = s[n + 1]
Puts(s, l, t, m, j, e) ==
    /\ m = l + 1 /\ t[j + 1] = e
    /\ \A n \in 1..l : IF n <= j THEN t[n] = s[n] ELSE t[n + 1] = s[n]
Reads(s, l, k, t, m, h) == m = l /\ h = k + 1 /\ h <= l /\ \A n \in 1..l : t[n] = s[n]
\* Where something is put: behind what is queued, or at the end.
PutAt(l, k, h, j) == (j = k /\ h = k + 1) \/ (j = l /\ h = k)

\* Taking the first: what is not that stays, one place nearer.
LEMMA TakesRandom ==
    ASSUME NEW s, NEW l \in Nat, NEW k \in Nat, NEW t, NEW m, NEW h, Takes(s, l, k, t, m, h),
           NEW r
    PROVE  /\ NoRandom(s, l) => NoRandom(t, m)
           /\ \A c, d \in BOOLEAN :
                Asked(s, l, k, r, c) /\ ~LastRandom(s, l, 1, r)
                  /\ (d => c /\ ~(s[1].type = "Connected" /\ s[1].success))
                  => Asked(t, m, h, r, d)
<1>1. m \in Nat /\ h \in Nat /\ l = m + 1 /\ k = h + 1 /\ \A n \in 1..m : n + 1 \in 1..l
  BY DEF Takes
<1>2. NoRandom(s, l) => NoRandom(t, m)
  BY <1>1 DEF Takes, NoRandom
<1>3. ASSUME NEW c \in BOOLEAN, NEW d \in BOOLEAN, Asked(s, l, k, r, c), ~LastRandom(s, l, 1, r),
             d => c /\ ~(s[1].type = "Connected" /\ s[1].success)
      PROVE  Asked(t, m, h, r, d)
  <2>1. PICK n \in 1..l :
          /\ LastRandom(s, l, n, r)
          /\ c /\ n <= k => \E i \in 1..l : i < n /\ s[i].type = "Connected" /\ s[i].success
    BY <1>3 DEF Asked
  <2>2. n # 1 /\ n - 1 \in 1..m /\ (n - 1) + 1 = n
    BY <1>1, <1>3, <2>1
  <2>3. LastRandom(t, m, n - 1, r)
    <3>1. t[n - 1] = s[n]
      BY <2>2 DEF Takes
    <3>2. \A i \in 1..m : i > n - 1 => t[i].type # "RandomSequence"
      BY <1>1, <2>1, <2>2 DEF Takes, LastRandom
    <3> QED BY <2>1, <3>1, <3>2 DEF LastRandom
  <2>4. ASSUME d, n - 1 <= h
        PROVE  \E i \in 1..m : i < n - 1 /\ t[i].type = "Connected" /\ t[i].success
    <3>1. c /\ n <= k
      BY <1>1, <1>3, <2>2, <2>4
    <3>2. PICK i \in 1..l : i < n /\ s[i].type = "Connected" /\ s[i].success
      BY <2>1, <3>1
    <3>3. i # 1
      BY <1>3, <2>4, <3>2
    <3>4. i - 1 \in 1..m /\ i - 1 < n - 1 /\ (i - 1) + 1 = i
      BY <1>1, <2>2, <3>2, <3>3
    <3>5. t[i - 1] = s[i]
      BY <3>4 DEF Takes
    <3> QED BY <3>2, <3>4, <3>5
  <2> QED BY <2>2, <2>3, <2>4 DEF Asked
<1> QED BY <1>2, <1>3

LEMMA TakesConfirm ==
    ASSUME NEW s, NEW l \in Nat, NEW k \in Nat, NEW t, NEW m, NEW h, Takes(s, l, k, t, m, h),
           NEW r, NEW key
    PROVE  /\ NoConfirm(s, l, r) => NoConfirm(t, m, r)
           /\ Confirmed(s, l, r, key) =>
                \/ Confirmed(t, m, r, key)
                \/ Confirms(s[1], r) /\ s[1].key = key /\ NoConfirm(t, m, r)
<1>1. m \in Nat /\ h \in Nat /\ l = m + 1 /\ k = h + 1 /\ \A n \in 1..m : n + 1 \in 1..l
  BY DEF Takes
<1>2. NoConfirm(s, l, r) => NoConfirm(t, m, r)
  BY <1>1 DEF Takes, NoConfirm
<1>3. ASSUME Confirmed(s, l, r, key)
      PROVE  \/ Confirmed(t, m, r, key)
             \/ Confirms(s[1], r) /\ s[1].key = key /\ NoConfirm(t, m, r)
  <2>1. PICK n \in 1..l : /\ Confirms(s[n], r) /\ s[n].key = key
                          /\ \A i \in 1..l : i > n => ~Confirms(s[i], r)
    BY <1>3 DEF Confirmed
  <2>2. CASE n = 1
    <3>1. \A i \in 1..m : ~Confirms(t[i], r)
      BY <1>1, <2>1, <2>2 DEF Takes
    <3> QED BY <2>1, <2>2, <3>1 DEF NoConfirm
  <2>3. CASE n # 1
    <3>1. n - 1 \in 1..m /\ (n - 1) + 1 = n
      BY <1>1, <2>3
    <3>2. t[n - 1] = s[n]
      BY <3>1 DEF Takes
    <3>3. \A i \in 1..m : i > n - 1 => ~Confirms(t[i], r)
      BY <1>1, <2>1, <3>1 DEF Takes
    <3> QED BY <2>1, <3>1, <3>2, <3>3 DEF Confirmed
  <2> QED BY <2>2, <2>3
<1> QED BY <1>2, <1>3

LEMMA TakesTold ==
    ASSUME NEW s, NEW l \in Nat, NEW k \in Nat, NEW t, NEW m, NEW h, Takes(s, l, k, t, m, h),
           NEW key, NEW u \in BOOLEAN, Told(s, l, k, key, u)
    PROVE  \/ Told(t, m, h, key, u)
           \/ /\ s[1].type = "Authorized" /\ s[1].key = key /\ ~u
              /\ \A n \in 1..l : s[n].type # "Accepted"
<1>1. m \in Nat /\ h \in Nat /\ l = m + 1 /\ k = h + 1 /\ \A n \in 1..m : n + 1 \in 1..l
  BY DEF Takes
<1>2. PICK n \in 1..l : /\ s[n].type = "Authorized" /\ s[n].key = key /\ (u => n > k)
                        /\ \A i \in 1..l : i > n => s[i].type # "Accepted"
  BY DEF Told
<1>3. CASE n = 1
  <2>1. ~u
    BY <1>1, <1>2, <1>3
  <2>2. \A i \in 1..l : i = 1 \/ i > 1
    OBVIOUS
  <2> QED BY <1>2, <1>3, <2>1, <2>2
<1>4. CASE n # 1
  <2>1. n - 1 \in 1..m /\ (n - 1) + 1 = n
    BY <1>1, <1>4
  <2>2. t[n - 1] = s[n]
    BY <2>1 DEF Takes
  <2>3. \A i \in 1..m : i > n - 1 => t[i].type # "Accepted"
    BY <1>1, <1>2, <2>1 DEF Takes
  <2>4. u => n - 1 > h
    BY <1>1, <1>2
  <2> QED BY <1>2, <2>1, <2>2, <2>3, <2>4 DEF Told
<1> QED BY <1>3, <1>4

\* Where the n-th is after something was put behind the j-th.
Place(n, j) == IF n <= j THEN n ELSE n + 1

Placed(s, l, t, m, j, e) ==
    /\ m \in Nat /\ j + 1 \in 1..m /\ t[j + 1] = e
    /\ \A n \in 1..l : Place(n, j) \in 1..m /\ t[Place(n, j)] = s[n]
    /\ \A i \in 1..m : i = j + 1 \/ \E n \in 1..l : i = Place(n, j)
    /\ \A n, i \in 1..l : (Place(i, j) > Place(n, j)) = (i > n)

\* The places at which what is in s is found once something is put behind the j-th.
LEMMA Places ==
    ASSUME NEW s, NEW l \in Nat, NEW t, NEW m, NEW j \in Nat, NEW e, Puts(s, l, t, m, j, e), j <= l
    PROVE  Placed(s, l, t, m, j, e)
<1>1. m \in Nat /\ j + 1 \in 1..m /\ t[j + 1] = e
  BY DEF Puts
<1>2. ASSUME NEW n \in 1..l
      PROVE  Place(n, j) \in 1..m /\ t[Place(n, j)] = s[n]
  BY DEF Puts, Place
<1>3. ASSUME NEW i \in 1..m, i # j + 1
      PROVE  \E n \in 1..l : i = Place(n, j)
  <2>1. CASE i <= j
    BY <2>1 DEF Place
  <2>2. CASE i > j
    <3>1. i - 1 \in 1..l /\ ~(i - 1 <= j) /\ (i - 1) + 1 = i
      BY <1>3, <2>2 DEF Puts
    <3> QED BY <3>1 DEF Place
  <2> QED BY <2>1, <2>2
<1>4. \A n, i \in 1..l : (Place(i, j) > Place(n, j)) = (i > n)
  BY DEF Place
<1> QED BY <1>1, <1>2, <1>3, <1>4 DEF Placed

\* Putting something there: no random sequence becomes one, unless it is put.
LEMMA PutsNoRandom ==
    ASSUME NEW s, NEW l \in Nat, NEW k \in Nat, NEW t, NEW m, NEW h, NEW j \in Nat, NEW e,
           Puts(s, l, t, m, j, e), PutAt(l, k, h, j), k <= l,
           e.type # "RandomSequence", NoRandom(s, l)
    PROVE  NoRandom(t, m)
<1>0. j <= l /\ h \in Nat
  BY DEF PutAt
<1>1. Placed(s, l, t, m, j, e)
  BY <1>0, Places
<1> QED BY <1>1 DEF NoRandom, Placed

\* A question stays the last one, unless another random sequence is put.
LEMMA PutsAsked ==
    ASSUME NEW s, NEW l \in Nat, NEW k \in Nat, NEW t, NEW m, NEW h, NEW j \in Nat, NEW e,
           Puts(s, l, t, m, j, e), PutAt(l, k, h, j), k <= l, NEW r, NEW c \in BOOLEAN,
           e.type # "RandomSequence", Asked(s, l, k, r, c)
    PROVE  Asked(t, m, h, r, c)
<1>0. j <= l /\ h \in Nat
  BY DEF PutAt
<1>1. Placed(s, l, t, m, j, e)
  BY <1>0, Places
<1>2. PICK n \in 1..l :
        /\ LastRandom(s, l, n, r)
        /\ c /\ n <= k => \E i \in 1..l : i < n /\ s[i].type = "Connected" /\ s[i].success
  BY DEF Asked
<1>3. Place(n, j) \in 1..m /\ t[Place(n, j)] = s[n]
  BY <1>1 DEF Placed
<1>4. LastRandom(t, m, Place(n, j), r)
  <2>1. \A i \in 1..m : i > Place(n, j) => t[i].type # "RandomSequence"
    BY <1>1, <1>2 DEF LastRandom, Placed
  <2> QED BY <1>2, <1>3, <2>1 DEF LastRandom
<1>5. ASSUME c, Place(n, j) <= h
      PROVE  \E i \in 1..m : i < Place(n, j) /\ t[i].type = "Connected" /\ t[i].success
  <2>1. n <= k
    BY <1>5 DEF Place, PutAt
  <2>2. PICK i \in 1..l : i < n /\ s[i].type = "Connected" /\ s[i].success
    BY <1>2, <1>5, <2>1
  <2>3. Place(i, j) < Place(n, j)
    BY <2>2 DEF Place
  <2>4. Place(i, j) \in 1..m /\ t[Place(i, j)] = s[i]
    BY <1>1 DEF Placed
  <2> QED BY <2>2, <2>3, <2>4
<1> QED BY <1>3, <1>4, <1>5 DEF Asked

\* A random sequence put at the end is the last question.
LEMMA PutsQuestion ==
    ASSUME NEW s, NEW l \in Nat, NEW k \in Nat, NEW t, NEW m, NEW e, Puts(s, l, t, m, l, e),
           k <= l, NEW r, NEW c \in BOOLEAN, e.type = "RandomSequence", e.random = r
    PROVE  Asked(t, m, k, r, c)
<1>1. m = l + 1 /\ l + 1 \in 1..m /\ t[l + 1] = e /\ ~(l + 1 <= k)
  BY DEF Puts
<1>2. LastRandom(t, m, l + 1, r)
  BY <1>1 DEF LastRandom
<1> QED BY <1>1, <1>2 DEF Asked

\* A confirmation stays the last one of r, unless another one of r is put.
LEMMA PutsConfirm ==
    ASSUME NEW s, NEW l \in Nat, NEW k \in Nat, NEW t, NEW m, NEW h, NEW j \in Nat, NEW e,
           Puts(s, l, t, m, j, e), PutAt(l, k, h, j), k <= l, NEW r, NEW key
    PROVE  /\ ~Confirms(e, r) => /\ NoConfirm(s, l, r) => NoConfirm(t, m, r)
                                 /\ Confirmed(s, l, r, key) => Confirmed(t, m, r, key)
           /\ Confirms(e, r) /\ e.key = key /\ j = l => Confirmed(t, m, r, key)
<1>0. j <= l
  BY DEF PutAt
<1>p. Placed(s, l, t, m, j, e)
  BY <1>0, Places
<1>1. /\ m \in Nat /\ j + 1 \in 1..m /\ t[j + 1] = e
      /\ \A n \in 1..l : Place(n, j) \in 1..m /\ t[Place(n, j)] = s[n]
      /\ \A i \in 1..m : i = j + 1 \/ \E n \in 1..l : i = Place(n, j)
      /\ \A n, i \in 1..l : (Place(i, j) > Place(n, j)) = (i > n)
  BY <1>p DEF Placed
<1>2. ASSUME ~Confirms(e, r), NoConfirm(s, l, r)
      PROVE  NoConfirm(t, m, r)
  BY <1>1, <1>2 DEF NoConfirm
<1>3. ASSUME ~Confirms(e, r), Confirmed(s, l, r, key)
      PROVE  Confirmed(t, m, r, key)
  <2>1. PICK n \in 1..l : /\ Confirms(s[n], r) /\ s[n].key = key
                          /\ \A i \in 1..l : i > n => ~Confirms(s[i], r)
    BY <1>3 DEF Confirmed
  <2>2. \A i \in 1..m : i > Place(n, j) => ~Confirms(t[i], r)
    BY <1>1, <1>3, <2>1
  <2> QED BY <1>1, <2>1, <2>2 DEF Confirmed
<1>4. ASSUME Confirms(e, r), e.key = key, j = l
      PROVE  Confirmed(t, m, r, key)
  <2>1. m = j + 1
    BY <1>4 DEF Puts
  <2> QED BY <1>1, <1>4, <2>1 DEF Confirmed
<1> QED BY <1>2, <1>3, <1>4

\* What is told stays told, unless news of an acceptance is put behind it.
LEMMA PutsTold ==
    ASSUME NEW s, NEW l \in Nat, NEW k \in Nat, NEW t, NEW m, NEW h, NEW j \in Nat, NEW e,
           Puts(s, l, t, m, j, e), PutAt(l, k, h, j), k <= l, NEW key,
           NEW u \in BOOLEAN, NEW v \in BOOLEAN
    PROVE  /\ Told(s, l, k, key, u) /\ (v => u) /\ (e.type = "Accepted" => u /\ j = k)
                => Told(t, m, h, key, v)
           /\ e.type = "Authorized" /\ e.key = key /\ j = l /\ h = k => Told(t, m, h, key, v)
<1>0. j <= l /\ h \in Nat
  BY DEF PutAt
<1>p. Placed(s, l, t, m, j, e)
  BY <1>0, Places
<1>1. /\ m \in Nat /\ j + 1 \in 1..m /\ t[j + 1] = e
      /\ \A n \in 1..l : Place(n, j) \in 1..m /\ t[Place(n, j)] = s[n]
      /\ \A i \in 1..m : i = j + 1 \/ \E n \in 1..l : i = Place(n, j)
      /\ \A n, i \in 1..l : (Place(i, j) > Place(n, j)) = (i > n)
  BY <1>p DEF Placed
<1>2. ASSUME Told(s, l, k, key, u), v => u, e.type = "Accepted" => u /\ j = k
      PROVE  Told(t, m, h, key, v)
  <2>1. PICK n \in 1..l : /\ s[n].type = "Authorized" /\ s[n].key = key /\ (u => n > k)
                          /\ \A i \in 1..l : i > n => s[i].type # "Accepted"
    BY <1>2 DEF Told
  <2>2. v => Place(n, j) > h
    BY <1>0, <1>2, <2>1 DEF Place, PutAt
  <2>3. \A i \in 1..m : i > Place(n, j) => t[i].type # "Accepted"
    <3> SUFFICES ASSUME NEW i \in 1..m, i > Place(n, j)
                 PROVE  t[i].type # "Accepted"
      OBVIOUS
    <3>1. CASE i = j + 1
      <4>1. ~(u /\ j = k)
        BY <2>1, <3>1 DEF Place
      <4> QED BY <1>1, <1>2, <3>1, <4>1
    <3>2. CASE i # j + 1
      BY <1>1, <2>1, <3>2
    <3> QED BY <3>1, <3>2
  <2> QED BY <1>1, <2>1, <2>2, <2>3 DEF Told
<1>3. ASSUME e.type = "Authorized", e.key = key, j = l, h = k
      PROVE  Told(t, m, h, key, v)
  <2>1. m = j + 1 /\ j + 1 > h
    BY <1>3 DEF Puts
  <2> QED BY <1>1, <1>3, <2>1 DEF Told
<1> QED BY <1>2, <1>3

\* Reading from the link into the queue changes only how many are queued.
LEMMA ReadsKeeps ==
    ASSUME NEW s, NEW l \in Nat, NEW k \in Nat, NEW t, NEW m, NEW h, Reads(s, l, k, t, m, h),
           NEW r, NEW key
    PROVE  /\ NoRandom(s, l) => NoRandom(t, m)
           /\ NoConfirm(s, l, r) => NoConfirm(t, m, r)
           /\ Confirmed(s, l, r, key) => Confirmed(t, m, r, key)
           /\ \A c \in BOOLEAN :
                Asked(s, l, k, r, c)
                  /\ (c => \E i \in 1..k : s[i].type = "Connected" /\ s[i].success)
                  => Asked(t, m, h, r, c)
           /\ \A u \in BOOLEAN :
                Told(s, l, k, key, u) /\ ~(u /\ s[k + 1].type = "Authorized")
                  => Told(t, m, h, key, u)
<1>1. m = l /\ h = k + 1 /\ h <= l /\ \A n \in 1..l : t[n] = s[n]
  BY DEF Reads
<1>2. NoRandom(s, l) => NoRandom(t, m)
  BY <1>1 DEF NoRandom
<1>3. NoConfirm(s, l, r) => NoConfirm(t, m, r)
  BY <1>1 DEF NoConfirm
<1>4. Confirmed(s, l, r, key) => Confirmed(t, m, r, key)
  BY <1>1 DEF Confirmed
<1>5. ASSUME NEW c \in BOOLEAN, Asked(s, l, k, r, c),
             c => \E i \in 1..k : s[i].type = "Connected" /\ s[i].success
      PROVE  Asked(t, m, h, r, c)
  <2>1. PICK n \in 1..l :
          /\ LastRandom(s, l, n, r)
          /\ c /\ n <= k => \E i \in 1..l : i < n /\ s[i].type = "Connected" /\ s[i].success
    BY <1>5 DEF Asked
  <2>2. LastRandom(t, m, n, r)
    BY <1>1, <2>1 DEF LastRandom
  <2>3. ASSUME c, n <= h
        PROVE  \E i \in 1..l : i < n /\ s[i].type = "Connected" /\ s[i].success
    <3>1. CASE n <= k
      BY <2>1, <2>3, <3>1
    <3>2. CASE ~(n <= k)
      <4>1. PICK i \in 1..k : s[i].type = "Connected" /\ s[i].success
        BY <1>5, <2>3
      <4>2. i \in 1..l /\ i < n
        BY <1>1, <3>2
      <4> QED BY <4>1, <4>2
    <3> QED BY <3>1, <3>2
  <2>4. c /\ n <= h => \E i \in 1..m : i < n /\ t[i].type = "Connected" /\ t[i].success
    BY <1>1, <2>3
  <2> QED BY <1>1, <2>2, <2>4 DEF Asked
<1>6. ASSUME NEW u \in BOOLEAN, Told(s, l, k, key, u), ~(u /\ s[k + 1].type = "Authorized")
      PROVE  Told(t, m, h, key, u)
  <2>1. PICK n \in 1..l : /\ s[n].type = "Authorized" /\ s[n].key = key /\ (u => n > k)
                          /\ \A i \in 1..l : i > n => s[i].type # "Accepted"
    BY <1>6 DEF Told
  <2>2. u => n > h
    BY <1>1, <1>6, <2>1
  <2> QED BY <1>1, <2>1, <2>2 DEF Told
<1> QED BY <1>2, <1>3, <1>4, <1>5, <1>6

-----------------------------------------------------------------------------
(* Links *)

\* Client i has a socket whose link is up.
Up(i) == i # 0 /\ client[i].udt # "Disconnected" /\ ~client[i].broken

\* The clients of p and q talk to each other; the server of p has accepted the client of q.
Traverse(p, q) ==
    /\ cos[p] \in {"ConnectingToFriend", "Connected"}
    /\ cos[q] \in {"ConnectingToFriend", "Connected"}
    /\ Up(mine[p]) /\ Up(mine[q]) /\ PeerClient(mine[p]) = mine[q]
Serves(p, q) ==
    /\ cos[p] = "AcceptedConnection" /\ cos[q] \in {"ConnectingToFriend", "Connected"}
    /\ Up(mine[q]) /\ accepted[p] = mine[q]
Facing(p) == Traverse(p, Other[p]) \/ Serves(p, Other[p]) \/ Serves(Other[p], p)

\* What comes to p over its link, behind what is queued already.
Wire(p) == IF cos[p] = "AcceptedConnection" THEN up[accepted[p]] ELSE down[mine[p]]
Content(e) == IF e.type = "Data" THEN e.packet ELSE e
Queue(p) == Len(events[p])
Coming(p) == Queue(p) + Len(Wire(p))
In(p) == [n \in 1..Coming(p) |-> IF n <= Queue(p) THEN Content(events[p][n])
                                 ELSE Wire(p)[n - Queue(p)]]

\* What is queued comes first.
LEMMA Lengths ==
    ASSUME LinkTypes, NEW p \in Peer, NEW S, Wire(p) \in Seq(S)
    PROVE  /\ Queue(p) \in Nat /\ Coming(p) \in Nat /\ Queue(p) <= Coming(p)
           /\ \A n \in 1..Queue(p) : In(p)[n] = Content(events[p][n])
<1>1. Len(events[p]) \in Nat /\ Len(Wire(p)) \in Nat
  BY DEF LinkTypes
<1>2. Queue(p) \in Nat /\ Coming(p) \in Nat /\ Queue(p) <= Coming(p)
  BY <1>1 DEF Queue, Coming
<1>3. \A n \in 1..Queue(p) : n \in 1..Coming(p) /\ n <= Queue(p)
  BY <1>2
<1> QED BY <1>2, <1>3 DEF In

LEMMA InAt ==
    ASSUME NEW p
    PROVE  \A n \in 1..Coming(p) :
              In(p)[n] = IF n <= Queue(p) THEN Content(events[p][n]) ELSE Wire(p)[n - Queue(p)]
BY DEF In

LEMMA RestOf ==
    ASSUME NEW S, NEW q \in Seq(S), q # <<>>
    PROVE  /\ Len(q) # 0 /\ Head(q) = q[1] /\ Tail(q) \in Seq(S) /\ Len(Tail(q)) = Len(q) - 1
           /\ \A n \in 1..Len(q) - 1 : Tail(q)[n] = q[n + 1]
<1>1. Len(q) \in Nat /\ Len(q) # 0
  BY EmptySeq
<1> QED BY <1>1, HeadTailProperties

\* What actions do to the queue and the link, said of what comes to a friend.
LEMMA FlowSame ==
    ASSUME NEW p \in Peer, events'[p] = events[p], Wire(p)' = Wire(p)
    PROVE  In(p)' = In(p) /\ Coming(p)' = Coming(p) /\ Queue(p)' = Queue(p)
BY DEF In, Coming, Queue

LEMMA FlowTakes ==
    ASSUME LinkTypes, NEW p \in Peer, NEW S, Wire(p) \in Seq(S),
           events[p] # <<>>, events'[p] = Tail(events[p]), Wire(p)' = Wire(p)
    PROVE  /\ Takes(In(p), Coming(p), Queue(p), In(p)', Coming(p)', Queue(p)')
           /\ In(p)[1] = Content(Head(events[p]))
<1>1. /\ Len(events[p]) \in Nat /\ Len(Wire(p)) \in Nat /\ Len(events[p]) # 0
      /\ Head(events[p]) = events[p][1] /\ Len(events'[p]) = Len(events[p]) - 1
      /\ \A n \in 1..Len(events[p]) - 1 : events'[p][n] = events[p][n + 1]
  BY RestOf DEF LinkTypes
<1>2. /\ Queue(p) \in Nat /\ Queue(p) # 0 /\ Queue(p)' = Queue(p) - 1
      /\ Coming(p) \in Nat /\ Coming(p)' = Coming(p) - 1 /\ Queue(p) <= Coming(p)
  BY <1>1 DEF Queue, Coming
<1>3. ASSUME NEW n \in 1..Coming(p)'
      PROVE  In(p)'[n] = In(p)[n + 1]
  <2>1. n + 1 \in 1..Coming(p)
    BY <1>2
  <2>2. In(p)[n + 1] = IF n + 1 <= Queue(p) THEN Content(events[p][n + 1])
                       ELSE Wire(p)[(n + 1) - Queue(p)]
    BY <2>1, InAt, Zenon
  <2>3. In(p)'[n] = IF n <= Queue(p)' THEN Content(events'[p][n]) ELSE Wire(p)[n - Queue(p)']
    BY DEF In
  <2>4. CASE n + 1 <= Queue(p)
    <3>1. n \in 1..Len(events[p]) - 1 /\ n <= Queue(p)'
      BY <1>2, <2>4 DEF Queue
    <3> QED BY <1>1, <2>2, <2>3, <2>4, <3>1
  <2>5. CASE ~(n + 1 <= Queue(p))
    <3>1. (n + 1) - Queue(p) = n - Queue(p)' /\ ~(n <= Queue(p)')
      BY <1>2, <2>5
    <3> QED BY <2>2, <2>3, <2>5, <3>1
  <2> QED BY <2>4, <2>5
<1>4. In(p)[1] = Content(Head(events[p]))
  BY <1>1, <1>2, Lengths
<1>5. Coming(p) # 0
  BY <1>2
<1> QED BY <1>2, <1>3, <1>4, <1>5 DEF Takes

LEMMA FlowPuts ==
    ASSUME LinkTypes, NEW p \in Peer, NEW S, Wire(p) \in Seq(S), NEW e,
           events'[p] = events[p], Wire(p)' = Append(Wire(p), e)
    PROVE  /\ Puts(In(p), Coming(p), In(p)', Coming(p)', Coming(p), e)
           /\ PutAt(Coming(p), Queue(p), Queue(p)', Coming(p)) /\ Queue(p)' = Queue(p)
<1>1. /\ Len(events[p]) \in Nat /\ Len(Wire(p)) \in Nat /\ Len(Wire(p)') = Len(Wire(p)) + 1
      /\ \A n \in 1..Len(Wire(p)) : Wire(p)'[n] = Wire(p)[n]
      /\ Wire(p)'[Len(Wire(p)) + 1] = e
  BY AppendedTo DEF LinkTypes
<1>2. /\ Queue(p) \in Nat /\ Queue(p)' = Queue(p)
      /\ Coming(p) \in Nat /\ Coming(p)' = Coming(p) + 1 /\ Queue(p) <= Coming(p)
      /\ Coming(p) = Queue(p) + Len(Wire(p))
  <2>1. Queue(p) = Len(events[p]) /\ Queue(p)' = Len(events[p])
    BY DEF Queue
  <2>2. Coming(p) = Queue(p) + Len(Wire(p)) /\ Coming(p)' = Queue(p)' + Len(Wire(p)')
    BY DEF Coming
  <2>3. Coming(p)' = Len(events[p]) + (Len(Wire(p)) + 1)
    BY <1>1, <2>1, <2>2, Zenon
  <2>4. Queue(p) \in Nat /\ Len(Wire(p)) \in Nat
    BY <1>1, <2>1
  <2>5. Coming(p)' = Queue(p) + (Len(Wire(p)) + 1)
    BY <2>1, <2>3, Zenon
  <2>6. \A a, b, c, d \in Nat : c = a + b => a + (b + 1) = c + 1 /\ a <= c
    OBVIOUS
  <2>7. Coming(p) \in Nat
    BY <2>2, <2>4
  <2>8. Coming(p)' = Coming(p) + 1 /\ Queue(p) <= Coming(p)
    BY <2>2, <2>4, <2>5, <2>6, <2>7
  <2> QED BY <2>1, <2>2, <2>4, <2>7, <2>8
<1>3. ASSUME NEW n \in 1..Coming(p)
      PROVE  In(p)'[n] = In(p)[n]
  <2>1. n \in 1..Coming(p)'
    BY <1>2
  <2>2. In(p)[n] = IF n <= Queue(p) THEN Content(events[p][n]) ELSE Wire(p)[n - Queue(p)]
    BY DEF In
  <2>3. In(p)'[n] = IF n <= Queue(p) THEN Content(events[p][n]) ELSE Wire(p)'[n - Queue(p)]
    BY <1>2, <2>1 DEF In
  <2>4. ~(n <= Queue(p)) => n - Queue(p) \in 1..Len(Wire(p))
    BY <1>2
  <2> QED BY <1>1, <2>2, <2>3, <2>4
<1>4. In(p)'[Coming(p) + 1] = e
  <2>1. Coming(p) + 1 \in 1..Coming(p)' /\ ~(Coming(p) + 1 <= Queue(p))
        /\ Coming(p) + 1 - Queue(p) = Len(Wire(p)) + 1
    BY <1>1, <1>2
  <2>2. In(p)'[Coming(p) + 1] = Wire(p)'[Coming(p) + 1 - Queue(p)]
    BY <1>2, <2>1 DEF In
  <2> QED BY <1>1, <2>1, <2>2
<1>5. \A n \in 1..Coming(p) : n <= Coming(p)
  BY <1>2
<1> QED BY <1>2, <1>3, <1>4, <1>5 DEF Puts, PutAt

LEMMA FlowInserts ==
    ASSUME LinkTypes, NEW p \in Peer, NEW S, Wire(p) \in Seq(S), NEW e,
           events'[p] = Append(events[p], e), Wire(p)' = Wire(p)
    PROVE  /\ Puts(In(p), Coming(p), In(p)', Coming(p)', Queue(p), Content(e))
           /\ PutAt(Coming(p), Queue(p), Queue(p)', Queue(p)) /\ Queue(p)' = Queue(p) + 1
<1>1. /\ Len(events[p]) \in Nat /\ Len(Wire(p)) \in Nat /\ Len(events'[p]) = Len(events[p]) + 1
      /\ \A n \in 1..Len(events[p]) : events'[p][n] = events[p][n]
      /\ events'[p][Len(events[p]) + 1] = e
  BY AppendedTo DEF LinkTypes
<1>2. /\ Queue(p) \in Nat /\ Queue(p)' = Queue(p) + 1
      /\ Coming(p) \in Nat /\ Coming(p)' = Coming(p) + 1 /\ Queue(p) <= Coming(p)
      /\ Queue(p) = Len(events[p])
  BY <1>1 DEF Queue, Coming
<1>3. ASSUME NEW n \in 1..Coming(p)
      PROVE  IF n <= Queue(p) THEN In(p)'[n] = In(p)[n] ELSE In(p)'[n + 1] = In(p)[n]
  <2>2. In(p)[n] = IF n <= Queue(p) THEN Content(events[p][n]) ELSE Wire(p)[n - Queue(p)]
    BY DEF In
  <2>3. \A i \in 1..Coming(p)' :
          In(p)'[i] = IF i <= Queue(p)' THEN Content(events'[p][i]) ELSE Wire(p)[i - Queue(p)']
    BY DEF In
  <2>4. CASE n <= Queue(p)
    <3>1. n \in 1..Coming(p)' /\ n <= Queue(p)' /\ n \in 1..Len(events[p])
      BY <1>2, <2>4
    <3> QED BY <1>1, <2>2, <2>3, <2>4, <3>1
  <2>5. CASE ~(n <= Queue(p))
    <3>1. n + 1 \in 1..Coming(p)' /\ ~(n + 1 <= Queue(p)') /\ n + 1 - Queue(p)' = n - Queue(p)
      BY <1>2, <2>5
    <3>2. In(p)'[n + 1] = Wire(p)[n + 1 - Queue(p)']
      BY <1>2, <2>3, <3>1
    <3> QED BY <2>2, <2>5, <3>1, <3>2
  <2> QED BY <2>4, <2>5
<1>4. In(p)'[Queue(p) + 1] = Content(e)
  <2>1. Queue(p) + 1 \in 1..Coming(p)' /\ Queue(p) + 1 <= Queue(p)'
    BY <1>2
  <2>2. In(p)'[Queue(p) + 1] = Content(events'[p][Queue(p) + 1])
    BY <2>1 DEF In
  <2> QED BY <1>1, <1>2, <2>2
<1> QED BY <1>2, <1>3, <1>4 DEF Puts, PutAt

LEMMA FlowReads ==
    ASSUME LinkTypes, NEW p \in Peer, NEW S, Wire(p) \in Seq(S), Wire(p) # <<>>,
           events'[p] = Append(events[p], [type |-> "Data", packet |-> Head(Wire(p))]),
           Wire(p)' = Tail(Wire(p))
    PROVE  /\ Reads(In(p), Coming(p), Queue(p), In(p)', Coming(p)', Queue(p)')
           /\ In(p)[Queue(p) + 1] = Head(Wire(p))
<1> DEFINE d == [type |-> "Data", packet |-> Head(Wire(p))]
<1>0. Content(d) = Head(Wire(p))
  BY DEF Content
<1> HIDE DEF d
<1>1. /\ Len(events[p]) \in Nat /\ Len(Wire(p)) \in Nat /\ Len(events'[p]) = Len(events[p]) + 1
      /\ \A n \in 1..Len(events[p]) : events'[p][n] = events[p][n]
      /\ events'[p][Len(events[p]) + 1] = d
  BY AppendedTo DEF LinkTypes, d
<1>2. /\ Len(Wire(p)) # 0 /\ Head(Wire(p)) = Wire(p)[1] /\ Len(Wire(p)') = Len(Wire(p)) - 1
      /\ \A n \in 1..Len(Wire(p)) - 1 : Wire(p)'[n] = Wire(p)[n + 1]
  BY RestOf
<1>3. /\ Queue(p) \in Nat /\ Queue(p)' = Queue(p) + 1
      /\ Coming(p) \in Nat /\ Coming(p)' = Coming(p) /\ Queue(p)' <= Coming(p)
      /\ Queue(p) = Len(events[p]) /\ Coming(p) = Queue(p) + Len(Wire(p))
  BY <1>1, <1>2 DEF Queue, Coming
<1>4. In(p)[Queue(p) + 1] = Head(Wire(p))
  <2>1. Queue(p) + 1 \in 1..Coming(p) /\ ~(Queue(p) + 1 <= Queue(p))
        /\ Queue(p) + 1 - Queue(p) = 1
    BY <1>3
  <2>2. In(p)[Queue(p) + 1] = Wire(p)[Queue(p) + 1 - Queue(p)]
    BY <1>3, <2>1, InAt
  <2> QED BY <1>2, <2>1, <2>2
<1>5. ASSUME NEW n \in 1..Coming(p)
      PROVE  In(p)'[n] = In(p)[n]
  <2>1. In(p)[n] = IF n <= Queue(p) THEN Content(events[p][n]) ELSE Wire(p)[n - Queue(p)]
    BY DEF In
  <2>2. In(p)'[n] = IF n <= Queue(p)' THEN Content(events'[p][n]) ELSE Wire(p)'[n - Queue(p)']
    BY <1>3 DEF In
  <2>3. CASE n <= Queue(p)
    <3>1. n <= Queue(p)' /\ n \in 1..Len(events[p])
      BY <1>3, <2>3
    <3> QED BY <1>1, <2>1, <2>2, <2>3, <3>1
  <2>4. CASE n = Queue(p) + 1
    BY <1>0, <1>1, <1>3, <1>4, <2>2, <2>4
  <2>5. CASE n > Queue(p) + 1
    <3>1. /\ ~(n <= Queue(p)) /\ ~(n <= Queue(p)') /\ n - Queue(p)' \in 1..Len(Wire(p)) - 1
          /\ (n - Queue(p)') + 1 = n - Queue(p)
      BY <1>3, <2>5
    <3> QED BY <1>2, <2>1, <2>2, <3>1
  <2> QED BY <1>3, <2>3, <2>4, <2>5
<1> QED BY <1>3, <1>4, <1>5 DEF Reads

\* The client whose link p uses: its own, or the one its server has accepted.
End(p) == IF cos[p] = "AcceptedConnection" THEN accepted[p] ELSE mine[p]

\* Two clients that have each other as targets are peers.
LEMMA PeerOf ==
    ASSUME NEW i \in Client, NEW j \in Client,
           client[i].target = <<"Client", j>>, client[j].target = <<"Client", i>>
    PROVE  PeerClient(i) = j
BY DEF PeerClient

\* Two who face each other use links that are up and lead to one another.
LEMMA Ends ==
    ASSUME LinkTypes, Control, Clients, NEW p \in Peer, Facing(p)
    PROVE  /\ Facing(Other[p])
           /\ End(p) \in Client /\ End(Other[p]) \in Client
           /\ ~client[End(p)].broken /\ client[End(p)].target[1] \in {"Client", "Port"}
           /\ client[End(p)].owner \in {p, Other[p]}
           /\ cos[p] \in LinkStatus
           /\ cos[p] = "AcceptedConnection" =>
                accepted[p] = mine[Other[p]] /\ cos[Other[p]] # "AcceptedConnection"
           /\ cos[p] # "AcceptedConnection" => mine[p] # 0 /\ client[mine[p]].udt # "Disconnected"
           /\ Wire(p) \in Seq(AnyPacket \cup Answer)
<1> DEFINE q == Other[p]
<1>0. /\ q \in Peer /\ Other[q] = p /\ q # p /\ Other[p] = q
      /\ mine[p] # 0 => mine[p] \in Client /\ client[mine[p]].owner = p
      /\ mine[q] # 0 => mine[q] \in Client /\ client[mine[q]].owner = q
      /\ accepted[p] # 0 => client[accepted[p]].target[1] = "Port"
      /\ accepted[q] # 0 => client[accepted[q]].target[1] = "Port"
  BY Peers, Numbers DEF Control
<1> HIDE DEF q
<1>1. \A i \in Client : /\ PeerClient(i) # 0 => client[i].target[1] = "Client" 
                        /\ PeerClient(i) # 0 => PeerClient(PeerClient(i)) = i
  <2>1. TAKE i \in Client
  <2>2. PeerClient(i) # 0 => client[i].target[1] = "Client"
    BY DEF PeerClient
  <2>3. ASSUME PeerClient(i) # 0
        PROVE  PeerClient(PeerClient(i)) = i
    <3>1. /\ PeerClient(i) \in Client
          /\ client[i].target = <<"Client", PeerClient(i)>>
          /\ client[PeerClient(i)].target = <<"Client", i>>
      BY <2>3, PeerClients DEF LinkTypes
    <3> QED BY <3>1, PeerOf
  <2> QED BY <2>2, <2>3
<1>2. CASE Traverse(p, q)
  <2>1. /\ mine[p] # 0 /\ mine[q] # 0 /\ PeerClient(mine[p]) = mine[q]
        /\ cos[p] \in {"ConnectingToFriend", "Connected"}
        /\ cos[q] \in {"ConnectingToFriend", "Connected"}
        /\ Up(mine[p]) /\ Up(mine[q])
    BY <1>2 DEF Traverse, Up
  <2>2. PeerClient(mine[q]) = mine[p] /\ client[mine[p]].target[1] = "Client"
    BY <1>0, <1>1, <2>1
  <2>3. Facing(q)
    BY <1>0, <2>1, <2>2 DEF Facing, Traverse
  <2>4. End(p) = mine[p] /\ End(q) = mine[q] /\ Wire(p) = down[mine[p]]
    BY <2>1 DEF End, Wire
  <2>5. down[mine[p]] \in Seq(Answer)
    BY <1>0, <2>1 DEF LinkTypes, Answer
  <2>6. Wire(p) \in Seq(AnyPacket \cup Answer)
    BY <2>4, <2>5
  <2> QED BY <1>0, <2>1, <2>2, <2>3, <2>4, <2>6 DEF Up, LinkStatus, q
<1>3. CASE Serves(p, q)
  <2>1. /\ mine[q] # 0 /\ accepted[p] = mine[q] /\ cos[p] = "AcceptedConnection"
        /\ cos[q] \in {"ConnectingToFriend", "Connected"} /\ Up(mine[q])
    BY <1>3 DEF Serves, Up
  <2>2. Facing(q)
    BY <1>0, <1>3 DEF Facing
  <2>3. End(p) = mine[q] /\ End(q) = mine[q] /\ Wire(p) = up[mine[q]]
    BY <2>1 DEF End, Wire
  <2>4. up[mine[q]] \in Seq(AnyPacket)
    BY <1>0, <2>1 DEF LinkTypes, AnyPacket
  <2>5. Wire(p) \in Seq(AnyPacket \cup Answer)
    BY <2>3, <2>4
  <2> QED BY <1>0, <2>1, <2>2, <2>3, <2>5 DEF Up, LinkStatus, q
<1>4. CASE Serves(q, p)
  <2>1. /\ mine[p] # 0 /\ accepted[q] = mine[p] /\ cos[q] = "AcceptedConnection"
        /\ cos[p] \in {"ConnectingToFriend", "Connected"} /\ Up(mine[p])
    BY <1>4 DEF Serves, Up
  <2>2. Facing(q)
    BY <1>0, <1>4 DEF Facing
  <2>3. End(p) = mine[p] /\ End(q) = mine[p] /\ Wire(p) = down[mine[p]]
    BY <2>1 DEF End, Wire
  <2>4. down[mine[p]] \in Seq(Answer)
    BY <1>0, <2>1 DEF LinkTypes, Answer
  <2>5. Wire(p) \in Seq(AnyPacket \cup Answer)
    BY <2>3, <2>4
  <2> QED BY <1>0, <2>1, <2>2, <2>3, <2>5 DEF Up, LinkStatus, q
<1> QED BY <1>2, <1>3, <1>4 DEF Facing, q

\* What p sends comes to the one it faces; what another sends comes to neither.
LEMMA SentTo ==
    ASSUME LinkTypes, Control, Clients, NEW p \in Peer, Facing(p),
           NEW r \in Peer, NEW packet, SendRaw(r, packet)
    PROVE  (IF cos[p] = "AcceptedConnection" THEN up'[accepted[p]] ELSE down'[mine[p]])
             = IF r = Other[p] THEN Append(Wire(p), packet) ELSE Wire(p)
<1> DEFINE q == Other[p]
           i == IF cos[r] = "AcceptedConnection" THEN accepted[r] ELSE mine[r]
<1>0. /\ q \in Peer /\ Other[q] = p /\ q # p /\ Other[p] = q
      /\ mine[p] # 0 => mine[p] \in Client /\ client[mine[p]].owner = p
      /\ mine[q] # 0 => mine[q] \in Client /\ client[mine[q]].owner = q
      /\ mine[r] # 0 => mine[r] \in Client /\ client[mine[r]].owner = r
      /\ accepted[r] # 0 => accepted[r] \in Client /\ Other[client[accepted[r]].owner] = r
                            /\ client[accepted[r]].target[1] = "Port"
      /\ accepted[p] # 0 => client[accepted[p]].target[1] = "Port"
      /\ accepted[q] # 0 => client[accepted[q]].target[1] = "Port"
  BY Peers, Numbers DEF Control, Clients, ClientsOf
<1>1. \A j \in Client :
        /\ down'[j] = IF /\ i # 0 /\ ~client[i].broken /\ client[i].udt # "Disconnected"
                         /\ j = IF cos[r] = "AcceptedConnection" THEN i ELSE PeerClient(i)
                      THEN Append(down[j], packet) ELSE down[j]
        /\ up'[j] = IF cos[r] # "AcceptedConnection" /\ j = i /\ ~client[i].broken
                       /\ client[i].target[1] # "Client"
                    THEN Append(up[j], packet) ELSE up[j]
  BY DEF SendRaw
<1>2. \A j \in Client : PeerClient(j) # 0 => /\ PeerClient(j) \in Client
                                             /\ client[j].target = <<"Client", PeerClient(j)>>
                                             /\ client[PeerClient(j)].target = <<"Client", j>>
  BY PeerClients DEF LinkTypes
<1>3. 0 \notin Client
  BY Targets
<1> HIDE DEF q
<1>4. CASE Traverse(p, q)
  <2>1. /\ mine[p] \in Client /\ mine[q] \in Client /\ PeerClient(mine[p]) = mine[q]
        /\ cos[p] # "AcceptedConnection" /\ cos[q] # "AcceptedConnection"
        /\ mine[q] # 0 /\ ~client[mine[q]].broken /\ client[mine[q]].udt # "Disconnected"
    BY <1>0, <1>4 DEF Traverse, Up
  <2>2. /\ client[mine[p]].target = <<"Client", mine[q]>>
        /\ client[mine[q]].target = <<"Client", mine[p]>>
        /\ PeerClient(mine[q]) = mine[p]
    BY <1>2, <1>3, <2>1, PeerOf
  <2>3. CASE r = q
    <3>1. i = mine[q]
      BY <2>1, <2>3
    <3> QED BY <1>1, <2>1, <2>2, <2>3, <3>1 DEF Wire, q
  <2>4. CASE r # q /\ cos[r] = "AcceptedConnection"
    <3>1. mine[p] # i
      BY <1>0, <1>3, <2>1, <2>2, <2>4
    <3> QED BY <1>1, <2>1, <2>4, <3>1 DEF Wire, q
  <2>5. CASE r # q /\ cos[r] # "AcceptedConnection"
    <3>1. i # 0 => PeerClient(i) # mine[p]
      <4> SUFFICES ASSUME i # 0, PeerClient(i) = mine[p]
                   PROVE  FALSE
        OBVIOUS
      <4>1. i = mine[r] /\ i \in Client /\ client[mine[p]].target = <<"Client", i>>
        BY <1>0, <1>2, <1>3, <2>1, <2>5
      <4>2. i = mine[q]
        BY <2>2, <4>1
      <4> QED BY <1>0, <2>1, <2>5, <4>1, <4>2
    <3> QED BY <1>1, <2>1, <2>5, <3>1 DEF Wire, q
  <2> QED BY <2>3, <2>4, <2>5
<1>5. CASE Serves(p, q)
  <2>1. /\ mine[q] \in Client /\ accepted[p] = mine[q] /\ client[mine[q]].target[1] = "Port"
        /\ cos[p] = "AcceptedConnection" /\ cos[q] # "AcceptedConnection"
        /\ mine[q] # 0 /\ ~client[mine[q]].broken /\ client[mine[q]].udt # "Disconnected"
    BY <1>0, <1>5 DEF Serves, Up
  <2>2. CASE r = q
    <3>1. i = mine[q]
      BY <2>1, <2>2
    <3> QED BY <1>1, <2>1, <2>2, <3>1 DEF Wire, q
  <2>3. CASE r # q
    <3>1. cos[r] = "AcceptedConnection" \/ mine[q] # i
      BY <1>0, <1>3, <2>1, <2>3
    <3> QED BY <1>1, <2>1, <2>3, <3>1 DEF Wire, q
  <2> QED BY <2>2, <2>3
<1>6. CASE Serves(q, p)
  <2>1. /\ mine[p] \in Client /\ accepted[q] = mine[p] /\ client[mine[p]].target[1] = "Port"
        /\ cos[q] = "AcceptedConnection" /\ cos[p] # "AcceptedConnection"
        /\ mine[p] # 0 /\ ~client[mine[p]].broken /\ client[mine[p]].udt # "Disconnected"
    BY <1>0, <1>6 DEF Serves, Up
  <2>2. CASE r = q
    <3>1. i = mine[p]
      BY <2>1, <2>2
    <3> QED BY <1>1, <2>1, <2>2, <3>1 DEF Wire, q
  <2>3. CASE r # q /\ cos[r] = "AcceptedConnection"
    <3>1. mine[p] # i
      BY <1>0, <1>3, <2>1, <2>3
    <3> QED BY <1>1, <2>1, <2>3, <3>1 DEF Wire, q
  <2>4. CASE r # q /\ cos[r] # "AcceptedConnection"
    <3>1. i # 0 => PeerClient(i) # mine[p]
      <4> SUFFICES ASSUME i # 0, PeerClient(i) = mine[p]
                   PROVE  FALSE
        OBVIOUS
      <4>1. i \in Client /\ client[mine[p]].target = <<"Client", i>>
        BY <1>0, <1>2, <1>3, <2>1, <2>4
      <4> QED BY <2>1, <4>1
    <3> QED BY <1>1, <2>1, <2>4, <3>1 DEF Wire, q
  <2> QED BY <2>2, <2>3, <2>4
<1> QED BY <1>4, <1>5, <1>6 DEF Facing, q

\* Client i keeps its target; it gets no new socket and its link does not come up again.
Stays(i) ==
    /\ client'[i].target = client[i].target
    /\ client'[i].udt # "Disconnected" => client[i].udt # "Disconnected"
    /\ client[i].broken => client'[i].broken

\* p uses the link it used.
LinkKept(p) ==
    /\ cos'[p] = cos[p] \/ (cos[p] = "ConnectingToFriend" /\ cos'[p] = "Connected")
    /\ IF cos[p] = "AcceptedConnection" THEN accepted'[p] = accepted[p] ELSE mine'[p] = mine[p]

\* A link that is kept is the same link after the step.
LEMMA WireAfter ==
    ASSUME NEW p \in Peer, LinkKept(p)
    PROVE  Wire(p)' = IF cos[p] = "AcceptedConnection" THEN up'[accepted[p]] ELSE down'[mine[p]]
<1>1. (cos'[p] = "AcceptedConnection") = (cos[p] = "AcceptedConnection")
  BY DEF LinkKept
<1> QED BY <1>1 DEF LinkKept, Wire

LEMMA FacingAfter ==
    ASSUME LinkTypes, NEW p \in Peer, Facing(p)'
    PROVE  cos'[p] \in LinkStatus /\ cos'[Other[p]] \in LinkStatus
<1>1. cos'[p] \in {"ConnectingToFriend", "Connected", "AcceptedConnection"}
  BY Peers DEF Facing, Traverse, Serves
<1>2. cos'[Other[p]] \in {"ConnectingToFriend", "Connected", "AcceptedConnection"}
  BY Peers DEF Facing, Traverse, Serves
<1> QED BY <1>1, <1>2 DEF LinkStatus

LEMMA PeersBack ==
    \A i \in Client : client \in [Client -> ClientRecord] /\ PeerClient(i) # 0 =>
                         /\ client[i].target = <<"Client", PeerClient(i)>>
                         /\ client[PeerClient(i)].target = <<"Client", i>>
BY PeerClients

\* p may go on to be connected, and may lose the client its server has accepted.
Uses(p) ==
    /\ cos'[p] = cos[p] \/ (cos[p] = "ConnectingToFriend" /\ cos'[p] = "Connected")
    /\ mine'[p] = mine[p] /\ accepted'[p] \in {accepted[p], 0}
    /\ mine[p] # 0 => Stays(mine[p])

LEMMA FacingBefore ==
    ASSUME LinkTypes, LinkTypes', NEW p \in Peer, Facing(p)',
           Uses(p), Uses(Other[p])
    PROVE  Facing(p) /\ LinkKept(p) /\ LinkKept(Other[p])
<1> DEFINE q == Other[p]
<1>0. /\ mine[p] # 0 => mine[p] \in Client
      /\ mine[q] # 0 => mine[q] \in Client
      /\ Other[q] = p
  BY Peers, Numbers
<1>k. /\ cos'[p] = cos[p] \/ (cos[p] = "ConnectingToFriend" /\ cos'[p] = "Connected")
      /\ cos'[q] = cos[q] \/ (cos[q] = "ConnectingToFriend" /\ cos'[q] = "Connected")
      /\ mine'[p] = mine[p] /\ accepted'[p] \in {accepted[p], 0}
      /\ mine'[q] = mine[q] /\ accepted'[q] \in {accepted[q], 0}
      /\ mine[p] # 0 => Stays(mine[p])
      /\ mine[q] # 0 => Stays(mine[q])
  BY DEF Uses
<1> HIDE DEF q
<1>u. /\ Up(mine[p])' => Up(mine[p])
      /\ Up(mine[q])' => Up(mine[q])
  BY <1>k DEF Up, Stays
<1>1. CASE Traverse(p, q)'
  <2>1. /\ mine[p] \in Client /\ mine[q] \in Client /\ mine[p] # 0 /\ mine[q] # 0
        /\ (PeerClient(mine[p]))' = mine[q] /\ Up(mine[p]) /\ Up(mine[q])
    BY <1>0, <1>1, <1>k, <1>u DEF Traverse, Up
  <2>2. /\ client'[mine[p]].target = <<"Client", mine[q]>>
        /\ client'[mine[q]].target = <<"Client", mine[p]>>
    <3>1. (\A i \in Client : client \in [Client -> ClientRecord] /\ PeerClient(i) # 0 =>
                               /\ client[i].target = <<"Client", PeerClient(i)>>
                               /\ client[PeerClient(i)].target = <<"Client", i>>)'
      BY PeersBack, PTL
    <3>2. client' \in [Client -> ClientRecord]
      BY DEF LinkTypes
    <3> QED BY <1>k, <2>1, <3>1, <3>2
  <2>3. PeerClient(mine[p]) = mine[q]
    BY <1>k, <2>1, <2>2, PeerOf DEF Stays
  <2>4. /\ cos'[p] \in {"ConnectingToFriend", "Connected"}
        /\ cos'[q] \in {"ConnectingToFriend", "Connected"}
    BY <1>1 DEF Traverse
  <2>5. Traverse(p, q) /\ cos[p] # "AcceptedConnection" /\ cos[q] # "AcceptedConnection"
    BY <1>k, <2>1, <2>3, <2>4 DEF Traverse
  <2> QED BY <1>k, <2>5 DEF LinkKept, Facing, q
<1>2. CASE Serves(p, q)'
  <2>1. /\ cos'[p] = "AcceptedConnection" /\ cos'[q] \in {"ConnectingToFriend", "Connected"}
        /\ accepted'[p] = mine'[q] /\ Up(mine[q]) /\ mine[q] # 0
    BY <1>2, <1>k, <1>u DEF Serves, Up
  <2>2. /\ accepted'[p] = accepted[p] /\ accepted[p] = mine[q] /\ cos[p] = "AcceptedConnection"
        /\ cos[q] \in {"ConnectingToFriend", "Connected"}
    BY <1>k, <2>1
  <2>3. Serves(p, q) /\ cos[q] # "AcceptedConnection"
    BY <2>1, <2>2 DEF Serves
  <2> QED BY <1>k, <2>2, <2>3 DEF LinkKept, Facing, q
<1>3. CASE Serves(q, p)'
  <2>1. /\ cos'[q] = "AcceptedConnection" /\ cos'[p] \in {"ConnectingToFriend", "Connected"}
        /\ accepted'[q] = mine'[p] /\ Up(mine[p]) /\ mine[p] # 0
    BY <1>3, <1>k, <1>u DEF Serves, Up
  <2>2. /\ accepted'[q] = accepted[q] /\ accepted[q] = mine[p] /\ cos[q] = "AcceptedConnection"
        /\ cos[p] \in {"ConnectingToFriend", "Connected"}
    BY <1>k, <2>1
  <2>3. Serves(q, p) /\ cos[p] # "AcceptedConnection"
    BY <2>1, <2>2 DEF Serves
  <2> QED BY <1>k, <2>2, <2>3 DEF LinkKept, Facing, q
<1> QED BY <1>1, <1>2, <1>3 DEF Facing, q

\* A client that lasts stays.
LEMMA LastsStays == \A i : Lasts(i) => Stays(i)
BY DEF Lasts, Stays

\* Who face each other after a step did so before, over the same link, unless the server of
\* one of them has just accepted the other.
LEMMA FacingStep ==
    ASSUME LinkTypes, LinkTypes', Control, Clients, [Next]_vars, NEW p \in Peer,
           Facing(p)', cos'[p] # "ConnectingToFriend"
    PROVE  \/ Facing(p) /\ LinkKept(p) /\ LinkKept(Other[p])
           \/ \E x \in {p, Other[p]} : Accept(x) /\ Welcomes(x)
<1> DEFINE q == Other[p]
<1>0. q \in Peer /\ q # p /\ Other[q] = p /\ \A x \in {p, q} : mine[x] # 0 => mine[x] \in Client
  BY Peers, Numbers
<1>s. cos'[p] \in LinkStatus /\ cos'[q] \in LinkStatus
  BY FacingAfter
<1> HIDE DEF q
<1>f. ASSUME \A x \in {p, q} :
              /\ \/ cos'[x] = cos[x]
                 \/ cos[x] = "ConnectingToFriend" /\ cos'[x] = "Connected"
              /\ mine'[x] = mine[x] /\ accepted'[x] \in {accepted[x], 0}
              /\ mine[x] # 0 => Stays(mine[x])
      PROVE  Facing(p) /\ LinkKept(p) /\ LinkKept(q)
  <2>1. Uses(p)
    BY <1>f DEF Uses
  <2>2. Uses(q)
    BY <1>f DEF Uses
  <2> QED BY <2>1, <2>2, FacingBefore DEF q
<1>1. CASE Quiet
  <2>1. ASSUME NEW x \in {p, q}
        PROVE  /\ cos'[x] = cos[x] /\ mine'[x] = mine[x] /\ accepted'[x] \in {accepted[x], 0}
               /\ mine[x] # 0 => Stays(mine[x])
    BY <1>0, <1>1, <1>s, LastsStays DEF Quiet
  <2> QED BY <1>f, <2>1 DEF q
<1>2. ASSUME NEW r \in Peer, WorkerConnected(r)
      PROVE  Facing(p) /\ LinkKept(p) /\ LinkKept(q)
  <2>1. /\ UNCHANGED <<cos, mine, accepted>> /\ client[mine[r]].udt = "Connecting"
        /\ \A j \in Client : /\ client'[j].target = client[j].target
                             /\ client'[j].broken = client[j].broken
                             /\ client'[j].udt = IF j = mine[r] THEN "Connected" ELSE client[j].udt
    BY <1>2, ConnectingKeepsClients DEF WorkerConnected
  <2>2. \A j \in Client : Stays(j)
    BY <2>1 DEF Stays
  <2> QED BY <1>0, <1>f, <2>1, <2>2
<1>3. ASSUME NEW r \in Peer, Connect(r) \/ ConnectAccept(r)
      PROVE  Facing(p) /\ LinkKept(p) /\ LinkKept(q)
  <2>1. /\ cos'[r] = "ConnectingToServer" /\ UNCHANGED accepted
        /\ \A j \in Client : j # made' => Lasts(j)
        /\ \A x \in Peer : /\ mine[x] # made'
                           /\ x # r => mine'[x] = mine[x] /\ cos'[x] = cos[x]
    BY <1>3, NewClients
  <2>2. r \notin {p, q}
    BY <1>s, <2>1 DEF LinkStatus
  <2> QED BY <1>0, <1>f, <2>1, <2>2, LastsStays
<1>4. ASSUME NEW r \in Peer, Accept(r), ~(r \in {p, q} /\ Welcomes(r))
      PROVE  Facing(p) /\ LinkKept(p) /\ LinkKept(q)
  <2>1. \A j \in Client : Lasts(j)
    BY <1>4, AcceptKeepsClients
  <2>2. UNCHANGED mine /\ \A x \in {p, q} : cos'[x] = cos[x] /\ accepted'[x] = accepted[x]
    <3>1. CASE Welcomes(r)
      <4>1. /\ \E i : accepted' = [accepted EXCEPT ![r] = i]
            /\ cos' = [cos EXCEPT ![r] = "AcceptedConnection"] /\ UNCHANGED mine
        BY <1>4, <3>1 DEF Accept, Welcomes
      <4> QED BY <1>0, <1>4, <3>1, <4>1 DEF LinkTypes
    <3>2. CASE ~Welcomes(r)
      BY <1>4, <3>2 DEF Accept, Welcomes
    <3> QED BY <3>1, <3>2
  <2> QED BY <1>0, <1>f, <2>1, <2>2, LastsStays
<1>5. ASSUME NEW r \in Peer, OnFriendConnected(r)
      PROVE  Facing(p) /\ LinkKept(p) /\ LinkKept(q)
  <2>1. /\ UNCHANGED <<client, mine, accepted>> /\ cos[r] = "ConnectingToFriend"
        /\ cos' = [cos EXCEPT ![r] = "Connected"]
    BY <1>5 DEF OnFriendConnected
  <2>2. \A x \in {p, q} : \/ cos'[x] = cos[x]
                          \/ cos[x] = "ConnectingToFriend" /\ cos'[x] = "Connected"
    BY <1>0, <2>1 DEF LinkTypes
  <2>3. \A j \in Client : Stays(j)
    BY <2>1 DEF Stays
  <2> QED BY <1>0, <1>f, <2>1, <2>2, <2>3
<1>6. ASSUME NEW r \in Peer, OnNatTraversal(r) \/ OnConnectTo(r)
      PROVE  Facing(p) /\ LinkKept(p) /\ LinkKept(q)
  <2>1. /\ mine[r] \in Client /\ client[mine[r]].target = <<"Server">> /\ mine[r] # 0
        /\ cos[r] = "WaitingFriendAddress" /\ UNCHANGED <<mine, accepted>>
        /\ \/ UNCHANGED <<client, cos>>
           \/ /\ UNCHANGED client /\ client[mine[r]].broken
              /\ cos' = [cos EXCEPT ![r] = "ConnectingToFriend"]
           \/ /\ \A j \in Client : j # mine[r] => client'[j] = client[j]
              /\ client'[mine[r]].udt = "Connecting"
              /\ cos' = [cos EXCEPT ![r] = "ConnectingToFriend"]
    BY <1>6, Reconnecting
  <2>2. CASE r \notin {p, q}
    <3>1. ASSUME NEW x \in {p, q} PROVE cos'[x] = cos[x] /\ mine[x] # mine[r]
      <4>1. x \in Peer /\ x # r
        BY <1>0, <2>2
      <4>2. cos'[x] = cos[x]
        BY <2>1, <4>1 DEF LinkTypes
      <4>3. mine[x] # mine[r]
        BY <2>1, <4>1 DEF Control
      <4> QED BY <4>2, <4>3
    <3>2. \A x \in {p, q} : mine[x] # 0 => client'[mine[x]] = client[mine[x]]
      BY <1>0, <2>1, <3>1
    <3>3. \A x \in {p, q} : mine[x] # 0 => Stays(mine[x])
      BY <3>2 DEF Stays
    <3> QED BY <1>0, <1>f, <2>1, <3>1, <3>3
  <2>3. CASE r \in {p, q}
    <3>1. cos' = [cos EXCEPT ![r] = "ConnectingToFriend"] /\ cos'[r] = "ConnectingToFriend"
      BY <1>s, <2>1, <2>3 DEF LinkStatus, LinkTypes
    <3>2. r = q /\ cos'[p] = cos[p]
      BY <1>0, <2>3, <3>1 DEF LinkTypes
    <3>3. Up(mine[r])'
      BY <1>0, <3>1, <3>2 DEF Facing, Traverse, Serves, q
    <3>4. ~(UNCHANGED client /\ client[mine[r]].broken)
      BY <2>1, <3>3 DEF Up
    <3>5. UNCHANGED <<client, cos>> => FALSE
      BY <2>1, <3>1
    <3>6. /\ \A j \in Client : j # mine[r] => client'[j] = client[j]
          /\ client'[mine[r]].udt = "Connecting"
      BY <2>1, <3>4, <3>5
    <3>7. mine[p] # 0 => mine[p] # mine[q] /\ client'[mine[p]] = client[mine[p]]
      <4>1. mine[p] # 0 => client[mine[p]].owner = p
        BY DEF Control
      <4>2. client[mine[q]].owner = q
        BY <1>0, <2>1, <3>2 DEF Control
      <4> QED BY <1>0, <3>2, <3>6, <4>1, <4>2
    <3>8. CASE Traverse(p, q)'
      <4>1. /\ mine[p] \in Client /\ cos[p] = "Connected" /\ mine[p] # 0
            /\ (PeerClient(mine[p]))' = mine[q] /\ client[mine[p]].udt # "Disconnected"
        BY <1>0, <2>1, <3>2, <3>7, <3>8 DEF Traverse, Up
      <4>2. client[mine[p]].udt = "Connected"
        <5>1. client[mine[p]].udt # "Connecting"
          BY <4>1 DEF Clients, ClientsOf
        <5>2. client[mine[p]].udt \in {"Disconnected", "Connecting", "Connected"}
          BY <4>1 DEF LinkTypes, ClientRecord
        <5> QED BY <4>1, <5>1, <5>2
      <4>3. client'[mine[p]].target = <<"Client", mine[q]>>
        <5>1. client'[mine[p]].target \in Target
          BY <4>1 DEF LinkTypes, ClientRecord
        <5>2. client'[mine[p]].target[1] = "Client" /\ client'[mine[p]].target[2] = mine[q]
          BY <2>1, <3>2, <4>1 DEF PeerClient
        <5> QED BY <5>1, <5>2 DEF Target
      <4>4. client[mine[p]].target = <<"Client", mine[q]>>
        BY <3>7, <4>1, <4>3
      <4>5. PeerClient(mine[p]) # 0
        BY <4>1, <4>2, <4>4 DEF Clients, Traversing
      <4>6. client[mine[q]].target = <<"Client", mine[p]>>
        BY <4>1, <4>4, <4>5 DEF PeerClient
      <4> QED BY <2>1, <3>2, <4>6
    <3>9. CASE Serves(p, q)'
      <4>1. accepted[p] = mine[q] /\ mine[q] # 0
        BY <2>1, <3>2, <3>9 DEF Serves
      <4>2. client[mine[q]].target[1] = "Port"
        BY <4>1 DEF Control
      <4> QED BY <2>1, <3>2, <4>2
    <3>10. CASE Serves(q, p)'
      BY <3>1, <3>2, <3>10 DEF Serves
    <3> QED BY <3>8, <3>9, <3>10 DEF Facing, q
  <2> QED BY <2>2, <2>3
<1> QED BY <1>1, <1>2, <1>3, <1>4, <1>5, <1>6, QuietSteps DEF Makes, q

\* Nothing is sent or read on links to friends: what is under way is what was, or is lost.
Spared ==
    \A j \in Client : \/ client'[j].broken \/ client[j].target = <<"Server">>
                      \/ up'[j] = up[j] /\ down'[j] = down[j]

\* The actions that send something to the friend.
Answers(p) == OnFriendConnected(p) \/ OnAccepted(p) \/ OnRandomSequence(p) \/ OnConfirm(p)

\* Only a worker that reads and a thread that sends change what is on a link in use.
LEMMA WireSteps ==
    ASSUME LinkTypes, Control, [Next]_vars
    PROVE  Spared \/ \E r \in Peer : WorkerReceives(r) \/ Answers(r)
<1> USE DEF linkVars, serverVars, authVars
<1>1. UNCHANGED <<up, down>> => Spared
  BY DEF Spared
<1>2. CASE UNCHANGED vars
  BY <1>1, <1>2 DEF vars
<1>3. ASSUME NEW p \in Peer, SyncInfo(p) \/ Connect(p) \/ KeepConnection(p) \/ ConnectAccept(p)
                               \/ WorkerConnected(p) \/ WorkerTimedOut(p)
                               \/ WorkerLost(p) \/ ServerLost(p) \/ ReportAccepted(p)
      PROVE  Spared
  <2>1. UNCHANGED <<up, down>>
    BY <1>3 DEF SyncInfo, Connect, KeepConnection, ConnectAccept, WorkerConnected,
       WorkerTimedOut, WorkerLost, ServerLost, ReportAccepted
  <2> QED BY <1>1, <2>1
<1>4. ASSUME NEW p \in Peer, Accept(p) PROVE Spared
  <2>1. CASE Welcomes(p)
    <3>1. UNCHANGED <<up, down>>
      BY <1>4, <2>1 DEF Accept, Welcomes
    <3> QED BY <1>1, <3>1
  <2>2. CASE ~Welcomes(p)
    <3>1. PICK i \in Client : /\ client' = [client EXCEPT ![i].broken = TRUE]
                              /\ up' = [up EXCEPT ![i] = <<>>] /\ down' = [down EXCEPT ![i] = <<>>]
      BY <1>4, <2>2 DEF Accept, Welcomes
    <3>2. client'[i].broken
      <4>1. \A r \in ClientRecord : [r EXCEPT !.broken = TRUE].broken
        BY DEF ClientRecord
      <4> QED BY <3>1, <4>1 DEF LinkTypes
    <3>3. \A j \in Client : j # i => up'[j] = up[j] /\ down'[j] = down[j]
      BY <3>1 DEF LinkTypes
    <3> QED BY <3>2, <3>3 DEF Spared
  <2> QED BY <2>1, <2>2
<1>5. ASSUME NEW i \in Client, LinkBreaks(i) PROVE Spared
  <2> DEFINE ends == {i, PeerClient(i)} \ {0}
  <2>1. \A j \in Client :
          /\ client'[j] = IF j \in ends THEN [client[j] EXCEPT !.broken = TRUE] ELSE client[j]
          /\ up'[j] = IF j \in ends THEN <<>> ELSE up[j]
          /\ down'[j] = IF j \in ends THEN <<>> ELSE down[j]
    BY <1>5 DEF LinkBreaks
  <2> HIDE DEF ends
  <2>2. \A r \in ClientRecord : [r EXCEPT !.broken = TRUE].broken
    BY DEF ClientRecord
  <2>3. ASSUME NEW j \in Client, j \in ends PROVE client'[j].broken
    <3>1. client[j] \in ClientRecord /\ client'[j] = [client[j] EXCEPT !.broken = TRUE]
      BY <2>1, <2>3 DEF LinkTypes
    <3> QED BY <2>2, <3>1
  <2> QED BY <2>1, <2>3 DEF Spared
<1>6. ASSUME NEW i \in Client, HandleRequest(i) PROVE Spared
  <2>1. up' = [up EXCEPT ![i] = Tail(@)] /\ client[i].target = <<"Server">>
    BY <1>6 DEF HandleRequest, HandleHello, HandleHelp, HandleAccepting, Requested
  <2>2. ASSUME NEW j \in Client, client[j].target # <<"Server">>
        PROVE  up'[j] = up[j] /\ down'[j] = down[j]
    <3>1. up'[j] = up[j] /\ j # i
      BY <2>1, <2>2 DEF LinkTypes
    <3>2. down'[j] = down[j]
      <4>1. CASE HandleHello(i)
        BY <3>1, <4>1 DEF HandleHello, LinkTypes
      <4>2. CASE HandleHelp(i)
        <5>1. UNCHANGED down \/ \E e : down' = [down EXCEPT ![i] = e]
          BY <4>2 DEF HandleHelp
        <5> QED BY <3>1, <5>1 DEF LinkTypes
      <4>3. CASE HandleAccepting(i)
        BY <2>2, <3>1, <4>3 DEF HandleAccepting, AtServer
      <4> QED BY <1>6, <4>1, <4>2, <4>3 DEF HandleRequest
    <3> QED BY <3>1, <3>2
  <2> QED BY <2>2 DEF Spared
<1>d. ASSUME NEW p \in Peer, Dies(p) PROVE Spared
  <2> DEFINE ends == ({mine[p], accepted[p]} \cup {PeerClient(i) : i \in {mine[p]} \ {0}}) \ {0}
  <2>1. \A j \in Client : client'[j].broken \/ j \notin ends
    BY <1>d, DyingLasts
  <2>2. \A j \in Client : j \notin ends => up'[j] = up[j] /\ down'[j] = down[j]
    BY <1>d DEF Dies
  <2> QED BY <2>1, <2>2 DEF Spared
<1>7. ASSUME NEW p \in Peer, HandleEvent(p) PROVE Spared \/ Answers(p)
  <2>1. CASE OnConnectionFailed(p) \/ OnConnectedLate(p) \/ OnServerLost(p) \/ OnFriendOffline(p)
             \/ OnListen(p) \/ OnAuthorized(p) \/ DropPacket(p)
    <3>1. UNCHANGED <<up, down>>
      BY <2>1 DEF OnConnectionFailed, OnConnectedLate, OnServerLost, OnFriendOffline, OnListen,
         OnAuthorized, DropPacket
    <3> QED BY <1>1, <3>1
  <2>2. CASE OnServerConnected(p)
    <3>1. cos[p] = "ConnectingToServer" /\ SendRaw(p, [type |-> "Hello"])
      BY <2>2 DEF OnServerConnected
    <3>2. down' = down /\ \A j \in Client : client[j].target # <<"Server">> => up'[j] = up[j]
      BY <3>1, Packets, SendsRequest
    <3> QED BY <3>2 DEF Spared
  <2>3. CASE OnChallenge(p)
    <3>1. CASE UNCHANGED <<up, down>>
      BY <1>1, <3>1
    <3>2. CASE SendRaw(p, [type |-> "Help", accepting |-> accepting[p], port |-> port[p],
                           challenge |-> Packet(p).challenge])
      <4>1. cos[p] = "ConnectingToServer" /\ accepting[p] \in BOOLEAN /\ port[p] \in Port
        BY <2>3 DEF OnChallenge, LinkTypes
      <4>2. Packet(p).challenge \in Client
        <5>1. /\ NextEvent(p, "Data") /\ PopEvent(p) /\ Packet(p) = Head(events[p]).packet
              /\ Packet(p).type = "Challenge"
          BY <2>3 DEF OnChallenge, NextPacket, Packet
        <5>2. Head(events[p]) \in Event /\ Head(events[p]).type = "Data"
          BY <5>1, EventTaken
        <5> QED BY <5>1, <5>2, Contents
      <4>3. down' = down /\ \A j \in Client : client[j].target # <<"Server">> => up'[j] = up[j]
        BY <3>2, <4>1, <4>2, Packets, SendsRequest
      <4> QED BY <4>3 DEF Spared
    <3> QED BY <2>3, <3>1, <3>2 DEF OnChallenge
  <2>4. CASE OnConnectedDies(p)
    BY <1>d, <2>4 DEF OnConnectedDies
  <2>5. CASE OnNatTraversal(p) \/ OnConnectTo(p)
    <3>1. /\ client[mine[p]].target = <<"Server">>
          /\ \A j \in Client : j # mine[p] => up'[j] = up[j] /\ down'[j] = down[j]
      BY <2>5, Reconnecting
    <3> QED BY <3>1 DEF Spared
  <2> QED BY <1>7, <2>1, <2>2, <2>3, <2>4, <2>5 DEF HandleEvent, Answers
<1>8. ASSUME NEW p \in Peer, HandleMain(p) PROVE Spared
  BY <1>3, <1>8, <1>d DEF HandleMain, ConnectDies
<1> QED BY <1>2, <1>3, <1>4, <1>5, <1>6, <1>7, <1>8 DEF Next, EventThread, Worker, Connections, Server

\* A link that two who face each other use is not broken.
LEMMA EndsUp ==
    LinkTypes /\ Control /\ Clients => \A x \in Peer : Facing(x) => ~client[End(x)].broken
BY Ends

LEMMA EndsAfter ==
    ASSUME LinkTypes', Control', Clients', NEW p \in Peer, Facing(p)', LinkKept(p)
    PROVE  ~client'[End(p)].broken
<1>1. (LinkTypes /\ Control /\ Clients => \A x \in Peer : Facing(x) => ~client[End(x)].broken)'
  BY EndsUp, PTL
<1>2. ~client'[End(p)'].broken
  BY <1>1
<1>3. (cos'[p] = "AcceptedConnection") = (cos[p] = "AcceptedConnection")
  BY DEF LinkKept
<1>4. End(p)' = End(p)
  BY <1>3 DEF LinkKept, End
<1> QED BY <1>2, <1>4

\* A link in use keeps what is on it in the other steps.
LEMMA SparedWire ==
    ASSUME LinkTypes, LinkTypes', Control, Control', Clients, Clients', NEW p \in Peer,
           Facing(p), Facing(p)', LinkKept(p), Spared
    PROVE  Wire(p)' = Wire(p)
<1>1. End(p) \in Client /\ client[End(p)].target # <<"Server">>
  BY Ends
<1>2. ~client'[End(p)].broken
  BY EndsAfter
<1>3. up'[End(p)] = up[End(p)] /\ down'[End(p)] = down[End(p)]
  BY <1>1, <1>2 DEF Spared
<1> QED BY <1>3, WireAfter DEF End, Wire

\* Only p reads what comes to it, and the friend reads its own.
LEMMA OtherReads ==
    ASSUME LinkTypes, Control, Clients, NEW p \in Peer, Facing(p), LinkKept(p),
           NEW r \in Peer, r # p, WorkerReceives(r),
           r = Other[p] => "Stray" \notin incidents'
    PROVE  Wire(p)' = Wire(p)
<1> DEFINE q == Other[p]
<1>0. /\ q \in Peer /\ q # p /\ Other[q] = p /\ Other[p] = q
      /\ \A x \in Peer : mine[x] # 0 => mine[x] \in Client /\ client[mine[x]].owner = x
      /\ accepted[r] # 0 => accepted[r] \in Client /\ Other[client[accepted[r]].owner] = r
      /\ cos[p] = "AcceptedConnection" => accepted[p] = mine[q] /\ mine[q] \in Client
                                          /\ cos[q] # "AcceptedConnection"
      /\ cos[p] # "AcceptedConnection" => mine[p] # 0
  <2>1. End(p) \in Client /\ (cos[p] = "AcceptedConnection" => End(p) = accepted[p])
    BY Ends DEF End
  <2> QED BY <2>1, Ends, Peers, Numbers DEF Control, Clients, ClientsOf
<1>00. 0 \notin Client
  BY Targets
<1> HIDE DEF q
<1>1. PICK i \in {mine[r], accepted[r]} \ {0} :
        \/ i = mine[r] /\ down' = [down EXCEPT ![i] = Tail(@)] /\ UNCHANGED up
        \/ i = accepted[r] /\ up' = [up EXCEPT ![i] = Tail(@)] /\ UNCHANGED down
  BY DEF WorkerReceives
<1>t. up \in [Client -> Seq(AnyPacket)] /\ down \in [Client -> Seq(Answer)]
  BY DEF LinkTypes, AnyPacket, Answer
<1>2. CASE cos[p] = "AcceptedConnection"
  <2>1. mine[q] # accepted[r] \/ accepted[r] = 0
    BY <1>0, <1>00, <1>2
  <2>2. up'[mine[q]] = up[mine[q]]
    BY <1>0, <1>1, <1>2, <1>t, <2>1
  <2> QED BY <1>0, <1>2, <2>2, WireAfter DEF Wire
<1>3. CASE cos[p] # "AcceptedConnection"
  <2>1. mine[p] # mine[r]
    BY <1>0, <1>3
  <2>2. down'[mine[p]] = down[mine[p]]
    BY <1>0, <1>1, <1>3, <1>t, <2>1
  <2> QED BY <1>0, <1>3, <2>2, WireAfter DEF Wire
<1> QED BY <1>2, <1>3

\* p reads the first packet of its own link.
LEMMA OwnReads ==
    ASSUME LinkTypes, Control, Clients, NEW p \in Peer, Facing(p), LinkKept(p),
           WorkerReceives(p), "Stray" \notin incidents'
    PROVE  /\ Wire(p) # <<>> /\ Wire(p)' = Tail(Wire(p))
           /\ events'[p] = Append(events[p], [type |-> "Data", packet |-> Head(Wire(p))])
           /\ unreported[p] /\ Head(Wire(p)).type = "Authorized" => "Late" \in incidents'
           /\ cos[p] # "AcceptedConnection" => client[mine[p]].udt = "Connected"
           /\ incidents \subseteq incidents'
<1>0. /\ mine[p] # 0 => mine[p] \in Client
      /\ accepted[p] # 0 => accepted[p] \in Client
      /\ mine[p] # 0 /\ cos[p] = "AcceptedConnection" => client[mine[p]].udt = "Disconnected"
  BY Numbers DEF Clients, ClientsOf
<1>1. PICK i \in {mine[p], accepted[p]} \ {0} :
        /\ \/ /\ i = mine[p] /\ client[i].udt = "Connected" /\ down[i] # <<>>
              /\ Queued(p, [type |-> "Data", packet |-> Head(down[i])])
              /\ down' = [down EXCEPT ![i] = Tail(@)] /\ UNCHANGED up
           \/ /\ i = accepted[p] /\ up[i] # <<>>
              /\ Queued(p, [type |-> "Data", packet |-> Head(up[i])])
              /\ up' = [up EXCEPT ![i] = Tail(@)] /\ UNCHANGED down
        /\ incidents' = incidents \cup
             (IF unreported[p] /\ Head(IF up' # up THEN up[i] ELSE down[i]).type = "Authorized"
              THEN {"Late"} ELSE {})
             \cup (IF up' # up /\ cos[p] # "AcceptedConnection" THEN {"Stray"} ELSE {})
  BY DEF WorkerReceives
<1>2. CASE /\ i = mine[p] /\ client[i].udt = "Connected" /\ down[i] # <<>>
           /\ Queued(p, [type |-> "Data", packet |-> Head(down[i])])
           /\ down' = [down EXCEPT ![i] = Tail(@)] /\ UNCHANGED up
  <2>1. cos[p] # "AcceptedConnection" /\ i \in Client
    BY <1>0, <1>1, <1>2
  <2>2. Wire(p) = down[i] /\ Wire(p)' = Tail(down[i])
    BY <1>2, <2>1, WireAfter DEF Wire, LinkTypes
  <2>3. events'[p] = Append(events[p], [type |-> "Data", packet |-> Head(down[i])])
    BY <1>2 DEF Queued, LinkTypes
  <2> QED BY <1>1, <1>2, <2>1, <2>2, <2>3
<1>3. CASE /\ i = accepted[p] /\ up[i] # <<>>
           /\ Queued(p, [type |-> "Data", packet |-> Head(up[i])])
           /\ up' = [up EXCEPT ![i] = Tail(@)] /\ UNCHANGED down
  <2>1. i \in Client
    BY <1>0, <1>1, <1>3
  <2>2. up'[i] = Tail(up[i]) /\ up'[i] # up[i]
    <3>1. up[i] \in Seq(Request \cup FriendPacket) /\ up'[i] = Tail(up[i])
      BY <1>3, <2>1 DEF LinkTypes
    <3>2. Len(Tail(up[i])) = Len(up[i]) - 1 /\ Len(up[i]) \in Nat
      BY <1>3, <3>1, RestOf
    <3>3. Len(Tail(up[i])) # Len(up[i])
      BY <3>2
    <3> QED BY <3>1, <3>3, Zenon
  <2>3. up' # up /\ cos[p] = "AcceptedConnection"
    BY <1>1, <2>2
  <2>4. Wire(p) = up[i] /\ Wire(p)' = Tail(up[i])
    BY <1>3, <2>2, <2>3, WireAfter DEF Wire
  <2>5. events'[p] = Append(events[p], [type |-> "Data", packet |-> Head(up[i])])
    BY <1>3 DEF Queued, LinkTypes
  <2> QED BY <1>1, <1>3, <2>3, <2>4, <2>5
<1> QED BY <1>1, <1>2, <1>3

-----------------------------------------------------------------------------
(* The exchange of keys *)

Pending(p) == unreported[p] \/ \E n \in 1..Len(events[p]) : events[p][n].type = "Accepted"

\* The friend will answer the last random sequence of p.
AskedOf(p) ==
    Asked(In(Other[p]), Coming(Other[p]), Queue(Other[p]), random[p],
          cos[Other[p]] = "ConnectingToFriend")

\* The answer will come to p.
AnsweredTo(p) == Confirmed(In(p), Coming(p), random[p], selfKey[Other[p]])

\* The friend knows or will learn that p has its key.
ToldOf(p) ==
    "Late" \notin incidents =>
        \/ selfAuthorized[Other[p]] /\ ~Pending(Other[p])
        \/ Told(In(Other[p]), Coming(Other[p]), Queue(Other[p]), selfKey[Other[p]],
                unreported[Other[p]])

\* How far the friend has answered p.
Exchange(p) ==
    \/ AskedOf(p)
    \/ /\ NoRandom(In(Other[p]), Coming(Other[p])) /\ cos[Other[p]] # "ConnectingToFriend"
       /\ \/ AnsweredTo(p)
          \/ /\ NoConfirm(In(p), Coming(p), random[p])
             /\ friendKey[p] = selfKey[Other[p]] /\ friendAuthorized[p]
             /\ ToldOf(p)

\* What p keeps to itself.
Rests(p) ==
    /\ events'[p] = events[p] /\ unreported'[p] = unreported[p] /\ cos'[p] = cos[p]
    /\ random'[p] = random[p] /\ selfKey'[p] = selfKey[p] /\ friendKey'[p] = friendKey[p]
    /\ selfAuthorized'[p] = selfAuthorized[p] /\ friendAuthorized'[p] = friendAuthorized[p]
    /\ status'[p] = status[p]

StepOf(p) == \/ SyncInfo(p) \/ HandleMain(p) \/ HandleEvent(p) \/ WorkerConnected(p)
             \/ WorkerReceives(p) \/ WorkerLost(p) \/ ServerLost(p) \/ WorkerTimedOut(p)
             \/ Connections(p)
StepElsewhere == Server \/ (\E i \in Client : LinkBreaks(i)) \/ UNCHANGED vars

\* Incidents are not forgotten.
LEMMA Grows ==
    ASSUME [Next]_vars
    PROVE  incidents \subseteq incidents'
<1> USE DEF linkVars, serverVars, authVars
<1>1. CASE UNCHANGED vars
  BY <1>1 DEF vars
<1>2. ASSUME NEW p \in Peer, SyncInfo(p) \/ HandleMain(p) \/ Worker(p) \/ WorkerTimedOut(p)
                               \/ Connections(p)
      PROVE  incidents \subseteq incidents'
  BY <1>2 DEF SyncInfo, OnlyServer, HandleMain, Connect, KeepConnection, ConnectAccept, ConnectDies,
     Worker,
     WorkerConnected, WorkerReceives, WorkerLost, ServerLost, WorkerTimedOut, Connections, Accept,
     ReportAccepted
<1>3. ASSUME NEW i \in Client, HandleRequest(i) \/ LinkBreaks(i)
      PROVE  incidents \subseteq incidents'
  BY <1>3 DEF HandleRequest, HandleHello, HandleHelp, HandleAccepting, Requested, OnlyServer,
     LinkBreaks
<1>4. ASSUME NEW p \in Peer, HandleEvent(p)
      PROVE  incidents \subseteq incidents'
  BY <1>4 DEF HandleEvent, OnConnectionFailed, OnServerConnected, OnFriendConnected, OnAccepted,
     OnConnectedDies, Dies, OnConnectedLate, OnServerLost, OnChallenge, OnFriendOffline,
     OnNatTraversal, OnConnectTo, Reconnect, OnListen, StopServer, OnRandomSequence, OnConfirm,
     OnAuthorized, DropPacket, FriendData
<1> QED BY <1>1, <1>2, <1>3, <1>4 DEF Next, EventThread, Server

\* A step of r leaves the rest of the other friend alone.
LEMMA OthersRest ==
    ASSUME LinkTypes, NEW r \in Peer, StepOf(r), NEW x \in Peer, x # r
    PROVE  Rests(x)
<1>0. /\ events \in [Peer -> Seq(Event)] /\ unreported \in [Peer -> BOOLEAN]
      /\ cos \in [Peer -> ConnectionStatus] /\ status \in [Peer -> {"Offline", "Available"}]
      /\ random \in [Peer -> Nat] /\ selfKey \in [Peer -> Nat] /\ friendKey \in [Peer -> Nat]
      /\ selfAuthorized \in [Peer -> BOOLEAN] /\ friendAuthorized \in [Peer -> BOOLEAN]
  BY DEF LinkTypes
<1> USE DEF linkVars, serverVars, authVars, Rests
<1>1. CASE SyncInfo(r) \/ KeepConnection(r)
  BY <1>0, <1>1 DEF SyncInfo, OnlyServer, KeepConnection
<1>2. CASE Connect(r) \/ ConnectAccept(r)
  BY <1>0, <1>2 DEF Connect, ConnectAccept, NewClient
<1>3. CASE WorkerConnected(r) \/ WorkerReceives(r) \/ ServerLost(r) \/ ReportAccepted(r)
  BY <1>0, <1>3 DEF WorkerConnected, WorkerReceives, ServerLost, ReportAccepted, Queued
<1>4. CASE WorkerLost(r) \/ WorkerTimedOut(r)
  <2>1. CASE WorkerLost(r)
    BY <1>0, <2>1 DEF WorkerLost, OnDisconnected
  <2>2. CASE WorkerTimedOut(r)
    BY <1>0, <2>2 DEF WorkerTimedOut, OnDisconnected, Queued
  <2> QED BY <1>4, <2>1, <2>2
<1>5. CASE Accept(r)
  BY <1>0, <1>5 DEF Accept
<1>d. Dies(r) => Rests(x)
  BY <1>0 DEF Dies
<1>6. CASE HandleEvent(r)
  <2>1. CASE OnConnectionFailed(r) \/ OnServerConnected(r) \/ OnConnectedLate(r) \/ DropPacket(r)
    BY <1>0, <2>1 DEF OnConnectionFailed, OnServerConnected, OnConnectedLate, DropPacket, PopEvent
  <2>2. CASE OnFriendConnected(r) \/ OnAccepted(r)
    BY <1>0, <2>2 DEF OnFriendConnected, OnAccepted, OnConnectionEstablished, PopEvent
  <2>3. CASE OnConnectedDies(r)
    BY <1>d, <2>3 DEF OnConnectedDies
  <2>4. CASE OnServerLost(r) \/ OnFriendOffline(r)
    BY <1>0, <2>4 DEF OnServerLost, OnFriendOffline, OnDisconnected, HelpPacket, PopEvent
  <2>5. CASE OnChallenge(r) \/ OnListen(r)
    BY <1>0, <2>5 DEF OnChallenge, OnListen, HelpPacket, PopEvent
  <2>6. CASE OnNatTraversal(r) \/ OnConnectTo(r)
    BY <1>0, <2>6 DEF OnNatTraversal, OnConnectTo, Reconnect, HelpPacket, PopEvent
  <2>7. CASE OnRandomSequence(r) \/ OnConfirm(r) \/ OnAuthorized(r)
    BY <1>0, <2>7 DEF OnRandomSequence, OnConfirm, OnAuthorized, FriendData,
       UpdateOnlineStatus, PopEvent
  <2> QED BY <1>6, <2>1, <2>2, <2>3, <2>4, <2>5, <2>6, <2>7 DEF HandleEvent
<1>7. CASE ConnectDies(r)
  BY <1>7, <1>d DEF ConnectDies
<1> QED BY <1>1, <1>2, <1>3, <1>4, <1>5, <1>6, <1>7 DEF StepOf, HandleMain, Connections

\* So do the steps of the server and of the network, of both.
LEMMA ElsewhereRests ==
    ASSUME StepElsewhere, NEW x \in Peer
    PROVE  Rests(x)
BY DEF StepElsewhere, Server, HandleRequest, HandleHello, HandleHelp, HandleAccepting, Requested,
   OnlyServer, LinkBreaks, vars, authVars, Rests

LEMMA StepsOf == Next => (\E r \in Peer : StepOf(r)) \/ StepElsewhere
BY DEF Next, StepOf, StepElsewhere, EventThread, Worker

\* The exchange stays as it is when nothing is taken, said or forgotten.
LEMMA Untouched ==
    ASSUME LinkTypes, NEW p \in Peer, Rests(p), Rests(Other[p]), Wire(p)' = Wire(p),
           Wire(Other[p])' = Wire(Other[p]), incidents \subseteq incidents', Exchange(p)
    PROVE  Exchange(p)'
<1> DEFINE q == Other[p]
<1>0. q \in Peer
  BY Peers
<1>1. /\ In(p)' = In(p) /\ Coming(p)' = Coming(p)
      /\ In(q)' = In(q) /\ Coming(q)' = Coming(q) /\ Queue(q)' = Queue(q)
  BY <1>0, FlowSame DEF Rests
<1>2. AskedOf(p)' = AskedOf(p)
  BY <1>1 DEF AskedOf, Rests
<1>3. AnsweredTo(p)' = AnsweredTo(p)
  BY <1>1 DEF AnsweredTo, Rests
<1>4. ToldOf(p) => ToldOf(p)'
  BY <1>1 DEF ToldOf, Pending, Rests
<1> QED BY <1>1, <1>2, <1>3, <1>4 DEF Exchange, Rests

\* News of an acceptance stays queued until it is taken.
LEMMA PendingSteps ==
    ASSUME LinkTypes, NEW p \in Peer
    PROVE  /\ \A e : events'[p] = Append(events[p], e) =>
                /\ ~Pending(p) /\ e.type # "Accepted" /\ unreported'[p] = unreported[p]
                     => ~Pending(p)'
                /\ Pending(p) /\ (unreported'[p] = unreported[p] \/ e.type = "Accepted")
                     => Pending(p)'
                /\ e.type = "Accepted" => Pending(p)'
           /\ events[p] # <<>> /\ events'[p] = Tail(events[p]) /\ unreported'[p] = unreported[p] =>
                /\ ~Pending(p) => ~Pending(p)'
                /\ Pending(p) /\ Head(events[p]).type # "Accepted" => Pending(p)'
<1>1. events[p] \in Seq(Event) /\ Len(events[p]) \in Nat
  BY DEF LinkTypes
<1>2. ASSUME NEW e, events'[p] = Append(events[p], e)
      PROVE  /\ ~Pending(p) /\ e.type # "Accepted" /\ unreported'[p] = unreported[p] => ~Pending(p)'
             /\ Pending(p) /\ (unreported'[p] = unreported[p] \/ e.type = "Accepted") => Pending(p)'
             /\ e.type = "Accepted" => Pending(p)'
  <2>1. /\ Len(events'[p]) = Len(events[p]) + 1 /\ events'[p][Len(events[p]) + 1] = e
        /\ \A n \in 1..Len(events[p]) : events'[p][n] = events[p][n]
    BY <1>1, <1>2, AppendedTo
  <2>2. \A n \in 1..Len(events'[p]) : n \in 1..Len(events[p]) \/ n = Len(events[p]) + 1
    BY <1>1, <2>1
  <2>3. /\ Len(events[p]) + 1 \in 1..Len(events'[p])
        /\ \A n \in 1..Len(events[p]) : n \in 1..Len(events'[p])
    BY <1>1, <2>1
  <2> QED BY <2>1, <2>2, <2>3 DEF Pending
<1>3. ASSUME events[p] # <<>>, events'[p] = Tail(events[p]), unreported'[p] = unreported[p]
      PROVE  /\ ~Pending(p) => ~Pending(p)'
             /\ Pending(p) /\ Head(events[p]).type # "Accepted" => Pending(p)'
  <2>1. /\ Head(events[p]) = events[p][1] /\ Len(events'[p]) = Len(events[p]) - 1
        /\ \A n \in 1..Len(events[p]) - 1 : events'[p][n] = events[p][n + 1]
    BY <1>1, <1>3, RestOf
  <2>2. \A n \in 1..Len(events'[p]) :
           n + 1 \in 1..Len(events[p]) /\ events'[p][n] = events[p][n + 1]
    BY <1>1, <2>1
  <2>3. ~Pending(p) => ~Pending(p)'
    BY <1>3, <2>2 DEF Pending
  <2>4. ASSUME Head(events[p]).type # "Accepted",
               NEW n \in 1..Len(events[p]), events[p][n].type = "Accepted"
        PROVE  \E m \in 1..Len(events'[p]) : events'[p][m].type = "Accepted"
    <3>1. n # 1
      BY <2>1, <2>4
    <3>2. n - 1 \in 1..Len(events'[p]) /\ (n - 1) + 1 = n
      BY <1>1, <2>1, <3>1
    <3>3. events'[p][n - 1] = events[p][n]
      BY <2>2, <3>2
    <3> QED BY <2>4, <3>2, <3>3
  <2>5. Pending(p) /\ Head(events[p]).type # "Accepted" => Pending(p)'
    BY <1>3, <2>4 DEF Pending
  <2> QED BY <2>3, <2>5
<1> QED BY <1>2, <1>3

\* An event of the worker or of the connections thread of the friend.
LEMMA FriendHasEvent ==
    ASSUME LinkTypes, LinkTypes', Control, Clients, NEW p \in Peer, NEW q, q = Other[p], Facing(p),
           Exchange(p), Rests(p), Wire(p)' = Wire(p), Wire(q)' = Wire(q),
           incidents \subseteq incidents',
           NEW e, events'[q] = Append(events[q], e), e.type \in {"Connected", "Lost", "Accepted"},
           cos'[q] = cos[q], selfKey'[q] = selfKey[q], selfAuthorized'[q] = selfAuthorized[q],
           IF e.type = "Accepted" THEN unreported[q] ELSE unreported'[q] = unreported[q],
           unreported'[q] => unreported[q]
    PROVE  Exchange(p)'
<1>0. q \in Peer /\ unreported[q] \in BOOLEAN /\ unreported'[q] \in BOOLEAN
  BY Peers DEF LinkTypes
<1>1. In(p)' = In(p) /\ Coming(p)' = Coming(p)
  BY FlowSame DEF Rests
<1>2. Wire(q) \in Seq(AnyPacket \cup Answer) /\ Facing(q)
  BY <1>0, Ends, Peers
<1>3. /\ Queue(q) \in Nat /\ Coming(q) \in Nat /\ Queue(q) <= Coming(q)
      /\ Puts(In(q), Coming(q), In(q)', Coming(q)', Queue(q), e)
      /\ PutAt(Coming(q), Queue(q), Queue(q)', Queue(q))
  <2>1. Content(e) = e
    BY DEF Content
  <2> QED BY <1>0, <1>2, <2>1, Lengths, FlowInserts
<1> HIDE DEF Puts, PutAt
<1>4. /\ NoRandom(In(q), Coming(q)) => NoRandom(In(q)', Coming(q)')
      /\ \A c \in BOOLEAN : Asked(In(q), Coming(q), Queue(q), random[p], c) =>
                              Asked(In(q)', Coming(q)', Queue(q)', random[p], c)
  <2>1. e.type # "RandomSequence"
    OBVIOUS
  <2>2. NoRandom(In(q), Coming(q)) => NoRandom(In(q)', Coming(q)')
    BY <1>3, <2>1, PutsNoRandom
  <2>3. ASSUME NEW c \in BOOLEAN, Asked(In(q), Coming(q), Queue(q), random[p], c)
        PROVE  Asked(In(q)', Coming(q)', Queue(q)', random[p], c)
    BY <1>3, <2>1, <2>3, PutsAsked
  <2> QED BY <2>2, <2>3
<1>5. AskedOf(p) => AskedOf(p)'
  <2>1. AskedOf(p) = Asked(In(q), Coming(q), Queue(q), random[p], cos[q] = "ConnectingToFriend")
    BY DEF AskedOf
  <2>2. AskedOf(p)' = Asked(In(q)', Coming(q)', Queue(q)', random[p], cos[q] = "ConnectingToFriend")
    BY DEF AskedOf, Rests
  <2>3. (cos[q] = "ConnectingToFriend") \in BOOLEAN
    OBVIOUS
  <2> QED BY <1>4, <2>1, <2>2, <2>3
<1>6. AnsweredTo(p)' = AnsweredTo(p)
  BY <1>1 DEF AnsweredTo, Rests
<1>7. NoConfirm(In(p), Coming(p), random[p])' = NoConfirm(In(p), Coming(p), random[p])
  BY <1>1 DEF Rests
<1>8. ToldOf(p) => ToldOf(p)'
  <2>1. Told(In(q), Coming(q), Queue(q), selfKey[q], unreported[q]) =>
          Told(In(q)', Coming(q)', Queue(q)', selfKey[q], unreported'[q])
    BY <1>0, <1>3, PutsTold
  <2>2. ~Pending(q) => ~Pending(q)'
    <3>1. ~Pending(q) => e.type # "Accepted" /\ unreported'[q] = unreported[q]
      BY DEF Pending
    <3> QED BY <1>0, <3>1, PendingSteps
  <2> QED BY <2>1, <2>2 DEF ToldOf
<1> QED BY <1>4, <1>5, <1>6, <1>7, <1>8 DEF Exchange, Rests

\* One of p itself.
LEMMA SelfHasEvent ==
    ASSUME LinkTypes, LinkTypes', Control, Clients, NEW p \in Peer, NEW q, q = Other[p], Facing(p),
           Exchange(p), Rests(q), Wire(p)' = Wire(p), Wire(q)' = Wire(q),
           incidents \subseteq incidents',
           NEW e, events'[p] = Append(events[p], e), e.type \in {"Connected", "Lost", "Accepted"},
           random'[p] = random[p], friendKey'[p] = friendKey[p],
           friendAuthorized'[p] = friendAuthorized[p]
    PROVE  Exchange(p)'
<1>0. q \in Peer
  BY Peers
<1>1. In(q)' = In(q) /\ Coming(q)' = Coming(q) /\ Queue(q)' = Queue(q)
  BY <1>0, FlowSame DEF Rests
<1>2. Wire(p) \in Seq(AnyPacket \cup Answer)
  BY Ends
<1>3. /\ Queue(p) \in Nat /\ Coming(p) \in Nat /\ Queue(p) <= Coming(p)
      /\ Puts(In(p), Coming(p), In(p)', Coming(p)', Queue(p), e)
      /\ PutAt(Coming(p), Queue(p), Queue(p)', Queue(p))
  <2>1. Content(e) = e
    BY DEF Content
  <2> QED BY <1>2, <2>1, Lengths, FlowInserts
<1>4. AskedOf(p)' = AskedOf(p)
  BY <1>1 DEF AskedOf, Rests
<1>5. /\ NoConfirm(In(p), Coming(p), random[p]) => NoConfirm(In(p), Coming(p), random[p])'
      /\ AnsweredTo(p) => AnsweredTo(p)'
  <2>1. ~Confirms(e, random[p])
    BY DEF Confirms
  <2>2. /\ NoConfirm(In(p), Coming(p), random[p]) => NoConfirm(In(p)', Coming(p)', random[p])
        /\ Confirmed(In(p), Coming(p), random[p], selfKey[q]) =>
             Confirmed(In(p)', Coming(p)', random[p], selfKey[q])
    BY <1>3, <2>1, PutsConfirm
  <2> QED BY <2>2 DEF AnsweredTo, Rests
<1>6. ToldOf(p) => ToldOf(p)'
  BY <1>1 DEF ToldOf, Pending, Rests
<1> QED BY <1>1, <1>4, <1>5, <1>6 DEF Exchange, Rests

\* Reading keeps a question, and an authorization that is not read too soon.
LEMMA ReadsAsked ==
    ASSUME NEW s, NEW l \in Nat, NEW k \in Nat, NEW t, NEW m, NEW h, Reads(s, l, k, t, m, h),
           NEW r, NEW c \in BOOLEAN, Asked(s, l, k, r, c),
           c => \E i \in 1..k : s[i].type = "Connected" /\ s[i].success
    PROVE  Asked(t, m, h, r, c)
<1>1. \A key : \A d \in BOOLEAN :
         Asked(s, l, k, r, d) /\ (d => \E i \in 1..k : s[i].type = "Connected" /\ s[i].success)
           => Asked(t, m, h, r, d)
  BY ReadsKeeps
<1> QED BY <1>1

LEMMA ReadsTold ==
    ASSUME NEW s, NEW l \in Nat, NEW k \in Nat, NEW t, NEW m, NEW h, Reads(s, l, k, t, m, h),
           NEW key, NEW u \in BOOLEAN, Told(s, l, k, key, u),
           ~(u /\ s[k + 1].type = "Authorized")
    PROVE  Told(t, m, h, key, u)
<1>1. \A r : \A d \in BOOLEAN :
         Told(s, l, k, key, d) /\ ~(d /\ s[k + 1].type = "Authorized") => Told(t, m, h, key, d)
  BY ReadsKeeps
<1> QED BY <1>1

\* The news of a connection is the friend's to take.
LEMMA NewsComing ==
    ASSUME LinkTypes, NEW p \in Peer, NEW S, Wire(p) \in Seq(S), News(p)
    PROVE  \E i \in 1..Queue(p) : In(p)[i].type = "Connected" /\ In(p)[i].success
<1>1. PICK n \in 1..Len(events[p]) : events[p][n].type = "Connected" /\ events[p][n].success
  BY DEF News
<1>2. n \in 1..Queue(p) /\ In(p)[n] = Content(events[p][n])
  BY Lengths DEF Queue
<1>3. Content(events[p][n]) = events[p][n]
  BY <1>1 DEF Content
<1> QED BY <1>1, <1>2, <1>3

\* The friend reads what p has sent.
LEMMA FriendReads ==
    ASSUME LinkTypes, LinkTypes', Control, Clients, NEW p \in Peer, NEW q, q = Other[p], Facing(p),
           Exchange(p), Rests(p), Wire(p)' = Wire(p), Wire(q) # <<>>, Wire(q)' = Tail(Wire(q)),
           incidents \subseteq incidents',
           events'[q] = Append(events[q], [type |-> "Data", packet |-> Head(Wire(q))]),
           unreported[q] /\ Head(Wire(q)).type = "Authorized" => "Late" \in incidents',
           cos[q] = "ConnectingToFriend" => News(q),
           cos'[q] = cos[q], selfKey'[q] = selfKey[q], selfAuthorized'[q] = selfAuthorized[q],
           unreported'[q] = unreported[q]
    PROVE  Exchange(p)'
<1>0. q \in Peer /\ unreported[q] \in BOOLEAN
  BY Peers DEF LinkTypes
<1>1. In(p)' = In(p) /\ Coming(p)' = Coming(p)
  BY FlowSame DEF Rests
<1>2. Wire(q) \in Seq(AnyPacket \cup Answer) /\ Facing(q)
  BY <1>0, Ends, Peers
<1>3. /\ Queue(q) \in Nat /\ Coming(q) \in Nat /\ Queue(q) <= Coming(q)
      /\ Reads(In(q), Coming(q), Queue(q), In(q)', Coming(q)', Queue(q)')
      /\ In(q)[Queue(q) + 1] = Head(Wire(q))
  BY <1>0, <1>2, Lengths, FlowReads
<1> HIDE DEF Reads
<1>4. NoRandom(In(q), Coming(q)) => NoRandom(In(q)', Coming(q)')
  BY <1>3, ReadsKeeps
<1>5. AskedOf(p) => AskedOf(p)'
  <2>1. AskedOf(p) = Asked(In(q), Coming(q), Queue(q), random[p], cos[q] = "ConnectingToFriend")
    BY DEF AskedOf
  <2>2. AskedOf(p)' = Asked(In(q)', Coming(q)', Queue(q)', random[p], cos[q] = "ConnectingToFriend")
    BY DEF AskedOf, Rests
  <2>3. cos[q] = "ConnectingToFriend" =>
          \E i \in 1..Queue(q) : In(q)[i].type = "Connected" /\ In(q)[i].success
    BY <1>0, <1>2, NewsComing
  <2>4. (cos[q] = "ConnectingToFriend") \in BOOLEAN
    OBVIOUS
  <2> QED BY <1>3, <2>1, <2>2, <2>3, <2>4, ReadsAsked
<1>6. AnsweredTo(p)' = AnsweredTo(p)
  BY <1>1 DEF AnsweredTo, Rests
<1>7. NoConfirm(In(p), Coming(p), random[p])' = NoConfirm(In(p), Coming(p), random[p])
  BY <1>1 DEF Rests
<1>8. ToldOf(p) => ToldOf(p)'
  <2>1. "Late" \notin incidents' /\ Told(In(q), Coming(q), Queue(q), selfKey[q], unreported[q]) =>
          Told(In(q)', Coming(q)', Queue(q)', selfKey[q], unreported[q])
    BY <1>0, <1>3, ReadsTold
  <2>2. ~Pending(q) => ~Pending(q)'
    <3>1. [type |-> "Data", packet |-> Head(Wire(q))].type # "Accepted"
      OBVIOUS
    <3> QED BY <1>0, <3>1, PendingSteps
  <2> QED BY <2>1, <2>2 DEF ToldOf
<1> QED BY <1>4, <1>5, <1>6, <1>7, <1>8 DEF Exchange, Rests

\* p reads what the friend has sent.
LEMMA SelfReads ==
    ASSUME LinkTypes, LinkTypes', Control, Clients, NEW p \in Peer, NEW q, q = Other[p], Facing(p),
           Exchange(p), Rests(q), Wire(q)' = Wire(q), Wire(p) # <<>>, Wire(p)' = Tail(Wire(p)),
           incidents \subseteq incidents',
           events'[p] = Append(events[p], [type |-> "Data", packet |-> Head(Wire(p))]),
           random'[p] = random[p], friendKey'[p] = friendKey[p],
           friendAuthorized'[p] = friendAuthorized[p]
    PROVE  Exchange(p)'
<1>0. q \in Peer
  BY Peers
<1>1. In(q)' = In(q) /\ Coming(q)' = Coming(q) /\ Queue(q)' = Queue(q)
  BY <1>0, FlowSame DEF Rests
<1>2. Wire(p) \in Seq(AnyPacket \cup Answer)
  BY Ends
<1>3. /\ Queue(p) \in Nat /\ Coming(p) \in Nat /\ Queue(p) <= Coming(p)
      /\ Reads(In(p), Coming(p), Queue(p), In(p)', Coming(p)', Queue(p)')
  BY <1>2, Lengths, FlowReads
<1>4. AskedOf(p)' = AskedOf(p)
  BY <1>1 DEF AskedOf, Rests
<1>5. /\ NoConfirm(In(p), Coming(p), random[p]) => NoConfirm(In(p), Coming(p), random[p])'
      /\ AnsweredTo(p) => AnsweredTo(p)'
  <2>2. /\ NoConfirm(In(p), Coming(p), random[p]) => NoConfirm(In(p)', Coming(p)', random[p])
        /\ Confirmed(In(p), Coming(p), random[p], selfKey[q]) =>
             Confirmed(In(p)', Coming(p)', random[p], selfKey[q])
    BY <1>3, ReadsKeeps
  <2> QED BY <2>2 DEF AnsweredTo, Rests
<1>6. ToldOf(p) => ToldOf(p)'
  BY <1>1 DEF ToldOf, Pending, Rests
<1> QED BY <1>1, <1>4, <1>5, <1>6 DEF Exchange, Rests

\* A question that is not taken is still to come.
LEMMA TakesAsked ==
    ASSUME NEW s, NEW l \in Nat, NEW k \in Nat, NEW t, NEW m, NEW h, Takes(s, l, k, t, m, h),
           NEW r, NEW c \in BOOLEAN, NEW d \in BOOLEAN, Asked(s, l, k, r, c),
           ~LastRandom(s, l, 1, r) \/ c,
           d => c /\ ~(s[1].type = "Connected" /\ s[1].success)
    PROVE  Asked(t, m, h, r, d)
<1>1. CASE ~LastRandom(s, l, 1, r)
  BY <1>1, TakesRandom
<1>2. CASE c /\ LastRandom(s, l, 1, r)
  <2>1. PICK n \in 1..l :
          /\ LastRandom(s, l, n, r)
          /\ n <= k => \E i \in 1..l : i < n /\ s[i].type = "Connected" /\ s[i].success
    BY <1>2 DEF Asked
  <2>2. n # 1
    BY <2>1 DEF Takes
  <2>3. n > 1 /\ s[n].type = "RandomSequence"
    BY <2>1, <2>2 DEF LastRandom
  <2> QED BY <1>2, <2>3 DEF LastRandom
<1> QED BY <1>1, <1>2

\* What comes to p stays, and more is put at its end.
LEMMA HeardMore ==
    ASSUME LinkTypes, NEW p \in Peer, NEW S, Wire(p) \in Seq(S), events'[p] = events[p], NEW x,
           Wire(p)' = Wire(p) \/ Wire(p)' = Append(Wire(p), x)
    PROVE  /\ Queue(p) \in Nat /\ Coming(p) \in Nat /\ Queue(p) <= Coming(p)
           /\ \/ In(p)' = In(p) /\ Coming(p)' = Coming(p) /\ Queue(p)' = Queue(p)
              \/ /\ Puts(In(p), Coming(p), In(p)', Coming(p)', Coming(p), x)
                 /\ PutAt(Coming(p), Queue(p), Queue(p)', Coming(p)) /\ Queue(p)' = Queue(p)
BY Lengths, FlowSame, FlowPuts

\* Nothing is confirmed by what p hears.
LEMMA HearsNoConfirm ==
    ASSUME LinkTypes, NEW p \in Peer, NEW S, Wire(p) \in Seq(S), events'[p] = events[p], NEW x,
           Wire(p)' = Wire(p) \/ Wire(p)' = Append(Wire(p), x), NEW r, NEW key, ~Confirms(x, r)
    PROVE  /\ NoConfirm(In(p), Coming(p), r) => NoConfirm(In(p)', Coming(p)', r)
           /\ Confirmed(In(p), Coming(p), r, key) => Confirmed(In(p)', Coming(p)', r, key)
<1>1. CASE In(p)' = In(p) /\ Coming(p)' = Coming(p)
  BY <1>1
<1>2. CASE /\ Puts(In(p), Coming(p), In(p)', Coming(p)', Coming(p), x)
           /\ PutAt(Coming(p), Queue(p), Queue(p)', Coming(p))
  <2>1. Queue(p) \in Nat /\ Coming(p) \in Nat /\ Queue(p) <= Coming(p)
    BY HeardMore
  <2> QED BY <1>2, <2>1, PutsConfirm
<1> QED BY <1>1, <1>2, HeardMore

\* Nothing is asked, and no acceptance reported, by what q hears.
LEMMA HearsNoRandom ==
    ASSUME LinkTypes, NEW q \in Peer, NEW S, Wire(q) \in Seq(S), events'[q] = events[q], NEW x,
           Wire(q)' = Wire(q) \/ Wire(q)' = Append(Wire(q), x),
           x.type \notin {"RandomSequence", "Accepted"}, NEW r, NEW c \in BOOLEAN, NEW key,
           NEW u \in BOOLEAN
    PROVE  /\ NoRandom(In(q), Coming(q)) => NoRandom(In(q)', Coming(q)')
           /\ Asked(In(q), Coming(q), Queue(q), r, c) => Asked(In(q)', Coming(q)', Queue(q)', r, c)
           /\ Told(In(q), Coming(q), Queue(q), key, u)
                => Told(In(q)', Coming(q)', Queue(q)', key, u)
           /\ /\ x.type = "Authorized" /\ x.key = key /\ Wire(q)' # Wire(q)
              => Told(In(q)', Coming(q)', Queue(q)', key, u)
<1>0. Queue(q) \in Nat /\ Coming(q) \in Nat /\ Queue(q) <= Coming(q)
  BY HeardMore
<1>1. CASE Wire(q)' = Wire(q)
  BY <1>1, FlowSame
<1>2. CASE Wire(q)' = Append(Wire(q), x)
  <2>1. /\ Puts(In(q), Coming(q), In(q)', Coming(q)', Coming(q), x)
        /\ PutAt(Coming(q), Queue(q), Queue(q)', Coming(q)) /\ Queue(q)' = Queue(q)
    BY <1>2, FlowPuts
  <2>2. NoRandom(In(q), Coming(q)) => NoRandom(In(q)', Coming(q)')
    BY <1>0, <2>1, PutsNoRandom
  <2>3. Asked(In(q), Coming(q), Queue(q), r, c) => Asked(In(q)', Coming(q)', Queue(q)', r, c)
    BY <1>0, <2>1, PutsAsked
  <2>4. /\ Told(In(q), Coming(q), Queue(q), key, u) => Told(In(q)', Coming(q)', Queue(q)', key, u)
        /\ x.type = "Authorized" /\ x.key = key => Told(In(q)', Coming(q)', Queue(q)', key, u)
    BY <1>0, <2>1, PutsTold
  <2> QED BY <2>2, <2>3, <2>4
<1> QED BY <1>1, <1>2

\* The friend takes an event, and may say something that answers nothing.
LEMMA FriendTakes ==
    ASSUME LinkTypes, LinkTypes', Control, Clients, NEW p \in Peer, NEW q, q = Other[p], Facing(p),
           Exchange(p), Rests(p), incidents \subseteq incidents',
           Wire(q)' = Wire(q), events[q] # <<>>, events'[q] = Tail(events[q]),
           unreported'[q] = unreported[q], selfKey'[q] = selfKey[q],
           NEW x, Wire(p)' = Wire(p) \/ Wire(p)' = Append(Wire(p), x), ~Confirms(x, random[p]),
           NEW e, e = Content(Head(events[q])),
           e.type # "RandomSequence" \/ cos[q] = "ConnectingToFriend",
           \/ cos'[q] = cos[q]
              /\ ~(cos[q] = "ConnectingToFriend" /\ e.type = "Connected" /\ e.success)
           \/ cos[q] = "ConnectingToFriend" /\ cos'[q] = "Connected",
           cos[q] # "ConnectingToFriend" /\ e.type # "Accepted"
             /\ (selfAuthorized[q] \/ (e.type = "Authorized" /\ e.key = selfKey[q]))
               => selfAuthorized'[q]
    PROVE  Exchange(p)'
<1>0. q \in Peer /\ Facing(q) /\ Wire(p) \in Seq(AnyPacket \cup Answer)
      /\ Wire(q) \in Seq(AnyPacket \cup Answer)
      /\ unreported[q] \in BOOLEAN
  <2>1. q \in Peer /\ Facing(q)
    BY Peers, Ends
  <2> QED BY <2>1, Ends DEF LinkTypes
<1>1. /\ Queue(q) \in Nat /\ Coming(q) \in Nat
      /\ Takes(In(q), Coming(q), Queue(q), In(q)', Coming(q)', Queue(q)')
      /\ In(q)[1] = e
  BY <1>0, Lengths, FlowTakes
<1>2. 1 \in 1..Coming(q)
  BY <1>1 DEF Takes
<1>3. /\ NoConfirm(In(p), Coming(p), random[p]) => NoConfirm(In(p)', Coming(p)', random[p])
      /\ Confirmed(In(p), Coming(p), random[p], selfKey[q]) =>
           Confirmed(In(p)', Coming(p)', random[p], selfKey[q])
  BY <1>0, HearsNoConfirm DEF Rests
<1> HIDE DEF Takes
<1>4. CASE AskedOf(p)
  <2>1. Asked(In(q), Coming(q), Queue(q), random[p], cos[q] = "ConnectingToFriend")
    BY <1>4 DEF AskedOf
  <2>2. ~LastRandom(In(q), Coming(q), 1, random[p]) \/ cos[q] = "ConnectingToFriend"
    BY <1>1 DEF LastRandom
  <2>3. Asked(In(q)', Coming(q)', Queue(q)', random[p], cos'[q] = "ConnectingToFriend")
    <3>1. cos'[q] = "ConnectingToFriend" => /\ cos[q] = "ConnectingToFriend"
                                            /\ ~(e.type = "Connected" /\ e.success)
      OBVIOUS
    <3>2. /\ (cos[q] = "ConnectingToFriend") \in BOOLEAN
          /\ (cos'[q] = "ConnectingToFriend") \in BOOLEAN
      OBVIOUS
    <3> DEFINE c == cos[q] = "ConnectingToFriend"
               d == cos'[q] = "ConnectingToFriend"
    <3>3. /\ Asked(In(q), Coming(q), Queue(q), random[p], c)
          /\ ~LastRandom(In(q), Coming(q), 1, random[p]) \/ c
          /\ d => c /\ ~(In(q)[1].type = "Connected" /\ In(q)[1].success)
          /\ c \in BOOLEAN /\ d \in BOOLEAN
      BY <1>1, <2>1, <2>2, <3>1, <3>2
    <3> HIDE DEF c, d
    <3>4. Asked(In(q)', Coming(q)', Queue(q)', random[p], d)
      BY <1>1, <3>3, TakesAsked
    <3> QED BY <3>4 DEF d
  <2>4. AskedOf(p)'
    BY <2>3 DEF AskedOf, Rests
  <2> QED BY <2>4 DEF Exchange
<1>5. CASE /\ NoRandom(In(q), Coming(q)) /\ cos[q] # "ConnectingToFriend"
           /\ AnsweredTo(p) \/ /\ NoConfirm(In(p), Coming(p), random[p])
                               /\ friendKey[p] = selfKey[q] /\ friendAuthorized[p] /\ ToldOf(p)
  <2>1. NoRandom(In(q)', Coming(q)') /\ cos'[q] # "ConnectingToFriend"
    BY <1>1, <1>5, TakesRandom
  <2>2. AnsweredTo(p) => AnsweredTo(p)'
    BY <1>3 DEF AnsweredTo, Rests
  <2>3. ASSUME ToldOf(p) PROVE ToldOf(p)'
    <3> SUFFICES ASSUME "Late" \notin incidents'
                 PROVE  \/ selfAuthorized'[q] /\ ~Pending(q)'
                        \/ Told(In(q)', Coming(q)', Queue(q)', selfKey[q], unreported[q])
      BY DEF ToldOf
    <3>1. \/ selfAuthorized[q] /\ ~Pending(q)
          \/ Told(In(q), Coming(q), Queue(q), selfKey[q], unreported[q])
      BY <2>3 DEF ToldOf
    <3>2. ~Pending(q) => ~Pending(q)'
      BY <1>0, PendingSteps
    <3>3. ~Pending(q) => e.type # "Accepted"
      <4>1. e.type = "Accepted" =>
              Head(events[q]).type = "Accepted" \/ Head(events[q]).type = "Data"
        BY DEF Content
      <4>2. events[q] \in Seq(Event)
        BY <1>0 DEF LinkTypes
      <4>3. Head(events[q]) \in Event /\ Head(events[q]) = events[q][1] /\ 1 \in 1..Len(events[q])
        BY <4>2, RestOf
      <4>4. Head(events[q]).type = "Data" => e = Head(events[q]).packet
        BY DEF Content
      <4>5. Head(events[q]).type = "Data" => e.type # "Accepted"
        BY <4>3, <4>4 DEF Event, ServerPacket, FriendPacket
      <4> QED BY <4>1, <4>3, <4>5 DEF Pending
    <3>4. CASE selfAuthorized[q] /\ ~Pending(q)
      <4>1. cos[q] # "ConnectingToFriend" /\ e.type # "Accepted"
        BY <1>5, <3>3, <3>4
      <4>2. selfAuthorized'[q]
        BY <3>4, <4>1
      <4> QED BY <3>2, <3>4, <4>2
    <3>5. CASE Told(In(q), Coming(q), Queue(q), selfKey[q], unreported[q])
      <4>1. \/ Told(In(q)', Coming(q)', Queue(q)', selfKey[q], unreported[q])
            \/ /\ In(q)[1].type = "Authorized" /\ In(q)[1].key = selfKey[q] /\ ~unreported[q]
               /\ \A n \in 1..Coming(q) : In(q)[n].type # "Accepted"
        <5> DEFINE u == unreported[q]
        <5>1. u \in BOOLEAN /\ Told(In(q), Coming(q), Queue(q), selfKey[q], u)
          BY <1>0, <3>5
        <5> HIDE DEF u
        <5>2. \/ Told(In(q)', Coming(q)', Queue(q)', selfKey[q], u)
              \/ /\ In(q)[1].type = "Authorized" /\ In(q)[1].key = selfKey[q] /\ ~u
                 /\ \A n \in 1..Coming(q) : In(q)[n].type # "Accepted"
          BY <1>1, <5>1, TakesTold
        <5> QED BY <5>2 DEF u
      <4>2. ASSUME In(q)[1].type = "Authorized", In(q)[1].key = selfKey[q], ~unreported[q],
                   \A n \in 1..Coming(q) : In(q)[n].type # "Accepted"
            PROVE  selfAuthorized'[q] /\ ~Pending(q)'
        <5>1. \A n \in 1..Len(events[q]) :
                n \in 1..Coming(q) /\ In(q)[n] = Content(events[q][n])
          BY <1>0, Lengths DEF Queue
        <5>2. ~Pending(q)
          BY <4>2, <5>1 DEF Pending, Content
        <5> QED BY <1>1, <1>5, <3>2, <4>2, <5>2
      <4> QED BY <4>1, <4>2
    <3> QED BY <3>1, <3>4, <3>5
  <2>4. friendKey[p] = selfKey[q] /\ friendAuthorized[p] =>
          friendKey'[p] = selfKey'[q] /\ friendAuthorized'[p]
    BY DEF Rests
  <2>5. NoConfirm(In(p), Coming(p), random[p]) => NoConfirm(In(p), Coming(p), random[p])'
    BY <1>3 DEF Rests
  <2> QED BY <1>5, <2>1, <2>2, <2>3, <2>4, <2>5 DEF Exchange
<1> QED BY <1>4, <1>5 DEF Exchange

\* The friend takes the random sequence of p, or an earlier one.
LEMMA FriendAnswers ==
    ASSUME LinkTypes, LinkTypes', Control, Clients, NEW p \in Peer, NEW q, q = Other[p], Facing(p),
           Exchange(p), Rests(p), Wire(q)' = Wire(q),
           events[q] # <<>>, events'[q] = Tail(events[q]),
           NEW e, e = Content(Head(events[q])), e.type = "RandomSequence",
           cos[q] # "ConnectingToFriend", cos'[q] = cos[q],
           NEW x, Wire(p)' = Append(Wire(p), x), x.type = "Confirm", x.random = e.random,
           x.key = selfKey'[q]
    PROVE  Exchange(p)'
<1>0. q \in Peer /\ Facing(q) /\ Wire(p) \in Seq(AnyPacket \cup Answer)
      /\ Wire(q) \in Seq(AnyPacket \cup Answer)
  <2>1. q \in Peer /\ Facing(q)
    BY Peers, Ends
  <2> QED BY <2>1, Ends
<1>1. /\ Queue(q) \in Nat /\ Coming(q) \in Nat
      /\ Takes(In(q), Coming(q), Queue(q), In(q)', Coming(q)', Queue(q)')
      /\ In(q)[1] = e
  BY <1>0, Lengths, FlowTakes
<1>2. 1 \in 1..Coming(q) /\ Coming(q)' \in Nat
      /\ \A n \in 1..Coming(q)' : n + 1 \in 1..Coming(q) /\ n + 1 > 1 /\ In(q)'[n] = In(q)[n + 1]
  BY <1>1 DEF Takes
<1> HIDE DEF Takes
<1>3. Asked(In(q), Coming(q), Queue(q), random[p], FALSE)
  <2>1. AskedOf(p)
    BY <1>1, <1>2 DEF Exchange, NoRandom
  <2>2. (cos[q] = "ConnectingToFriend") = FALSE
    OBVIOUS
  <2> QED BY <2>1, <2>2 DEF AskedOf
<1>4. CASE LastRandom(In(q), Coming(q), 1, random[p])
  <2>1. NoRandom(In(q)', Coming(q)')
    BY <1>2, <1>4 DEF NoRandom, LastRandom
  <2>2. /\ Queue(p) \in Nat /\ Coming(p) \in Nat /\ Queue(p) <= Coming(p)
        /\ Puts(In(p), Coming(p), In(p)', Coming(p)', Coming(p), x)
        /\ PutAt(Coming(p), Queue(p), Queue(p)', Coming(p))
    BY <1>0, Lengths, FlowPuts DEF Rests
  <2>3. Confirms(x, random[p])
    BY <1>1, <1>4 DEF Confirms, LastRandom
  <2>4. Confirmed(In(p)', Coming(p)', random[p], selfKey'[q])
    BY <2>2, <2>3, PutsConfirm
  <2>5. AnsweredTo(p)'
    BY <2>4 DEF AnsweredTo, Rests
  <2> QED BY <2>1, <2>5 DEF Exchange
<1>5. CASE ~LastRandom(In(q), Coming(q), 1, random[p])
  <2>1. Asked(In(q)', Coming(q)', Queue(q)', random[p], FALSE)
    BY <1>1, <1>3, <1>5, TakesAsked
  <2>2. (cos'[q] = "ConnectingToFriend") = FALSE
    OBVIOUS
  <2>3. AskedOf(p)'
    BY <2>1, <2>2 DEF AskedOf, Rests
  <2> QED BY <2>3 DEF Exchange
<1> QED BY <1>4, <1>5

\* p takes an event, and may say something that asks nothing; when that is the confirmation
\* of its last random sequence, p tells the friend so.
LEMMA SelfTakes ==
    ASSUME LinkTypes, LinkTypes', Control, Clients, NEW p \in Peer, NEW q, q = Other[p], Facing(p),
           Exchange(p), Rests(q), incidents \subseteq incidents',
           Wire(p)' = Wire(p), events[p] # <<>>, events'[p] = Tail(events[p]),
           random'[p] = random[p],
           NEW x, Wire(q)' = Wire(q) \/ Wire(q)' = Append(Wire(q), x),
           x.type \notin {"RandomSequence", "Accepted"},
           NEW e, e = Content(Head(events[p])),
           IF Confirms(e, random[p])
           THEN /\ friendKey'[p] = e.key /\ friendAuthorized'[p]
                /\ Wire(q)' = Append(Wire(q), x) /\ x.type = "Authorized" /\ x.key = e.key
           ELSE friendKey'[p] = friendKey[p] /\ friendAuthorized'[p] = friendAuthorized[p]
    PROVE  Exchange(p)'
<1>0. /\ q \in Peer /\ Wire(p) \in Seq(AnyPacket \cup Answer)
      /\ Wire(q) \in Seq(AnyPacket \cup Answer)
      /\ unreported[q] \in BOOLEAN /\ events'[q] = events[q]
  <2>1. q \in Peer /\ Facing(q)
    BY Peers, Ends
  <2> QED BY <2>1, Ends DEF LinkTypes, Rests
<1>1. /\ Queue(p) \in Nat /\ Coming(p) \in Nat
      /\ Takes(In(p), Coming(p), Queue(p), In(p)', Coming(p)', Queue(p)')
      /\ In(p)[1] = e
  BY <1>0, Lengths, FlowTakes
<1>2. 1 \in 1..Coming(p)
  BY <1>1 DEF Takes
<1> HIDE DEF Takes
<1> DEFINE c == cos[q] = "ConnectingToFriend"
           u == unreported[q]
<1>3. c \in BOOLEAN /\ u \in BOOLEAN
  BY <1>0
<1>4. AskedOf(p) = Asked(In(q), Coming(q), Queue(q), random[p], c)
  BY DEF AskedOf
<1>5. AskedOf(p)' = Asked(In(q)', Coming(q)', Queue(q)', random[p], c)
  BY DEF AskedOf, Rests
<1>6. ToldOf(p) = ("Late" \notin incidents =>
        \/ selfAuthorized[q] /\ ~Pending(q)
        \/ Told(In(q), Coming(q), Queue(q), selfKey[q], u))
  BY DEF ToldOf
<1>7. ToldOf(p)' = ("Late" \notin incidents' =>
        \/ selfAuthorized[q] /\ ~Pending(q)
        \/ Told(In(q)', Coming(q)', Queue(q)', selfKey[q], u))
  BY DEF ToldOf, Rests, Pending
<1> HIDE DEF c, u
<1>8. /\ NoRandom(In(q), Coming(q)) => NoRandom(In(q)', Coming(q)')
      /\ Asked(In(q), Coming(q), Queue(q), random[p], c) =>
           Asked(In(q)', Coming(q)', Queue(q)', random[p], c)
      /\ Told(In(q), Coming(q), Queue(q), selfKey[q], u) =>
           Told(In(q)', Coming(q)', Queue(q)', selfKey[q], u)
      /\ x.type = "Authorized" /\ x.key = selfKey[q] /\ Wire(q)' # Wire(q) =>
           Told(In(q)', Coming(q)', Queue(q)', selfKey[q], u)
  BY <1>0, <1>3, HearsNoRandom
<1>9. CASE AskedOf(p)
  BY <1>4, <1>5, <1>8, <1>9 DEF Exchange
<1>10. CASE /\ NoRandom(In(q), Coming(q)) /\ cos[q] # "ConnectingToFriend"
            /\ \/ AnsweredTo(p)
               \/ /\ NoConfirm(In(p), Coming(p), random[p])
                  /\ friendKey[p] = selfKey[q] /\ friendAuthorized[p] /\ ToldOf(p)
  <2>1. NoRandom(In(q)', Coming(q)') /\ cos'[q] # "ConnectingToFriend"
    BY <1>8, <1>10 DEF Rests
  <2>2. AnsweredTo(p) => \/ Confirmed(In(p)', Coming(p)', random[p], selfKey[q])
                         \/ /\ Confirms(e, random[p]) /\ e.key = selfKey[q]
                            /\ NoConfirm(In(p)', Coming(p)', random[p])
    BY <1>1, TakesConfirm DEF AnsweredTo
  <2>3. NoConfirm(In(p), Coming(p), random[p]) => /\ NoConfirm(In(p)', Coming(p)', random[p])
                                                  /\ ~Confirms(e, random[p])
    <3>1. NoConfirm(In(p), Coming(p), random[p]) => NoConfirm(In(p)', Coming(p)', random[p])
      BY <1>1, TakesConfirm
    <3>2. NoConfirm(In(p), Coming(p), random[p]) => ~Confirms(In(p)[1], random[p])
      BY <1>2 DEF NoConfirm
    <3> QED BY <1>1, <3>1, <3>2
  <2>4. CASE Confirmed(In(p)', Coming(p)', random[p], selfKey[q])
    <3>1. AnsweredTo(p)'
      BY <2>4 DEF AnsweredTo, Rests
    <3> QED BY <2>1, <3>1 DEF Exchange
  <2>5. CASE /\ Confirms(e, random[p]) /\ e.key = selfKey[q]
             /\ NoConfirm(In(p)', Coming(p)', random[p])
    <3>1. Wire(q)' = Append(Wire(q), x) /\ x.type = "Authorized" /\ x.key = selfKey[q]
      BY <2>5
    <3>2. Wire(q)' # Wire(q)
      <4>1. Len(Wire(q)') = Len(Wire(q)) + 1 /\ Len(Wire(q)) \in Nat
        BY <1>0, <3>1, AppendedTo
      <4> QED BY <4>1
    <3>3. ToldOf(p)'
      BY <1>7, <1>8, <3>1, <3>2
    <3>4. friendKey'[p] = selfKey'[q] /\ friendAuthorized'[p]
      BY <2>5 DEF Rests
    <3> QED BY <2>1, <2>5, <3>3, <3>4 DEF Exchange
  <2>6. CASE /\ NoConfirm(In(p), Coming(p), random[p])
             /\ friendKey[p] = selfKey[q] /\ friendAuthorized[p] /\ ToldOf(p)
    <3>1. friendKey'[p] = selfKey'[q] /\ friendAuthorized'[p]
      BY <2>3, <2>6 DEF Rests
    <3>2. ToldOf(p)'
      BY <1>6, <1>7, <1>8, <2>6
    <3>3. NoConfirm(In(p), Coming(p), random[p])'
      BY <2>3, <2>6
    <3> QED BY <2>1, <3>1, <3>2, <3>3 DEF Exchange
  <2> QED BY <1>10, <2>2, <2>4, <2>5, <2>6
<1> QED BY <1>9, <1>10 DEF Exchange

\* p sends a new random sequence.
LEMMA SelfAsks ==
    ASSUME LinkTypes, Control, Clients, NEW p \in Peer, NEW q, q = Other[p], Facing(p), Rests(q),
           NEW x, Wire(q)' = Append(Wire(q), x), x.type = "RandomSequence",
           x.random = random'[p]
    PROVE  Exchange(p)'
<1>0. q \in Peer /\ Wire(q) \in Seq(AnyPacket \cup Answer) /\ events'[q] = events[q]
  <2>1. q \in Peer /\ Facing(q)
    BY Peers, Ends
  <2> QED BY <2>1, Ends DEF Rests
<1>1. /\ Queue(q) \in Nat /\ Coming(q) \in Nat /\ Queue(q) <= Coming(q)
      /\ Puts(In(q), Coming(q), In(q)', Coming(q)', Coming(q), x) /\ Queue(q)' = Queue(q)
  BY <1>0, Lengths, FlowPuts
<1> DEFINE c == cos'[q] = "ConnectingToFriend"
<1>2. c \in BOOLEAN
  OBVIOUS
<1>3. AskedOf(p)' = Asked(In(q)', Coming(q)', Queue(q)', random'[p], c)
  BY DEF AskedOf
<1> HIDE DEF c
<1>4. Asked(In(q)', Coming(q)', Queue(q), random'[p], c)
  BY <1>1, <1>2, PutsQuestion
<1> QED BY <1>1, <1>3, <1>4 DEF Exchange

\* What is said over the link reaches the one who uses it still.
LEMMA Heard ==
    ASSUME LinkTypes, Control, Clients, NEW p \in Peer, Facing(p), LinkKept(p),
           NEW r \in Peer, NEW packet, SendRaw(r, packet)
    PROVE  Wire(p)' = IF r = Other[p] THEN Append(Wire(p), packet) ELSE Wire(p)
<1>1. Wire(p)' = IF cos[p] = "AcceptedConnection" THEN up'[accepted[p]] ELSE down'[mine[p]]
  BY WireAfter
<1>2. (IF cos[p] = "AcceptedConnection" THEN up'[accepted[p]] ELSE down'[mine[p]])
             = IF r = Other[p] THEN Append(Wire(p), packet) ELSE Wire(p)
  BY SentTo
<1> QED BY <1>1, <1>2

\* A step that sends nothing leaves the link alone.
LEMMA NotHeard ==
    ASSUME NEW p \in Peer, LinkKept(p), UNCHANGED <<up, down>>
    PROVE  Wire(p)' = Wire(p)
BY WireAfter DEF Wire

\* Who faces its friend and is not connecting can send.
LEMMA LinkedCanSend ==
    ASSUME LinkTypes, Control, Clients, NEW p \in Peer, Facing(p), cos[p] # "ConnectingToFriend"
    PROVE  CanSend(p) /\ Linked(p)
<1>1. cos[p] \in {"Connected", "AcceptedConnection"}
  BY Ends DEF LinkStatus
<1>2. CASE cos[p] = "Connected"
  <2>1. mine[p] # 0 /\ client[mine[p]].udt # "Disconnected"
    BY <1>2, Ends
  <2>2. client[mine[p]].udt # "Connecting" /\ mine[p] \in Client
    BY <1>2, <2>1, Numbers DEF Clients, ClientsOf
  <2> QED BY <1>1, <2>1, <2>2 DEF CanSend, Linked, LinkTypes, ClientRecord
<1> QED BY <1>1, <1>2 DEF CanSend, Linked

\* The ways in which one who uses its link handles an event.
LEMMA LinkEvents ==
    ASSUME LinkTypes, Control, Clients, NEW p \in Peer, Facing(p), LinkKept(p), HandleEvent(p)
    PROVE  /\ \/ OnFriendConnected(p) \/ OnAccepted(p) \/ OnConnectedLate(p) \/ OnServerLost(p)
              \/ OnRandomSequence(p) \/ OnConfirm(p) \/ OnAuthorized(p) \/ DropPacket(p)
           /\ events[p] # <<>> /\ events'[p] = Tail(events[p]) /\ unreported'[p] = unreported[p]
           /\ incidents' = incidents
           /\ OnFriendConnected(p) \/ cos'[p] = cos[p]
<1>0. events \in [Peer -> Seq(Event)] /\ cos \in [Peer -> ConnectionStatus]
  BY DEF LinkTypes
<1>1. cos[p] \in {"ConnectingToFriend", "Connected", "AcceptedConnection"}
      /\ cos'[p] \in {"ConnectingToFriend", "Connected", "AcceptedConnection"}
  BY Ends DEF LinkStatus, LinkKept
<1>2. ~OnConnectionFailed(p) /\ ~OnServerConnected(p)
  BY <1>0, <1>1 DEF OnConnectionFailed, OnServerConnected
<1>3. ~OnConnectedDies(p)
  BY <1>0, <1>1 DEF OnConnectedDies, Dies
<1>4. /\ ~OnChallenge(p) /\ ~OnFriendOffline(p) /\ ~OnNatTraversal(p) /\ ~OnConnectTo(p)
      /\ ~OnListen(p)
  BY <1>1 DEF OnChallenge, OnFriendOffline, OnNatTraversal, OnConnectTo, OnListen, HelpPacket,
     HelpReceived
<1>5. \/ OnFriendConnected(p) \/ OnAccepted(p) \/ OnConnectedLate(p) \/ OnServerLost(p)
      \/ OnRandomSequence(p) \/ OnConfirm(p) \/ OnAuthorized(p) \/ DropPacket(p)
  BY <1>2, <1>3, <1>4 DEF HandleEvent
<1>6. CASE OnServerLost(p)
  <2>1. cos'[p] = cos[p]
    BY <1>0, <1>1, <1>6 DEF OnServerLost, OnDisconnected
  <2> QED BY <1>0, <1>5, <1>6, <2>1 DEF OnServerLost, PopEvent, NextEvent
<1>7. CASE OnFriendConnected(p) \/ OnAccepted(p) \/ OnConnectedLate(p) \/ DropPacket(p)
  BY <1>0, <1>5, <1>7 DEF OnFriendConnected, OnAccepted, OnConnectedLate, DropPacket, PopEvent,
     NextEvent
<1>8. CASE OnRandomSequence(p) \/ OnConfirm(p) \/ OnAuthorized(p)
  BY <1>0, <1>5, <1>8 DEF OnRandomSequence, OnConfirm, OnAuthorized, FriendData, PopEvent,
     NextPacket, NextEvent
<1> QED BY <1>5, <1>6, <1>7, <1>8

\* The packet of the event that is taken.
LEMMA PacketTaken ==
    ASSUME LinkTypes, NEW p \in Peer, NEW type, NextPacket(p, type)
    PROVE  Content(Head(events[p])) = Packet(p) /\ Packet(p).type = type
BY DEF NextPacket, NextEvent, Packet, Content

\* What is taken and said when one who uses its link handles an event.
LEMMA EventTakes ==
    ASSUME LinkTypes, Control, Clients, NEW p \in Peer, NEW q, q = Other[p], Facing(p),
           LinkKept(p), LinkKept(q), HandleEvent(p)
    PROVE  /\ Wire(p)' = Wire(p)
           /\ \/ /\ Wire(q)' = Wire(q)
                 /\ OnConnectedLate(p) \/ OnServerLost(p) \/ OnAuthorized(p) \/ DropPacket(p)
              \/ /\ OnFriendConnected(p) \/ OnAccepted(p)
                 /\ Wire(q)' = Append(Wire(q), [type |-> "RandomSequence", random |-> random'[p]])
              \/ /\ OnRandomSequence(p)
                 /\ Wire(q)' = Append(Wire(q), [type |-> "Confirm", random |-> Packet(p).random,
                                                key |-> selfKey'[p]])
              \/ /\ OnConfirm(p)
                 /\ Wire(q)' = Append(Wire(q), [type |-> "Authorized", key |-> Packet(p).key])
<1>0. q \in Peer /\ q # p /\ Other[q] = p /\ Facing(q)
  BY Peers, Ends
<1>1. ASSUME UNCHANGED <<up, down>> PROVE Wire(p)' = Wire(p) /\ Wire(q)' = Wire(q)
  BY <1>0, <1>1, NotHeard
<1>2. ASSUME NEW packet, SendRaw(p, packet)
      PROVE  Wire(p)' = Wire(p) /\ Wire(q)' = Append(Wire(q), packet)
  <2>1. Wire(p)' = Wire(p)
    BY <1>0, <1>2, Heard
  <2>2. Wire(q)' = Append(Wire(q), packet)
    BY <1>0, <1>2, Heard
  <2> QED BY <2>1, <2>2
<1>3. CASE OnConnectedLate(p) \/ OnServerLost(p) \/ OnAuthorized(p) \/ DropPacket(p)
  BY <1>1, <1>3 DEF OnConnectedLate, OnServerLost, OnAuthorized, DropPacket, linkVars
<1>4. CASE OnFriendConnected(p) \/ OnAccepted(p)
  <2>1. OnConnectionEstablished(p)
    BY <1>4 DEF OnFriendConnected, OnAccepted
  <2>2. random'[p] = drawn'[p] /\ SendRaw(p, [type |-> "RandomSequence", random |-> drawn'[p]])
    BY <2>1 DEF OnConnectionEstablished, LinkTypes
  <2> QED BY <1>2, <1>4, <2>2
<1>5. CASE OnRandomSequence(p)
  <2>1. CanSend(p)
    BY <1>5, LinkedCanSend DEF OnRandomSequence, FriendData, Linked
  <2>2. /\ selfKey'[p] = drawn'[p]
        /\ SendRaw(p, [type |-> "Confirm", random |-> Packet(p).random, key |-> drawn'[p]])
    BY <1>5, <2>1 DEF OnRandomSequence, LinkTypes
  <2> QED BY <1>2, <1>5, <2>2
<1>6. CASE OnConfirm(p)
  <2>1. CanSend(p)
    BY <1>6, LinkedCanSend DEF OnConfirm, FriendData, Linked
  <2>2. SendRaw(p, [type |-> "Authorized", key |-> Packet(p).key])
    BY <1>6, <2>1 DEF OnConfirm
  <2> QED BY <1>2, <1>6, <2>2
<1> QED BY <1>3, <1>4, <1>5, <1>6, LinkEvents

\* The friend handles an event.
LEMMA FriendHandles ==
    ASSUME LinkTypes, LinkTypes', Control, Clients, NEW p \in Peer, NEW q, q = Other[p], Facing(p),
           LinkKept(p), LinkKept(q), Exchange(p), Rests(p), HandleEvent(q)
    PROVE  Exchange(p)'
<1>0. /\ q \in Peer /\ Other[q] = p /\ Facing(q)
      /\ cos \in [Peer -> ConnectionStatus] /\ selfKey \in [Peer -> Nat]
      /\ selfAuthorized \in [Peer -> BOOLEAN]
  BY Peers, Ends DEF LinkTypes
<1>1. /\ events[q] # <<>> /\ events'[q] = Tail(events[q]) /\ unreported'[q] = unreported[q]
      /\ incidents \subseteq incidents'
      /\ OnFriendConnected(q) \/ cos'[q] = cos[q]
      /\ Wire(q)' = Wire(q)
  BY <1>0, LinkEvents, EventTakes
<1> DEFINE e == Content(Head(events[q]))
<1>2. CASE /\ OnFriendConnected(q) \/ OnAccepted(q)
           /\ Wire(p)' = Append(Wire(p), [type |-> "RandomSequence", random |-> random'[q]])
  <2> DEFINE x == [type |-> "RandomSequence", random |-> random'[q]]
  <2>1. Wire(p)' = Append(Wire(p), x) /\ ~Confirms(x, random[p])
    BY <1>2 DEF Confirms
  <2>2. /\ e.type \in {"Connected", "Accepted"} /\ selfKey'[q] = selfKey[q]
        /\ e.type = "Connected" => cos[q] = "ConnectingToFriend" /\ cos'[q] = "Connected"
        /\ e.type = "Accepted" => cos'[q] = cos[q]
    BY <1>0, <1>2 DEF OnFriendConnected, OnAccepted, OnConnectionEstablished, NextEvent, Content
  <2> HIDE DEF e, x
  <2> QED BY <1>0, <1>1, <2>1, <2>2, FriendTakes DEF e
<1>3. CASE /\ OnRandomSequence(q)
           /\ Wire(p)' = Append(Wire(p), [type |-> "Confirm", random |-> Packet(q).random,
                                          key |-> selfKey'[q]])
  <2> DEFINE x == [type |-> "Confirm", random |-> Packet(q).random, key |-> selfKey'[q]]
  <2>1. Wire(p)' = Append(Wire(p), x)
    BY <1>3
  <2>2. e = Packet(q) /\ e.type = "RandomSequence" /\ cos[q] # "ConnectingToFriend"
        /\ cos'[q] = cos[q]
    BY <1>0, <1>3, PacketTaken DEF OnRandomSequence, FriendData, Linked
  <2>3. x.type = "Confirm" /\ x.random = e.random /\ x.key = selfKey'[q]
    BY <2>2
  <2> HIDE DEF e, x
  <2> QED BY <1>1, <2>1, <2>2, <2>3, FriendAnswers DEF e
<1>4. CASE /\ OnConfirm(q)
           /\ Wire(p)' = Append(Wire(p), [type |-> "Authorized", key |-> Packet(q).key])
  <2> DEFINE x == [type |-> "Authorized", key |-> Packet(q).key]
  <2>1. Wire(p)' = Wire(p) \/ Wire(p)' = Append(Wire(p), x)
    BY <1>4
  <2>2. /\ e.type = "Confirm" /\ cos'[q] = cos[q] /\ selfKey'[q] = selfKey[q]
        /\ selfAuthorized'[q] = selfAuthorized[q]
    BY <1>0, <1>4, PacketTaken DEF OnConfirm, FriendData
  <2>3. ~Confirms(x, random[p])
    BY DEF Confirms
  <2> HIDE DEF e, x
  <2> QED BY <1>1, <2>1, <2>2, <2>3, FriendTakes DEF e
<1>5. CASE /\ Wire(p)' = Wire(p)
           /\ OnConnectedLate(q) \/ OnServerLost(q) \/ OnAuthorized(q) \/ DropPacket(q)
  <2>1. Wire(p)' = Wire(p) /\ cos'[q] = cos[q] /\ selfKey'[q] = selfKey[q]
    <3>1. cos'[q] = cos[q]
      <4>1. cos[q] # "Offline" /\ cos'[q] # "Offline"
        BY <1>0, Ends DEF LinkKept, LinkStatus
      <4>2. cos' = cos \/ cos' = [cos EXCEPT ![q] = "Offline"]
        BY <1>0, <1>5, OfflineIf DEF OnConnectedLate, OnServerLost, OnAuthorized, DropPacket,
           FriendData
      <4> QED BY <1>0, <4>1, <4>2
    <3>2. selfKey'[q] = selfKey[q]
      BY <1>5 DEF OnConnectedLate, OnServerLost, OnAuthorized, DropPacket, authVars
    <3> QED BY <1>5, <3>1, <3>2
  <2>2. /\ e.type # "RandomSequence" \/ cos[q] = "ConnectingToFriend"
        /\ ~(cos[q] = "ConnectingToFriend" /\ e.type = "Connected" /\ e.success)
        /\ cos[q] # "ConnectingToFriend" /\ e.type # "Accepted"
             /\ (selfAuthorized[q] \/ (e.type = "Authorized" /\ e.key = selfKey[q]))
               => selfAuthorized'[q]
    <3>0. cos[q] # "ConnectingToFriend" => Linked(q)
      BY <1>0, LinkedCanSend
    <3>1. CASE OnConnectedLate(q)
      <4>1. e.type = "Connected" /\ cos[q] # "ConnectingToFriend"
            /\ selfAuthorized'[q] = selfAuthorized[q]
        BY <3>1 DEF OnConnectedLate, authVars, NextEvent, Content
      <4> QED BY <4>1
    <3>2. CASE OnServerLost(q)
      <4>1. e.type = "Lost" /\ selfAuthorized'[q] = selfAuthorized[q]
        BY <3>2 DEF OnServerLost, authVars, NextEvent, Content
      <4> QED BY <4>1
    <3>3. CASE OnAuthorized(q)
      <4>1. e.type = "Authorized" /\ selfAuthorized'[q]
        BY <1>0, <3>3, PacketTaken DEF OnAuthorized, FriendData
      <4> QED BY <4>1
    <3>4. CASE DropPacket(q)
      <4>1. NextEvent(q, "Data") /\ selfAuthorized'[q] = selfAuthorized[q] /\ Unexpected(q)
        BY <3>4 DEF DropPacket, authVars
      <4>2. e = Packet(q)
        BY <4>1 DEF NextEvent, Packet, Content
      <4>3. e.type \notin {"Connected", "Accepted"}
        <5>0. events[q] \in Seq(Event) /\ events[q] # <<>>
          BY <1>0, <1>1 DEF LinkTypes
        <5>1. Head(events[q]) \in Event
          BY <5>0
        <5>2. Head(events[q]) \in Event /\ Head(events[q]).type = "Data"
          BY <4>1, <5>1 DEF NextEvent
        <5>3. Packet(q) \in ServerPacket \cup FriendPacket
          BY <5>2 DEF Event, Packet
        <5>4. Packet(q).type \notin {"Connected", "Accepted"}
          BY <5>3 DEF ServerPacket, FriendPacket
        <5> QED BY <4>2, <5>4
      <4>4. e.type = "RandomSequence" => ~Linked(q)
        BY <4>1, <4>2 DEF Unexpected
      <4>5. e.type = "Authorized" /\ e.key = selfKey[q] => ~Linked(q)
        BY <4>1, <4>2 DEF Unexpected
      <4> HIDE DEF e
      <4> QED BY <3>0, <4>1, <4>3, <4>4, <4>5
    <3> QED BY <1>5, <3>1, <3>2, <3>3, <3>4
  <2> DEFINE x == [type |-> "Authorized", key |-> 0]
  <2>3. ~Confirms(x, random[p])
    BY DEF Confirms
  <2> HIDE DEF e, x
  <2> QED BY <1>1, <2>1, <2>2, <2>3, FriendTakes DEF e
<1> QED BY <1>0, <1>2, <1>3, <1>4, <1>5, EventTakes

\* p handles an event.
LEMMA SelfHandles ==
    ASSUME LinkTypes, LinkTypes', Control, Clients, NEW p \in Peer, NEW q, q = Other[p], Facing(p),
           LinkKept(p), LinkKept(q), Rests(q), HandleEvent(p),
           ~OnFriendConnected(p) /\ ~OnAccepted(p) => Exchange(p) /\ cos[p] # "ConnectingToFriend"
    PROVE  Exchange(p)'
<1>0. /\ q \in Peer /\ Other[q] = p
      /\ random \in [Peer -> Nat] /\ friendKey \in [Peer -> Nat]
      /\ friendAuthorized \in [Peer -> BOOLEAN]
  BY Peers DEF LinkTypes
<1>1. /\ events[p] # <<>> /\ events'[p] = Tail(events[p])
      /\ incidents \subseteq incidents'
      /\ Wire(p)' = Wire(p)
  BY LinkEvents, EventTakes
<1> DEFINE e == Content(Head(events[p]))
<1>2. CASE Wire(q)' = Append(Wire(q), [type |-> "RandomSequence", random |-> random'[p]])
  <2> DEFINE x == [type |-> "RandomSequence", random |-> random'[p]]
  <2>1. Wire(q)' = Append(Wire(q), x) /\ x.type = "RandomSequence" /\ x.random = random'[p]
    BY <1>2
  <2> HIDE DEF x
  <2> QED BY <2>1, SelfAsks
<1>3. CASE /\ OnRandomSequence(p)
           /\ Wire(q)' = Append(Wire(q), [type |-> "Confirm", random |-> Packet(p).random,
                                          key |-> selfKey'[p]])
  <2> DEFINE x == [type |-> "Confirm", random |-> Packet(p).random, key |-> selfKey'[p]]
  <2>1. Wire(q)' = Append(Wire(q), x) /\ x.type \notin {"RandomSequence", "Accepted"}
    BY <1>3
  <2>2. e.type = "RandomSequence"
    BY <1>3, PacketTaken DEF OnRandomSequence, FriendData
  <2>3. ~Confirms(e, random[p]) /\ random'[p] = random[p] /\ friendKey'[p] = friendKey[p]
        /\ friendAuthorized'[p] = friendAuthorized[p]
    BY <1>3, <2>2 DEF OnRandomSequence, Confirms
  <2>4. Exchange(p)
    BY <1>3, <2>2 DEF OnFriendConnected, OnAccepted, OnRandomSequence, FriendData, NextPacket,
       NextEvent
  <2> HIDE DEF e, x
  <2> QED BY <1>1, <2>1, <2>3, <2>4, SelfTakes DEF e
<1>4. CASE /\ OnConfirm(p)
           /\ Wire(q)' = Append(Wire(q), [type |-> "Authorized", key |-> Packet(p).key])
  <2> DEFINE x == [type |-> "Authorized", key |-> Packet(p).key]
  <2>1. Wire(q)' = Append(Wire(q), x) /\ x.type = "Authorized" /\ x.key = Packet(p).key
    BY <1>4
  <2>2. e = Packet(p) /\ e.type = "Confirm" /\ e.random = random[p]
    BY <1>4, PacketTaken DEF OnConfirm, FriendData
  <2>3. CanSend(p)
    BY <1>4, LinkedCanSend DEF OnConfirm, FriendData, Linked
  <2>4. random'[p] = random[p] /\ friendKey'[p] = e.key /\ friendAuthorized'[p]
    BY <1>0, <1>4, <2>2, <2>3 DEF OnConfirm
  <2>5. Exchange(p)
    BY <1>4 DEF OnFriendConnected, OnAccepted, OnConfirm, FriendData, NextPacket, NextEvent
  <2>6. Confirms(e, random[p])
    BY <2>2 DEF Confirms
  <2>7. x.type \notin {"RandomSequence", "Accepted"} /\ x.key = e.key
    BY <2>1, <2>2
  <2> HIDE DEF e, x
  <2> QED BY <1>1, <2>1, <2>4, <2>5, <2>6, <2>7, SelfTakes DEF e
<1>5. CASE /\ Wire(q)' = Wire(q)
           /\ OnConnectedLate(p) \/ OnServerLost(p) \/ OnAuthorized(p) \/ DropPacket(p)
  <2>1. random'[p] = random[p] /\ friendKey'[p] = friendKey[p]
        /\ friendAuthorized'[p] = friendAuthorized[p]
    BY <1>5 DEF OnConnectedLate, OnServerLost, OnAuthorized, DropPacket, authVars
  <2>2. ASSUME OnConnectedLate(p) \/ OnServerLost(p)
        PROVE  ~Confirms(e, random[p]) /\ ~OnFriendConnected(p) /\ ~OnAccepted(p)
    <3>1. e.type \in {"Connected", "Lost"}
      BY <2>2 DEF OnConnectedLate, OnServerLost, NextEvent, Content
    <3>2. ~Confirms(e, random[p])
      BY <3>1 DEF Confirms
    <3> QED BY <2>2, <3>2 DEF OnConnectedLate, OnServerLost, NextEvent, OnFriendConnected,
            OnAccepted
  <2>3. ASSUME OnAuthorized(p)
        PROVE  ~Confirms(e, random[p]) /\ ~OnFriendConnected(p) /\ ~OnAccepted(p)
    <3>1. e.type = "Authorized"
      BY <2>3, PacketTaken DEF OnAuthorized, FriendData
    <3>2. ~Confirms(e, random[p])
      BY <3>1 DEF Confirms
    <3> QED BY <2>3, <3>2 DEF OnAuthorized, FriendData, NextPacket, NextEvent, OnFriendConnected,
                              OnAccepted
  <2>4. ASSUME DropPacket(p)
        PROVE  ~Confirms(e, random[p]) /\ ~OnFriendConnected(p) /\ ~OnAccepted(p)
    <3>1. NextEvent(p, "Data") /\ Unexpected(p)
      BY <2>4 DEF DropPacket
    <3>2. ~OnFriendConnected(p) /\ ~OnAccepted(p)
      BY <3>1 DEF NextEvent, OnFriendConnected, OnAccepted
    <3>3. Linked(p)
      BY <3>2, LinkedCanSend
    <3>4. Packet(p).type = "Confirm" => Packet(p).random # random[p]
      BY <3>1, <3>3 DEF Unexpected
    <3>5. ~Confirms(Packet(p), random[p])
      BY <3>4 DEF Confirms
    <3>6. e = Packet(p)
      BY <3>1 DEF NextEvent, Packet, Content
    <3> HIDE DEF e
    <3> QED BY <3>2, <3>5, <3>6
  <2>5. ~Confirms(e, random[p]) /\ Exchange(p)
    BY <1>5, <2>2, <2>3, <2>4
  <2> DEFINE x == [type |-> "Authorized", key |-> 0]
  <2>6. x.type \notin {"RandomSequence", "Accepted"}
    OBVIOUS
  <2> HIDE DEF e, x
  <2> QED BY <1>1, <1>5, <2>1, <2>5, <2>6, SelfTakes DEF e
<1> QED BY <1>2, <1>3, <1>4, <1>5, EventTakes

\* The other steps of one who uses its link: it rests, or an event is queued.
LEMMA EndsBoth ==
    LinkTypes /\ Control /\ Clients =>
        \A x \in Peer : Facing(x) =>
            /\ Facing(Other[x])
            /\ cos[x] # "AcceptedConnection" => client[mine[x]].udt # "Disconnected"
BY Ends

\* Of the other steps, these leave the link to those who use it.
LEMMA LinkSteps ==
    ASSUME LinkTypes, LinkTypes', Control, Control', Clients, Clients', NEW p \in Peer, Facing(p),
           Facing(p)', LinkKept(p), StepOf(p), ~HandleEvent(p), ~WorkerReceives(p)
    PROVE  Rests(p) \/ WorkerConnected(p) \/ ServerLost(p) \/ ReportAccepted(p)
<1>0. /\ cos[p] \in LinkStatus /\ cos'[p] \in LinkStatus
      /\ cos'[p] = "AcceptedConnection" <=> cos[p] = "AcceptedConnection"
      /\ cos[p] # "AcceptedConnection" => mine'[p] = mine[p] /\ mine[p] # 0
  BY Ends DEF LinkKept, LinkStatus
<1>1. cos[p] # "AcceptedConnection" => client'[mine[p]].udt # "Disconnected"
  <2>1. (LinkTypes /\ Control /\ Clients =>
            \A x \in Peer : Facing(x) =>
                /\ Facing(Other[x])
                /\ cos[x] # "AcceptedConnection" => client[mine[x]].udt # "Disconnected")'
    BY EndsBoth, PTL
  <2> QED BY <1>0, <2>1
<1>2. cos[p] = "AcceptedConnection" /\ mine[p] # 0 => client[mine[p]].udt = "Disconnected"
  BY DEF Clients, ClientsOf
<1>3. ~WorkerLost(p) /\ ~WorkerTimedOut(p)
  <2> SUFFICES ASSUME WorkerLost(p) \/ WorkerTimedOut(p) PROVE FALSE
    OBVIOUS
  <2>1. mine[p] # 0 /\ client[mine[p]].udt # "Disconnected"
        /\ client' = [client EXCEPT ![mine[p]].udt = "Disconnected"]
    BY DEF WorkerLost, WorkerTimedOut
  <2>2. mine[p] \in Client /\ client'[mine[p]].udt = "Disconnected"
    <3>1. mine[p] \in Client /\ client[mine[p]] \in ClientRecord
      BY <2>1, Numbers DEF LinkTypes
    <3>2. \A r \in ClientRecord : [r EXCEPT !.udt = "Disconnected"].udt = "Disconnected"
      BY DEF ClientRecord
    <3> QED BY <2>1, <3>1, <3>2 DEF LinkTypes
  <2> QED BY <1>1, <1>2, <2>1, <2>2
<1>4. ~Connect(p) /\ ~ConnectAccept(p) /\ ~ConnectDies(p)
  <2>1. ~Connect(p) /\ ~ConnectAccept(p)
    BY <1>0, NewClients DEF LinkStatus
  <2>2. ConnectDies(p) => cos'[p] = "Dead"
    <3>1. ConnectDies(p) => cos' = [cos EXCEPT ![p] = "Dead"]
      BY DEF ConnectDies, Dies
    <3>2. cos \in [Peer -> ConnectionStatus]
      BY DEF LinkTypes
    <3> QED BY <3>1, <3>2
  <2> QED BY <1>0, <2>1, <2>2 DEF LinkStatus
<1>5. Accept(p) => Rests(p)
  BY <1>0 DEF Accept, LinkStatus, Rests, authVars
<1>6. SyncInfo(p) \/ KeepConnection(p) => Rests(p)
  BY DEF SyncInfo, KeepConnection, OnlyServer, Rests, authVars
<1>7. ~HandleMain(p) \/ KeepConnection(p)
  BY <1>4 DEF HandleMain
<1>8. Connections(p) => Accept(p) \/ ReportAccepted(p)
  BY DEF Connections
<1> QED BY <1>3, <1>5, <1>6, <1>7, <1>8 DEF StepOf

\* Nothing else changes what comes to p.
LEMMA WiresSame ==
    ASSUME LinkTypes, LinkTypes', Control, Control', Clients, Clients', [Next]_vars, NEW p \in Peer,
           Facing(p), Facing(p)', LinkKept(p), ~HandleEvent(Other[p]),
           ~WorkerReceives(p), "Stray" \notin incidents'
    PROVE  Wire(p)' = Wire(p)
<1>1. CASE Spared
  BY <1>1, SparedWire
<1>2. ASSUME NEW r \in Peer, WorkerReceives(r) PROVE Wire(p)' = Wire(p)
  BY <1>2, OtherReads
<1>3. ASSUME NEW r \in Peer, Answers(r) PROVE Wire(p)' = Wire(p)
  <2>1. r # Other[p]
    BY <1>3 DEF Answers, HandleEvent
  <2>2. UNCHANGED <<up, down>> \/ \E packet : SendRaw(r, packet)
    <3>1. CASE OnFriendConnected(r) \/ OnAccepted(r)
      BY <3>1 DEF OnFriendConnected, OnAccepted, OnConnectionEstablished
    <3>2. CASE OnRandomSequence(r)
      BY <3>2 DEF OnRandomSequence
    <3>3. CASE OnConfirm(r)
      BY <3>3 DEF OnConfirm
    <3> QED BY <1>3, <3>1, <3>2, <3>3 DEF Answers
  <2> QED BY <2>1, <2>2, Heard, NotHeard
<1> QED BY <1>1, <1>2, <1>3, WireSteps

\* Over a link that is kept, the exchange goes on.
LEMMA ExchangeKept ==
    ASSUME LinkTypes, LinkTypes', Control, Control', Clients, Clients', Next, NEW p \in Peer,
           NEW q, q = Other[p], Facing(p), Facing(p)', LinkKept(p), LinkKept(q),
           "Stray" \notin incidents', ~Pending(p)', cos'[p] # "ConnectingToFriend",
           cos[p] # "ConnectingToFriend" /\ ~Pending(p) => Exchange(p)
    PROVE  Exchange(p)'
<1>0. /\ q \in Peer /\ q # p /\ Other[q] = p /\ Facing(q) /\ incidents \subseteq incidents'
      /\ unreported \in [Peer -> BOOLEAN]
  BY Peers, Ends, Grows DEF LinkTypes
<1>1. Facing(q)'
  <2>1. (LinkTypes /\ Control /\ Clients =>
            \A x \in Peer : Facing(x) =>
                /\ Facing(Other[x])
                /\ cos[x] # "AcceptedConnection" => client[mine[x]].udt # "Disconnected")'
    BY EndsBoth, PTL
  <2> QED BY <2>1
<1>2. Rests(p) => Exchange(p)
  BY DEF Rests, Pending
<1>3. CASE HandleEvent(p)
  <2>1. StepOf(p)
    BY <1>3 DEF StepOf
  <2>2. Rests(q)
    BY <1>0, <2>1, OthersRest
  <2>3. ASSUME ~OnFriendConnected(p), ~OnAccepted(p)
        PROVE  Exchange(p) /\ cos[p] # "ConnectingToFriend"
    <3>1. cos'[p] = cos[p] /\ events[p] # <<>> /\ events'[p] = Tail(events[p])
          /\ unreported'[p] = unreported[p]
      BY <1>3, <2>3, LinkEvents
    <3>2. Head(events[p]).type # "Accepted"
      <4>1. OnConnectedLate(p) \/ OnServerLost(p) \/ OnRandomSequence(p) \/ OnConfirm(p)
            \/ OnAuthorized(p) \/ DropPacket(p)
        BY <1>3, <2>3, LinkEvents
      <4> QED BY <4>1 DEF OnConnectedLate, OnServerLost, OnRandomSequence, OnConfirm, OnAuthorized,
              DropPacket, FriendData, NextPacket, NextEvent
    <3>3. ~Pending(p)
      BY <3>1, <3>2, PendingSteps
    <3> QED BY <3>1, <3>3
  <2> QED BY <1>3, <2>2, <2>3, SelfHandles
<1>4. CASE HandleEvent(q)
  <2>1. StepOf(q)
    BY <1>4 DEF StepOf
  <2>2. Rests(p)
    BY <1>0, <2>1, OthersRest
  <2> QED BY <1>2, <1>4, <2>2, FriendHandles
<1>5. CASE WorkerReceives(p) /\ ~HandleEvent(q)
  <2>1. StepOf(p)
    BY <1>5 DEF StepOf
  <2>2. Rests(q)
    BY <1>0, <2>1, OthersRest
  <2>3. Wire(q)' = Wire(q)
    BY <1>0, <1>5, OtherReads
  <2>4. /\ Wire(p) # <<>> /\ Wire(p)' = Tail(Wire(p))
        /\ events'[p] = Append(events[p], [type |-> "Data", packet |-> Head(Wire(p))])
    BY <1>5, OwnReads
  <2>5. /\ random'[p] = random[p] /\ friendKey'[p] = friendKey[p] /\ cos'[p] = cos[p]
        /\ friendAuthorized'[p] = friendAuthorized[p] /\ unreported'[p] = unreported[p]
    BY <1>5 DEF WorkerReceives, authVars
  <2>6. Exchange(p)
    <3>1. Pending(p) => Pending(p)'
      BY <2>4, <2>5, PendingSteps
    <3> QED BY <2>5, <3>1
  <2> QED BY <1>0, <2>2, <2>3, <2>4, <2>5, <2>6, SelfReads
<1>6. CASE WorkerReceives(q) /\ ~HandleEvent(p)
  <2>1. StepOf(q)
    BY <1>6 DEF StepOf
  <2>2. Rests(p)
    BY <1>0, <2>1, OthersRest
  <2>3. Wire(p)' = Wire(p)
    BY <1>0, <1>6, OtherReads
  <2>4. /\ Wire(q) # <<>> /\ Wire(q)' = Tail(Wire(q))
        /\ events'[q] = Append(events[q], [type |-> "Data", packet |-> Head(Wire(q))])
        /\ unreported[q] /\ Head(Wire(q)).type = "Authorized" => "Late" \in incidents'
        /\ cos[q] # "AcceptedConnection" => client[mine[q]].udt = "Connected"
    BY <1>0, <1>6, OwnReads
  <2>5. /\ selfKey'[q] = selfKey[q] /\ selfAuthorized'[q] = selfAuthorized[q] /\ cos'[q] = cos[q]
        /\ unreported'[q] = unreported[q]
    BY <1>6 DEF WorkerReceives, authVars
  <2>6. cos[q] = "ConnectingToFriend" => News(q)
    <3>1. cos[q] = "ConnectingToFriend" => /\ mine[q] # 0 /\ ~client[mine[q]].broken
                                           /\ client[mine[q]].udt = "Connected"
      BY <1>0, <2>4, Ends DEF End
    <3> QED BY <1>0, <3>1 DEF Clients, ClientsOf
  <2> QED BY <1>0, <1>2, <2>2, <2>3, <2>4, <2>5, <2>6, FriendReads
<1>7. CASE ~HandleEvent(p) /\ ~HandleEvent(q) /\ ~WorkerReceives(p) /\ ~WorkerReceives(q)
  <2>1. Wire(p)' = Wire(p) /\ Wire(q)' = Wire(q)
    BY <1>0, <1>1, <1>7, WiresSame
  <2>2. CASE Rests(p) /\ Rests(q)
    BY <1>0, <1>2, <2>1, <2>2, Untouched
  <2>3. CASE StepOf(p) /\ Rests(q) /\ ~Rests(p)
    <3>1. WorkerConnected(p) \/ ServerLost(p) \/ ReportAccepted(p)
      BY <1>7, <2>3, LinkSteps
    <3>2. CASE ReportAccepted(p)
      <4>1. events'[p] = Append(events[p], [type |-> "Accepted"])
        BY <3>2 DEF ReportAccepted, Queued, LinkTypes
      <4>2. Pending(p)'
        BY <4>1, PendingSteps
      <4> QED BY <4>2
    <3>3. CASE WorkerConnected(p) \/ ServerLost(p)
      <4>1. PICK e : events'[p] = Append(events[p], e) /\ e.type \in {"Connected", "Lost"}
        <5>1. CASE WorkerConnected(p)
          <6>1. events'[p] = Append(events[p], [type |-> "Connected", success |-> TRUE])
                 /\ unreported'[p] = unreported[p]
            BY <5>1 DEF WorkerConnected, Queued, LinkTypes
          <6>2. [type |-> "Connected", success |-> TRUE].type = "Connected"
            OBVIOUS
          <6> QED BY <6>1, <6>2
        <5>2. CASE ServerLost(p)
          <6>1. events'[p] = Append(events[p], [type |-> "Lost"])
                 /\ unreported'[p] = unreported[p]
            BY <5>2 DEF ServerLost, Queued, LinkTypes
          <6>2. [type |-> "Lost"].type = "Lost"
            OBVIOUS
          <6> QED BY <6>1, <6>2
        <5> QED BY <3>3, <5>1, <5>2
      <4>2. /\ random'[p] = random[p] /\ friendKey'[p] = friendKey[p] /\ cos'[p] = cos[p]
            /\ friendAuthorized'[p] = friendAuthorized[p] /\ unreported'[p] = unreported[p]
        BY <3>3 DEF WorkerConnected, ServerLost, authVars
      <4>3. Exchange(p)
        <5>1. Pending(p) => Pending(p)'
          BY <4>1, <4>2, PendingSteps
        <5> QED BY <4>2, <5>1
      <4> QED BY <1>0, <2>1, <2>3, <4>1, <4>2, <4>3, SelfHasEvent
    <3> QED BY <3>1, <3>2, <3>3
  <2>4. CASE StepOf(q) /\ Rests(p) /\ ~Rests(q)
    <3>1. WorkerConnected(q) \/ ServerLost(q) \/ ReportAccepted(q)
      BY <1>0, <1>1, <1>7, <2>4, LinkSteps
    <3>2. PICK e : /\ events'[q] = Append(events[q], e)
                   /\ e.type \in {"Connected", "Lost", "Accepted"}
                   /\ IF e.type = "Accepted" THEN unreported[q] ELSE unreported'[q] = unreported[q]
                   /\ unreported'[q] => unreported[q]
      <4>t. events \in [Peer -> Seq(Event)] /\ unreported \in [Peer -> BOOLEAN]
        BY DEF LinkTypes
      <4>1. CASE WorkerConnected(q)
        <5>1. events'[q] = Append(events[q], [type |-> "Connected", success |-> TRUE])
               /\ unreported'[q] = unreported[q]
          BY <1>0, <4>1, <4>t DEF WorkerConnected, Queued
        <5>2. [type |-> "Connected", success |-> TRUE].type = "Connected"
          OBVIOUS
        <5> QED BY <1>0, <5>1, <5>2
      <4>2. CASE ServerLost(q)
        <5>1. events'[q] = Append(events[q], [type |-> "Lost"])
               /\ unreported'[q] = unreported[q]
          BY <1>0, <4>2, <4>t DEF ServerLost, Queued
        <5>2. [type |-> "Lost"].type = "Lost"
          OBVIOUS
        <5> QED BY <1>0, <5>1, <5>2
      <4>3. CASE ReportAccepted(q)
        <5>1. events'[q] = Append(events[q], [type |-> "Accepted"])
               /\ unreported[q] /\ unreported'[q] = FALSE
          BY <1>0, <4>3, <4>t DEF ReportAccepted, Queued
        <5>2. [type |-> "Accepted"].type = "Accepted"
          OBVIOUS
        <5> QED BY <1>0, <5>1, <5>2
      <4> QED BY <3>1, <4>1, <4>2, <4>3
    <3>3. /\ cos'[q] = cos[q] /\ selfKey'[q] = selfKey[q] /\ selfAuthorized'[q] = selfAuthorized[q]
      BY <3>1 DEF WorkerConnected, ServerLost, ReportAccepted, authVars
    <3>4. Exchange(p)
      BY <1>2, <2>4
    <3> QED BY <1>0, <2>1, <2>4, <3>2, <3>3, <3>4, FriendHasEvent
  <2>5. \/ Rests(p) /\ Rests(q)
        \/ StepOf(p) /\ Rests(q)
        \/ StepOf(q) /\ Rests(p)
    BY <1>0, StepsOf, OthersRest, ElsewhereRests
  <2> QED BY <2>2, <2>3, <2>4, <2>5
<1> QED BY <1>3, <1>4, <1>5, <1>6, <1>7

\* What a step of p itself does to the news of an acceptance, and to its random sequence.
LEMMA PendingBefore ==
    ASSUME LinkTypes, Next, NEW p \in Peer, ~Pending(p)', cos'[p] # "Dead", ~OnAccepted(p)
    PROVE  ~Pending(p)
<1>0. /\ events \in [Peer -> Seq(Event)] /\ unreported \in [Peer -> BOOLEAN]
      /\ cos \in [Peer -> ConnectionStatus]
  BY DEF LinkTypes
<1>1. CASE Rests(p)
  BY <1>1 DEF Rests, Pending
<1>2. CASE StepOf(p)
  <2>1. CASE \/ SyncInfo(p) \/ Connect(p) \/ KeepConnection(p) \/ ConnectAccept(p)
             \/ WorkerLost(p)
    BY <2>1 DEF SyncInfo, OnlyServer, Connect, KeepConnection, ConnectAccept, WorkerLost, Pending
  <2>2. CASE Accept(p)
    <3>1. events' = events /\ (unreported' = unreported \/ unreported'[p])
      BY <1>0, <2>2 DEF Accept
    <3> QED BY <3>1 DEF Pending
  <2>3. CASE ReportAccepted(p)
    <3>1. events'[p] = Append(events[p], [type |-> "Accepted"])
      BY <1>0, <2>3 DEF ReportAccepted, Queued
    <3>2. [type |-> "Accepted"].type = "Accepted"
      OBVIOUS
    <3> QED BY <3>1, <3>2, PendingSteps
  <2>4. CASE WorkerConnected(p) \/ ServerLost(p) \/ WorkerTimedOut(p) \/ WorkerReceives(p)
    <3>1. (\E e : events'[p] = Append(events[p], e)) /\ unreported'[p] = unreported[p]
      BY <1>0, <2>4 DEF WorkerConnected, ServerLost, WorkerTimedOut, WorkerReceives, Queued
    <3> QED BY <3>1, PendingSteps
  <2>5. CASE HandleEvent(p)
    <3>1. ~OnConnectedDies(p)
      BY <1>0 DEF OnConnectedDies, Dies
    <3>2. CASE OnRandomSequence(p) \/ OnConfirm(p) \/ OnAuthorized(p) \/ DropPacket(p)
      <4>1. /\ events[p] # <<>> /\ Head(events[p]).type # "Accepted"
            /\ events'[p] = Tail(events[p]) /\ unreported'[p] = unreported[p]
        BY <1>0, <3>2 DEF OnRandomSequence, OnConfirm, OnAuthorized, DropPacket, FriendData,
           NextPacket, NextEvent, PopEvent
      <4> QED BY <4>1, PendingSteps
    <3>3. CASE OnChallenge(p) \/ OnFriendOffline(p) \/ OnNatTraversal(p) \/ OnConnectTo(p)
               \/ OnListen(p)
      <4>1. /\ events[p] # <<>> /\ Head(events[p]).type # "Accepted"
            /\ events'[p] = Tail(events[p]) /\ unreported'[p] = unreported[p]
        BY <1>0, <3>3 DEF OnChallenge, OnFriendOffline, OnNatTraversal, OnConnectTo, OnListen,
           HelpPacket, HelpReceived, NextPacket, NextEvent, PopEvent
      <4> QED BY <4>1, PendingSteps
    <3>4. CASE OnConnectionFailed(p) \/ OnServerConnected(p) \/ OnFriendConnected(p)
               \/ OnConnectedLate(p) \/ OnServerLost(p)
      <4>1. /\ events[p] # <<>> /\ Head(events[p]).type # "Accepted"
            /\ events'[p] = Tail(events[p]) /\ unreported'[p] = unreported[p]
        BY <1>0, <3>4 DEF OnConnectionFailed, OnServerConnected, OnFriendConnected, OnConnectedLate,
           OnServerLost, NextEvent, PopEvent
      <4> QED BY <4>1, PendingSteps
    <3> QED BY <2>5, <3>1, <3>2, <3>3, <3>4 DEF HandleEvent
  <2>6. ~ConnectDies(p)
    BY <1>0 DEF ConnectDies, Dies
  <2> QED BY <1>2, <2>1, <2>2, <2>3, <2>4, <2>5, <2>6 DEF StepOf, HandleMain, Connections
<1> QED BY <1>1, <1>2, StepsOf, OthersRest, ElsewhereRests

\* The random sequence changes only in the steps that send a new one.
LEMMA RandomKept ==
    ASSUME LinkTypes, Next, NEW p \in Peer, ~OnFriendConnected(p), ~OnAccepted(p)
    PROVE  random'[p] = random[p]
<1>1. CASE Rests(p)
  BY <1>1 DEF Rests
<1>2. CASE StepOf(p)
  <2>1. CASE \/ SyncInfo(p) \/ HandleMain(p) \/ WorkerConnected(p) \/ WorkerReceives(p)
             \/ WorkerLost(p) \/ ServerLost(p) \/ WorkerTimedOut(p) \/ Connections(p)
    BY <2>1 DEF SyncInfo, OnlyServer, HandleMain, Connect, KeepConnection, ConnectAccept,
       ConnectDies, Dies, WorkerConnected, WorkerReceives, WorkerLost, ServerLost, WorkerTimedOut, Connections, Accept,
       ReportAccepted, authVars
  <2>2. CASE HandleEvent(p)
    BY <2>2 DEF HandleEvent, OnConnectionFailed, OnServerConnected, OnConnectedDies, Dies,
       OnConnectedLate, OnServerLost, OnChallenge, OnFriendOffline, OnNatTraversal, OnConnectTo,
       OnListen, OnRandomSequence, OnConfirm, OnAuthorized, DropPacket, authVars
  <2> QED BY <1>2, <2>1, <2>2 DEF StepOf
<1> QED BY <1>1, <1>2, StepsOf, OthersRest, ElsewhereRests

-----------------------------------------------------------------------------
(* The friend is shown as available *)

\* Who is linked and has no news of an acceptance to take shows the friend as available as
\* soon as both are authorized.
Shown ==
    \A p \in Peer : Linked(p) /\ ~Pending(p) /\ selfAuthorized[p] /\ friendAuthorized[p]
                      => status[p] = "Available"

\* A step of p keeps what it shows, or makes it so.
LEMMA ShowingSteps ==
    ASSUME LinkTypes, NEW p \in Peer, StepOf(p), Linked(p)', ~Pending(p)',
           selfAuthorized'[p], friendAuthorized'[p]
    PROVE  \/ status'[p] = "Available"
           \/ /\ status'[p] = status[p] /\ cos'[p] = cos[p]
              /\ selfAuthorized'[p] = selfAuthorized[p]
              /\ friendAuthorized'[p] = friendAuthorized[p]
<1>0. /\ status \in [Peer -> {"Offline", "Available"}] /\ cos \in [Peer -> ConnectionStatus]
      /\ unreported \in [Peer -> BOOLEAN] /\ selfAuthorized \in [Peer -> BOOLEAN]
      /\ friendAuthorized \in [Peer -> BOOLEAN]
  BY DEF LinkTypes
<1> USE DEF Linked, authVars
<1>1. CASE OnDisconnected(p) /\ UNCHANGED <<selfAuthorized, friendAuthorized>>
  BY <1>0, <1>1 DEF OnDisconnected
<1>2. CASE UNCHANGED <<status, cos, selfAuthorized, friendAuthorized>>
  BY <1>2
<1>3. CASE SyncInfo(p) \/ KeepConnection(p) \/ WorkerConnected(p) \/ WorkerReceives(p)
           \/ ServerLost(p) \/ ReportAccepted(p)
  BY <1>2, <1>3 DEF SyncInfo, OnlyServer, KeepConnection, WorkerConnected, WorkerReceives,
     ServerLost, ReportAccepted
<1>4. CASE Connect(p) \/ ConnectAccept(p)
  BY <1>0, <1>4 DEF Connect, ConnectAccept, NewClient
<1>5. CASE WorkerLost(p) \/ WorkerTimedOut(p)
  BY <1>1, <1>5 DEF WorkerLost, WorkerTimedOut
<1>6. CASE Accept(p)
  <2>1. unreported'[p] \/ UNCHANGED <<status, cos, selfAuthorized, friendAuthorized>>
    BY <1>0, <1>6 DEF Accept
  <2> QED BY <1>2, <2>1 DEF Pending
<1>d. ~Dies(p)
  BY <1>0 DEF Dies
<1>7. CASE HandleEvent(p)
  <2>1. CASE OnConnectionFailed(p)
    BY <1>0, <2>1 DEF OnConnectionFailed
  <2>2. CASE OnServerConnected(p) \/ OnConnectedLate(p) \/ OnChallenge(p) \/ DropPacket(p)
    BY <1>0, <2>2 DEF OnServerConnected, OnConnectedLate, OnChallenge, DropPacket, HelpPacket,
       HelpReceived
  <2>3. CASE OnFriendConnected(p) \/ OnAccepted(p)
    BY <1>0, <2>3 DEF OnFriendConnected, OnAccepted, OnConnectionEstablished
  <2>4. CASE OnConnectedDies(p)
    BY <1>d, <2>4 DEF OnConnectedDies
  <2>5. CASE OnServerLost(p) \/ OnFriendOffline(p)
    BY <1>1, <2>5 DEF OnServerLost, OnFriendOffline
  <2>6. CASE OnNatTraversal(p) \/ OnConnectTo(p)
    BY <1>0, <2>6 DEF OnNatTraversal, OnConnectTo, HelpPacket, HelpReceived, Reconnect
  <2>7. CASE OnListen(p)
    BY <1>0, <2>7 DEF OnListen
  <2>8. CASE OnRandomSequence(p)
    BY <2>8 DEF OnRandomSequence, FriendData
  <2>9. CASE OnConfirm(p) \/ OnAuthorized(p)
    BY <1>0, <2>9 DEF OnConfirm, OnAuthorized, FriendData, UpdateOnlineStatus
  <2> QED BY <1>7, <2>1, <2>2, <2>3, <2>4, <2>5, <2>6, <2>7, <2>8, <2>9 DEF HandleEvent
<1>8. CASE ConnectDies(p)
  BY <1>8, <1>d DEF ConnectDies
<1> QED BY <1>3, <1>4, <1>5, <1>6, <1>7, <1>8 DEF StepOf, HandleMain, Connections

\* Every step keeps that.
LEMMA ShownStep ==
    ASSUME LinkTypes, Shown, [Next]_vars
    PROVE  Shown'
<1> SUFFICES ASSUME NEW p \in Peer, Linked(p)', ~Pending(p)', selfAuthorized'[p],
                    friendAuthorized'[p]
             PROVE  status'[p] = "Available"
  BY DEF Shown
<1>1. CASE UNCHANGED vars
  BY <1>1 DEF Shown, vars, authVars, Pending, Linked
<1>2. CASE Next
  <2>1. CASE Rests(p)
    BY <2>1 DEF Shown, Rests, Pending, Linked
  <2>2. CASE StepOf(p) /\ status'[p] # "Available"
    <3>1. ~OnAccepted(p)
      BY DEF OnAccepted, OnConnectionEstablished, LinkTypes
    <3>2. cos'[p] # "Dead"
      BY DEF Linked
    <3>3. ~Pending(p)
      BY <1>2, <3>1, <3>2, PendingBefore
    <3>4. /\ status'[p] = status[p] /\ cos'[p] = cos[p]
          /\ selfAuthorized'[p] = selfAuthorized[p] /\ friendAuthorized'[p] = friendAuthorized[p]
      BY <2>2, ShowingSteps
    <3> QED BY <3>3, <3>4 DEF Shown, Linked
  <2> QED BY <1>2, <2>1, <2>2, StepsOf, OthersRest, ElsewhereRests
<1> QED BY <1>1, <1>2

-----------------------------------------------------------------------------
(* Waiting for the friend's server *)

\* p's client is connected to a port of the friend, where no server has accepted it yet.
Waits(p) ==
    /\ cos[p] = "Connected" /\ Up(mine[p])
    /\ client[mine[p]].target[1] = "Port" /\ ~client[mine[p]].taken

\* Its last random sequence is under way.
Greets(p) == \E n \in 1..Len(up[mine[p]]) :
                LastRandom(up[mine[p]], Len(up[mine[p]]), n, random[p])

Greeted ==
    "Stray" \notin incidents => \A p \in Peer : Waits(p) /\ ~Pending(p) => Greets(p)

\* Who waits after a step did so before, with the same client, or has just been connected.
LEMMA WaitsStep ==
    ASSUME LinkTypes, LinkTypes', Control, Clients, [Next]_vars, NEW p \in Peer, Waits(p)'
    PROVE  /\ mine'[p] = mine[p] /\ mine[p] \in Client /\ mine[p] # 0
           /\ client[mine[p]].target[1] = "Port" /\ ~client[mine[p]].broken
           /\ Waits(p) \/ OnFriendConnected(p)
<1>0. /\ cos'[p] = "Connected" /\ mine'[p] # 0 /\ client'[mine'[p]].udt # "Disconnected"
      /\ ~client'[mine'[p]].broken /\ client'[mine'[p]].target[1] = "Port"
      /\ ~client'[mine'[p]].taken
  BY DEF Waits, Up
<1>1. mine[p] # 0 => mine[p] \in Client
  BY Numbers
<1>2. ASSUME mine'[p] = mine[p],
             mine[p] # 0 => /\ client'[mine[p]].target = client[mine[p]].target
                            /\ client'[mine[p]].udt # "Disconnected" =>
                                  client[mine[p]].udt # "Disconnected"
                            /\ client[mine[p]].broken => client'[mine[p]].broken
                            /\ client[mine[p]].taken => client'[mine[p]].taken,
             cos[p] = "Connected" \/ OnFriendConnected(p)
      PROVE  /\ mine'[p] = mine[p] /\ mine[p] \in Client /\ mine[p] # 0
             /\ client[mine[p]].target[1] = "Port" /\ ~client[mine[p]].broken
             /\ Waits(p) \/ OnFriendConnected(p)
  <2>1. mine[p] # 0 /\ mine[p] \in Client
    BY <1>0, <1>1, <1>2
  <2>2. /\ client[mine[p]].target[1] = "Port" /\ ~client[mine[p]].broken
        /\ client[mine[p]].udt # "Disconnected" /\ ~client[mine[p]].taken
    BY <1>0, <1>2, <2>1
  <2>3. cos[p] = "Connected" => Waits(p)
    BY <2>1, <2>2 DEF Waits, Up
  <2> QED BY <1>2, <2>1, <2>2, <2>3
<1> DEFINE G == /\ mine'[p] = mine[p] /\ mine[p] \in Client /\ mine[p] # 0
                /\ client[mine[p]].target[1] = "Port" /\ ~client[mine[p]].broken
                /\ Waits(p) \/ OnFriendConnected(p)
<1>3. ASSUME mine'[p] = mine[p], mine[p] # 0 => Lasts(mine[p]),
             cos[p] = "Connected" \/ OnFriendConnected(p)
      PROVE  G
  <2>1. mine[p] # 0 => /\ client'[mine[p]].target = client[mine[p]].target
                       /\ client'[mine[p]].udt # "Disconnected" =>
                                  client[mine[p]].udt # "Disconnected"
                       /\ client[mine[p]].broken => client'[mine[p]].broken
                       /\ client[mine[p]].taken => client'[mine[p]].taken
    BY <1>3 DEF Lasts
  <2> QED BY <1>2, <1>3, <2>1
<1> HIDE DEF G
<1>4. CASE Quiet
  <2>1. cos[p] = "Connected" /\ mine'[p] = mine[p] /\ (mine[p] # 0 => Lasts(mine[p]))
    BY <1>0, <1>1, <1>4 DEF Quiet, LinkStatus
  <2> QED BY <1>3, <2>1 DEF G
<1>5. ASSUME NEW r \in Peer, WorkerConnected(r) PROVE G
  <2>1. /\ UNCHANGED <<cos, mine>> /\ client[mine[r]].udt = "Connecting"
        /\ \A j \in Client : /\ client'[j].target = client[j].target
                             /\ client'[j].broken = client[j].broken
                             /\ client'[j].taken = client[j].taken
                             /\ client'[j].udt = IF j = mine[r] THEN "Connected" ELSE client[j].udt
    BY <1>5, ConnectingKeepsClients DEF WorkerConnected
  <2> QED BY <1>0, <1>1, <1>2, <2>1 DEF G
<1>6. ASSUME NEW r \in Peer, Connect(r) \/ ConnectAccept(r) PROVE G
  <2>1. /\ cos'[r] = "ConnectingToServer"
        /\ \A j \in Client : j # made' => Lasts(j)
        /\ \A x \in Peer : /\ mine[x] # made'
                           /\ x # r => mine'[x] = mine[x] /\ cos'[x] = cos[x]
    BY <1>6, NewClients
  <2>2. r # p
    BY <1>0, <2>1
  <2> QED BY <1>0, <1>1, <1>3, <2>1, <2>2
<1>7. ASSUME NEW r \in Peer, Accept(r) PROVE G
  <2>1. \A j \in Client : Lasts(j)
    BY <1>7, AcceptKeepsClients
  <2>2. UNCHANGED mine /\ (cos' = cos \/ cos' = [cos EXCEPT ![r] = "AcceptedConnection"])
    BY <1>7 DEF Accept
  <2>3. cos[p] = "Connected"
    BY <1>0, <2>2 DEF LinkTypes
  <2> QED BY <1>1, <1>3, <2>1, <2>2, <2>3
<1>8. ASSUME NEW r \in Peer, OnFriendConnected(r) PROVE G
  <2>1. UNCHANGED <<client, mine>> /\ cos' = [cos EXCEPT ![r] = "Connected"]
    BY <1>8 DEF OnFriendConnected
  <2>2. cos[p] = "Connected" \/ r = p
    BY <1>0, <2>1 DEF LinkTypes
  <2> QED BY <1>2, <1>8, <2>1, <2>2 DEF G
<1>9. ASSUME NEW r \in Peer, OnNatTraversal(r) \/ OnConnectTo(r) PROVE G
  <2>1. /\ mine[r] \in Client /\ mine[r] # 0
        /\ cos[r] = "WaitingFriendAddress" /\ UNCHANGED mine
        /\ \A j \in Client : j # mine[r] => client'[j] = client[j]
        /\ cos' = cos \/ cos' = [cos EXCEPT ![r] = "ConnectingToFriend"]
    BY <1>9, Reconnecting
  <2>2. r # p /\ cos'[p] = cos[p]
    BY <1>0, <2>1 DEF LinkTypes
  <2>3. mine[p] # mine[r]
    BY <2>1, <2>2 DEF Control
  <2>4. mine[p] # 0 => client'[mine[p]] = client[mine[p]]
    BY <1>1, <2>1, <2>3
  <2> QED BY <1>0, <1>2, <2>1, <2>2, <2>4 DEF G
<1> QED BY <1>4, <1>5, <1>6, <1>7, <1>8, <1>9, QuietSteps DEF Makes, G

\* A new random sequence, put at the end.
LEMMA GreetsAnew ==
    ASSUME NEW S, NEW s \in Seq(S), NEW x, x.type = "RandomSequence",
           NEW t, t = Append(s, x)
    PROVE  \E n \in 1..Len(t) : LastRandom(t, Len(t), n, x.random)
<1>1. Len(t) = Len(s) + 1 /\ Len(s) \in Nat /\ t[Len(s) + 1] = x
  BY AppendedTo
<1>2. Len(s) + 1 \in 1..Len(t) /\ \A m \in 1..Len(t) : ~(m > Len(s) + 1)
  BY <1>1
<1> QED BY <1>1, <1>2 DEF LastRandom

\* It stays the last one when something else is put behind it.
LEMMA GreetsStill ==
    ASSUME NEW S, NEW s \in Seq(S), NEW x, x.type # "RandomSequence", NEW r,
           NEW t, t = Append(s, x), \E n \in 1..Len(s) : LastRandom(s, Len(s), n, r)
    PROVE  \E n \in 1..Len(t) : LastRandom(t, Len(t), n, r)
<1>1. /\ Len(t) = Len(s) + 1 /\ Len(s) \in Nat /\ t[Len(s) + 1] = x
      /\ \A n \in 1..Len(s) : t[n] = s[n]
  BY AppendedTo
<1>2. PICK n \in 1..Len(s) : LastRandom(s, Len(s), n, r)
  OBVIOUS
<1>3. n \in 1..Len(t) /\ \A m \in 1..Len(t) : m \in 1..Len(s) \/ m = Len(s) + 1
  BY <1>1
<1>4. t[n] = s[n] /\ \A m \in 1..Len(t) : m > n => t[m].type # "RandomSequence"
  BY <1>1, <1>2, <1>3 DEF LastRandom
<1> QED BY <1>2, <1>3, <1>4 DEF LastRandom

\* What one who waits sends to the port goes up its link.
LEMMA SentUp ==
    ASSUME LinkTypes, Control, NEW p \in Peer, mine[p] \in Client, cos[p] # "AcceptedConnection",
           client[mine[p]].target[1] = "Port", ~client[mine[p]].broken,
           NEW r \in Peer, NEW packet, SendRaw(r, packet)
    PROVE  up'[mine[p]] = IF r = p THEN Append(up[mine[p]], packet) ELSE up[mine[p]]
<1>1. \A j \in Client :
        up'[j] = IF /\ cos[r] # "AcceptedConnection" /\ j = mine[r] /\ ~client[mine[r]].broken
                    /\ client[mine[r]].target[1] # "Client"
                 THEN Append(up[j], packet) ELSE up[j]
  BY DEF SendRaw
<1>2. mine[p] # 0 /\ (mine[p] = mine[r] => r = p)
  <2>1. mine[p] # 0
    BY DEF Client
  <2> QED BY <2>1 DEF Control
<1>3. CASE r = p
  BY <1>1, <1>3
<1>4. CASE r # p
  BY <1>1, <1>2, <1>4
<1> QED BY <1>3, <1>4

\* Who still waits still greets.
LEMMA UpWaits ==
    ASSUME LinkTypes, LinkTypes', Control, Clients, [Next]_vars, NEW p \in Peer,
           Waits(p), Waits(p)', ~OnAccepted(p), Greets(p)
    PROVE  Greets(p)'
<1>0. /\ mine'[p] = mine[p] /\ mine[p] \in Client /\ mine[p] # 0
      /\ client[mine[p]].target[1] = "Port" /\ ~client[mine[p]].broken
      /\ cos[p] = "Connected" /\ cos'[p] = "Connected"
      /\ ~client'[mine[p]].broken /\ ~client'[mine[p]].taken
  BY WaitsStep DEF Waits, Up
<1>1. up \in [Client -> Seq(AnyPacket)] /\ up[mine[p]] \in Seq(AnyPacket)
  BY <1>0 DEF LinkTypes, AnyPacket
<1>2. ~OnFriendConnected(p)
  BY <1>0 DEF OnFriendConnected
<1>3. random'[p] = random[p]
  BY <1>2, RandomKept DEF vars, authVars
<1>4. ASSUME up'[mine[p]] = up[mine[p]] PROVE Greets(p)'
  BY <1>0, <1>3, <1>4 DEF Greets
<1>5. ASSUME NEW x, x.type # "RandomSequence", up'[mine[p]] = Append(up[mine[p]], x)
      PROVE  Greets(p)'
  <2>1. \E n \in 1..Len(up[mine[p]]) : LastRandom(up[mine[p]], Len(up[mine[p]]), n, random[p])
    BY DEF Greets
  <2>2. \E n \in 1..Len(up'[mine[p]]) : LastRandom(up'[mine[p]], Len(up'[mine[p]]), n, random[p])
    BY <1>1, <1>5, <2>1, GreetsStill
  <2> QED BY <1>0, <1>3, <2>2 DEF Greets
<1>6. CASE Spared
  BY <1>0, <1>4, <1>6 DEF Spared
<1>7. ASSUME NEW r \in Peer, WorkerReceives(r) PROVE Greets(p)'
  <2>1. PICK i \in {mine[r], accepted[r]} \ {0} :
          up' = up \/ (i = accepted[r] /\ up' = [up EXCEPT ![i] = Tail(@)])
    BY <1>7 DEF WorkerReceives
  <2>2. UNCHANGED client
    BY <1>7 DEF WorkerReceives
  <2>3. accepted[r] # 0 => accepted[r] # mine[p]
    BY <1>0, <2>2 DEF Clients, ClientsOf
  <2>4. up'[mine[p]] = up[mine[p]]
    BY <1>0, <1>1, <2>1, <2>3
  <2> QED BY <1>4, <2>4
<1>8. ASSUME NEW r \in Peer, Answers(r) PROVE Greets(p)'
  <2>1. CASE r # p
    <3>1. UNCHANGED up \/ \E packet : SendRaw(r, packet)
      <4>1. CASE OnFriendConnected(r) \/ OnAccepted(r)
        BY <4>1 DEF OnFriendConnected, OnAccepted, OnConnectionEstablished
      <4>2. CASE OnRandomSequence(r)
        BY <4>2 DEF OnRandomSequence
      <4>3. CASE OnConfirm(r)
        BY <4>3 DEF OnConfirm
      <4> QED BY <1>8, <4>1, <4>2, <4>3 DEF Answers
    <3>2. up'[mine[p]] = up[mine[p]]
      BY <1>0, <2>1, <3>1, SentUp
    <3> QED BY <1>4, <3>2
  <2>2. CASE r = p
    <3>1. \/ UNCHANGED up
          \/ SendRaw(p, [type |-> "Confirm", random |-> Packet(p).random, key |-> drawn'[p]])
          \/ SendRaw(p, [type |-> "Authorized", key |-> Packet(p).key])
      <4>1. OnRandomSequence(p) \/ OnConfirm(p)
        BY <1>2, <1>8, <2>2 DEF Answers
      <4> QED BY <4>1 DEF OnRandomSequence, OnConfirm
    <3>2. ASSUME NEW x, x.type # "RandomSequence", SendRaw(p, x) PROVE Greets(p)'
      <4>1. up'[mine[p]] = Append(up[mine[p]], x)
        BY <1>0, <3>2, SentUp
      <4> QED BY <1>5, <3>2, <4>1
    <3>3. CASE UNCHANGED up
      BY <1>4, <3>3
    <3>4. CASE SendRaw(p, [type |-> "Confirm", random |-> Packet(p).random, key |-> drawn'[p]])
      <4>1. [type |-> "Confirm", random |-> Packet(p).random, key |-> drawn'[p]].type
              # "RandomSequence"
        OBVIOUS
      <4> QED BY <3>2, <3>4, <4>1
    <3>5. CASE SendRaw(p, [type |-> "Authorized", key |-> Packet(p).key])
      <4>1. [type |-> "Authorized", key |-> Packet(p).key].type # "RandomSequence"
        OBVIOUS
      <4> QED BY <3>2, <3>5, <4>1
    <3> QED BY <3>1, <3>3, <3>4, <3>5
  <2> QED BY <2>1, <2>2
<1> QED BY <1>6, <1>7, <1>8, WireSteps

\* Who has just been connected, or has taken the news of an acceptance, greets.
LEMMA UpGreets ==
    ASSUME LinkTypes, LinkTypes', Control, Clients, [Next]_vars, NEW p \in Peer,
           Waits(p)', OnFriendConnected(p) \/ OnAccepted(p)
    PROVE  Greets(p)'
<1>0. /\ mine'[p] = mine[p] /\ mine[p] \in Client /\ mine[p] # 0
      /\ client[mine[p]].target[1] = "Port" /\ ~client[mine[p]].broken
      /\ cos[p] # "AcceptedConnection"
  <2>1. cos'[p] = "Connected"
    BY DEF Waits
  <2>2. cos[p] # "AcceptedConnection"
    BY <2>1 DEF OnFriendConnected, OnAccepted
  <2> QED BY <2>2, WaitsStep
<1>1. up[mine[p]] \in Seq(AnyPacket)
  BY <1>0 DEF LinkTypes, AnyPacket
<1> DEFINE x == [type |-> "RandomSequence", random |-> random'[p]]
<1>2. SendRaw(p, x)
  <2>1. OnConnectionEstablished(p)
    BY DEF OnFriendConnected, OnAccepted
  <2> QED BY <2>1 DEF OnConnectionEstablished, LinkTypes
<1>3. x.type = "RandomSequence" /\ x.random = random'[p]
  OBVIOUS
<1> HIDE DEF x
<1>4. up'[mine[p]] = Append(up[mine[p]], x)
  BY <1>0, <1>2, SentUp
<1>5. \E n \in 1..Len(up'[mine[p]]) : LastRandom(up'[mine[p]], Len(up'[mine[p]]), n, x.random)
  BY <1>1, <1>3, <1>4, GreetsAnew
<1> QED BY <1>0, <1>3, <1>5 DEF Greets

\* Every step keeps that.
LEMMA GreetedStep ==
    ASSUME LinkTypes, LinkTypes', Control, Clients, Greeted, [Next]_vars
    PROVE  Greeted'
<1> SUFFICES ASSUME "Stray" \notin incidents', NEW p \in Peer, Waits(p)', ~Pending(p)'
             PROVE  Greets(p)'
  BY DEF Greeted
<1>0. "Stray" \notin incidents
  BY Grows
<1>1. CASE OnFriendConnected(p) \/ OnAccepted(p)
  BY <1>1, UpGreets
<1>2. CASE ~OnFriendConnected(p) /\ ~OnAccepted(p) /\ Next
  <2>1. Waits(p)
    BY <1>2, WaitsStep
  <2>2. cos'[p] # "Dead"
    BY DEF Waits
  <2>3. ~Pending(p)
    BY <1>2, <2>2, PendingBefore
  <2>4. Greets(p)
    BY <1>0, <2>1, <2>3 DEF Greeted
  <2> QED BY <1>2, <2>1, <2>4, UpWaits
<1>3. CASE UNCHANGED vars
  BY <1>0, <1>3 DEF Greeted, Greets, Waits, Up, Pending, vars, linkVars, authVars
<1> QED BY <1>1, <1>2, <1>3

-----------------------------------------------------------------------------
(* The keys agree *)

\* The exchange of keys is under way or done for every two who face each other.
Exchanges ==
    "Stray" \notin incidents =>
    \A p \in Peer : Facing(p) /\ cos[p] # "ConnectingToFriend" /\ ~Pending(p) => Exchange(p)

LEMMA WholeIn ==
    \A x : \A k \in 1..Coming(x) :
        In(x)[k] = IF k <= Queue(x) THEN Content(events[x][k]) ELSE Wire(x)[k - Queue(x)]
BY InAt

\* The server of the friend accepts p, who has greeted it.
LEMMA AcceptedAsks ==
    ASSUME LinkTypes, LinkTypes', Control, Control', Clients, Clients', Greeted, [Next]_vars,
           NEW p \in Peer, NEW q, q = Other[p],
           Facing(p)', ~Pending(p)', cos'[p] # "ConnectingToFriend", "Stray" \notin incidents',
           Accept(q), Welcomes(q)
    PROVE  Exchange(p)'
<1>0. q \in Peer /\ q # p /\ Other[q] = p
  BY Peers
<1>1. /\ cos'[q] = "AcceptedConnection" /\ cos'[p] = cos[p] /\ up' = up /\ events' = events
      /\ UNCHANGED <<mine, random>> /\ unreported'[p] = unreported[p] /\ incidents' = incidents
  BY <1>0 DEF Accept, Welcomes, LinkTypes, authVars
<1>2. PICK i \in Client : /\ ListenerThere(i) /\ ~client[i].taken /\ ~client[i].broken
                          /\ client[i].udt # "Disconnected" /\ accepted'[q] = i
  <2>1. \E i \in Client : /\ ListenerThere(i) /\ ~client[i].taken /\ ~client[i].broken
                          /\ client[i].udt # "Disconnected"
                          /\ accepted' = [accepted EXCEPT ![q] = i]
    BY DEF Accept, Welcomes
  <2> QED BY <1>0, <2>1 DEF LinkTypes
<1>3. Serves(q, p)'
  BY <1>0, <1>1 DEF Facing, Traverse, Serves
<1>4. /\ accepted'[q] = mine[p] /\ mine[p] = i /\ mine[p] # 0 /\ cos[p] = "Connected"
  BY <1>1, <1>2, <1>3 DEF Serves, Up
<1>5. Waits(p)
  BY <1>2, <1>4 DEF Waits, Up, ListenerThere
<1>6. ~Pending(p)
  BY <1>1 DEF Pending
<1>7. PICK n \in 1..Len(up[i]) : LastRandom(up[i], Len(up[i]), n, random[p])
  BY <1>1, <1>4, <1>5, <1>6 DEF Greeted, Greets
<1>8. Wire(q)' = up[i]
  BY <1>1, <1>2 DEF Wire
<1>9. Queue(q)' \in Nat /\ Len(up[i]) \in Nat /\ Coming(q)' = Queue(q)' + Len(up[i])
  <2>1. events'[q] \in Seq(Event) /\ up[i] \in Seq(AnyPacket)
    BY <1>0 DEF LinkTypes, AnyPacket
  <2>2. Queue(q)' \in Nat /\ Len(up[i]) \in Nat
    BY <2>1 DEF Queue
  <2> QED BY <1>8, <2>2 DEF Coming
<1>10. \A m \in 1..Len(up[i]) : In(q)'[Queue(q)' + m] = up[i][m]
  <2> SUFFICES ASSUME NEW m \in 1..Len(up[i]) PROVE In(q)'[Queue(q)' + m] = up[i][m]
    OBVIOUS
  <2>1. \A k \in 1..Coming(q)' :
          In(q)'[k] = IF k <= Queue(q)' THEN Content(events'[q][k]) ELSE Wire(q)'[k - Queue(q)']
    <3>1. (\A x : \A k \in 1..Coming(x) :
              In(x)[k] = IF k <= Queue(x) THEN Content(events[x][k]) ELSE Wire(x)[k - Queue(x)])'
      BY WholeIn, PTL
    <3> QED BY <3>1, Zenon
  <2>2. ASSUME NEW k, k = Queue(q)' + m PROVE In(q)'[k] = up[i][m]
    <3>1. k \in 1..Coming(q)' /\ ~(k <= Queue(q)') /\ k - Queue(q)' = m
      BY <1>9, <2>2
    <3>2. In(q)'[k] = IF k <= Queue(q)' THEN Content(events'[q][k]) ELSE Wire(q)'[k - Queue(q)']
      BY <2>1, <3>1
    <3>3. In(q)'[k] = Wire(q)'[k - Queue(q)']
      BY <3>1, <3>2
    <3> QED BY <1>8, <3>1, <3>3
  <2> QED BY <2>2
<1>11. LastRandom(In(q)', Coming(q)', Queue(q)' + n, random[p])
  <2>1. In(q)'[Queue(q)' + n] = up[i][n]
    BY <1>10
  <2>2. ASSUME NEW m \in 1..Coming(q)', m > Queue(q)' + n PROVE In(q)'[m].type # "RandomSequence"
    <3>1. m - Queue(q)' \in 1..Len(up[i]) /\ m - Queue(q)' > n /\ Queue(q)' + (m - Queue(q)') = m
      BY <1>9, <2>2
    <3>2. In(q)'[m] = up[i][m - Queue(q)']
      BY <1>10, <3>1
    <3> QED BY <1>7, <3>1, <3>2 DEF LastRandom
  <2> QED BY <1>7, <2>1, <2>2 DEF LastRandom
<1>12. Queue(q)' + n \in 1..Coming(q)'
  BY <1>9
<1>13. Asked(In(q)', Coming(q)', Queue(q)', random[p], FALSE)
  BY <1>11, <1>12 DEF Asked
<1>14. (cos'[q] = "ConnectingToFriend") = FALSE
  BY <1>1
<1>15. AskedOf(p)'
  BY <1>1, <1>13, <1>14 DEF AskedOf
<1> QED BY <1>15 DEF Exchange

\* Every step keeps the exchanges.
LEMMA ExchangesStep ==
    ASSUME LinkTypes, LinkTypes', Control, Control', Clients, Clients', Greeted, Exchanges, [Next]_vars
    PROVE  Exchanges'
<1> SUFFICES ASSUME "Stray" \notin incidents', NEW p \in Peer, Facing(p)',
                    cos'[p] # "ConnectingToFriend", ~Pending(p)'
             PROVE  Exchange(p)'
  BY DEF Exchanges
<1> DEFINE q == Other[p]
<1>0. "Stray" \notin incidents /\ q \in Peer
  BY Grows, Peers
<1>1. CASE UNCHANGED vars
  <2>1. Facing(p) /\ cos[p] # "ConnectingToFriend" /\ ~Pending(p)
    BY <1>1 DEF vars, linkVars, Facing, Traverse, Serves, Up, PeerClient, Pending
  <2>2. Wire(p)' = Wire(p) /\ Wire(q)' = Wire(q)
    BY <1>1 DEF vars, linkVars, Wire
  <2>3. Rests(p) /\ Rests(q)
    BY <1>0, <1>1, ElsewhereRests DEF StepElsewhere
  <2> QED BY <1>0, <2>1, <2>2, <2>3, Grows, Untouched DEF Exchanges
<1>2. CASE Next /\ Facing(p) /\ LinkKept(p) /\ LinkKept(q)
  <2>1. cos[p] # "ConnectingToFriend" /\ ~Pending(p) => Exchange(p)
    BY <1>0, <1>2 DEF Exchanges
  <2> QED BY <1>2, <2>1, ExchangeKept
<1>3. CASE Accept(p) /\ Welcomes(p)
  <2>1. unreported'[p]
    BY <1>3 DEF Accept, Welcomes, LinkTypes
  <2> QED BY <2>1 DEF Pending
<1>4. CASE Accept(q) /\ Welcomes(q)
  BY <1>4, AcceptedAsks
<1> QED BY <1>1, <1>2, <1>3, <1>4, FacingStep

\* Who connects to the friend, or is connected, has a client.
HasClients ==
    \A p \in Peer : cos[p] \in {"ConnectingToFriend", "Connected"} => mine[p] # 0

\* Every step keeps that.
LEMMA HasClientsStep ==
    ASSUME LinkTypes, Control, HasClients, [Next]_vars
    PROVE  HasClients'
<1> SUFFICES ASSUME NEW p \in Peer, cos'[p] \in {"ConnectingToFriend", "Connected"}
             PROVE  mine'[p] # 0
  BY DEF HasClients
<1>1. CASE Quiet
  BY <1>1 DEF Quiet, LinkStatus, HasClients
<1>2. ASSUME NEW r \in Peer, WorkerConnected(r) \/ Accept(r) PROVE mine'[p] # 0
  <2>1. UNCHANGED mine /\ (cos' = cos \/ cos' = [cos EXCEPT ![r] = "AcceptedConnection"])
    BY <1>2 DEF WorkerConnected, Accept
  <2> QED BY <2>1 DEF HasClients, LinkTypes
<1>3. ASSUME NEW r \in Peer, Connect(r) \/ ConnectAccept(r) PROVE mine'[p] # 0
  <2>1. /\ cos'[r] = "ConnectingToServer"
        /\ \A x \in Peer : x # r => mine'[x] = mine[x] /\ cos'[x] = cos[x]
    BY <1>3, NewClients
  <2> QED BY <2>1 DEF HasClients
<1>4. ASSUME NEW r \in Peer, OnFriendConnected(r) PROVE mine'[p] # 0
  <2>1. /\ UNCHANGED mine /\ cos[r] = "ConnectingToFriend"
        /\ cos' = [cos EXCEPT ![r] = "Connected"]
    BY <1>4 DEF OnFriendConnected
  <2> QED BY <2>1 DEF HasClients, LinkTypes
<1>5. ASSUME NEW r \in Peer, OnNatTraversal(r) \/ OnConnectTo(r) PROVE mine'[p] # 0
  <2>1. /\ mine[r] # 0 /\ UNCHANGED mine
        /\ cos' = cos \/ cos' = [cos EXCEPT ![r] = "ConnectingToFriend"]
    BY <1>5, Reconnecting
  <2> QED BY <2>1 DEF HasClients, LinkTypes
<1> QED BY <1>1, <1>2, <1>3, <1>4, <1>5, QuietSteps DEF Makes

\* The inductive invariant.
Meets == LinkTypes /\ Control /\ Clients /\ Greeted /\ Exchanges /\ Shown /\ HasClients

\* It holds at first, and every step keeps it.
LEMMA MeetsInit == Init => Meets
<1> SUFFICES ASSUME Init PROVE Meets
  OBVIOUS
<1>1. \A p \in Peer : cos[p] = "Offline"
  BY DEF Init
<1>2. \A p \in Peer : ~Facing(p) /\ ~Waits(p) /\ ~Linked(p)
  <2> SUFFICES ASSUME NEW p \in Peer PROVE ~Facing(p) /\ ~Waits(p) /\ ~Linked(p)
    OBVIOUS
  <2>1. cos[p] = "Offline" /\ cos[Other[p]] = "Offline"
    BY <1>1, Peers
  <2> QED BY <2>1 DEF Facing, Traverse, Serves, Waits, Linked
<1>3. Greeted /\ Exchanges /\ Shown
  BY <1>2 DEF Greeted, Exchanges, Shown
<1>4. HasClients
  BY <1>1 DEF HasClients
<1> QED BY <1>3, <1>4, TypeInit, ClientsInit DEF Meets

LEMMA MeetsStep == Meets /\ [Next]_vars => Meets'
<1> SUFFICES ASSUME Meets, [Next]_vars PROVE Meets'
  OBVIOUS
<1> USE DEF Meets
<1>1. LinkTypes' /\ Control'
  BY TypeStep
<1>2. Clients'
  BY ClientsStep
<1>3. Greeted'
  BY <1>1, GreetedStep
<1>4. Exchanges'
  BY <1>1, <1>2, ExchangesStep
<1>5. Shown'
  BY ShownStep
<1>6. HasClients'
  BY HasClientsStep
<1> QED BY <1>1, <1>2, <1>3, <1>4, <1>5, <1>6

\* Who are linked to each other face each other; once all is handled, the exchange is done.
LEMMA ExchangeDone ==
    ASSUME Meets, "Stray" \notin incidents, NEW p \in Peer, LinkedTogether(p), Settled(p)
    PROVE  /\ friendKey[p] = selfKey[Other[p]] /\ friendAuthorized[p]
           /\ "Late" \notin incidents => selfAuthorized[Other[p]]
           /\ Linked(p) /\ ~Pending(p) /\ LinkedTogether(Other[p]) /\ Settled(Other[p])
<1> DEFINE q == Other[p]
<1>0. q \in Peer /\ Other[q] = p /\ LinkTypes /\ Control /\ Clients
  BY Peers DEF Meets
<1>1. /\ cos[p] # "ConnectingToFriend" /\ cos[q] # "ConnectingToFriend"
      /\ Linked(p) /\ Facing(p) /\ LinkedTogether(q)
  <2>1. CASE /\ cos[p] = "Connected" /\ cos[q] = "Connected"
             /\ Live(mine[p]) /\ Live(mine[q]) /\ PeerClient(mine[p]) = mine[q]
    <3>1. mine[q] # 0 /\ mine[p] # 0
      BY <1>0, <2>1 DEF Meets, HasClients
    <3>2. Traverse(p, q)
      BY <2>1, <3>1 DEF Traverse, Up, Live
    <3>3. PeerClient(mine[q]) = mine[p]
      <4>1. mine[p] \in Client /\ mine[q] \in Client
        BY <1>0, <3>1, Numbers
      <4>2. /\ client[mine[p]].target = <<"Client", mine[q]>>
            /\ client[mine[q]].target = <<"Client", mine[p]>>
        BY <1>0, <2>1, <3>1, <4>1, PeerClients DEF LinkTypes
      <4> QED BY <4>1, <4>2, PeerOf
    <3> QED BY <1>0, <2>1, <3>2, <3>3 DEF Facing, Linked, LinkedTogether
  <2>2. CASE cos[p] = "AcceptedConnection" /\ cos[q] = "Connected" /\ accepted[p] = mine[q]
             /\ Live(mine[q])
    <3>1. Serves(p, q)
      BY <1>0, <2>2 DEF Meets, HasClients, Serves, Live, Up
    <3> QED BY <1>0, <2>2, <3>1 DEF Facing, Linked, LinkedTogether
  <2>3. CASE cos[q] = "AcceptedConnection" /\ cos[p] = "Connected" /\ accepted[q] = mine[p]
             /\ Live(mine[p])
    <3>1. Serves(q, p)
      BY <1>0, <2>3 DEF Meets, HasClients, Serves, Live, Up
    <3> QED BY <1>0, <2>3, <3>1 DEF Facing, Linked, LinkedTogether
  <2> QED BY <2>1, <2>2, <2>3 DEF LinkedTogether
<1>2. Facing(q)
  BY <1>0, <1>1, Ends
<1>3. ASSUME NEW x \in Peer, x \in {p, q} PROVE Coming(x) = 0 /\ ~Pending(x)
  <2>1. events[x] = <<>> /\ ~unreported[x] /\ Facing(x)
    BY <1>1, <1>2, <1>3 DEF Settled
  <2>2. Wire(x) = <<>>
    BY <1>0, <2>1, Ends DEF Settled, Wire, End
  <2>3. Len(<<>>) = 0
    OBVIOUS
  <2>4. Coming(x) = 0
    BY <2>1, <2>2, <2>3 DEF Coming, Queue
  <2> QED BY <2>1, <2>3, <2>4 DEF Pending
<1>4. Coming(p) = 0 /\ Coming(q) = 0 /\ ~Pending(p) /\ ~Pending(q)
  BY <1>0, <1>3
<1>5. Exchange(p)
  BY <1>1, <1>4 DEF Meets, Exchanges
<1>6. ~AskedOf(p) /\ ~AnsweredTo(p)
  BY <1>4 DEF AskedOf, Asked, AnsweredTo, Confirmed
<1>7. friendKey[p] = selfKey[q] /\ friendAuthorized[p] /\ ToldOf(p)
  BY <1>5, <1>6 DEF Exchange
<1>8. "Late" \notin incidents => selfAuthorized[q]
  BY <1>4, <1>7 DEF ToldOf, Told
<1>9. Settled(q)
  BY <1>0 DEF Settled
<1> QED BY <1>1, <1>4, <1>7, <1>8, <1>9

\* What is wanted follows from it.
LEMMA KeysMeet == Meets => KeysAgree
BY ExchangeDone DEF KeysAgree

LEMMA BothShown == Meets => AvailableTogether
<1> SUFFICES ASSUME Meets, "Late" \notin incidents, "Stray" \notin incidents,
                    NEW p \in Peer, LinkedTogether(p), Settled(p)
             PROVE  status[p] = "Available"
  BY DEF AvailableTogether
<1>1. Other[p] \in Peer /\ Other[Other[p]] = p
  BY Peers
<1>2. /\ friendAuthorized[p] /\ Linked(p) /\ ~Pending(p)
      /\ LinkedTogether(Other[p]) /\ Settled(Other[p])
  BY ExchangeDone
<1>3. selfAuthorized[p]
  BY <1>1, <1>2, ExchangeDone
<1> QED BY <1>2, <1>3 DEF Meets, Shown

LEMMA MeetsAlways == Spec => []Meets
<1>1. Init => Meets
  BY MeetsInit
<1>2. Meets /\ [Next]_vars => Meets'
  BY MeetsStep
<1> QED BY <1>1, <1>2, PTL DEF Spec

\* Two friends who are linked encrypt with each other's keys once all is handled
\* (friend.cpp:364), whatever is left of earlier links in the queues of either, unless a
\* server read a packet of an earlier link after its owner had turned to another
\* (friend.cpp:320): OnRandomSequence, OnConfirm and OnAuthorized of TFriend.
THEOREM KeysAlwaysAgree == Spec => []KeysAgree
<1>1. Meets => KeysAgree
  BY KeysMeet
<1> QED BY <1>1, MeetsAlways, PTL

\* They are then shown as available to each other (UpdateOnlineStatus), with the same
\* exception, and unless an acceptance was reported so late that it may have undone an
\* authorization (friend.cpp:62).
THEOREM AlwaysAvailable == Spec => []AvailableTogether
<1>1. Meets => AvailableTogether
  BY BothShown
<1> QED BY <1>1, MeetsAlways, PTL
=============================================================================
