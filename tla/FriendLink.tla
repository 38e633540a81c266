----------------------------- MODULE FriendLink -----------------------------
(***************************************************************************)
(* How two friends of the vocal messenger find each other: TFriend's       *)
(* ConnectionStatus (vocal_client_lib/friend.cpp), the help a server gives *)
(* (CS_AuthorizingHelpConnect in vocal_server_lib/server.cpp) and the      *)
(* authentication of the two over their link.                              *)
(*                                                                         *)
(* A friend who gets SP_SyncInfo asks the server of the other for help     *)
(* (Connect); that server sends SP_ConnectToFriend, and the other asks its *)
(* own server (ConnectAccept), which tells both how to meet: by traversing *)
(* NAT, or one listens on a public port and the other connects.            *)
(*                                                                         *)
(* UDT clients are numbered as they are made: the number stands for the    *)
(* address, the local port stays that of the client when it connects       *)
(* again.  Events of a client that is gone are still handled.  UdtClient   *)
(* has the threads of one client; here its worker is one step per event.   *)
(* The two are authorized friends (VocalFriends), and their sessions last  *)
(* (VocalSessions).  A packet that the state does not expect is dropped:   *)
(* it does not decompress, decrypt or verify, and OnDataReceived catches   *)
(* that.                                                                   *)
(***************************************************************************)
EXTENDS Naturals, Sequences, FiniteSets

CONSTANTS
    Peer,         \* the two friends
    Other,        \* the friend of each
    HasNatPmp,    \* those with a router that forwards ports
    Garbage,      \* a port that was never initialized
    MaxClients,   \* bound: UDT clients made
    MaxBreaks,    \* bound: links that break
    MaxSyncs      \* bound: SP_SyncInfo packets to each friend

ASSUME LinkAssumption ==
    /\ Peer # {} /\ Other \in [Peer -> Peer] /\ \A p \in Peer : Other[p] # p /\ Other[Other[p]] = p
    /\ HasNatPmp \subseteq Peer
    /\ MaxClients \in Nat /\ MaxBreaks \in Nat /\ MaxSyncs \in [Peer -> Nat] /\ Garbage \notin Nat

VARIABLES
    syncs,        \* SP_SyncInfo packets sent to each; none: not registered yet
    main,         \* packets of its own server under way to each
    asked,        \* FriendConnections of each one's session: the client that asked
    client,       \* UDT clients: owner, Status, target, whether the link is broken, and
                  \* whether a server has accepted it
    up, down,     \* what is under way from and to each client
    hello,        \* session of each client at the server it asked
    made,         \* clients made so far

    status,       \* TFriend::Status of the other: FS_Offline or FS_Available
    cos,          \* ConnectionStatus; "Dead" when an exception has ended the process
    accepting,    \* AcceptingConnection
    port,         \* LocalPort and PublicPort: 0, Garbage, or the number of a mapping
    mine,         \* UdtClient, 0 if there is none
    listening,    \* the port of UdtServer, 0 if there is none
    accepted,     \* FriendAddress, when the connection was accepted
    unreported,   \* the connections thread has not queued ConnectionAccepted yet
    events,       \* the event queue
    random,       \* RandomSequence
    selfKey, friendKey,             \* SelfSessionKey, FriendSessionKey
    selfAuthorized, friendAuthorized,
    drawn,        \* random sequences and keys made by each so far

    silent,       \* clients with CS_Connecting and without a worker that would report: Connect
                  \* threw, or the worker ended unreported (see UdtClient)
    stuck,        \* processes whose event thread waits for ever for a worker, and all who
                  \* have an event to add for the queue's mutex, which it holds

    incidents     \* history: "Lost" when a connection timed out or was lost, "Failed" when
                  \* a Connect threw, was not answered or did not return, "Crossed" when
                  \* the friends asked each other at the same time, "Late" when an
                  \* acceptance was reported after the friend's Authorized, "Stray" when a
                  \* packet of an accepted connection came while another one was made

serverVars == <<syncs, asked, hello>>
authVars == <<random, selfKey, friendKey, selfAuthorized, friendAuthorized, drawn>>
linkVars == <<client, up, down, made>>
threadVars == <<silent, stuck>>
vars == <<serverVars, main, linkVars, status, cos, accepting, port, mine, listening,
          accepted, unreported, events, authVars, threadVars, incidents>>

-----------------------------------------------------------------------------
(* Data *)

Client == 1..MaxClients
Port == 0..MaxClients \cup {Garbage}

\* EConnectionStatus.
ConnectionStatus == {"Offline", "ConnectingToServer", "WaitingFriendAddress",
                     "ConnectingToFriend", "WaitingFriendConnection",
                     "AcceptedConnection", "Connected", "Dead"}
Linked(p) == cos[p] \in {"Connected", "AcceptedConnection"}

\* Where a client connects to: a server, a client of the friend, or a port at which the
\* friend may listen.
Target == {<<"None">>, <<"Server">>} \cup {<<"Client", i>> : i \in Client}
          \cup {<<"Port", n>> : n \in Port}

ClientRecord == [owner: Peer, udt: {"Disconnected", "Connecting", "Connected"},
                 target: Target, broken: BOOLEAN, taken: BOOLEAN]

\* EFriendPacketType, RT_HelpConnect and its answers.
ServerPacket == [type: {"Offline", "Listen"}] \cup [type: {"Challenge"}, challenge: Client]
                \cup [type: {"NatTraversal", "Connect"}, target: Target]
Request == [type: {"Hello"}]
           \cup [type: {"Help"}, accepting: BOOLEAN, port: Port, challenge: Client]
FriendPacket == [type: {"RandomSequence"}, random: Nat]
                \cup [type: {"Confirm"}, random: Nat, key: Nat]
                \cup [type: {"Authorized"}, key: Nat]

Event == [type: {"Connected"}, success: BOOLEAN] \cup [type: {"Accepted", "Lost"}]
         \cup [type: {"Data"}, packet: ServerPacket \cup FriendPacket]

Queued(p, e) == events' = [events EXCEPT ![p] = Append(@, e)]

-----------------------------------------------------------------------------
(* Links *)

\* The client of the friend that client i talks to, 0 if there is none: both traverse
\* NAT to each other.
PeerClient(i) ==
    LET t == client[i].target IN
    IF t[1] = "Client" /\ client[t[2]].target = <<"Client", i>> THEN t[2] ELSE 0

\* The friend of client i listens at the port i connects to.
ListenerThere(i) ==
    LET q == Other[client[i].owner]
    IN  /\ client[i].target[1] = "Port" /\ client[i].target[2] # Garbage
        /\ listening[q] # 0 /\ client[i].target[2] = listening[q]

\* up and down with "packet" sent by p over its link; lost when the link is broken, which
\* UdtServer->Send does not tell.
SendRaw(p, packet) ==
    LET server == cos[p] = "AcceptedConnection"
        i == IF server THEN accepted[p] ELSE mine[p]
        to(j) == /\ i # 0 /\ ~client[i].broken /\ client[i].udt # "Disconnected"
                 /\ j = IF server THEN i ELSE PeerClient(i)
    IN  /\ down' = [j \in Client |-> IF to(j) THEN Append(down[j], packet) ELSE down[j]]
        /\ up' = [j \in Client |->
                    IF ~server /\ j = i /\ ~client[i].broken /\ client[i].target[1] # "Client"
                    THEN Append(up[j], packet) ELSE up[j]]

\* UdtClient->Send and UdtServer->Send: only the first throws when not connected.
CanSend(p) == cos[p] = "AcceptedConnection" \/ client[mine[p]].udt = "Connected"

\* The worker of p's client sees the connection made: by a server, by the client of the
\* friend that connects at the same time, or by the friend's port.
WorkerConnected(p) ==
    LET i == mine[p] IN
    /\ i # 0 /\ client[i].udt = "Connecting" /\ i \notin silent
    /\ \/ client[i].target = <<"Server">>
       \/ PeerClient(i) # 0 /\ client[PeerClient(i)].udt # "Disconnected"
       \/ ListenerThere(i)
    /\ client' = [client EXCEPT ![i].udt = "Connected"]
    /\ Queued(p, [type |-> "Connected", success |-> TRUE])
    /\ UNCHANGED <<serverVars, main, up, down, made, status, cos, accepting, port, mine,
                   listening, accepted, unreported, authVars, threadVars, incidents>>

\* OnDisconnected: nothing happens while the friend is FS_Offline.
OnDisconnected(p) ==
    /\ status' = [status EXCEPT ![p] = "Offline"]
    /\ cos' = [cos EXCEPT ![p] = IF status[p] = "Offline" THEN @ ELSE "Offline"]

\* The worker's timeout: Disconnect, and OnConnected(false) is queued.
WorkerTimedOut(p) ==
    LET i == mine[p] IN
    /\ p \notin stuck /\ i # 0 /\ client[i].udt = "Connecting" /\ i \notin silent
    /\ client' = [client EXCEPT ![i].udt = "Disconnected"]
    /\ OnDisconnected(p)
    /\ Queued(p, [type |-> "Connected", success |-> FALSE])
    /\ incidents' = incidents \cup {"Lost"}
    /\ UNCHANGED <<serverVars, main, up, down, made, accepting, port, mine, listening,
                   accepted, unreported, authVars, threadVars>>

\* What has arrived at p's client, or at its server from the friend it accepted, also after
\* p has turned to another connection: OnDataReceived is not told where a packet is from.
WorkerReceives(p) ==
    \E i \in {mine[p], accepted[p]} \ {0} :
        /\ \/ /\ i = mine[p] /\ client[i].udt = "Connected" /\ down[i] # <<>>
              /\ Queued(p, [type |-> "Data", packet |-> Head(down[i])])
              /\ down' = [down EXCEPT ![i] = Tail(@)] /\ UNCHANGED up
           \/ /\ i = accepted[p] /\ listening[p] # 0 /\ up[i] # <<>>
              /\ Queued(p, [type |-> "Data", packet |-> Head(up[i])])
              /\ up' = [up EXCEPT ![i] = Tail(@)] /\ UNCHANGED down
        /\ incidents' = incidents \cup
             (IF unreported[p] /\ Head(IF up' # up THEN up[i] ELSE down[i]).type = "Authorized"
              THEN {"Late"} ELSE {})
             \cup (IF up' # up /\ cos[p] # "AcceptedConnection" THEN {"Stray"} ELSE {})
        /\ UNCHANGED <<serverVars, main, client, made, status, cos, accepting, port, mine,
                       listening, accepted, unreported, authVars, threadVars>>

\* The link of client i breaks: what is under way is lost.
LinkBreaks(i) ==
    /\ Cardinality({j \in Client : client[j].broken}) < MaxBreaks
    /\ client[i].udt = "Connected" /\ ~client[i].broken
    /\ LET ends == {i, PeerClient(i)} \ {0}
       IN  /\ client' = [j \in Client |-> IF j \in ends THEN [client[j] EXCEPT !.broken = TRUE]
                                          ELSE client[j]]
           /\ up' = [j \in Client |-> IF j \in ends THEN <<>> ELSE up[j]]
           /\ down' = [j \in Client |-> IF j \in ends THEN <<>> ELSE down[j]]
    /\ incidents' = incidents \cup {"Lost"}
    /\ UNCHANGED <<serverVars, main, made, status, cos, accepting, port, mine, listening,
                   accepted, unreported, events, authVars, threadVars>>

\* The worker of p's client finds its link broken; OnDisconnected is called at once.
WorkerLost(p) ==
    LET i == mine[p] IN
    /\ i # 0 /\ client[i].udt = "Connected" /\ client[i].broken
    /\ client' = [client EXCEPT ![i].udt = "Disconnected"]
    /\ OnDisconnected(p)
    /\ UNCHANGED <<serverVars, main, up, down, made, accepting, port, mine, listening,
                   accepted, unreported, events, authVars, threadVars, incidents>>

\* The worker of p's server finds the link of the accepted client broken, which is an event.
ServerLost(p) ==
    LET i == accepted[p] IN
    /\ i # 0 /\ listening[p] # 0 /\ client[i].broken
    /\ accepted' = [accepted EXCEPT ![p] = 0]
    /\ Queued(p, [type |-> "Lost"])
    /\ UNCHANGED <<serverVars, main, linkVars, status, cos, accepting, port, mine, listening,
                   unreported, authVars, threadVars, incidents>>

\* The connections thread of p's server, which gets every connection once: OnClientConnected
\* takes the friend's if it is waited for, or it is closed.
Accept(p) ==
    \E i \in Client :
        /\ Other[client[i].owner] = p /\ ListenerThere(i) /\ client[i].udt # "Disconnected"
        /\ ~client[i].broken /\ ~client[i].taken /\ ~unreported[p]
        /\ IF cos[p] = "WaitingFriendConnection" /\ p \notin stuck
           THEN /\ accepted' = [accepted EXCEPT ![p] = i]
                /\ cos' = [cos EXCEPT ![p] = "AcceptedConnection"]
                /\ unreported' = [unreported EXCEPT ![p] = TRUE]
                /\ client' = [client EXCEPT ![i].taken = TRUE]
                /\ UNCHANGED <<up, down>>
           ELSE /\ client' = [client EXCEPT ![i].broken = TRUE]
                /\ up' = [up EXCEPT ![i] = <<>>] /\ down' = [down EXCEPT ![i] = <<>>]
                /\ UNCHANGED <<accepted, cos, unreported>>
        /\ UNCHANGED <<serverVars, main, made, status, accepting, port, mine, listening,
                       events, authVars, threadVars, incidents>>

\* ... and then queues ConnectionAccepted; the worker reads the new socket already.
ReportAccepted(p) ==
    /\ unreported[p] /\ p \notin stuck
    /\ unreported' = [unreported EXCEPT ![p] = FALSE]
    /\ Queued(p, [type |-> "Accepted"])
    /\ UNCHANGED <<serverVars, main, linkVars, status, cos, accepting, port, mine, listening,
                   accepted, authVars, threadVars, incidents>>


-----------------------------------------------------------------------------
(* Making clients *)

Active(p) == mine[p] # 0 /\ client[mine[p]].udt # "Disconnected"

\* The worker of p's client, or one of p's server, has an event to add: it waits for the
\* mutex that the event thread holds (event_queue.cpp:20).
Adding(p) ==
    /\ Active(p) /\ mine[p] \notin silent
    /\ client[mine[p]].udt = "Connecting" \/ down[mine[p]] # <<>>

ServerAdding(p) ==
    /\ listening[p] # 0
    /\ \/ unreported[p]
       \/ accepted[p] # 0 /\ (up[accepted[p]] # <<>> \/ client[accepted[p]].broken)

\* A callback of p that waits for a thread which is adding an event never returns.
Stop(p, adding) == stuck' = stuck \/ (adding /\ stuck' = stuck \cup {p})

\* Connect of client i: its worker reports what comes of it, or there is none that does;
\* or Connect does not return from waiting for the worker before (nor from destroying it).
Begin(p, i, adding) ==
    /\ silent' \in {silent \ {i}, silent \cup {i}}
    /\ Stop(p, adding)

Failed(p) == IF mine'[p] \in silent' \/ p \in stuck' THEN {"Failed"} ELSE {}

\* InitUdtClient, and Connect to the server: the old client is destroyed, which calls
\* OnDisconnected, and leaves its socket open.
NewClient(p) ==
    /\ made < MaxClients /\ made' = made + 1
    /\ mine' = [mine EXCEPT ![p] = made']
    /\ client' = [i \in Client |->
          IF i = made' THEN [owner |-> p, udt |-> "Connecting", target |-> <<"Server">>,
                             broken |-> FALSE, taken |-> FALSE]
          ELSE IF i = mine[p] THEN [client[i] EXCEPT !.udt = "Disconnected"]
          ELSE client[i]]
    /\ status' = [status EXCEPT ![p] = IF Active(p) THEN "Offline" ELSE @]
    /\ cos' = [cos EXCEPT ![p] = "ConnectingToServer"]
    /\ Begin(p, made', Adding(p))

NextMain(p, type) == cos[p] # "Dead" /\ main[p] # <<>> /\ Head(main[p]) = type

PopMain(p) == main' = [main EXCEPT ![p] = Tail(@)]

\* SP_SyncInfo: Connect, for a friend who is FS_Offline and COS_Offline.  A port is
\* forwarded, or that fails.
Connect(p) ==
    /\ NextMain(p, "SyncInfo") /\ PopMain(p)
    /\ status[p] = "Offline" /\ cos[p] = "Offline"
    /\ NewClient(p)
    /\ accepting' = [accepting EXCEPT ![p] = FALSE]
    /\ \E n \in IF p \in HasNatPmp THEN {0, made'} ELSE {port[p]} : port' = [port EXCEPT ![p] = n]
    /\ incidents' = incidents \cup Failed(p)
    /\ UNCHANGED <<serverVars, up, down, listening, accepted, unreported, events, authVars>>

\* SP_SyncInfo when the friend is not offline or a connection is under way.
KeepConnection(p) ==
    /\ NextMain(p, "SyncInfo") /\ PopMain(p)
    /\ ~(status[p] = "Offline" /\ cos[p] = "Offline")
    /\ UNCHANGED <<serverVars, linkVars, status, cos, accepting, port, mine, listening,
                   accepted, unreported, events, authVars, threadVars, incidents>>

\* SP_ConnectToFriend: ConnectAccept, whatever the connection status is.
ConnectAccept(p) ==
    /\ NextMain(p, "ConnectToFriend") /\ PopMain(p)
    /\ NewClient(p)
    /\ accepting' = [accepting EXCEPT ![p] = TRUE]
    /\ incidents' = incidents \cup Failed(p) \cup
         IF Active(p) \/ cos[p] \in {"WaitingFriendConnection", "AcceptedConnection"}
         THEN {"Crossed"} ELSE {}
    /\ UNCHANGED <<serverVars, up, down, port, listening, accepted, unreported, events,
                   authVars>>

\* An exception nobody catches ends the process.
Dies(p) ==
    LET ends == ({mine[p], accepted[p]} \cup {PeerClient(i) : i \in {mine[p]} \ {0}}) \ {0} IN
    /\ cos' = [cos EXCEPT ![p] = "Dead"] /\ status' = [status EXCEPT ![p] = "Offline"]
    /\ client' = [i \in Client |->
          [client[i] EXCEPT !.udt = IF i = mine[p] THEN "Disconnected" ELSE @,
                            !.broken = @ \/ i \in ends]]
    /\ up' = [i \in Client |-> IF i \in ends THEN <<>> ELSE up[i]]
    /\ down' = [i \in Client |-> IF i \in ends THEN <<>> ELSE down[i]]
    /\ events' = [events EXCEPT ![p] = <<>>]
    /\ listening' = [listening EXCEPT ![p] = 0]
    /\ accepted' = [accepted EXCEPT ![p] = 0]
    /\ unreported' = [unreported EXCEPT ![p] = FALSE]
    /\ UNCHANGED <<serverVars, main, made, accepting, port, mine, authVars, threadVars>>

\* Connect or ConnectAccept finds no address of the server, or UdtClient->Connect throws:
\* unlike in OnDataReceived nothing is caught there.
ConnectDies(p) ==
    /\ \/ NextMain(p, "SyncInfo") /\ status[p] = "Offline" /\ cos[p] = "Offline"
       \/ NextMain(p, "ConnectToFriend")
    /\ Dies(p)
    /\ incidents' = incidents \cup {"Failed"}

HandleMain(p) == Connect(p) \/ KeepConnection(p) \/ ConnectAccept(p) \/ ConnectDies(p)

-----------------------------------------------------------------------------
(* Events: connections *)

NextEvent(p, type) == events[p] # <<>> /\ Head(events[p]).type = type

PopEvent(p) == events' = [events EXCEPT ![p] = Tail(@)]

\* OnConnected(false), of whichever client it is.  The mutant takes the status of another
\* enumeration.
OnConnectionFailed_Disconnected(p) ==
    /\ NextEvent(p, "Connected") /\ ~Head(events[p]).success /\ PopEvent(p)
    /\ cos' = [cos EXCEPT ![p] = "Disconnected"]
    /\ UNCHANGED <<serverVars, main, linkVars, status, accepting, port, mine, listening,
                   accepted, unreported, authVars, threadVars, incidents>>

OnConnectionFailed(p) ==
    /\ NextEvent(p, "Connected") /\ ~Head(events[p]).success /\ PopEvent(p)
    /\ cos' = [cos EXCEPT ![p] = "Offline"]
    /\ UNCHANGED <<serverVars, main, linkVars, status, accepting, port, mine, listening,
                   accepted, unreported, authVars, threadVars, incidents>>

\* OnConnected(true): the server is asked for help.
OnServerConnected(p) ==
    /\ NextEvent(p, "Connected") /\ Head(events[p]).success /\ PopEvent(p)
    /\ cos[p] = "ConnectingToServer" /\ CanSend(p)
    /\ SendRaw(p, [type |-> "Hello"])
    /\ UNCHANGED <<serverVars, main, client, made, status, cos, accepting, port, mine,
                   listening, accepted, unreported, authVars, threadVars, incidents>>

\* OnConnectionEstablished: a new random sequence is sent.  The mutant resets the session
\* keys too.
OnConnectionEstablished_Forget(p) ==
    /\ selfAuthorized' = [selfAuthorized EXCEPT ![p] = FALSE]
    /\ friendAuthorized' = [friendAuthorized EXCEPT ![p] = FALSE]
    /\ drawn' = [drawn EXCEPT ![p] = @ + 1]
    /\ random' = [random EXCEPT ![p] = drawn'[p]]
    /\ SendRaw(p, [type |-> "RandomSequence", random |-> drawn'[p]])
    /\ selfKey' = [selfKey EXCEPT ![p] = 0] /\ friendKey' = [friendKey EXCEPT ![p] = 0]

OnConnectionEstablished(p) ==
    /\ selfAuthorized' = [selfAuthorized EXCEPT ![p] = FALSE]
    /\ friendAuthorized' = [friendAuthorized EXCEPT ![p] = FALSE]
    /\ drawn' = [drawn EXCEPT ![p] = @ + 1]
    /\ random' = [random EXCEPT ![p] = drawn'[p]]
    /\ SendRaw(p, [type |-> "RandomSequence", random |-> drawn'[p]])
    /\ UNCHANGED <<selfKey, friendKey>>

\* OnConnected(true): the friend is connected.
OnFriendConnected(p) ==
    /\ NextEvent(p, "Connected") /\ Head(events[p]).success /\ PopEvent(p)
    /\ cos[p] = "ConnectingToFriend" /\ CanSend(p)
    /\ cos' = [cos EXCEPT ![p] = "Connected"]
    /\ OnConnectionEstablished(p)
    /\ UNCHANGED <<serverVars, main, client, made, status, accepting, port, mine, listening,
                   accepted, unreported, threadVars, incidents>>

\* ConnectionAccepted.
OnAccepted(p) ==
    /\ NextEvent(p, "Accepted") /\ PopEvent(p)
    /\ Linked(p) /\ CanSend(p)
    /\ OnConnectionEstablished(p)
    /\ UNCHANGED <<serverVars, main, client, made, status, cos, accepting, port, mine,
                   listening, accepted, unreported, threadVars, incidents>>

\* The client is not connected any more, or another one is connecting: Send throws.
OnConnectedDies(p) ==
    /\ \/ /\ NextEvent(p, "Connected") /\ Head(events[p]).success
          /\ cos[p] \in {"ConnectingToServer", "ConnectingToFriend"} /\ ~CanSend(p)
       \/ /\ NextEvent(p, "Accepted") /\ ~(Linked(p) /\ CanSend(p))
    /\ Dies(p) /\ UNCHANGED incidents

\* OnConnected(true) in any other state does nothing.
OnConnectedLate(p) ==
    /\ NextEvent(p, "Connected") /\ Head(events[p]).success /\ PopEvent(p)
    /\ cos[p] \notin {"ConnectingToServer", "ConnectingToFriend"}
    /\ UNCHANGED <<serverVars, main, linkVars, status, cos, accepting, port, mine, listening,
                   accepted, unreported, authVars, threadVars, incidents>>

\* ConnectionLost of p's server, whichever link it was.
OnServerLost(p) ==
    /\ NextEvent(p, "Lost") /\ PopEvent(p)
    /\ OnDisconnected(p)
    /\ UNCHANGED <<serverVars, main, linkVars, accepting, port, mine, listening, accepted,
                   unreported, authVars, threadVars, incidents>>

-----------------------------------------------------------------------------
(* Events: help of the server *)

NextPacket(p, type) == NextEvent(p, "Data") /\ Head(events[p]).packet.type = type

Packet(p) == Head(events[p]).packet

\* The server's challenge: a request, with the public address if LocalPort # 0.  Send may
\* throw, after the state has changed.
OnChallenge(p) ==
    /\ NextPacket(p, "Challenge") /\ PopEvent(p)
    /\ cos[p] = "ConnectingToServer"
    /\ cos' = [cos EXCEPT ![p] = "WaitingFriendAddress"]
    /\ IF CanSend(p)
       THEN SendRaw(p, [type |-> "Help", accepting |-> accepting[p], port |-> port[p],
                        challenge |-> Packet(p).challenge])
       ELSE UNCHANGED <<up, down>>
    /\ UNCHANGED <<serverVars, main, client, made, status, accepting, port, mine, listening,
                   accepted, unreported, authVars, threadVars, incidents>>

HelpReceived(p, type) == NextPacket(p, type) /\ cos[p] = "WaitingFriendAddress"

HelpPacket(p, type) == HelpReceived(p, type) /\ PopEvent(p)

\* The destructor of p's server joins its threads.
StopServer(p, adding) ==
    /\ Stop(p, adding)
    /\ incidents' = incidents \cup IF p \in stuck' THEN {"Failed"} ELSE {}
    /\ UNCHANGED silent

\* CTP_Offline: ForceDisconnect, which resets ConnectionStatus only for a friend who is
\* not FS_Offline.
OnFriendOffline(p) ==
    /\ HelpPacket(p, "Offline")
    /\ OnDisconnected(p)
    /\ client' = [client EXCEPT ![mine[p]].udt = "Disconnected"]
    /\ listening' = [listening EXCEPT ![p] = 0]
    /\ accepted' = [accepted EXCEPT ![p] = 0]
    /\ StopServer(p, ServerAdding(p))
    /\ UNCHANGED <<serverVars, main, up, down, made, accepting, port, mine, unreported,
                   authVars>>

\* UdtClient->Connect to the friend: the connection to the server is closed.  What it
\* throws is caught, and the status stays.  It waits for the worker before, also for one
\* that has reported a timeout, which never clears WorkerThreadActive.
Reconnect(p, target) ==
    /\ client' = [client EXCEPT ![mine[p]] =
                    [@ EXCEPT !.udt = "Connecting", !.target = target, !.broken = FALSE]]
    /\ up' = [up EXCEPT ![mine[p]] = <<>>]
    /\ down' = [down EXCEPT ![mine[p]] = <<>>]
    /\ cos' = [cos EXCEPT ![p] = "ConnectingToFriend"]
    /\ Begin(p, mine[p], Adding(p) \/ ~Active(p))
    /\ incidents' = incidents \cup IF mine[p] \in silent' \/ p \in stuck' THEN {"Failed"} ELSE {}

\* CTP_NatTraversal: ConnectThrowNat.  Bound to LocalPort, if there is one, it is not at
\* the address the friend was told; without a socket the local address is not known.
OnNatTraversal(p) ==
    /\ HelpPacket(p, "NatTraversal")
    /\ IF status[p] # "Offline" THEN UNCHANGED <<client, up, down, cos, threadVars, incidents>>
       ELSE IF client[mine[p]].broken
       THEN cos' = [cos EXCEPT ![p] = "ConnectingToFriend"]
            /\ UNCHANGED <<client, up, down, threadVars, incidents>>
       ELSE Reconnect(p, IF port[p] = 0 THEN Packet(p).target ELSE <<"Port", Garbage>>)
    /\ UNCHANGED <<serverVars, main, made, status, accepting, port, mine, listening,
                   accepted, unreported, authVars>>

\* CTP_Connect.
OnConnectTo(p) ==
    /\ HelpPacket(p, "Connect")
    /\ Reconnect(p, Packet(p).target)
    /\ UNCHANGED <<serverVars, main, made, status, accepting, port, mine, listening,
                   accepted, unreported, authVars>>

\* CTP_Listen: a server at LocalPort, unless there is one.  UdtClient->Disconnect calls
\* OnDisconnected.
OnListen(p) ==
    /\ HelpPacket(p, "Listen")
    /\ client' = [client EXCEPT ![mine[p]].udt = "Disconnected"]
    /\ status' = [status EXCEPT ![p] = IF Active(p) THEN "Offline" ELSE @]
    /\ cos' = [cos EXCEPT ![p] = "WaitingFriendConnection"]
    /\ listening' = [listening EXCEPT ![p] = port[p]]
    /\ accepted' = [accepted EXCEPT ![p] = IF listening[p] = port[p] THEN @ ELSE 0]
    /\ StopServer(p, listening[p] # port[p] /\ ServerAdding(p))
    /\ UNCHANGED <<serverVars, main, up, down, made, accepting, port, mine, unreported,
                   authVars>>

-----------------------------------------------------------------------------
(* Events: authentication of the friends *)

FriendData(p, type) ==
    /\ NextPacket(p, type) /\ PopEvent(p) /\ Linked(p)
    /\ UNCHANGED <<serverVars, main, client, made, cos, accepting, port, mine, listening,
                   accepted, unreported, threadVars, incidents>>

\* UpdateOnlineStatus.
UpdateOnlineStatus(p) ==
    status' = [status EXCEPT ![p] =
                 IF selfAuthorized'[p] /\ friendAuthorized'[p] THEN "Available" ELSE @]

\* FPT_RandomSequence: confirmed with a new session key.
OnRandomSequence(p) ==
    /\ FriendData(p, "RandomSequence")
    /\ drawn' = [drawn EXCEPT ![p] = @ + 1]
    /\ selfKey' = [selfKey EXCEPT ![p] = drawn'[p]]
    /\ IF CanSend(p)
       THEN SendRaw(p, [type |-> "Confirm", random |-> Packet(p).random, key |-> drawn'[p]])
       ELSE UNCHANGED <<up, down>>
    /\ UNCHANGED <<status, random, friendKey, selfAuthorized, friendAuthorized>>

\* FPT_RandomSequenceConfirm, with the hash of the sequence sent last.
OnConfirm(p) ==
    /\ FriendData(p, "Confirm") /\ Packet(p).random = random[p]
    /\ friendKey' = [friendKey EXCEPT ![p] = Packet(p).key]
    /\ IF CanSend(p)
       THEN /\ SendRaw(p, [type |-> "Authorized", key |-> Packet(p).key])
            /\ friendAuthorized' = [friendAuthorized EXCEPT ![p] = TRUE]
       ELSE UNCHANGED <<up, down, friendAuthorized>>
    /\ UNCHANGED <<random, selfKey, selfAuthorized, drawn>>
    /\ UpdateOnlineStatus(p)

\* FPT_Authorized, encrypted with the session key this side has made.  The mutant does not
\* update the online status.
OnAuthorized_Unnoticed(p) ==
    /\ FriendData(p, "Authorized") /\ Packet(p).key = selfKey[p]
    /\ selfAuthorized' = [selfAuthorized EXCEPT ![p] = TRUE]
    /\ UNCHANGED <<up, down, random, selfKey, friendKey, friendAuthorized, drawn, status>>

OnAuthorized(p) ==
    /\ FriendData(p, "Authorized") /\ Packet(p).key = selfKey[p]
    /\ selfAuthorized' = [selfAuthorized EXCEPT ![p] = TRUE]
    /\ UNCHANGED <<up, down, random, selfKey, friendKey, friendAuthorized, drawn>>
    /\ UpdateOnlineStatus(p)

\* Any other packet, or one that does not decrypt or verify, is dropped.
Unexpected(p) ==
    CASE Packet(p).type = "Challenge" -> cos[p] # "ConnectingToServer"
      [] Packet(p).type \in {"Offline", "Listen", "NatTraversal", "Connect"} ->
            cos[p] # "WaitingFriendAddress"
      [] Packet(p).type = "RandomSequence" -> ~Linked(p)
      [] Packet(p).type = "Confirm" -> ~Linked(p) \/ Packet(p).random # random[p]
      [] Packet(p).type = "Authorized" -> ~Linked(p) \/ Packet(p).key # selfKey[p]

DropPacket(p) ==
    /\ NextEvent(p, "Data") /\ Unexpected(p) /\ PopEvent(p)
    /\ UNCHANGED <<serverVars, main, linkVars, status, cos, accepting, port, mine, listening,
                   accepted, unreported, authVars, threadVars, incidents>>

HandleEvent(p) ==
    \/ OnConnectionFailed(p) \/ OnServerConnected(p) \/ OnFriendConnected(p) \/ OnAccepted(p)
    \/ OnConnectedDies(p) \/ OnConnectedLate(p) \/ OnServerLost(p)
    \/ OnChallenge(p) \/ OnFriendOffline(p) \/ OnNatTraversal(p) \/ OnConnectTo(p) \/ OnListen(p)
    \/ OnRandomSequence(p) \/ OnConfirm(p) \/ OnAuthorized(p) \/ DropPacket(p)

-----------------------------------------------------------------------------
(* The server *)

OnlyServer == UNCHANGED <<made, status, cos, accepting, port, mine, listening, accepted,
                          unreported, events, authVars, threadVars, incidents>>

\* SyncClientInfo: once when the session is authorized, again whenever the list changes.
SyncInfo(p) ==
    /\ syncs[p] < MaxSyncs[p]
    /\ syncs' = [syncs EXCEPT ![p] = @ + 1]
    /\ main' = [main EXCEPT ![p] = Append(@, "SyncInfo")]
    /\ OnlyServer /\ UNCHANGED <<asked, hello, client, up, down>>

\* The next request of client i, which is connected to the server.
Requested(i, type) ==
    /\ client[i].target = <<"Server">> /\ ~client[i].broken
    /\ up[i] # <<>> /\ Head(up[i]).type = type
    /\ up' = [up EXCEPT ![i] = Tail(@)]
    /\ OnlyServer /\ UNCHANGED <<syncs, client>>

AtServer(i) == client[i].target = <<"Server">> /\ ~client[i].broken

\* RT_HelpConnect.
HandleHello(i) ==
    /\ Requested(i, "Hello")
    /\ hello' = [hello EXCEPT ![i] = TRUE]
    /\ down' = [down EXCEPT ![i] = Append(@, [type |-> "Challenge", challenge |-> i])]
    /\ UNCHANGED <<main, asked>>

\* A friend asks for help: the other one is told if registered.  A wrong hash is not
\* answered.
HandleHelp(i) ==
    LET r == Head(up[i])
        q == Other[client[i].owner]
    IN  /\ Requested(i, "Help") /\ hello[i] /\ ~r.accepting
        /\ IF r.challenge # i THEN UNCHANGED <<main, asked, down>>
           ELSE IF syncs[q] > 0
           THEN /\ main' = [main EXCEPT ![q] = Append(@, "ConnectToFriend")]
                /\ asked' = [asked EXCEPT ![q] = [client |-> i, port |-> r.port]]
                /\ UNCHANGED down
           ELSE /\ down' = [down EXCEPT ![i] = Append(@, [type |-> "Offline"])]
                /\ UNCHANGED <<main, asked>>
        /\ UNCHANGED hello

\* How the accepting client (with this public port) and the one that asked meet: the pair
\* of what each is told.  The mutant swaps the two when the first has a public address.
Meeting_Swapped(i, n, j, m) ==
    IF n # 0 THEN <<[type |-> "Connect", target |-> <<"Port", n>>], [type |-> "Listen"]>>
    ELSE IF m # 0 THEN <<[type |-> "Connect", target |-> <<"Port", m>>], [type |-> "Listen"]>>
    ELSE <<[type |-> "NatTraversal", target |-> <<"Client", j>>],
           [type |-> "NatTraversal", target |-> <<"Client", i>>]>>

Meeting(i, n, j, m) ==
    IF n # 0 THEN <<[type |-> "Listen"], [type |-> "Connect", target |-> <<"Port", n>>]>>
    ELSE IF m # 0 THEN <<[type |-> "Connect", target |-> <<"Port", m>>], [type |-> "Listen"]>>
    ELSE <<[type |-> "NatTraversal", target |-> <<"Client", j>>],
           [type |-> "NatTraversal", target |-> <<"Client", i>>]>>

\* The other one asks: both are told, over the connections they asked with.
HandleAccepting(i) ==
    LET r == Head(up[i])
        a == asked[client[i].owner]
        told == Meeting(i, r.port, a.client, a.port)
    IN  /\ Requested(i, "Help") /\ hello[i] /\ r.accepting
        /\ down' = IF a.client = 0 THEN down
                   ELSE [j \in Client |->
                           IF j = i THEN Append(down[j], told[1])
                           ELSE IF j = a.client /\ AtServer(j) THEN Append(down[j], told[2])
                           ELSE down[j]]
        /\ UNCHANGED <<main, asked, hello>>

HandleRequest(i) == HandleHello(i) \/ HandleHelp(i) \/ HandleAccepting(i)

-----------------------------------------------------------------------------

Init ==
    /\ syncs = [p \in Peer |-> 0] /\ main = [p \in Peer |-> <<>>]
    /\ asked = [p \in Peer |-> [client |-> 0, port |-> 0]]
    /\ client = [i \in Client |-> [owner |-> CHOOSE p \in Peer : TRUE, udt |-> "Disconnected",
                                   target |-> <<"None">>, broken |-> FALSE, taken |-> FALSE]]
    /\ up = [i \in Client |-> <<>>] /\ down = [i \in Client |-> <<>>]
    /\ hello = [i \in Client |-> FALSE] /\ made = 0
    /\ status = [p \in Peer |-> "Offline"] /\ cos = [p \in Peer |-> "Offline"]
    /\ accepting = [p \in Peer |-> FALSE]
    /\ port \in [Peer -> {0, Garbage}]
    /\ mine = [p \in Peer |-> 0] /\ listening = [p \in Peer |-> 0]
    /\ accepted = [p \in Peer |-> 0] /\ unreported = [p \in Peer |-> FALSE]
    /\ events = [p \in Peer |-> <<>>]
    /\ random = [p \in Peer |-> 0]
    /\ selfKey = [p \in Peer |-> 0] /\ friendKey = [p \in Peer |-> 0]
    /\ selfAuthorized = [p \in Peer |-> FALSE] /\ friendAuthorized = [p \in Peer |-> FALSE]
    /\ drawn = [p \in Peer |-> 0]
    /\ silent = {} /\ stuck = {} /\ incidents = {}

Worker(p) ==
    /\ p \notin stuck
    /\ WorkerConnected(p) \/ WorkerReceives(p) \/ WorkerLost(p) \/ ServerLost(p)
Connections(p) == Accept(p) \/ ReportAccepted(p)
EventThread(p) == p \notin stuck /\ (HandleMain(p) \/ HandleEvent(p))
Server == \E i \in Client : HandleRequest(i)

Next ==
    \/ \E p \in Peer : \/ SyncInfo(p) \/ EventThread(p) \/ Worker(p) \/ WorkerTimedOut(p)
                       \/ Connections(p)
    \/ Server \/ \E i \in Client : LinkBreaks(i)

Spec == Init /\ [][Next]_vars

\* The threads of both friends and of the server keep running as long as they do not wait
\* for each other.  Nothing is assumed of the network, nor that the server has anything to
\* sync.
Fairness ==
    /\ \A p \in Peer : WF_vars(EventThread(p)) /\ WF_vars(Worker(p)) /\ WF_vars(Connections(p))
    /\ WF_vars(Server)

FairSpec == Spec /\ Fairness

-----------------------------------------------------------------------------
(* Properties *)

\* The types of what the friends and their links are.
LinkTypes ==
    /\ syncs \in [Peer -> Nat] /\ main \in [Peer -> Seq({"SyncInfo", "ConnectToFriend"})]
    /\ asked \in [Peer -> [client: 0..MaxClients, port: Port]]
    /\ client \in [Client -> ClientRecord]
    /\ up \in [Client -> Seq(Request \cup FriendPacket)]
    /\ down \in [Client -> Seq(ServerPacket \cup FriendPacket)]
    /\ hello \in [Client -> BOOLEAN] /\ made \in 0..MaxClients
    /\ status \in [Peer -> {"Offline", "Available"}] /\ cos \in [Peer -> ConnectionStatus]
    /\ accepting \in [Peer -> BOOLEAN] /\ port \in [Peer -> Port]
    /\ mine \in [Peer -> 0..MaxClients] /\ listening \in [Peer -> Port]
    /\ accepted \in [Peer -> 0..MaxClients] /\ unreported \in [Peer -> BOOLEAN]
    /\ events \in [Peer -> Seq(Event)]
    /\ random \in [Peer -> Nat] /\ selfKey \in [Peer -> Nat] /\ friendKey \in [Peer -> Nat]
    /\ selfAuthorized \in [Peer -> BOOLEAN] /\ friendAuthorized \in [Peer -> BOOLEAN]
    /\ drawn \in [Peer -> Nat]
    /\ incidents \subseteq {"Lost", "Failed", "Crossed", "Late", "Stray"}

\* Every variable holds values of its type.
TypeOK == LinkTypes /\ silent \subseteq Client /\ stuck \subseteq Peer

\* Client i is its owner's, and its link is up.
Live(i) == client[i].udt = "Connected" /\ ~client[i].broken /\ mine[client[i].owner] = i

\* p and its friend are linked to each other, and both links live.
LinkedTogether(p) ==
    LET q == Other[p] IN
    \/ /\ cos[p] = "Connected" /\ cos[q] = "Connected"
       /\ Live(mine[p]) /\ Live(mine[q]) /\ PeerClient(mine[p]) = mine[q]
    \/ cos[p] = "AcceptedConnection" /\ cos[q] = "Connected" /\ accepted[p] = mine[q] /\ Live(mine[q])
    \/ cos[q] = "AcceptedConnection" /\ cos[p] = "Connected" /\ accepted[q] = mine[p] /\ Live(mine[p])

\* Nothing is queued or under way on the link of p.
Settled(p) ==
    /\ events[p] = <<>> /\ events[Other[p]] = <<>>
    /\ ~unreported[p] /\ ~unreported[Other[p]]
    /\ \A i \in Client : up[i] = <<>> /\ down[i] = <<>>

\* Whatever packets, confirmations and keys of earlier links are still queued when a new
\* link is made: once all is handled, each encrypts with the key the other decrypts with
\* (friend.cpp:364), unless the server of either read the packet of an earlier connection
\* when it was making, or had, another (friend.cpp:320).
KeysAgree ==
    "Stray" \notin incidents =>
    \A p \in Peer : LinkedTogether(p) /\ Settled(p) => friendKey[p] = selfKey[Other[p]]

\* No handshake ends halfway: once all is handled, friends who are linked are shown as
\* available to each other, unless ConnectionAccepted came so late that it undid an
\* authorization (friend.cpp:62), or such a packet of an earlier connection changed a key.
AvailableTogether ==
    incidents \cap {"Late", "Stray"} = {} =>
    \A p \in Peer : LinkedTogether(p) /\ Settled(p) => status[p] = "Available"

\* "ask him to help to establish connection and then connect to friend" (friend.h:95): when
\* a server passes on that a friend asks, the two are finally available to each other, by
\* whichever of the three ways they meet, unless a connection is lost, a Connect of either
\* throws, is not answered or deadlocks (udt/client.cpp:82, 95, 86), they ask each other at
\* once, or a port was never initialized.
FriendsMeet ==
    (\E p \in Peer : main[p] # <<>> /\ main[p][1] = "ConnectToFriend")
        ~> ((\A q \in Peer : status[q] = "Available") \/ incidents # {}
            \/ (\E q \in Peer : port[q] = Garbage))

\* "don't try to connect very often" (friend.cpp:196): when the server has answered that the
\* friend is offline, Connect can be tried again.
OfflineEnds == \A p \in Peer : HelpReceived(p, "Offline") ~> cos[p] = "Offline"
=============================================================================
