---------------------------- MODULE VocalSessions ---------------------------
(***************************************************************************)
(* Registration, login and authorization of the vocal messenger: the state *)
(* machines of vocal_client_lib/client.cpp (CurrentState) and of the       *)
(* sessions in vocal_server_lib/server.cpp (EClientStatus).                *)
(*                                                                         *)
(* A client process has its user, the worker of its UDT client (reduced    *)
(* here to what UdtClient promises) and the event thread; the server has   *)
(* its event thread (UdtServer has the others).  A connection has an       *)
(* address of its own, its number.  A packet is one event (PacketStream    *)
(* has the framing).  What is decrypted is what was encrypted; a packet    *)
(* that is not the one expected does not decompress or decrypt, and that   *)
(* exception ends the process.                                             *)
(***************************************************************************)
EXTENDS Naturals, Sequences

CONSTANTS
    Login,        \* logins, with the host
    Device,       \* client processes
    NoLogin,
    MaxConnects,  \* bound: connections, those of all devices together
    OldKey        \* the key of each account that was registered before

ASSUME SessionsAssumption ==
    /\ NoLogin \notin Login /\ MaxConnects \in Nat
    /\ OldKey \in [Login -> Nat \ 0..MaxConnects]

VARIABLES
    account,      \* ClientInfoStorage: the key of each account, 0 if there is none
    session,      \* Clients: the session of each connection
    byLogin,      \* ClientsByLogin: the registered connection, 0 if there is none

    net,          \* connections: who made each, its state, what is under way
    state,        \* CurrentState of each process
    data,         \* State: login, private key, whether the server's key is known
    sessionKey,   \* State.sessionkey
    saved,        \* what SaveState has written
    udt, conn,    \* the UDT client of each process: Status, and its connection
    events,       \* the event queue of each process
    connects,     \* number of connections so far
    lost,         \* processes that have lost a connection, failed to make one, or cut
                  \* off their own attempt at one, see CutCall (history)
    latest        \* the connection that was last authorized for a login (history)

serverVars == <<account, session, byLogin, latest>>
processVars == <<state, data, sessionKey, saved, udt, conn>>
vars == <<serverVars, net, processVars, events, connects, lost>>

-----------------------------------------------------------------------------
(* Data *)

Connection == 1..MaxConnects

\* EClientStatus; "Gone" after the loss of the connection.
Status == {"Unknown", "Registering", "Logining", "Authorizing", "Authorized", "Gone"}
Session == [status: Status, login: Login \cup {NoLogin}]
SessionIn(status) == [status |-> status, login |-> NoLogin]

\* State.Clear(); a private key is a number, and stands for the pair.
NoData == [login |-> NoLogin, key |-> 0, serverKey |-> FALSE]
Data == [login: Login \cup {NoLogin}, key: Nat, serverKey: BOOLEAN]

\* Requests of a client, told apart by their first byte, and its answers.
ToServer == [type: {"RT_Register", "RT_Login", "RT_Authorize"}]
            \cup [type: {"Registration", "Password"}, login: Login \cup {NoLogin},
                  key: Nat, right: BOOLEAN]
            \cup [type: {"Proof"}, login: Login \cup {NoLogin}, key: Nat, challenge: Nat]
            \cup [type: {"RT_SyncMessages"}, sessionKey: Nat]

\* Packets of the server.  Random sequence and session key are new for every session:
\* they are the number of the connection.
ToClient == [type: {"Captcha"}]
            \cup [type: {"RegisterResult"}, ok: BOOLEAN]
            \cup [type: {"LoginResult"}, ok: BOOLEAN, key: Nat]
            \cup [type: {"Challenge"}, challenge: Nat]
            \cup [type: {"SessionKey"}, key: Nat, sessionKey: Nat]
            \cup [type: {"Info"}, sessionKey: Nat]

\* CurrentState; "Dead" when the process was ended by an assertion or an exception.
State == {"Disconnected", "Registering", "RegisteringConfirmWait", "Logining",
          "LoginingConfirmWait", "Connecting", "ConnectingConfirmWait", "Connected", "Dead"}

\* The states in which the process waits for the server, not for its user.
Waiting == {"RegisteringConfirmWait", "LoginingConfirmWait",
            "Connecting", "ConnectingConfirmWait"}

-----------------------------------------------------------------------------
(* Connections *)

NoConnection == [state |-> "None", up |-> <<>>, down |-> <<>>]

\* The connections when the process has closed its own, or it is broken: nothing
\* more comes down, what went up may still arrive.
Closed(d) ==
    [c \in Connection |-> IF c = conn[d] THEN [net[c] EXCEPT !.state = "Broken", !.down = <<>>]
                          ELSE net[c]]

\* UdtClient->Connect: closes the old socket and makes a new connection.
NewConnection(d) ==
    /\ connects < MaxConnects
    /\ connects' = connects + 1
    /\ conn' = [conn EXCEPT ![d] = connects']
    /\ net' = [Closed(d) EXCEPT ![connects'].state = "Up"]

Open(d) == NewConnection(d) /\ udt' = [udt EXCEPT ![d] = "Connecting"]

\* UdtClient->Connect throws: the old socket is closed, the new one is not connected.
FailToOpen(d) ==
    /\ connects' = connects + 1
    /\ conn' = [conn EXCEPT ![d] = 0]
    /\ udt' = [udt EXCEPT ![d] = "Disconnected"]
    /\ net' = Closed(d)
    /\ lost' = lost \cup {d}

Connected(success) == [type |-> "Connected", success |-> success]

\* The worker sees the socket writable.
Established(d) ==
    /\ udt[d] = "Connecting" /\ net[conn[d]].state = "Up"
    /\ udt' = [udt EXCEPT ![d] = "Connected"]
    /\ events' = [events EXCEPT ![d] = Append(@, Connected(TRUE))]
    /\ UNCHANGED <<serverVars, net, state, data, sessionKey, saved, conn,
                   connects, lost>>

\* The worker's timeout, after which it ends.  WorkerThreadActive stays set, so that the
\* next Connect never returns (see UdtClient): no call of the user follows.
TimedOut(d) ==
    /\ udt[d] = "Connecting"
    /\ udt' = [udt EXCEPT ![d] = "Ended"]
    /\ events' = [events EXCEPT ![d] = Append(@, Connected(FALSE))]
    /\ lost' = lost \cup {d}
    /\ UNCHANGED <<serverVars, net, state, data, sessionKey, saved, conn,
                   connects>>

\* The worker ends unreported: Done was still set when it began (see UdtClient).
WorkerEnds(d) ==
    /\ udt[d] = "Connecting"
    /\ udt' = [udt EXCEPT ![d] = "Ended"]
    /\ lost' = lost \cup {d}
    /\ UNCHANGED <<serverVars, net, state, data, sessionKey, saved, conn,
                   events, connects>>

\* The worker queues what has arrived.
Arrive(d) ==
    /\ udt[d] = "Connected" /\ net[conn[d]].down # <<>>
    /\ events' = [events EXCEPT ![d] =
                    Append(@, [type |-> "Data", packet |-> Head(net[conn[d]].down)])]
    /\ net' = [net EXCEPT ![conn[d]].down = Tail(@)]
    /\ UNCHANGED <<serverVars, processVars, connects, lost>>

\* The connection breaks; the client's worker notices and calls OnDisconnected at
\* once, ahead of the events that are queued.
Break(d) ==
    /\ udt[d] = "Connected" /\ net[conn[d]].state = "Up"
    /\ net' = Closed(d)
    /\ udt' = [udt EXCEPT ![d] = "Disconnected"]
    /\ state' = [state EXCEPT ![d] = IF @ = "Connected" THEN "Disconnected" ELSE @]
    /\ lost' = lost \cup {d}
    /\ UNCHANGED <<serverVars, data, sessionKey, saved, conn, events, connects>>

\* What ends a process: its connection breaks with it.
Die(d) ==
    /\ state' = [state EXCEPT ![d] = "Dead"]
    /\ udt' = [udt EXCEPT ![d] = "Disconnected"]
    /\ events' = [events EXCEPT ![d] = <<>>]
    /\ net' = Closed(d)
    /\ UNCHANGED <<serverVars, data, sessionKey, saved, conn, connects>>

\* A process that has ended, or that its user ends, starts again with LoadState.
Restart(d) ==
    /\ state[d] # "Disconnected" /\ connects < MaxConnects
    /\ state' = [state EXCEPT ![d] = "Disconnected"]
    /\ data' = [data EXCEPT ![d] = saved[d]]
    /\ sessionKey' = [sessionKey EXCEPT ![d] = 0]
    /\ udt' = [udt EXCEPT ![d] = "Disconnected"]
    /\ conn' = [conn EXCEPT ![d] = 0]
    /\ events' = [events EXCEPT ![d] = <<>>]
    /\ net' = Closed(d)
    /\ UNCHANGED <<serverVars, saved, connects, lost>>

-----------------------------------------------------------------------------
(* The user of a process *)

\* After an attempt that was cut off (CutCall) no other call is made before its event
\* is handled: the window has made its only one.
CanCall(d) ==
    /\ state[d] = "Disconnected" /\ udt[d] = "Disconnected"
    /\ \A i \in DOMAIN events[d] : events[d][i].type # "Connected"

\* Register(login): new keys, as many as there are attempts to connect.
Register(d, l) ==
    /\ CanCall(d) /\ connects < MaxConnects
    /\ data' = [data EXCEPT ![d] = [login |-> l, key |-> connects + 1, serverKey |-> FALSE]]
    /\ sessionKey' = [sessionKey EXCEPT ![d] = 0]
    /\ \/ Open(d) /\ state' = [state EXCEPT ![d] = "Registering"] /\ UNCHANGED lost
       \/ FailToOpen(d) /\ UNCHANGED state
    /\ UNCHANGED <<serverVars, saved, events>>

\* Login(login).
LogIn(d, l) ==
    /\ CanCall(d) /\ connects < MaxConnects
    /\ data' = [data EXCEPT ![d] = [NoData EXCEPT !.login = l]]
    /\ sessionKey' = [sessionKey EXCEPT ![d] = 0]
    /\ \/ Open(d) /\ state' = [state EXCEPT ![d] = "Logining"] /\ UNCHANGED lost
       \/ FailToOpen(d) /\ UNCHANGED state
    /\ UNCHANGED <<serverVars, saved, events>>

\* Connect(): also possible with the keys of a registration that was refused.  When
\* UdtClient->Connect throws nothing is caught and the state stays CS_Connecting.
Connect(d) ==
    /\ CanCall(d) /\ connects < MaxConnects
    /\ data[d].login # NoLogin /\ data[d].key # 0
    /\ state' = [state EXCEPT ![d] = "Connecting"]
    /\ \/ Open(d) /\ UNCHANGED lost
       \/ FailToOpen(d)
    /\ UNCHANGED <<serverVars, data, sessionKey, saved, events>>

\* Connect(), called by the window thread from within LoginResultCallback, before the
\* second ForceDisconnect of OnLoginResult, which resets the state and UdtClient's Status
\* or comes too early for the latter; or Connect() throws, because it meets
\* CS_Disconnecting or UdtClient->Connect throws, and the process ends.
CutCall(d) ==
    /\ udt[d] = "Closing" /\ state[d] = "Disconnected"
    /\ data[d].login # NoLogin /\ data[d].key # 0
    /\ lost' = lost \cup {d}
    /\ \/ /\ NewConnection(d)
          /\ \/ udt' = [udt EXCEPT ![d] = "Connecting"] /\ UNCHANGED events
             \/ /\ udt' = [udt EXCEPT ![d] = "Disconnected"]
                /\ events' \in {events, [events EXCEPT ![d] = Append(@, Connected(TRUE))]}
          /\ UNCHANGED <<serverVars, state, data, sessionKey, saved>>
       \/ Die(d)

\* Register(login) or Login(login) of a user who is connected (the programs here do not
\* offer it while a handshake goes on): State.Clear() comes before the exception.
RejectedCall(d) ==
    /\ state[d] = "Connected" /\ data[d].login # NoLogin /\ udt[d] # "Ended"
    /\ data' = [data EXCEPT ![d] = NoData]
    /\ sessionKey' = [sessionKey EXCEPT ![d] = 0]
    /\ UNCHANGED <<serverVars, net, state, saved, udt, conn, events, connects, lost>>

\* UdtClient->Send; it throws, to whoever called, when not connected.
Send(d, packet) ==
    net' = IF udt[d] = "Connected" /\ net[conn[d]].state = "Up"
           THEN [net EXCEPT ![conn[d]].up = Append(@, packet)]
           ELSE net

\* Register(password, email, captcha) and Login(password, captcha), once the captcha is
\* there.
Answer(d, asked, answered, type, right) ==
    /\ state[d] = asked /\ data[d].serverKey
    /\ udt[d] # "Ended"
    /\ Send(d, [type |-> type, login |-> data[d].login, key |-> data[d].key, right |-> right])
    /\ state' = [state EXCEPT ![d] = answered]
    /\ UNCHANGED <<serverVars, data, sessionKey, saved, udt, conn, events, connects, lost>>

AnswerCaptcha(d, right) ==
    Answer(d, "Registering", "RegisteringConfirmWait", "Registration", right)
EnterPassword(d, right) == Answer(d, "Logining", "LoginingConfirmWait", "Password", right)

-----------------------------------------------------------------------------
(* The event thread of a process *)

NextEvent(d, type) ==
    udt[d] # "Closing" /\ events[d] # <<>> /\ Head(events[d]).type = type

PopEvent(d) == events' = [events EXCEPT ![d] = Tail(@)]

OnlyProcess == UNCHANGED <<serverVars, conn, connects, lost>>

\* ForceDisconnect leaves the socket open: the server is not told.  The mutant stops at
\* CS_Disconnecting.
ForceDisconnect_Unfinished(d) ==
    /\ udt' = [udt EXCEPT ![d] = "Disconnected"]
    /\ state' = [state EXCEPT ![d] = "Disconnecting"]
ForceDisconnect(d) ==
    /\ udt' = [udt EXCEPT ![d] = "Disconnected"]
    /\ state' = [state EXCEPT ![d] = "Disconnected"]

\* The request that a process in this state sends first.
FirstByte ==
    [Registering |-> "RT_Register", Logining |-> "RT_Login", Connecting |-> "RT_Authorize"]

\* OnConnected(true): the request goes out.
OnConnected(d) ==
    /\ NextEvent(d, "Connected") /\ Head(events[d]).success
    /\ state[d] \in DOMAIN FirstByte /\ udt[d] = "Connected"
    /\ Send(d, [type |-> FirstByte[state[d]]])
    /\ PopEvent(d)
    /\ OnlyProcess /\ UNCHANGED <<state, data, sessionKey, saved, udt>>

\* OnConnected(false) while registering or logging in.
OnConnectionFailed(d) ==
    /\ NextEvent(d, "Connected") /\ ~Head(events[d]).success
    /\ state[d] \in {"Registering", "Logining"}
    /\ state' = [state EXCEPT ![d] = "Disconnected"]
    /\ PopEvent(d)
    /\ OnlyProcess /\ UNCHANGED <<net, data, sessionKey, saved, udt>>

\* The connection was lost before OnConnected(true) could run, so that Send throws;
\* after OnConnected(false) with CS_Connecting Send is called as well; in any other
\* state OnConnected asserts "unknown state".
OnConnectedDies(d) ==
    /\ NextEvent(d, "Connected")
    /\ \/ state[d] \notin DOMAIN FirstByte
       \/ state[d] = "Connecting" /\ ~Head(events[d]).success
       \/ Head(events[d]).success /\ udt[d] # "Connected"
    /\ Die(d) /\ UNCHANGED lost

NextPacket(d, type) == NextEvent(d, "Data") /\ Head(events[d]).packet.type = type

Packet(d) == Head(events[d]).packet

\* The packet at the head is one that this state expects and can decrypt, and an answer
\* to it can be sent.
Expected(d) ==
    \/ NextPacket(d, "Captcha") /\ state[d] \in {"Registering", "Logining"}
    \/ NextPacket(d, "RegisterResult") /\ state[d] = "RegisteringConfirmWait"
    \/ NextPacket(d, "LoginResult") /\ state[d] = "LoginingConfirmWait"
    \/ /\ NextPacket(d, "Challenge") /\ state[d] = "Connecting"
       /\ data[d].serverKey /\ udt[d] = "Connected"
    \/ /\ NextPacket(d, "SessionKey") /\ state[d] = "ConnectingConfirmWait"
       /\ Packet(d).key = data[d].key /\ udt[d] = "Connected"
    \/ /\ NextPacket(d, "Info") /\ state[d] = "Connected"
       /\ Packet(d).sessionKey = sessionKey[d]

ExpectedPacket(d, type) == NextPacket(d, type) /\ Expected(d) /\ PopEvent(d) /\ OnlyProcess

\* The captcha, with the server's public key; it goes to the user.
OnCaptcha(d) ==
    /\ ExpectedPacket(d, "Captcha")
    /\ data' = [data EXCEPT ![d].serverKey = TRUE]
    /\ UNCHANGED <<net, state, sessionKey, saved, udt>>

OnRegisterResult(d) ==
    /\ ExpectedPacket(d, "RegisterResult")
    /\ saved' = [saved EXCEPT ![d] = IF Packet(d).ok THEN data[d] ELSE @]
    /\ ForceDisconnect(d)
    /\ UNCHANGED <<net, data, sessionKey>>

\* Disconnected already; LoginResultCallback is told, and one more ForceDisconnect
\* follows.
OnLoginResult(d) ==
    /\ ExpectedPacket(d, "LoginResult")
    /\ data' = IF Packet(d).ok THEN [data EXCEPT ![d].key = Packet(d).key] ELSE data
    /\ saved' = [saved EXCEPT ![d] = IF Packet(d).ok THEN data'[d] ELSE @]
    /\ state' = [state EXCEPT ![d] = "Disconnected"]
    /\ udt' = [udt EXCEPT ![d] = "Closing"]
    /\ UNCHANGED <<net, sessionKey>>

\* The second ForceDisconnect finds the process disconnected (else see CutCall).
OnLoginResultEnd(d) ==
    /\ udt[d] = "Closing" /\ state[d] = "Disconnected"
    /\ ForceDisconnect(d)
    /\ UNCHANGED <<net, data, sessionKey, saved, events>> /\ OnlyProcess

\* The server's random sequence and its signature, checked with the key that came with
\* the captcha (or was saved): the hash goes back, signed with the account's key.
OnChallenge(d) ==
    /\ ExpectedPacket(d, "Challenge")
    /\ state' = [state EXCEPT ![d] = "ConnectingConfirmWait"]
    /\ Send(d, [type |-> "Proof", login |-> data[d].login, key |-> data[d].key,
                challenge |-> Packet(d).challenge])
    /\ UNCHANGED <<data, sessionKey, saved, udt>>

\* Mutant: a session key that is known is kept.
OnSessionKey_Kept(d) ==
    /\ ExpectedPacket(d, "SessionKey")
    /\ sessionKey' = [sessionKey EXCEPT ![d] = IF @ = 0 THEN Packet(d).sessionKey ELSE @]
    /\ state' = [state EXCEPT ![d] = "Connected"]
    /\ Send(d, [type |-> "RT_SyncMessages", sessionKey |-> sessionKey'[d]])
    /\ UNCHANGED <<data, saved, udt>>

\* The session key, encrypted with the account's key: connected, and asking for all
\* messages.
OnSessionKey(d) ==
    /\ ExpectedPacket(d, "SessionKey")
    /\ sessionKey' = [sessionKey EXCEPT ![d] = Packet(d).sessionKey]
    /\ state' = [state EXCEPT ![d] = "Connected"]
    /\ Send(d, [type |-> "RT_SyncMessages", sessionKey |-> sessionKey'[d]])
    /\ UNCHANGED <<data, saved, udt>>

\* SP_SyncInfo and the other packets of a session (see VocalFriends).
OnInfo(d) ==
    /\ ExpectedPacket(d, "Info")
    /\ UNCHANGED <<net, state, data, sessionKey, saved, udt>>

\* A packet that is not the one the state expects: it does not decompress or decrypt,
\* or the state is one in which no packet is expected ("unknown state").  Send throws
\* when the connection is lost before the answer to a challenge or a session key, and
\* CheckSignature when there is no server key.
OnPacketDies(d) ==
    /\ NextEvent(d, "Data") /\ ~Expected(d)
    /\ Die(d) /\ UNCHANGED lost

ProcessEvent(d) ==
    \/ OnConnected(d) \/ OnConnectionFailed(d) \/ OnConnectedDies(d)
    \/ OnCaptcha(d) \/ OnRegisterResult(d) \/ OnLoginResult(d) \/ OnLoginResultEnd(d)
    \/ OnChallenge(d) \/ OnSessionKey(d) \/ OnInfo(d) \/ OnPacketDies(d)

-----------------------------------------------------------------------------
(* The event thread of the server *)

OnlyServer == UNCHANGED <<processVars, events, connects, lost>>

\* A packet of this type has arrived for a session in this status.
HandledPacket(c, status, type) ==
    /\ net[c].up # <<>> /\ Head(net[c].up).type = type
    /\ session[c].status = status
    /\ OnlyServer

Received(c) == Head(net[c].up)

\* The packet is taken, and packets are sent (Server->Send) to a session's client:
\* nothing arrives over a broken connection.
Sent(c, to, packets) ==
    net' = [n \in Connection |->
              [net[n] EXCEPT !.up = IF n = c THEN Tail(@) ELSE @,
                             !.down = IF n = to /\ net[n].state = "Up" THEN @ \o packets ELSE @]]

Respond(c, packet) == Sent(c, c, <<packet>>)

\* OnClientDisconnected; what has not arrived by then never will.  The mutant does not
\* compare the addresses.
HandleLost_AnyAddress(c) ==
    /\ net[c].state = "Broken" /\ session[c].status # "Gone"
    /\ net' = [net EXCEPT ![c].up = <<>>]
    /\ session' = [session EXCEPT ![c] = SessionIn("Gone")]
    /\ byLogin' = [l \in Login |-> IF session[c].login = l THEN 0 ELSE byLogin[l]]
    /\ OnlyServer /\ UNCHANGED <<account, latest>>

HandleLost(c) ==
    /\ net[c].state = "Broken" /\ session[c].status # "Gone"
    /\ net' = [net EXCEPT ![c].up = <<>>]
    /\ session' = [session EXCEPT ![c] = SessionIn("Gone")]
    /\ byLogin' = [l \in Login |-> IF session[c].login = l /\ byLogin[l] = c THEN 0
                                   ELSE byLogin[l]]
    /\ OnlyServer /\ UNCHANGED <<account, latest>>

\* CS_Unknown: the first byte.
HandleHello(c) ==
    /\ \/ /\ HandledPacket(c, "Unknown", "RT_Register")
          /\ session' = [session EXCEPT ![c] = SessionIn("Registering")]
          /\ Respond(c, [type |-> "Captcha"])
       \/ /\ HandledPacket(c, "Unknown", "RT_Login")
          /\ session' = [session EXCEPT ![c] = SessionIn("Logining")]
          /\ Respond(c, [type |-> "Captcha"])
       \/ /\ HandledPacket(c, "Unknown", "RT_Authorize")
          /\ session' = [session EXCEPT ![c] = SessionIn("Authorizing")]
          /\ Respond(c, [type |-> "Challenge", challenge |-> c])
    /\ UNCHANGED <<account, byLogin, latest>>

\* CS_Registering; the mutant does not look whether the account exists.
HandleRegistration_Overwrite(c) ==
    /\ HandledPacket(c, "Registering", "Registration")
    /\ account' = IF Received(c).right THEN [account EXCEPT ![Received(c).login] = Received(c).key]
                  ELSE account
    /\ Respond(c, [type |-> "RegisterResult", ok |-> Received(c).right])
    /\ UNCHANGED <<session, byLogin, latest>>

HandleRegistration(c) ==
    LET ok == Received(c).right /\ account[Received(c).login] = 0 IN
    /\ HandledPacket(c, "Registering", "Registration")
    /\ account' = IF ok THEN [account EXCEPT ![Received(c).login] = Received(c).key] ELSE account
    /\ Respond(c, [type |-> "RegisterResult", ok |-> ok])
    /\ UNCHANGED <<session, byLogin, latest>>

\* CS_Logining: the account's keys, if captcha and password are right.  The mutant does
\* not answer when they are wrong.
HandlePassword_Silent(c) ==
    LET ok == Received(c).right /\ account[Received(c).login] # 0 IN
    /\ HandledPacket(c, "Logining", "Password")
    /\ Sent(c, c, IF ok THEN <<[type |-> "LoginResult", ok |-> ok,
                                key |-> account[Received(c).login]]>>
                  ELSE <<>>)
    /\ UNCHANGED <<account, session, byLogin, latest>>

HandlePassword(c) ==
    LET ok == Received(c).right /\ account[Received(c).login] # 0 IN
    /\ HandledPacket(c, "Logining", "Password")
    /\ Respond(c, [type |-> "LoginResult", ok |-> ok,
                   key |-> IF ok THEN account[Received(c).login] ELSE 0])
    /\ UNCHANGED <<account, session, byLogin, latest>>

\* The hash is that of this session's sequence, signed with the account's key.  The
\* mutant does not check the signature.
Proved_NoSignature(c, p) == account[p.login] # 0 /\ p.challenge = c
Proved(c, p) == account[p.login] # 0 /\ p.challenge = c /\ p.key = account[p.login]

\* CS_Authorizing: a session that replaces any other of that login, and its friends
\* (SyncClientInfo).
HandleProof(c) ==
    /\ HandledPacket(c, "Authorizing", "Proof") /\ Proved(c, Received(c))
    /\ session' = [session EXCEPT ![c] = [status |-> "Authorized", login |-> Received(c).login]]
    /\ byLogin' = [byLogin EXCEPT ![Received(c).login] = c]
    /\ latest' = [latest EXCEPT ![Received(c).login] = c]
    /\ Sent(c, c, <<[type |-> "SessionKey", key |-> account[Received(c).login], sessionKey |-> c],
                    [type |-> "Info", sessionKey |-> c]>>)
    /\ UNCHANGED account

\* A proof that is not accepted: no answer, and DisconnectClient does nothing.
HandleWrongProof(c) ==
    /\ HandledPacket(c, "Authorizing", "Proof") /\ ~Proved(c, Received(c))
    /\ Sent(c, c, <<>>)
    /\ UNCHANGED serverVars

\* CS_Authorized: RT_SyncMessages, answered to the registered session of the login.  The
\* mutant encrypts with the key of the session that asked.
HandleRequest_OwnKey(c) ==
    LET r == byLogin[session[c].login] IN
    /\ HandledPacket(c, "Authorized", "RT_SyncMessages")
    /\ Received(c).sessionKey = c
    /\ Sent(c, r, IF r = 0 THEN <<>> ELSE <<[type |-> "Info", sessionKey |-> c]>>)
    /\ UNCHANGED serverVars

HandleRequest(c) ==
    LET r == byLogin[session[c].login] IN
    /\ HandledPacket(c, "Authorized", "RT_SyncMessages")
    /\ Received(c).sessionKey = c
    /\ Sent(c, r, IF r = 0 THEN <<>> ELSE <<[type |-> "Info", sessionKey |-> r]>>)
    /\ UNCHANGED serverVars

HandleEvent(c) ==
    \/ HandleLost(c) \/ HandleHello(c) \/ HandleRegistration(c) \/ HandlePassword(c)
    \/ HandleProof(c) \/ HandleWrongProof(c) \/ HandleRequest(c)

-----------------------------------------------------------------------------

\* What a process may have saved with SaveState in an earlier life.
Saved(accounts) ==
    {NoData} \cup {[login |-> l, key |-> accounts[l], serverKey |-> TRUE] :
                    l \in {k \in Login : accounts[k] # 0}}

Init ==
    /\ \E old \in SUBSET Login :
         account = [l \in Login |-> IF l \in old THEN OldKey[l] ELSE 0]
    /\ session = [c \in Connection |-> SessionIn("Unknown")]
    /\ byLogin = [l \in Login |-> 0] /\ latest = [l \in Login |-> 0]
    /\ net = [c \in Connection |-> NoConnection]
    /\ state = [d \in Device |-> "Disconnected"]
    /\ saved \in [Device -> Saved(account)] /\ data = saved
    /\ sessionKey = [d \in Device |-> 0]
    /\ udt = [d \in Device |-> "Disconnected"] /\ conn = [d \in Device |-> 0]
    /\ events = [d \in Device |-> <<>>]
    /\ connects = 0 /\ lost = {}

User(d) ==
    \/ \E l \in Login : Register(d, l) \/ LogIn(d, l)
    \/ Connect(d) \/ CutCall(d)
    \/ \E right \in BOOLEAN : AnswerCaptcha(d, right) \/ EnterPassword(d, right)
    \/ RejectedCall(d)

Network(d) == Established(d) \/ TimedOut(d) \/ WorkerEnds(d) \/ Arrive(d) \/ Break(d)

Next ==
    \/ \E d \in Device : User(d) \/ Restart(d) \/ Network(d) \/ ProcessEvent(d)
    \/ \E c \in Connection : HandleEvent(c)

Spec == Init /\ [][Next]_vars

\* The threads of both sides keep running: workers read what has arrived, the event
\* threads process what is queued.  Nothing is assumed of users, nor that connections
\* last.
Fairness ==
    /\ \A d \in Device : WF_vars(Established(d)) /\ WF_vars(Arrive(d)) /\ WF_vars(ProcessEvent(d))
    /\ \A c \in Connection : WF_vars(HandleEvent(c))

FairSpec == Spec /\ Fairness

-----------------------------------------------------------------------------
(* Properties *)

\* Every variable holds values of its type.
TypeOK ==
    /\ account \in [Login -> Nat]
    /\ session \in [Connection -> Session]
    /\ byLogin \in [Login -> Nat] /\ latest \in [Login -> Nat]
    /\ net \in [Connection -> [state: {"None", "Up", "Broken"},
                               up: Seq(ToServer), down: Seq(ToClient)]]
    /\ state \in [Device -> State]
    /\ data \in [Device -> Data] /\ saved \in [Device -> Data]
    /\ sessionKey \in [Device -> Nat]
    /\ udt \in [Device -> {"Disconnected", "Connecting", "Connected", "Ended", "Closing"}]
    /\ conn \in [Device -> Nat]
    /\ events \in [Device -> Seq([type: {"Connected"}, success: BOOLEAN]
                                \cup [type: {"Data"}, packet: ToClient])]
    /\ connects \in 0..MaxConnects /\ lost \subseteq Device

\* A client that is connected (client.cpp:234) and has not lost its connection talks to
\* a session of its own account under the key both have: no challenge, key or packet of
\* an earlier connection, still queued when the next one is made, is taken for its own.
SessionsAgree ==
    \A d \in Device : 
        state[d] = "Connected" /\ udt[d] = "Connected" /\ data[d].login # NoLogin =>
        /\ session[conn[d]] = [status |-> "Authorized", login |-> data[d].login]
        /\ sessionKey[d] = conn[d]

\* A session is authorized only for a client with the keys of that account ("wrong
\* signature", server.cpp:229), also when clients connect with the keys of a
\* registration that was refused, which HasConnectData allows.
OnlyOwners ==
    \A d \in Device :
        conn[d] # 0 /\ session[conn[d]].status = "Authorized" /\ data[d].login # NoLogin =>
        /\ session[conn[d]].login = data[d].login
        /\ data[d].key = account[data[d].login]

\* The keys a client saves, after a registration or a login, are those of the account
\* the server keeps, whoever registers the same login at the same time and whichever
\* answers are lost.
SavedKeys ==
    \A d \in Device : saved[d].login # NoLogin =>
        saved[d].key # 0 /\ saved[d].key = account[saved[d].login]

\* ClientsByLogin holds the session that was authorized last as long as that one lives:
\* the loss of an older connection of the same account, handled later, does not
\* unregister it (server.cpp:79).
LatestRegistered ==
    \A l \in Login : byLogin[l] = IF latest[l] # 0 /\ session[latest[l]].status = "Authorized"
                                  THEN latest[l] ELSE 0

\* "unknown state" (client.cpp:123, 423) and the exceptions of the event thread end a
\* process only after a connection was lost or not made, or a rejected call has cleared
\* its State, or it has itself cut off the attempt of its user with the ForceDisconnect
\* that follows LoginResultCallback (client.cpp:204).
DiesOnlyOfLoss ==
    \A d \in Device : state[d] = "Dead" => d \in lost \/ data[d].login = NoLogin

\* The keys are those of the account, as far as they must be.
MayConnect(d) ==
    state[d] \in {"Connecting", "ConnectingConfirmWait"} =>
        data[d].key = account[data[d].login]

\* Every handshake ends, unless the connection is lost, its worker ends unreported
\* (udt/client.cpp:95), or the proof is refused, which the server does not tell.
HandshakesEnd ==
    \A d \in Device :
        (state[d] \in Waiting /\ MayConnect(d))
            ~> (state[d] \in {"Disconnected", "Connected"} \/ d \in lost)

\* "It will calls RegisterResultCallback on success or fail" (client.h:57).
RegisterAnswered ==
    \A d \in Device : state[d] = "RegisteringConfirmWait" ~> state[d] = "Disconnected"
=============================================================================
