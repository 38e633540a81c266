---------------------------- MODULE VocalMessages ---------------------------
(***************************************************************************)
(* Offline messages of the vocal messenger: TServer::SendOfflineMessage,   *)
(* OnOfflineMessageReceived, SyncMessages and SyncNewMessages              *)
(* (vocal_server_lib/server.cpp), TMessageStorage (storage.cpp) and the    *)
(* TClient processes that send and merge messages (vocal_client_lib).      *)
(*                                                                         *)
(* A message to a friend is stored twice, as outgoing for its author and   *)
(* as incoming for the friend, and pushed to both accounts' registered     *)
(* sessions: what was stored since SessionLastSync.  A client that         *)
(* connects asks for everything since its saved LastSync.                  *)
(*                                                                         *)
(* The server's handlers run one at a time, so a handler is one action.    *)
(* Inside a handler Now() is called several times; time may or may not     *)
(* have advanced in between.  Time is the number of such advances.         *)
(* Friendships are not modelled here (see VocalFriends): all accounts are  *)
(* authorized friends of each other and hold each other's offline key.     *)
(*                                                                         *)
(* The store is one ordered map of all accounts: a window of one account   *)
(* may hold records of another, and only the key a message is encrypted    *)
(* with keeps a client from showing them.                                  *)
(***************************************************************************)
EXTENDS Naturals, Sequences

CONSTANTS
    Login,        \* accounts of this server
    Device,       \* client processes
    Owner,        \* the account a device logs in to
    NoDevice,
    Near,         \* <<l, k>>: keys of k's records may lie in a window of l
    Forever,      \* TDuration::Max(), the end of what a client asks for
    Ceiling,      \* the first date whose digits follow those of Forever
    MaxMessages,  \* bound: messages written
    MaxConnects   \* bound: connections of each device

ASSUME MessagesAssumption ==
    /\ Owner \in [Device -> Login]
    /\ Near \subseteq Login \X Login
    /\ NoDevice \notin Device /\ Forever \notin Nat /\ Ceiling \in Nat
    /\ MaxMessages \in Nat /\ MaxConnects \in Nat

VARIABLES
    clock,        \* Now() of the server
    log,          \* MessageStorage
    byLogin,      \* ClientsByLogin
    sessionSync,  \* TClient::SessionLastSync of each device's session
    state,        \* TClient::CurrentState of each device
    toServer,     \* requests under way to the server
    toClient,     \* packets under way to the device
    lastSync,     \* TClientState::LastSync, saved by every device
    shown,        \* messages a device has handed to its user
    written,      \* number of messages written so far
    connects,     \* number of connections of each device so far
    began         \* when each device's session was authorized (history)

vars == <<clock, log, byLogin, sessionSync, state, toServer, toClient, lastSync,
          shown, written, connects, began>>

-----------------------------------------------------------------------------
(* Data *)

Message == 1..MaxMessages

\* The ends of what a packet holds.
Upto == Nat \cup {Forever}

\* The key a friend chose for what an account writes to him: <<friend, account>>.
Key == Login \X Login

\* A record of MessageStorage: the other party, the direction, the encrypted message.
Record == [login: Login, friend: Login, incoming: BOOLEAN, message: Nat, key: Key,
           date: Nat]

\* TDirectionedMessage: what a client gets of a record.
Directed(r) == [friend |-> r.friend, incoming |-> r.incoming, message |-> r.message,
                key |-> r.key]
DirectionedMessage == [friend: Login, incoming: BOOLEAN, message: Nat, key: Key]

Request == [type: {"Send"}, friend: Login, message: Nat, key: Key]
           \cup [type: {"Sync"}, from: Upto]

\* TClientSyncPacket, and the session key that confirms an authorization.
Packet == [type: {"Confirm"}]
          \cup [type: {"Messages"}, messages: SUBSET DirectionedMessage, to: Upto]

\* TMessageStorage::GetMessages.  Keys are <login><date><hash>, compared as
\* strings with <login><from> and <login><to>: a record of the date "from" follows
\* the first, and a record of the date "to" follows the last.  The digits of Forever,
\* 18446744073709551615, precede those of dates from June 2028 on.  The mutant takes
\* the hash for nothing: a record of the date "from" is left out.
Within_OpenFrom(date, from, to) ==
    /\ from # Forever /\ from < date
    /\ IF to = Forever THEN date < Ceiling ELSE date < to
Within(date, from, to) ==
    /\ from # Forever /\ from <= date
    /\ IF to = Forever THEN date < Ceiling ELSE date < to

\* No login is compared: a window of "al" also meets keys of "al1" and "al17", whose
\* logins go on with digits as "al" goes on with a date.  Which of them it meets is a
\* matter of their digits: "stray" names any.
Strays(records) ==
    {p \in Login \X records : p[1] # p[2].login /\ <<p[1], p[2].login>> \in Near}

GetMessages(records, l, from, to, stray) ==
    {Directed(r) : r \in {q \in records :
                            IF q.login = l THEN Within(q.date, from, to)
                            ELSE <<l, q>> \in stray}}

\* TFriend::OnOfflineMessageReceived decrypts with SelfOfflineKey (incoming) or
\* FriendOfflineKey (outgoing) of the friend it names; under another key the message
\* does not parse.  Mutant: whatever arrives is taken for readable.
Readable_Always(d, m) == m.friend # Owner[d]
Readable(d, m) ==
    m.key = IF m.incoming THEN <<Owner[d], m.friend>> ELSE <<m.friend, Owner[d]>>

-----------------------------------------------------------------------------
(* Sessions *)

Registered(d) == byLogin[Owner[d]] = d

\* CS_Authorizing succeeds: a session of its own, synchronized up to now, which
\* replaces any other session of that login in ClientsByLogin.
Authorize(d) ==
    /\ state[d] = "Away" /\ connects[d] < MaxConnects
    /\ state' = [state EXCEPT ![d] = "ConfirmWait"]
    /\ connects' = [connects EXCEPT ![d] = @ + 1]
    /\ byLogin' = [byLogin EXCEPT ![Owner[d]] = d]
    /\ sessionSync' = [sessionSync EXCEPT ![d] = clock]
    /\ began' = [began EXCEPT ![d] = clock]
    /\ toClient' = [toClient EXCEPT ![d] = <<[type |-> "Confirm"]>>]
    /\ UNCHANGED <<clock, log, toServer, lastSync, shown, written>>

\* Mutant: a client that never had a packet asks for nothing old.
ReceiveConfirm_FromNow(d) ==
    /\ toClient[d] # <<>> /\ Head(toClient[d]).type = "Confirm"
    /\ state' = [state EXCEPT ![d] = "Connected"]
    /\ toClient' = [toClient EXCEPT ![d] = Tail(@)]
    /\ toServer' = [toServer EXCEPT ![d] = Append(@, [type |-> "Sync", from |-> clock])]
    /\ UNCHANGED <<clock, log, byLogin, sessionSync, lastSync, shown, written,
                   connects, began>>

\* CS_ConnectingConfirmWait: the client is connected and asks for all messages
\* since its LastSync (0 if it has none).
ReceiveConfirm(d) ==
    /\ toClient[d] # <<>> /\ Head(toClient[d]).type = "Confirm"
    /\ state' = [state EXCEPT ![d] = "Connected"]
    /\ toClient' = [toClient EXCEPT ![d] = Tail(@)]
    /\ toServer' = [toServer EXCEPT ![d] =
                      Append(@, [type |-> "Sync", from |-> lastSync[d]])]
    /\ UNCHANGED <<clock, log, byLogin, sessionSync, lastSync, shown, written,
                   connects, began>>

\* The connection breaks and what is under way is lost.
Disconnect(d) ==
    /\ state[d] # "Away"
    /\ state' = [state EXCEPT ![d] = "Away"]
    /\ byLogin' = [byLogin EXCEPT ![Owner[d]] = IF @ = d THEN NoDevice ELSE @]
    /\ toServer' = [toServer EXCEPT ![d] = <<>>]
    /\ toClient' = [toClient EXCEPT ![d] = <<>>]
    /\ UNCHANGED <<clock, log, sessionSync, lastSync, shown, written, connects, began>>

-----------------------------------------------------------------------------
(* Messages *)

\* TFriend::SendMessage: shown at once, sent to the server as an offline message under
\* FriendOfflineKey.
SendMessage(d, f) ==
    /\ state[d] = "Connected" /\ f # Owner[d]
    /\ written < MaxMessages
    /\ written' = written + 1
    /\ shown' = [shown EXCEPT ![d] = @ \cup {written'}]
    /\ toServer' = [toServer EXCEPT ![d] =
                      Append(@, [type |-> "Send", friend |-> f, message |-> written',
                                 key |-> <<f, Owner[d]>>])]
    /\ UNCHANGED <<clock, log, byLogin, sessionSync, state, toClient, lastSync,
                   connects, began>>

NextRequest(d, type) == toServer[d] # <<>> /\ Head(toServer[d]).type = type

PopRequest(d) == toServer' = [toServer EXCEPT ![d] = Tail(@)]

\* SyncMessages of what "records" has for the login of d, appended to d's packets;
\* no packet if there is nothing.
Synced(d, records, from, to, stray) ==
    LET messages == GetMessages(records, Owner[d], from, to, stray)
    IN  IF messages = {} THEN toClient[d]
        ELSE Append(toClient[d], [type |-> "Messages", messages |-> messages, to |-> to])

\* SyncNewMessages for the logins in DOMAIN now, at the time given for each.
SyncNewMessages(records, now, stray) ==
    LET due == {d \in Device : Registered(d) /\ Owner[d] \in DOMAIN now}
    IN  /\ toClient' = [d \in Device |->
                          IF d \in due
                          THEN Synced(d, records, sessionSync[d], now[Owner[d]], stray)
                          ELSE toClient[d]]
        /\ sessionSync' = [d \in Device |-> IF d \in due THEN now[Owner[d]]
                                            ELSE sessionSync[d]]

\* What SendOfflineMessage and OnOfflineMessageReceived store.
Outgoing(l, r, date) ==
    [login |-> l, friend |-> r.friend, incoming |-> FALSE, message |-> r.message,
     key |-> r.key, date |-> date]
Incoming(l, r, date) ==
    [login |-> r.friend, friend |-> l, incoming |-> TRUE, message |-> r.message,
     key |-> r.key, date |-> date]

\* RT_SendMessage: SendOfflineMessage and, for a friend of this host,
\* OnOfflineMessageReceived.  The two records are stored at "clock" and "mine",
\* the accounts synchronized at "mine" and "theirs".
HandleSend(d) ==
    LET r == Head(toServer[d]) IN
    /\ NextRequest(d, "Send")
    /\ \E mine \in {clock, clock + 1} : \E theirs \in {mine, mine + 1} :
         /\ log' = log \cup {Outgoing(Owner[d], r, clock), Incoming(Owner[d], r, mine)}
         /\ \E stray \in SUBSET Strays(log') :
              SyncNewMessages(log', [l \in {Owner[d], r.friend} |->
                                       IF l = Owner[d] THEN mine ELSE theirs], stray)
         /\ clock' = theirs
    /\ PopRequest(d)
    /\ UNCHANGED <<byLogin, state, lastSync, shown, written, connects, began>>

\* RT_SyncMessages: the answer goes to the registered session of that login.
HandleSync(d) ==
    LET r == Head(toServer[d])
        s == byLogin[Owner[d]]
    IN  /\ NextRequest(d, "Sync")
        /\ IF s = NoDevice THEN UNCHANGED toClient
           ELSE \E stray \in SUBSET Strays(log) :
                  toClient' = [toClient EXCEPT ![s] =
                                 Synced(s, log, r.from, Forever, stray)]
        /\ PopRequest(d)
        /\ UNCHANGED <<clock, log, byLogin, sessionSync, state, lastSync, shown, written,
                       connects, began>>

\* The messages of a packet that the client can read.
ShownOf(d, p) == {m.message : m \in {n \in p.messages : Readable(d, n)}}

\* Mutant: the last packet that arrived stays in the buffer until the next arrives.
ReceiveMessages_LeavesLast(d) ==
    LET p == Head(toClient[d]) IN
    /\ Len(toClient[d]) > 1 /\ p.type = "Messages"
    /\ shown' = [shown EXCEPT ![d] = @ \cup ShownOf(d, p)]
    /\ lastSync' = [lastSync EXCEPT ![d] = p.to]
    /\ toClient' = [toClient EXCEPT ![d] = Tail(@)]
    /\ UNCHANGED <<clock, log, byLogin, sessionSync, state, toServer, written, connects,
                   began>>

\* SP_SyncMessages: every readable message that was not shown is, and LastSync is saved.
ReceiveMessages(d) ==
    LET p == Head(toClient[d]) IN
    /\ toClient[d] # <<>> /\ p.type = "Messages"
    /\ shown' = [shown EXCEPT ![d] = @ \cup ShownOf(d, p)]
    /\ lastSync' = [lastSync EXCEPT ![d] = p.to]
    /\ toClient' = [toClient EXCEPT ![d] = Tail(@)]
    /\ UNCHANGED <<clock, log, byLogin, sessionSync, state, toServer, written, connects,
                   began>>

-----------------------------------------------------------------------------

Init ==
    /\ clock = 0 /\ log = {} /\ written = 0
    /\ byLogin = [l \in Login |-> NoDevice]
    /\ sessionSync = [d \in Device |-> 0]
    /\ began = [d \in Device |-> 0]
    /\ state = [d \in Device |-> "Away"]
    /\ toServer = [d \in Device |-> <<>>]
    /\ toClient = [d \in Device |-> <<>>]
    /\ lastSync = [d \in Device |-> 0]
    /\ shown = [d \in Device |-> {}]
    /\ connects = [d \in Device |-> 0]

ServerSteps(d) == HandleSend(d) \/ HandleSync(d)
ClientSteps(d) == ReceiveConfirm(d) \/ ReceiveMessages(d)

Next ==
    \E d \in Device :
        \/ Authorize(d)
        \/ Disconnect(d)
        \/ \E f \in Login : SendMessage(d, f)
        \/ ServerSteps(d)
        \/ ClientSteps(d)

Spec == Init /\ [][Next]_vars

\* The event threads of the server and of a connected client keep processing what
\* has arrived.  Nothing is assumed of users or connections.
Fairness == \A d \in Device : WF_vars(ServerSteps(d)) /\ WF_vars(ClientSteps(d))

FairSpec == Spec /\ Fairness

-----------------------------------------------------------------------------
(* Properties *)

\* Every variable holds values of its type.
TypeOK ==
    /\ clock \in Nat /\ log \subseteq Record /\ written \in Nat
    /\ byLogin \in [Login -> Device \cup {NoDevice}]
    /\ sessionSync \in [Device -> Nat] /\ began \in [Device -> Nat]
    /\ state \in [Device -> {"Away", "ConfirmWait", "Connected"}]
    /\ toServer \in [Device -> Seq(Request)]
    /\ toClient \in [Device -> Seq(Packet)]
    /\ lastSync \in [Device -> Upto]
    /\ shown \in [Device -> SUBSET Nat]
    /\ connects \in [Device -> Nat]

\* A message is with a device when it was shown or is on its way.
With(m, d) ==
    \/ m \in shown[d]
    \/ \E i \in 1..Len(toClient[d]) :
         toClient[d][i].type = "Messages" /\ m \in ShownOf(d, toClient[d][i])

\* "sends all new messages and friend requests to given client, if it is connected"
\* (server.cpp:681): what was stored for an account since its session began, before
\* the session's SessionLastSync, is with the device; no message falls between the
\* windows of two calls of SyncNewMessages.
SessionComplete ==
    \A d \in Device : Registered(d) =>
        \A r \in log : r.login = Owner[d] /\ began[d] <= r.date /\ r.date < sessionSync[d]
            => With(r.message, d)

\* The device is connected and its request for old messages was handled.
Answered(d) ==
    /\ Registered(d) /\ state[d] = "Connected"
    /\ \A i \in 1..Len(toServer[d]) : toServer[d][i].type # "Sync"

\* What a first connection is to bring to d: what was stored for its account before
\* SessionLastSync, when the session had begun or at a date the request reaches.
Due(d, r) ==
    /\ r.login = Owner[d] /\ r.date < sessionSync[d]
    /\ r.date < Ceiling \/ began[d] <= r.date

\* "request all messages after connection" (client.cpp:247): a device whose request
\* was handled has, or is being sent, all messages of its account up to
\* SessionLastSync.
SyncComplete ==
    \A d \in Device : Answered(d) => \A r \in log : Due(d, r) => With(r.message, d)

\* The same of a device that connects for the first time.
FirstSyncComplete ==
    \A d \in Device : Answered(d) /\ connects[d] = 1 =>
        \A r \in log : Due(d, r) => With(r.message, d)

\* During its first connection a device finally shows every message that is stored
\* for its account before SessionLastSync, whether it was stored before or after
\* the device connected and in whatever order answer and new messages arrive.
FirstSyncShown ==
    \A d \in Device, m \in Message :
        (Registered(d) /\ connects[d] = 1 /\ \E r \in log : r.message = m /\ Due(d, r))
            ~> (m \in shown[d] \/ ~Registered(d))

\* MessageLog, as the store has it and the devices show it.
Posted == {<<r.message, r.login>> : r \in log}

Abstract == INSTANCE MessageLog WITH posted <- Posted

\* Pushes, requests, connections lost and sessions superseded show a message only to its
\* two parties, although packets carry records of other accounts (storage.cpp:104-130),
\* and store each message once.
ImplementsMessageLog == Abstract!Spec
=============================================================================
