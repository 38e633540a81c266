# TLA+ models of ozifi

The repository holds several programs. The one with a distributed core is
**vocal**, a messenger: servers that keep accounts, friend lists and offline
messages, and clients that talk to their server and directly to each other, all over
a small transport library (`library/udt`) whose callbacks run on one event thread.
Around it are libraries (a web server, a fetcher, a captcha generator, an AVL tree,
...) and other programs (space_capture, a multiplayer game; a thumbnail worker;
small tools). These models are of vocal and its transport. Paths below are relative
to `src/`; `server.cpp`, `client.cpp`, `friend.cpp`, `storage.cpp` are those of
`projects/vocal`, and `udt/*.cpp` those of `library/udt`.

Contents: [inventory](#inventory), [plan](#plan), [modules](#modules),
[runs](#runs), [findings](#findings), [known limits](#known-limits),
[proofs](#proofs), [what is not modelled](#not-modelled), [how to run](#how-to-run).

## Inventory

| component | source | state | operations | what is hard | module |
|---|---|---|---|---|---|
| accounts and friend lists | `vocal_server_lib/{server,storage}.cpp` | stored client records; `ClientsByLogin`; a copy `Info` of the record in every session | register, authorize, add or remove a friend, set an offline key, `SyncClientInfo` | three copies of one list (storage, session, roster), two users changing both halves of a friendship, connections lost between a change and its announcement | `VocalFriends`, `Friendship` |
| roster | `vocal_client_lib/client.cpp` | `Friends`, `State` | add, remove, merge `SP_SyncInfo` | merging a packet into a roster that may be older or newer; what survives a restart | `VocalFriends` |
| offline messages | `server.cpp` 521-535, 606-631, 644-691; `storage.cpp` 82-130; `client.cpp` 230-285; `friend.cpp` 69-140, 440-492 | message store; `SessionLastSync`; `State.LastSync` | send, store twice, push, request after connecting | time windows, messages stored while a client is away, overtaking answers | `VocalMessages`, `MessageLog` |
| sessions | `server.cpp` `OnDataReceived`; `client.cpp` 40-250, 415-450 | `CS_*` of both sides, challenges, session keys, saved state | registration with a captcha, login, authorization | a connection lost, or an old event, between any two steps; two processes for one login | `VocalSessions` |
| friend connection | `friend.cpp` 41-140, 197-440; `server.cpp` 246-355 | `ConnectionStatus`, ports, session keys, `FriendConnections` | ask the friend's server for help, accept, traverse NAT or use a forwarded port, authenticate each other | two peers and a server, both may start at once, acceptances and losses out of order | `FriendLink` |
| calls | `friend.cpp` 141-195, 380-440; `client.h`; `vocal_client_gui` | `CallStatus`, `CallingFriend`, window, recorder | call, accept, decline, hang up | crossing packets, two threads without a lock, signals that are queued | `VocalCalls` |
| UDT client and event queue | `udt/client.cpp`, `udt/event_queue.cpp` | `Status`, `Done`, `WorkerThreadActive`, socket, worker; a queue with one mutex | `Connect`, `Disconnect`, the worker's loop, `Add`, callbacks | flags shared by three threads; callbacks run under the mutex | `UdtClient` |
| UDT server | `udt/server.cpp`, `server.cpp` 55-102 | clients by socket and by address, the epoll set, sessions by address | accept, read, answer, end | two threads and an event queue that know a client at different times | `UdtServer` |
| framing | `vocal_lib/serializer.cpp`, `udt/client.cpp` 115-160 | a buffer that outlives its connections | serialize, send in pieces, read in slices, deserialize | 16-bit lengths, several senders, partial packets | `PacketStream` |
| partner servers | `server.cpp` 633-642, 727-761 | `Messages` queue, `Status` | queue until connected | nothing drains it | - |
| space_capture | `projects/space_capture` | planets, ships, players | a world and its copies | ships queued on a planet that changes hands | - |
| the rest | `library/*`, other `projects/*` | | I/O, containers and tools | nothing here a model would tell | - |

`PROJECT.json` lists every component with its sources and what is modelled of it,
and under "hazards" each line where something hard to test can go wrong, with the
properties that are about it.

**How they interact.** A user calls the client library from the thread of the
windows. `TClient` (vocal) owns one `NUdt::TClient` for its server and, through every
`TFriend`, one more and at times a `NUdt::TServer`. Each has a worker thread that
waits for the socket and puts callbacks into the process's one `TEventQueue`; the
event thread runs them, and calls back into the same UDT objects. On the server, the
UDT server's connections thread and worker do the same, so that the handlers of
`TServer` run one at a time (except `OnClientConnected`, which runs on the connections
thread). `TServer` keeps records in LevelDB through `TClientInfoStorage` and
`TMessageStorage`, and holds in every session a copy of its account's record. Client
and server exchange requests (`RT_*`) and packets (`SP_*`) over one ordered stream in
each direction; the streams of different clients, and the two directions of one, are
not ordered with respect to each other, and all of a connection is lost with it.

**What makes each part correct.**

- *Friend lists*: the two halves of a friendship agree; what a session and a roster
  show is what is stored; nobody is an authorized friend without the keys that
  requires; both friends finally have each other's key for offline messages.
- *Messages*: every message of an account reaches its devices and nobody else reads it,
  in spite of pushes, requests and lost connections overtaking each other and of windows
  that reach into the records of other accounts.
- *Sessions*: a session is authorized only for the keys of its account, and the two
  sides agree on it; nothing queued for an earlier connection is taken for the next
  one's; every handshake ends.
- *Friend connection*: friends who see each other encrypt with keys the other has; if
  one sees the other, so does the other; friends who try, meet.
- *Calls*: when nothing is under way, both sides and their windows agree, and the
  microphone goes to nobody without a call.
- *UDT client*: one worker at a time and none after the destructor; each connection
  answered once; data after the news of its connection; calls return, workers end.
- *UDT server*: a packet is handled in the session of its connection, an answer goes
  back over it, and a session whose connection breaks is ended.
- *Framing*: packets come out whole, in order, once each, and none is kept back.

## Plan

All of the plan has been carried out, in this order: `VocalFriends`, `UdtClient`,
`VocalMessages`; the abstract `Friendship` and `MessageLog` and the refinements;
`VocalSessions`, `FriendLink`, `VocalCalls`, `UdtServer`, `PacketStream`; proofs for
each of the eight detailed modules. What the plan had besides, partner servers, space_capture,
the thumbnail worker and the AVL tree, was looked at and left out; [the
reasons](#not-modelled) are below.

The modules compose by assumption and promise. Each large thing a module takes for
granted is what another one models in detail:

| module | takes for granted | which is the subject of |
|---|---|---|
| `VocalFriends`, `VocalMessages` | authorization is one action, requests and packets come in order | `VocalSessions`, `PacketStream` |
| `VocalSessions` | a UDT client answers each connection once, events of an old connection may still be queued; a connection has a session of its own | `UdtClient`, `UdtServer` |
| `FriendLink` | the two are authorized friends with keys; their sessions with the server last | `VocalFriends`, `VocalSessions` |
| `VocalCalls` | a link is made, authenticated, and lost | `FriendLink` |
| `UdtServer` | what the packets of a session do | `VocalSessions` |
| `VocalFriends` implements | `Friendship` | |
| `VocalMessages` implements | `MessageLog` | |

Modules are written to be proved about: parameters are CONSTANTS under a named
assumption, every handler is one action (or one action for each step at which another
thread can come in between), there is no RECURSIVE operator, and whatever bounds TLC's
search is a constant that no proof restricts.

**Histories.** Several properties are stated for behaviours in which something named
has not happened: `incidents` is a history variable that records it. The model has
these behaviours, TLC explores them, and they do break the property: they are the
known limits of the code, and each is described [below](#known-limits). What remains
is a claim about all others. A history variable is never read by a guard.

## Modules

### VocalFriends

One `TServer`, its storage, and client processes ("devices"). `Owner` says to
which account a device logs in; an account may have several devices.

| variable | code |
|---|---|
| `registered`, `stored` | `ClientInfoStorage`: accounts, and each one's friend list |
| `byLogin` | `ClientsByLogin`: the session that is told of changes |
| `online`, `info` | authorized connections, and `Info.Friends` of each session |
| `toServer`, `toClient` | requests and `SP_SyncInfo` packets under way on each connection |
| `roster` | `TClient::Friends` of each process, kept across connections |
| `keys`, `removes`, `connects` | counters that bound the search |
| `stale` | history: what a process kept of a friend over the loss of its connection and does not fit the list it is authorized with |

| action | code |
|---|---|
| `Register`, `Authorize` | the last step of registration and of authorization (`server.cpp` `OnDataReceived`) |
| `Disconnect`, `Restart` | a lost connection with `OnClientDisconnected`; a process that starts again with `LoadState`, which restores no friends |
| `AddFriend`, `RemoveFriend` | the calls of the user interface; `RemoveFriend` of anyone, as `client.cpp:667` checks only the form of a login |
| `HandleAddLocal`, `HandleAddRemote`, `HandleAddFailed`, `HandleRemove*` | `RT_AddFriend`, `RT_RemoveFriend` for a friend of this host, of another host, and when `SendAddFriendRequest` or `SendRemoveFriendRequest` throws |
| `HandleSetFriendOfflineKey` | `RT_SetFriendOfflineKey` with `OnFriendOfflineKeyRequest` |
| `ReceiveSyncInfo`, `DieOfMismatch` | `SP_SyncInfo` on the client; the second when it throws "public keys missmatch", which nothing catches |

A handler is one action because all of them run on the server's event thread; it
includes `SyncClientInfo`, which stores the list, refreshes the registered session
and sends it the list. What interleaves are users, both directions of all
connections, losses and restarts. A friend list is a total function: a login that
is not listed is "Absent". Keys are numbers, 0 the empty string; the public key of
a login never changes, so it is a Boolean (present or not). `Persisted` models
what the stored record drops: `NeedOfflineKey`.

`Friendship` is what two users are promised: they are friends once each has asked for
the other, and until one ends it. `ImplementsFriendship` maps who has asked to the
stored statuses.

### VocalMessages

The message store, the sessions that push, and devices that ask.

| variable | code |
|---|---|
| `clock` | `Now()` |
| `log` | `MessageStorage`: a record for each of the two accounts of a message |
| `byLogin`, `sessionSync` | `ClientsByLogin`, `SessionLastSync` |
| `state` | `CurrentState` of a device: away, waiting for the confirmation, connected |
| `toServer`, `toClient` | requests and packets under way |
| `lastSync`, `shown` | `State.LastSync`, which is saved; messages handed to the user |
| `written`, `connects` | counters that bound the search |
| `began` | when the session was authorized (history, for the properties only) |

| action | code |
|---|---|
| `Authorize`, `ReceiveConfirm`, `Disconnect` | the session begins, synchronized up to now; the client is confirmed and asks for everything since `LastSync`; the connection is lost with all that is under way |
| `SendMessage` | `TFriend::SendMessage` to a friend without a direct connection |
| `HandleSend` | `SendOfflineMessage` and `OnOfflineMessageReceived`: two records stored, both accounts synchronized |
| `HandleSync` | `RT_SyncMessages`: all messages from the client's `LastSync` on, to the registered session |
| `ReceiveMessages` | `SP_SyncMessages`: what was not shown is, and `LastSync` is the end of the packet's window |

Time is the number of its advances. Inside `HandleSend` the code calls `Now()`
again and again; whether time advances between two calls is a free choice, which
is what decides on which side of a window's end a record falls. The store compares
keys `<login><date><hash>` as strings, so a window holds the dates from its
beginning, inclusive, to its end, exclusive (`Within`). A client asks with the end
`TDuration::Max()` (`Forever`), whose digits, "18446744073709551615", precede those of
dates from June 2028 on: `Ceiling` is the first of these.

No login is compared (`storage.cpp:104-130`). Where a login goes on with digits as another
goes on with a date, "al" and "al1", the window of the one reaches into the records of the
other (`Near` says between which logins that may be). Which of these records it holds is a
matter of their digits and of the clock, so it may be any (`stray`). What keeps a client
from showing them is the key: a record carries the key it was encrypted with, which the
friend chose for its author; the client takes its own key for the friend the packet names
(`Readable`), and under another one the message is garbage, which does not parse
(`TMessagePacket` has four required fields).

`MessageLog` is the promise: a message is posted once, to its author and one other
account, shown to these two only, and never taken back.

### VocalSessions

The state machines of registration, login and authorization. A client process has its
user, the event thread, and the worker of its UDT client reduced to what `UdtClient`
promises.

| variable | code |
|---|---|
| `account`, `byLogin`, `session` | `ClientInfoStorage` (the key of each account), `ClientsByLogin`, and `Clients`: the session of each connection |
| `net` | connections: their state and what is under way up and down |
| `state`, `data`, `sessionKey`, `saved` | `CurrentState`, `State`, `State.SessionKey`, what `SaveState` has written |
| `udt`, `conn`, `events` | `Status` of the UDT client, its connection, the event queue; "Ended" when the worker has ended before its time, "Closing" while `OnLoginResult` is between its two calls of `ForceDisconnect` |
| `lost`, `latest` | histories: processes that have lost a connection, failed to make one, or cut one off themselves; the connection last authorized for a login |

`Register`, `LogIn`, `Connect`, `AnswerCaptcha`, `RejectedCall` are the calls of the user
interface; `OnConnected`, `OnCaptcha`, `OnRegisterResult`, `OnLoginResult`, `OnChallenge`,
`OnSessionKey`, `OnInfo` what the event thread does with each answer. `OnLoginResult`
disconnects, calls the user back, and disconnects again (`OnLoginResultEnd`;
`client.cpp:201-204`); the window starts its next attempt from that callback when the
login was successful, in its own thread (`CutCall`; `application.cpp:123-127`, 226-233).
`Established`, `TimedOut`, `WorkerEnds`, `Arrive` and `Break` are the worker; `WorkerEnds`
is the worker that ends unreported, as `UdtClient` has it (`udt/client.cpp:95`).
`OnConnectedDies` and `OnPacketDies` are what ends the process: an answer that the state
does not expect does not decompress or decrypt, and nobody catches that. `HandleHello`,
`HandleRegistration`, `HandlePassword`, `HandleProof`, `HandleWrongProof`, `HandleRequest`
and `HandleLost` are the handlers of the server. Every packet a queue still holds when the
next connection is made is handled as the code does, by state.

A process may start with what it saved in an earlier life, and an account may exist from
then on; a process that gives up starts again (`Restart`). A session key, a challenge and
the address of a connection are all the number of the connection, since each is made
anew for every one. Of the calls a user may make from the callback only `Connect` is
modelled, the one the window makes (`LaunchMain`; the console program exits with the result
of a login), and no other call before the news of an attempt that was cut off is handled.

### FriendLink

`TFriend`'s connection to the other friend, on both sides, and the server (one for both)
that helps. A friend who gets `SP_SyncInfo` asks the server of the other for help; that
server passes on `SP_ConnectToFriend`; the other asks as well, and the server tells both
how to meet: by traversing NAT, or one listens on a forwarded port. Then they
authenticate each other.

| variable | code |
|---|---|
| `main`, `asked`, `hello` | what each one's server has for him; `FriendConnections`; the sessions of those who ask for help |
| `client`, `up`, `down`, `made` | UDT clients, numbered as they are made (the number is the address), and what is under way from and to each |
| `cos`, `accepting`, `port`, `mine` | `ConnectionStatus`, `AcceptingConnection`, `LocalPort`/`PublicPort`, `UdtClient` |
| `listening`, `accepted`, `unreported` | `UdtServer`, `FriendAddress`, and an accepted connection not yet reported by the connections thread |
| `status`, `random`, `selfKey`, `friendKey`, `selfAuthorized`, `friendAuthorized` | `TFriend::Status` and the authentication |
| `events` | the event queue: events of UDT clients that are gone are still handled |
| `silent`, `stuck` | clients that are `CS_Connecting` and have no worker that would report; processes whose event thread waits for ever in a `Connect` or a destructor |

`Connect`, `KeepConnection`, `ConnectAccept` handle the server's packets; `OnChallenge`,
`OnNatTraversal`, `OnConnectTo`, `OnListen`, `OnFriendOffline` those of the helping
server; `OnRandomSequence`, `OnConfirm`, `OnAuthorized` those of the friend;
`OnServerConnected`, `OnFriendConnected`, `OnAccepted`, `OnConnectionFailed`,
`OnServerLost` and `OnDisconnected` the events of connections; `Worker*`, `Accept`,
`ReportAccepted` the threads behind them. Every `Connect` of a UDT client happens in a
callback, and may do what `UdtClient` shows it can (`Begin`): return with a worker that
will report, throw or leave a worker that ends unreported (`silent`), or never return,
when it waits for a thread that has an event to add (`stuck`; `Adding` says who may have
one). In the handlers of the server's packets nothing catches the exception
(`client.cpp:404`, 418): `ConnectDies`; in those of the helping server's packets
`friend.cpp:420` does, and leaves `COS_ConnectingToFriend`. The destructor of a
`NUdt::TServer` may not return either (`Stop`). A packet that the state does not expect is
dropped: it does not decrypt, and `OnDataReceived` catches that. `LocalPort` is not
initialized (`friend.h`), so `Init` leaves it 0 or `Garbage`.

### VocalCalls

`CallStatus` of friends, `CallingFriend` of `TClient`, and what the graphical client makes
of it. Two threads of a process share a `TFriend` without a lock; each is split where it
sends, assigns `CallStatus`, and tells of it (`telling`: the event thread; `clicking`: the
thread of the windows). What the event thread tells is queued as a Qt signal (`signals`),
what a click tells is shown at once; `window` and `recording` are what the user sees and
whether the microphone runs.

`OnCallRequest`, `OnCallDrop`, `EventThreadTells`; `StartCall`, `FinishCall`,
`ClickAssigns`, `ClickTells`, `ShowSignal`, `AudioDies` are the steps. `LinkLost`,
`LinkMade`, `Authorized` are the link: each side notices its loss in its own time, what is
under way is lost, and until the new link is authenticated packets cannot be decrypted.
`wanted` is a history: this user has called or accepted, and neither side has hung up.
`CallingFriend`, the recorder and the queue of signals are one for all friends of a user.

### UdtClient

`NUdt::TClient` with the user's thread, the event thread and its workers. Every
read or write of `Status`, `Done` and `WorkerThreadActive` is a step, in the order
of the code. They are plain variables shared without a lock; the model takes them
as sequentially consistent, so it shows the schedules that go wrong even then and
says nothing of what an optimizer may add.

| variable | code |
|---|---|
| `status`, `done`, `active`, `socket` | `Status`, `Done`, `WorkerThreadActive`, `Socket` (by the number of the `Connect` that made it) |
| `net`, `arrived`, `unread` | the network's view of each socket |
| `holder` | `WorkerThreadHolder` |
| `worker`, `evented` | where each worker thread is, and the socket it got from `epoll_wait` |
| `caller`, `call` | the thread that is in `Connect` or the destructor, and where there |
| `queue`, `batch`, `others` | `TEventQueue::Queue`; the callbacks taken and not finished; those of other objects |
| `idle` | vocal's `CS_Disconnected` |
| `answers`, `lost` | calls of `ConnectionCallback` and `ConnectionLostCallback` (history) |

The `Connect*` and `DestroyJoin` actions are the steps of `Connect` and `~TClientImpl`
(`ConnectClose` is the socket's end and renewal, lines 51-54, which no other thread tells
apart; `ConnectCannotBind` the exceptions of lines 58-72 and `ConnectFails` that of the
connection itself); `Worker*` those of `WorkerThread`, where the test of `Status` and its
assignment are two steps (`WorkerFindsConnected`, `WorkerConnected`; lines 147, 148);
`Add`, `TakeBatch` those of `TEventQueue`; `Callback*` what a callback of vocal does.
Three facts of the library used are modelled because everything depends on them:

- `SetAsyncMode(true)` sets `UDT_SNDSYN` and `UDT_RCVSYN`, i.e. makes the socket a
  *blocking* one: `UDT::connect` returns connected or throws, `UDT::recv` waits.
- `recv` holds the lock that `setsockopt` takes (`SetAsyncMode` in `Connect`).
- the event thread holds `TEventQueue::Mutex` from the swap of the queue to the
  end of the last callback, and `Add` needs it.

`Use` chooses who calls: `"TClient"`, vocal's connection to its server, whose user
connects again only when disconnected; `"TFriend"`, which connects again and is
destroyed inside callbacks. `Disconnect` is two steps (test, set) for a worker and
one for the event thread.

### UdtServer

The UDT server under the vocal server: the connections thread (`accepting`: accept, the
callback that makes the session, both maps under the lock, the epoll set), the worker
(`reading`: read, find the client under the lock, queue the event), the event thread, the
destructor. A connection is a socket and an address; a client may come again from the
address it had. `session` is `Clients` of the vocal server, by address, with the socket the
session was made for. Of UDT it is modelled that a socket that is broken when it is added
to an epoll set is never reported.

### PacketStream

One direction of a link as a stream of bytes. A byte is a packet and its place in it, the
first two are the length. `Send`/`SendMore` write a packet in pieces of at most `Piece`
bytes; UDT may take fewer bytes of a piece than it is given, and the rest is not sent
again. `WorkerReads` reads up to `Slice` bytes; `OnDataReceived` appends them to the
buffer and takes packets out as long as they are complete. Two bytes that are not the
length of one packet announce any length: what garbage says is not modelled, that it may
say anything is. The buffer outlives a connection (`LinkLost`, `Reconnected`).

## Runs

All passing runs exhaust their state spaces. `CHECK_DEADLOCK FALSE` is set
everywhere because these systems may stop: users stop typing, the bounds end all
activity, and a client may be left destroyed or dead.

| run | question | result |
|---|---|---|
| `friends` | Two users with a device each and a friend on another host; 3 requests, 1 removal, 2 connections per device, restarts. Do storage, sessions, packets and rosters agree (`FriendshipMutual`, `SessionInfoCurrent`, `RosterSynced`, `NoMismatch`), with the keys each status needs (`KeysPresent`, `OfflineKeyStable`), and do the stored lists implement `Friendship` (`ImplementsFriendship`)? | yes; 1,589,651 states up to symmetry, depth 30 |
| `friends_keys` | No removals and one connection each, 4 requests. Do both friends finally have each other's key (`KeysEventuallyExchanged`)? | yes; 47,982 states |
| `messages` | Two users and an account without a device, whose login is that of one of them and a digit; 2 messages, 2 connections each, the store in use until after `Ceiling`. Is everything pushed that is stored during a session (`SessionComplete`), does a first connection bring and show everything (`FirstSyncComplete`, `FirstSyncShown`), and is `MessageLog` implemented (`ImplementsMessageLog`)? | yes; 532,346 states, depth 25 |
| `sessions` | Two processes and one account, old or new, two connections: registrations and logins that cross, connections that fail, break or are given up at any point, restarts with saved state. Do the two sides agree (`SessionsAgree`), is nobody authorized without the keys (`OnlyOwners`), are saved keys those of the account (`SavedKeys`), is the newest session registered (`LatestRegistered`), does a process end only after it has lost a connection or cut it off (`DiesOnlyOfLoss`), does every other handshake end (`HandshakesEnd`)? | yes; 169,359 states, depth 32 |
| `friend_link` | Two friends, one with a router that forwards ports, 4 UDT clients, a link that breaks, any timeouts, any `Connect` that throws, is not answered or does not return, a second `SP_SyncInfo` for one of them, crossing requests. Do keys and status agree on every settled link (`KeysAgree`, `AvailableTogether`), and do undisturbed friends meet (`FriendsMeet`)? | yes; 904,575 states, depth 64 |
| `calls` | Alice with two friends: 3 clicks against one of each; 3 against 2 of one of them; 2 against 2 over a link that breaks once and is made again. Do status and window agree once all is handled (`CallsAgree`, `WindowShowsCall`, `TalksWhenWanted`), and does the sound go only where a call is (`MicrophoneFollowsCalls`)? | yes; 5,928,328 states up to symmetry, depth 29 |
| `udt_friend` | The client of a `TFriend`, 3 connections with 2 packets each, 2 foreign callbacks. One worker at a time (`OneWorker`), none after the destructor (`DestroyedStopped`), one answer for each connection (`AnsweredOnce`)? | yes; 510,591 states, depth 125 |
| `udt_once` | A client that connects once. Does data follow the news of its connection (`DataAfterConnected`), does the worker end after a disconnect (`WorkerEnds`)? | yes; 3,264 states |
| `udt_server` | Two addresses, three connections with a packet each, a destructor at any time. Does the worker know every socket (`SocketKnown`), does an answer go back where the packet came from (`AnswerGoesBack`), is every event handled in its own session (`OwnSession`), is a session whose connection breaks ended (`BrokenSessionEnds`)? | yes; 885,006 states, depth 50 |
| `packets` | Two threads, packets of 1 and 3 bytes where lengths are modulo 3, pieces of 2, slices of 4, two connections. Do packets come whole and in order (`InOrder`), is none kept back (`NoneKept`), do they arrive (`PacketsArrive`)? | yes; 1,683,914 states |
| `udt_deadlock`, `messages_lost` | what a comment says | violated, see [findings](#findings) |

`TypeOK` is an invariant of the runs of `VocalSessions`, `FriendLink` and `VocalCalls`;
it is proved of every module.

**Why the bounds are enough.** Two accounts are all that a handler on friends or messages
ever touches, and a third login only adds entries that no step relates to the others; the
friend on another host is there for the branches that differ. Three requests and one
removal allow: ask, cross, accept, remove and ask again; with two connections, also that a
friendship ends and is asked for anew while one of them is away. Two connections are the
least that have a past, and a process that loses one has a second to take old events for
the new one's. Two processes for one account are the least that race. Four UDT clients let
both friends ask and both accept, which is the most that two friends do before one of them
reconnects, and the second `SP_SyncInfo` comes when a connection is already under way or
lost. With five a friend can have a server and turn to another connection while the first
is still there, and a sixth is the first that lets a packet of such an earlier connection
do harm ("Stray"): that is left to the theorems, which hold for any number. Three clicks
against two let a call be asked for, dropped and asked for again while the other answers;
three against one of each friend let a user call one, be called by the other, and hang up
on either. A link that breaks while a user has calls with two friends is left to the
theorems. Three connections let a worker of the first meet the socket of the second while
the third is being made; on the server, two from one address and one from another. In
`packets` a length of 3 is 0 modulo 3, so the larger packet is "too large", and every
piece or slice cuts inside the length, at its end, inside a packet and at its end. What is
proved does not depend on these bounds.

**Symmetry.** `friends` is checked up to the exchange of the two accounts with their devices
(`Exchange`), `calls` up to that of the two friends of Alice (`Callers`). Neither module
distinguishes its users, and the two runs check invariants and the allowed steps only.

The runs have one device per account in `friends` and `messages`; several are covered
by the theorems only, as far as they say so. With a second device `RosterSynced` and
`NoMismatch` are not claimed: a session that was superseded is told nothing, so the roster of
its device falls behind, and a packet of a later session may contradict it.
`DataAfterConnected` is false of a client that connects several times, since a worker may
read the next socket; it is checked, and proved, for one connection.

**Fairness.** Safety runs assume none. Where liveness is checked, weak fairness is assumed
of threads that only sleep while there is nothing to do: event threads of clients and
server, the workers that read what has arrived, the connections thread, a thread inside
`Send`. Nothing is assumed of users, of time, of connections (they may break, stay or
never return), nor that the server has anything to sync. No fairness says that these
threads never wait for each other, or that an attempt to connect is answered, which
`UdtClient` shows to be false: in `FriendLink` an event thread that does not return from a
callback is `stuck` and takes no step, nor does anybody who has an event to add to its
queue, and a client without a worker that reports is `silent`; in `VocalSessions` a worker
may end before it reports ("Ended"). `FriendsMeet` and `HandshakesEnd` are stated for
behaviours without these. In `UdtClient` the worker's timeout has strong fairness:
`Config.Timeout` passes and the worker looks at the clock in every turn of its loop, so it
cannot miss it forever.

Every property of a passing run has a mutant: a plausible slip in one definition
(a key not copied, a session not refreshed, a thread not joined, a window open at
the wrong end, ...) under which TLC finds that property violated. The mutated
definitions stand just before the originals.

## Findings

Each is the counterexample of one run, and a disagreement with a text of the
repository.

- **Connect in a callback** (`udt_deadlock`). The event thread holds the queue's
  mutex during callbacks (`udt/event_queue.cpp:20`). A `TFriend` that connects, or is
  given a new UDT client, in a callback waits for a worker that may be waiting for
  that mutex (`CallReturns`); `friend.h:95` describes exactly such a second `Connect`.
- **LastSync moves past messages** (`messages_lost`). Every `SP_SyncMessages` sets
  `LastSync` to the end of its window (`client.cpp:283`). A pushed message that
  overtakes the answer to the request for old ones moves it past those; when the
  connection is lost before the answer arrives, they are never requested again. An
  answer moves it to `TDuration::Max()`, after which nothing is requested at all.
  `client.cpp:247`: "request all messages after connection".

## Known limits

Behaviour that the models contain and that breaks a property in its plain form. The
checked property excludes it by name; where the plain form is a definition of the module,
it is given here and is not checked in any run.

*Friends.* The `Friends` map of a process outlives its connections, and `SP_SyncInfo`
throws "public keys missmatch" when a friend's entry there has another key than the packet
(`client.cpp:328-338`), which nothing catches. When a friendship ended and was asked for
again while a device was not connected, or the packets that told of it were lost with the
connection, its roster still has the key of the old one, and the process dies: with one
device per account and two connections. `stale` is the history of such entries, and
`NoMismatch` says that there is no other way. The same happens for a friend of another
host when `SendRemoveFriendRequest` throws, since nobody is told (`server.cpp:408`).
`OnFriendOfflineKeyRequest` (`server.cpp:591`) looks neither at the status of the entry
nor at the friendship a key belongs to: a `SetFriendOfflineKey` under way while the
friendship is removed and asked for again is stored for the new one, and the right key is
refused later (`types.h:20` calls it the friend's key). `NeedOfflineKey` is not stored
(`storage.cpp:28`): if the connection is lost before the client has answered, nobody asks
again, and the friend stays authorized without an offline key, against the assertion in
`friend.cpp:79`. Hence `KeysEventuallyExchanged` is stated for connections that last.

*Messages.* The window of a login reaches into the records of another that goes on with
digits (`storage.cpp:104-130`): packets carry other accounts' messages, encrypted with
keys the client does not have, and friends it may not know. None is shown. Where the
client has no key yet for the friend the packet names, the assertion on the length of the
key (`crypto.cpp:273`) fails in a build that has assertions; in the model all accounts are
friends with keys, so this is not in it. From June 2028 on (1844674407370956 microseconds)
dates follow the digits of `TDuration::Max()`, and the answer to a client's request for
old messages holds none of these (`Ceiling`); `FirstSyncComplete` and `FirstSyncShown`
claim such a message only if it is pushed.

*Sessions.* With the result of a login `client.cpp:201-204` disconnects, calls the user
back, and disconnects again. After a successful one the window starts `Connect` from that
callback, in its own thread (`application.cpp:123-127`, 226-233), and the second
`ForceDisconnect` may meet it at any point (`CutCall`): the attempt is cut off and never
answered, or its connection is made while the process is `CS_Disconnected`, and
`OnConnected` asserts "unknown state" (`client.cpp:123`); or `Connect` meets
`CS_Disconnecting` and throws. `lost` counts such an attempt as a connection that was
lost. A worker that ends before it reports (`udt/client.cpp:95`) leaves the process in
`CS_Connecting`, `CS_Registering` or `CS_Logining` for ever. A connection that is lost
while a registration or login waits leaves the user unanswered and the client in that
state, in which it refuses further calls: `OnDisconnected` changes only `CS_Connected`
(`client.cpp:430`; `RegisterAnswered` is the comment in `client.h:57`). A refused proof is
not answered: `DisconnectClient` does nothing (`udt/server.cpp:121`), so the client waits
in `CS_ConnectingConfirmWait` (`MayConnect` in `HandshakesEnd`). A call that is refused
because the process is connected has already cleared `State` (`RejectedCall`,
`client.cpp:581`), after which the next packet ends the process; hence `data.login #
NoLogin` in the properties.

*Friend connection.* The UDT `Connect` throws when it cannot close, bind or connect
(`udt/client.cpp:51-84`). Out of `TFriend::Connect` and `ConnectAccept` the exception
reaches `client.cpp:404`, 418, where nothing catches it, and the process ends
(`ConnectDies`); out of the two ways to meet (`friend.cpp:331`, 449) it is caught at
`friend.cpp:420`, and `ConnectionStatus` stays `COS_ConnectingToFriend`, in which
`Connect` does nothing. So it does when the new worker ends unreported. And the `Connect`
of all of these runs in a callback, so it may never return ([findings](#findings)); nor
may the destructor of the `NUdt::TServer`. `FriendsMeet` is stated for behaviours without
any of this ("Failed"). After the answer that the friend is offline, `ConnectionStatus`
stays and `Connect` is not tried again (`OfflineEnds`; `friend.cpp:426` returns early for
a friend who is `FS_Offline`). For the same reason a link that is lost before the
authentication leaves both sides "connected". Friends who ask each other at the same time
("Crossed") may replace each other's clients, and an event of the old one may throw in the
new one's state, which ends the process. A `ConnectionAccepted` that is queued after the
friend's `Authorized` was read ("Late") resets the authorization, which is not repeated.
`OnDataReceived` is not told which connection a packet came from (`friend.cpp:320`): a
server that has accepted the friend is still read when its owner has turned to another
connection, by his own `Connect` or the friend's, and a packet of the first may then
change the keys of the second ("Stray"). A forwarded port may be an uninitialized one
(`Garbage`) for a friend who accepts without having connected before.

*Calls.* When a click and a packet are handled at once ("Raced"), the last assignment of
`CallStatus` wins, and one side may be in a call the other is not. A click that comes
before a queued signal ("Stale") is overwritten in the window by that signal. A lost link
("Lost") does not end a call: it resumes when the link is made again, `FinishCall` throws
meanwhile, and sound that is sent on a lost link ends the process (`friend.cpp:488`). With
two friends, the end of a call with one, or his refusal, silences the call with the other
(`SetFriendCalling(nullptr)`, `friend.cpp:188`, 403), although both sides still show it,
against `client.h:81`; hence `MicrophoneFollowsCalls` says where the sound may go, and not
that it goes anywhere.

*UDT client.* `Connect` sets `Done` to stop the old worker, starts the new one and clears
`Done` last (`udt/client.cpp:85-96`): a worker that looks in between ends at once, and
neither success nor timeout is reported (`ConnectAnswered`, `udt/client.h:21`). A worker
reads every socket of the set `epoll_wait` returned, also one that `Connect` has closed
and replaced since; its error disconnects the new connection (`LostIsPresent`,
`udt/client.cpp:168`). A worker that has reported a timeout leaves `WorkerThreadActive`
set, so that the next `Connect` never returns.

*UDT server.* A client that comes again from its address before the end of its last
connection is handled ("Again") is given a session that this end then erases: its packets
find none, against the assertion in `server.cpp:85` (`SessionThere`). A connection that
breaks before it is added to the epoll set ("Early") is never reported, and its session
stays. The destructor called from a callback waits for a worker that may wait for the
event queue.

*Framing.* A packet of 65536 bytes or more ("Large") is announced modulo 65536, and
everything behind it is out of step; "size overflow" (`serializer.cpp:22`) can never be
thrown. Packets sent by two threads at once ("Mixed") may interleave their pieces. A
connection that is lost within a packet ("Cut") leaves its beginning in the buffer of the
next connection. When handling a packet throws ("Threw"), complete packets behind it wait
until more data comes.

## Proofs

TLAPS checks the theorems below for every value of the constants under the
modules' assumptions (`Owner` is a function into the accounts, friends are mutual, the
bounds are natural numbers, the special values are not members of the sets, a piece of
`SendMore`, 900 bytes, is no longer than what UDT takes at once), hence for
any number of accounts, devices, friends, connections, messages and callbacks.

`VocalFriends_proofs`

- `TypeCorrect`: `TypeOK`. Inductive as it stands; lemmas on what
  `RequestedBySelf`, `RequestedByFriend`, `Persisted` and `SyncClientInfo` return.
- `KeysAlwaysPresent`: `KeysPresent`. Inductive with `TypeOK`: a handler writes only
  entries derived from entries with their keys.
- `SessionCurrent`: `SessionInfoCurrent`, for any number of devices per account: also
  a session that another device has superseded writes its whole `Info` back, but the
  same call refreshes the registered session with what it wrote. The invariant needs
  `Connected` (a session with anything under way is online and has an account),
  `StoredPlain` (storage never holds `needOfflineKey`) and `UnknownAbsent` (no list
  names a login of this server without an account, so that the failing
  `RT_RemoveFriend`, which erases a friend from the session only, erases nothing that
  is stored).
- `Mutual`: `FriendshipMutual`, when every account has one device (`SingleDevice`).
  Needs `SessionInv` and `OnlineRegistered`: with one device every online session is
  the registered one, so its `Info` is the stored list and both halves of the pair
  change together. With two devices the superseded one may write an old list back,
  which is why the assumption is there.
- `Implements`: `ImplementsFriendship`, also with one device per account. Every step
  changes the statuses of at most one pair, and that as a request or an end does
  (`StatusStep`); each of these maps to `Ask`, `End` or a stutter.

- `OfflineKeyKept`: `OfflineKeyStable`, with one device per account. An entry with an
  offline key is that of a friend in the list (`OfflineKeysListed`), the session's copy has
  the fields that are stored (`SessionInv`), and every handler writes lists that keep the
  keys of those who stay in them (`Kept`).
- `RosterCurrent`: `RosterSynced`, our key and the friend's included, with one device per
  account, also for a roster that was kept over lost connections. `RosterInv` says what each
  place holds: the last packet under way to the device is what is stored (`LastCurrent`);
  when none is, the roster shows it, but for a friend whom the user has just asked
  (`RosterShown`). `SP_SyncInfo` leaves a friend's key as it is when the roster has one, so
  that the argument needs `KeyInv`: the own key of a friendship tells which friend's key
  belongs to it (`Pairs`), wherever the two are, in the roster, a packet or the storage, now
  or later; for an own key is drawn anew for every request and so never comes twice
  (`Newer`). With two devices a key may come from the other one, hence the assumption.
- `KeysMatch`: `NoMismatch`, with one device per account, for any number of connections. For
  a friend whose entry was not outdated when the device was authorized (`stale`), the
  roster, the packets under way and the stored list are a chain in which no key of a friend
  who stays is replaced (`KeysInOrder`). This is the same fact about handlers as above
  (`Kept`), now between any two neighbours.

`VocalMessages_proofs`

- `TypeCorrect`: `TypeOK`.
- `PushesComplete`: `SessionComplete`. Needs `Owned` (a registered session is one of
  the account's), `Times` (no record is dated, and no session synchronized, later than
  now) and the lemma `WindowsMeet`: the next window of a session begins
  where its last one ended, so a record before the new end is either with the device
  already or in the new packet. `WithStep` says that a message once with a device
  stays with it: packets are appended, and what is taken from the queue is shown.
- `FirstConnectionComplete`: `FirstSyncComplete`. Needs in addition `Fresh`: on its
  first connection a device has had no packet before the confirmation, so it asks
  from 0 (`AsksAll`); whatever is pushed before the answer only adds to it. A record whose
  date is beyond `Ceiling` is not in the answer: it is with the device when it was stored
  during the session, by the argument of `PushesComplete`.
- Both need `Keyed`: what is under way or stored is encrypted with the key the friend chose,
  so that a device can read the records of its own account (`Readable`).
- `Implements`: `ImplementsMessageLog`, whatever records of other accounts a packet carries.
  The invariant `Traced` follows a message from its author to the store: messages are
  numbered as they are written (`Numbered`), one that is under way to the server is under
  way once, is shown by its author and is not in the store (`Pending`), and what a device
  *can read* of the packets to it is posted to its account (`Addressed`). That rests on
  `Keyed`: a record of another account that names a friend is encrypted with a key of that
  account, which is not the one the device takes.

`UdtClient_proofs`

- `TypeCorrect`: `TypeOK`, with `Control`: where the threads can be given what the
  others hold (a caller about to open has room for one more connection, a callback in
  `Connect` is the head of the batch, a worker with an event has its socket).
- `SingleWorker`, `DestroyStops`: `OneWorker` and `DestroyedStopped` from `Workers`:
  between the join and the spawn there is no running worker at all, and after the
  destructor none either. The flags play no part in the argument: only the join
  does.
- `NoDoubleAnswer`: `AnsweredOnce`. The hard one: `Status` is what decides whether
  a connection is reported as made or as timed out, and three threads write it. The
  invariant says that a connection in status `Connecting` is `Fresh` (not answered
  and no worker is about to answer it), that a worker on its way to report has left
  that status, and that a worker which reported a timeout never clears
  `WorkerThreadActive` (`Stuck`), so that no later `Connect` gets past its wait; with
  `ActiveWorker` (who has set the flag) and `NewSocket` (a socket not yet handed to
  a worker is unanswered).
- `NewsBeforeData`: `DataAfterConnected` for a client that connects once (`MaxConnects =
  1`; with more it is false, see [known limits](#known-limits)). In the callbacks that
  are due, the batch and then the queue, no data is ahead of the news (`NewsFirst`), and
  the worker reads only when it has told of the connection, or the destructor runs, which
  never lets it get to the queue again (`ReadsAfterNews`).

`UdtServer_proofs`. The invariant `Inv` says who knows a connection when: `Control` (what
each thread is at, given its step), `MadeFirst` (the backlog, the maps and the queue
hold only connections that were made), `KnownFirst` (a socket that is watched or read has
been inserted by socket), `AcceptedOnce` (the backlog and the connections thread hold
each socket once, before it is known), `LostLast` (nothing follows a `Lost` event of the
same socket, after which it is not watched), `OnePending` (two connections with the
same address are not both before the end of their handling, unless "Again").

- `TypeCorrect`: `TypeOK`.
- `SocketAlwaysKnown`: `SocketKnown`, from `KnownFirst` and `Control`.
- `AnswersGoBack`: `AnswerGoesBack`; `SessionsOwned`: `OwnSession`, from `OnePending` with
  `LostLast`: as long as an event of a socket is queued, its address stands for it.

`VocalSessions_proofs`, for any number of logins, processes and connections: `Inv` is
`TypeOK` with

- `Connections`: a connection belongs to one process, those still to come are fresh, and
  a worker that runs has one that is up. A session key is named after its connection, so
  this is what makes keys of two connections different.
- `Registered`: the connection that was authorized last is still its login's, or gone.
- `Process(d)`, what can be under way to and from a process, state by state (`Starting`,
  `Enrolling`, `Confirming`, `Proving`, `Online`, `Offline`, `Cut`): at most one request or its
  answer, an answer that is true of the account (`Result`), a session key only of this
  very connection (`KeyOf`), and behind it only packets of the session. `Owned` says that
  a proof carries the process' own keys and an authorized session has them, `Kept` that
  the saved keys are the account's, `Unlost` that the event thread finds what it expects
  while no connection was lost or cut off. An attempt that was cut off (`Cut`) has made its
  connection, and nothing but the news of that is under way.

  A step is first reduced to what it does to one process (`NetStep`, `OwnStep`) or to one
  session (`Serves`, `Loses`); every other process is dealt with once, by
  `UntouchedKept`. Accounts are never changed, which is what keeps an answer that was
  lost, late or read by another process from doing harm.

  `TypeCorrect`, `SessionsAreAgreed`, `OnlyOwnersAuthorized`, `SavedKeysAreTheAccounts`,
  `LatestIsRegistered` and `DiesOnlyAfterLoss` are parts of `Inv` or follow from one.

`VocalCalls_proofs`, for any number of friends: `Inv` is `TypeOK` with

- `OfFriends` (tasks and signals name friends) and `AllLinked` (before "Lost", every link
  is up and authenticated, so that nothing sent is lost).
- `Wanted`: who talks, or will once the click under way has assigned its status, wants to.
- `Agree`: what two friends' statuses *will be* once all packets under way have
  arrived match. The status after a queue of packets has a closed form (`AfterAll`): the
  last drop ends whatever was before, and a request behind it is a new call. A packet
  that is appended changes it as if it were received now (`AfterAppended`), one that is
  received leaves it as it is (`AfterFirst`); so a click on one side and a packet on the
  other are the only steps that change it, and each changes both sides together. There
  is no induction over the queue.
- `Views`: the last signal under way to a window, or else the window, has the status,
  unless the event thread or a click is about to tell.

  `CallsAlwaysAgree`, `TalksOnlyWhenWanted` and `WindowsShowCalls` follow when nothing is
  under way.

- `MicrophoneFollows`: `MicrophoneFollowsCalls`, for any number of friends and calls. As
  long as the two threads take turns, what a thread is still to tell is `CallStatus`, and
  `CallingFriend` is a friend with whom a call is established, or the thread is about to
  tell of its end (`AllFollow`). For the recorder the order of the signals matters: it is
  stopped by the signal of an end, and the window of a friend shows an established call
  until then. `Order` says that before a signal that rings, whatever was queued last for that
  window, or the window itself, is the end of a call (`Orderly`); so no window goes from an
  established call to a ringing one without stopping the recorder (`Recorders`).

`PacketStream_proofs`, for all sizes of packets, pieces and slices. A byte is a pair of its
packet and its place in it; what is under way lies in four places: what a thread has still
to send, the wire, the queued slices, and the buffer.

- `TypeCorrect`: `TypeOK`: `Send`, which goes on after other threads have sent, never
  leaves its packet, and whatever the buffer announces is taken from within it.
- `PacketsInOrder`: `InOrder`. `Follows` says that one byte comes a distance behind
  another: in the same packet, or in a later one with room for the rest of the first and
  the beginning of its own. Each of the four places is a stream in which any two bytes
  follow each other at their distance (`Segments`), so do the last of one and the first of
  the next that is not empty (`Junctions`), and the reader is at the first byte of a
  packet later than all received (`Beginning`). Hence the length that is read is that
  packet's, and so are the bytes up to there. `Follows` is transitive and said of any two
  bytes, so no step needs an induction over the stream.
- `NoPacketKept`: `NoneKept`, from what one `OnDataReceived` leaves.

`FriendLink_proofs`, for any number of clients, broken links, attempts that time out and
packets of the server. The inductive invariant is `Meets`, whose parts need each other:

- `LinkTypes`, `TypeOK` without the waiting threads, with `Control`: who asks a server for
  help is the friend's present client and connected to that server, only such a client has
  requests under way, only a client that connects to a port is accepted, and clients still to
  be made are not connected anywhere. `TypeCorrect` needs no more but `Threads`, the types of
  `silent` and `stuck`; these only ever keep a step from being taken, so that nothing else
  depends on them.
- `Clients`: a client is in the state `ConnectionStatus` says, or the news of the change is
  still queued (`News`); whom the server has accepted is a client of the friend. Without it
  an old event could be taken for one of a new client.
- `Exchanges`: two *face* each other when their clients or server are at the two ends of
  one link that is up, which is more than `LinkedTogether` knows: it holds before the
  events that say so are handled. For each of the two who has no acceptance to report
  (`Pending`), either the last random sequence it drew is still to be read by the other
  (`AskedOf`), or its confirmation, with the key the other has now, is to be read
  (`AnsweredTo`), or it has taken that key and the other knows, or will read, that it has
  (`ToldOf`). The last in the order of arrival decides, so what earlier links have left in
  the queue does no harm.
- `Greeted`: before it is accepted, nobody reads what a client sends to a port; its last
  random sequence waits there. `Exchanges` needs it in the step that accepts.
- `Shown`: who is authorized both ways and linked shows the friend as available.
  `HasClients`: who is connected has a client.

What is under way to a friend is one sequence, `In`: its event queue with, behind it, the
packets on the link. The lemmas of the section "What comes to a friend" say what taking the
first, putting one behind the queue or at the end, and reading from the link do to the
parts of `Exchanges`; they speak of the last element of a kind, so none needs an induction.
When a step breaks or replaces a link, nobody faces anybody until a new one is made
(`FacingStep`), and a new one starts with a random sequence of each side.
`KeysAlwaysAgree` and `AlwaysAvailable` follow when nothing is under way.

The parts of `Meets` were checked with TLC first, on the instance of `friend_link` and,
before `silent` and `stuck` were added, on one with six clients. The latter showed that an
authorization can also be undone when it is read from the client while an acceptance is
unreported, so "Late" marks that case as well.

Only model-checked: liveness (out of the prover's reach, with everything that needs
`ENABLED`).

## Not modelled

Of the components that are modelled:

- `VocalFriends`: captchas, signatures and encryption (what is decrypted is what was
  encrypted); rejected requests that change no state; failures of the LevelDB store;
  callbacks of the user interface; `GetRandomClient`, which the interface never calls.
- `VocalMessages`: friendships and keys (all accounts are authorized friends of each
  other); messages to other hosts, whose request is never filled; messages sent
  directly to a connected friend; `PrevMessages` across restarts, and so whether a
  message is shown twice; two sides that notice a lost connection at different times.
- `VocalSessions`: what an authorized session does, and the early return of `Connect`
  for a server without an address.
- `FriendLink`: NAT-PMP itself and the choice of a local port (a meeting succeeds or
  fails), two friends on different servers, whose servers do not talk to each other.
- `VocalCalls`: sound itself; the console client, which has no calls.
- `UdtClient`: failures of epoll itself, or of the options of a socket that was just made;
  the local address; the memory model of
  unsynchronized variables; threads that outlive the process. `UdtServer`: the map of
  the vocal server is written by two threads without a lock, which is undefined; the
  model interleaves whole accesses.
- `PacketStream`: a server sends a packet in one `UDT::send` and asserts that all of it
  was taken.

Components without a model:

- *Partner servers.* What arrives at a partner is not implemented (requests are empty, no
  handler reads them), and nothing drains the queue: there is no promise to check.
- *Conferences* are a stub.
- *space_capture* moves its state by floating-point arithmetic on timers; what is
  discrete in it (who owns a planet) is a few assignments on one thread. A player who leaves
  keeps the ships that are queued on a planet which was captured since (`world.cpp:138`).
- *Thumbnail worker*: a loop that pops a task and writes a picture; a task whose
  handling fails is dropped, and nothing is promised of it.
- *AVL tree*: a sequential container that nothing else in the repository uses, with a
  unit test of its own.
- Wrappers of libraries (cryptography, codecs, HTTP, storage), conversions, user
  interfaces, command-line tools and vendored code keep no state of their own that
  several actors change.

## How to run

`tlc -config <run>.cfg MC<Module>.tla` for a run (`PROJECT.json` names module and config
of each), `tlapm <Module>_proofs.tla` for the proofs. With two workers `friends`, `messages`,
`friend_link`, `calls`, `packets` and `udt_server` take between one and two minutes and a
half, everything else less than a minute. From nothing, the proofs of `FriendLink` take about
seven minutes on four cores. The `MC` modules only add names for the constants' values.
