------------------------------ MODULE UdtClient ------------------------------
(***************************************************************************)
(* NUdt::TClient (library/udt/client.cpp) and the TEventQueue that runs    *)
(* its callbacks (library/udt/event_queue.cpp).                            *)
(*                                                                         *)
(* Three kinds of threads touch one TClientImpl: the user's thread, the    *)
(* event thread, which runs a batch of callbacks while it holds the mutex  *)
(* of the queue, and the worker thread that Connect starts.  Status, Done  *)
(* and WorkerThreadActive are plain variables; each read or write of them  *)
(* is a step here, in the order of the code.  Threads are arbitrarily      *)
(* slow, so a worker that looks at the clock may always find the           *)
(* connection timeout passed.                                              *)
(*                                                                         *)
(* SetAsyncMode(true) sets UDT_SNDSYN and UDT_RCVSYN, which makes the      *)
(* socket a blocking one: UDT::connect returns when the connection is made *)
(* or throws, and UDT::recv waits for data and holds the socket's receive  *)
(* lock, which setsockopt takes as well (contrib/udt4/core.cpp:209, 1136). *)
(*                                                                         *)
(* A connection is known by the number of the Connect call that made its   *)
(* socket.  Two uses are modelled: vocal's TClient, whose user connects    *)
(* again once it is disconnected, and TFriend, which connects again, and   *)
(* is destroyed, inside callbacks.                                         *)
(***************************************************************************)
EXTENDS Naturals, Sequences, FiniteSets

CONSTANTS
    Use,          \* "TClient" or "TFriend": who calls Connect again
    MaxConnects,  \* bound: calls of Connect
    MaxData,      \* bound: packets that arrive on each connection
    MaxOther      \* bound: callbacks of other objects in the event queue

ASSUME UdtClientAssumption ==
    /\ Use \in {"TClient", "TFriend"}
    /\ MaxConnects \in Nat /\ MaxData \in Nat /\ MaxOther \in Nat

Connection == 1..MaxConnects

VARIABLES
    status,       \* Status
    done,         \* Done
    active,       \* WorkerThreadActive
    socket,       \* Socket, by the number of its connection; 0 before the first
    net,          \* what the network has made of each socket
    arrived,      \* packets that arrived on each socket
    unread,       \* and those of them that were not read
    holder,       \* the thread in WorkerThreadHolder, 0 if none
    worker,       \* where each worker thread is
    evented,      \* the socket each worker got from epoll_wait, 0 if none
    caller,       \* the thread that is in Connect or in the destructor
    call,         \* and where it is there
    queue,        \* TEventQueue::Queue
    batch,        \* the callbacks the event thread has taken and not finished
    others,       \* callbacks of other objects so far
    idle,         \* TClient: CurrentState is CS_Disconnected
    answers,      \* ConnectionCallbacks queued so far for each connection
    lost          \* ConnectionLostCallbacks so far: <<connection, socket at fault>>

shared == <<status, done, active, socket>>
vars == <<shared, net, arrived, unread, holder, worker, evented, caller, call, queue,
          batch, others, idle, answers, lost>>

Callback == [type: {"connected", "failed", "data"}, connection: Connection]
            \cup [type: {"other"}, connection: {0}]

Ended == {"ended", "returned"}
\* Where a worker can be.
Place == Ended \cup {"none", "start", "check", "leave", "poll", "event", "made", "recv", "drop", "timer",
                     "expire", "tellConnected", "tellData", "tellFailed"}
Running(w) == worker[w] \notin Ended \cup {"none"}

\* The event thread holds TEventQueue::Mutex from the swap of the queue to the end
\* of the last callback.
MutexFree == batch = <<>>

\* In UDT::recv on socket s.
InRecv(w, s) == worker[w] = "recv" /\ evented[w] = s

Goto(w, pc) == worker' = [worker EXCEPT ![w] = pc]

-----------------------------------------------------------------------------
(* TEventQueue *)

\* Add, by a worker.
Add(type, connection) ==
    /\ MutexFree
    /\ queue' = Append(queue, [type |-> type, connection |-> connection])

AddOther ==
    /\ MutexFree
    /\ others < MaxOther
    /\ others' = others + 1
    /\ queue' = Append(queue, [type |-> "other", connection |-> 0])
    /\ UNCHANGED <<shared, net, arrived, unread, holder, worker, evented, caller, call,
                   batch, idle, answers, lost>>

\* WorkerFunc: wait for callbacks and take them all.
TakeBatch ==
    /\ batch = <<>> /\ queue # <<>>
    /\ batch' = queue
    /\ queue' = <<>>
    /\ UNCHANGED <<shared, net, arrived, unread, holder, worker, evented, caller, call,
                   others, idle, answers, lost>>

-----------------------------------------------------------------------------
(* Disconnect *)

\* Status, Done and ConnectionLostCallback, which runs on the calling thread.
\* "fault" is the socket for whose sake Disconnect is called.  The mutant does not set Done.
Drop_NotDone(fault) ==
    /\ status' = "Disconnected"
    /\ UNCHANGED done
    /\ lost' = Append(lost, <<socket, fault>>)

Drop(fault) ==
    /\ status' = "Disconnected"
    /\ done' = TRUE
    /\ lost' = Append(lost, <<socket, fault>>)

\* The event thread takes it in one step, the worker looks at Status first.
Disconnect(fault) ==
    IF status = "Disconnected" THEN UNCHANGED <<status, done, lost>> ELSE Drop(fault)

-----------------------------------------------------------------------------
(* Connect and the destructor *)

CallStep(from, to) == call = from /\ call' = to /\ UNCHANGED caller

\* TClient::Connect, Login and Register insist on CS_Disconnected.
UserConnect ==
    /\ Use = "TClient" /\ idle
    /\ caller = "none" /\ call = "out"
    /\ socket < MaxConnects
    /\ caller' = "user" /\ call' = "close"
    /\ idle' = FALSE
    /\ UNCHANGED <<shared, net, arrived, unread, holder, worker, evented, queue, batch,
                   others, answers, lost>>

\* CurrentConnection is initialized.
HasConnection == socket # 0 /\ net[socket] # "none"

\* A connection was made before.  SetAsyncMode(false) throws on a broken or closed
\* socket, and Connect ends here.
ConnectCannotClose ==
    /\ CallStep("close", "threw")
    /\ HasConnection /\ net[socket] \in {"lost", "closed"}
    /\ UNCHANGED <<shared, net, arrived, unread, holder, worker, evented, queue, batch, others,
                   idle, answers, lost>>

\* Drop its socket, once no worker holds the receive lock, and set Done: one step, since a
\* worker that looks at Done in between is one that looked before.
ConnectClose ==
    /\ CallStep("close", "open")
    /\ HasConnection => /\ net[socket] \notin {"lost", "closed"}
                        /\ \A w \in Connection : ~InRecv(w, socket)
    /\ done' = (done \/ HasConnection)
    /\ net' = [c \in Connection |-> IF c = socket /\ HasConnection THEN "closed" ELSE net[c]]
    /\ socket' = socket + 1
    /\ UNCHANGED <<status, active, arrived, unread, holder, worker, evented, queue, batch,
                   others, idle, answers, lost>>

\* vocal's Login and Register catch the exception and are CS_Disconnected again,
\* TClient::Connect does not and stays CS_Connecting.  TFriend catches it in the
\* callbacks of its own data; out of any other callback it ends the process.
ConnectThrew ==
    /\ call = "threw"
    /\ call' = IF caller = "event" /\ Head(batch).type = "other" THEN "dead" ELSE "out"
    /\ caller' = "none"
    /\ idle' \in IF Use = "TClient" THEN BOOLEAN ELSE {idle}
    /\ batch' = IF caller = "event" THEN Tail(batch) ELSE batch
    /\ UNCHANGED <<shared, net, arrived, unread, holder, worker, evented, queue, others,
                   answers, lost>>

\* No local port to traverse the nat from, or it cannot be bound: Connect throws before
\* there is a CurrentConnection.
ConnectCannotBind ==
    /\ CallStep("open", "threw") /\ Use = "TFriend"
    /\ UNCHANGED <<shared, net, arrived, unread, holder, worker, evented, queue, batch, others,
                   idle, answers, lost>>

\* Status = CS_Connecting, and UDT::connect starts.
ConnectOpen ==
    /\ CallStep("open", "connecting")
    /\ status' = "Connecting"
    /\ net' = [net EXCEPT ![socket] = "connecting"]
    /\ UNCHANGED <<done, active, socket, arrived, unread, holder, worker, evented, queue,
                   batch, others, idle, answers, lost>>

\* UDT::connect returns.
ConnectMade ==
    /\ CallStep("connecting", "done")
    /\ net' = [net EXCEPT ![socket] = "up"]
    /\ UNCHANGED <<shared, arrived, unread, holder, worker, evented, queue, batch, others, idle,
                   answers, lost>>

\* UDT::connect throws.
ConnectFails ==
    /\ CallStep("connecting", "threw")
    /\ net' = [net EXCEPT ![socket] = "failed"]
    /\ UNCHANGED <<shared, arrived, unread, holder, worker, evented, queue, batch, others, idle,
                   answers, lost>>

ConnectDone ==
    /\ CallStep("done", "wait")
    /\ done' = TRUE
    /\ UNCHANGED <<status, active, socket, net, arrived, unread, holder, worker, evented,
                   queue, batch, others, idle, answers, lost>>

ConnectWait ==
    /\ CallStep("wait", "join")
    /\ ~active
    /\ UNCHANGED <<shared, net, arrived, unread, holder, worker, evented, queue, batch,
                   others, idle, answers, lost>>

\* Mutant: the thread is dropped without join.
ConnectJoin_Detached ==
    /\ CallStep("join", "spawn")
    /\ holder' = 0
    /\ UNCHANGED <<shared, net, arrived, unread, worker, evented, queue, batch, others,
                   idle, answers, lost>>
ConnectJoin ==
    /\ CallStep("join", "spawn")
    /\ holder # 0 => worker[holder] \in Ended
    /\ holder' = 0
    /\ UNCHANGED <<shared, net, arrived, unread, worker, evented, queue, batch, others,
                   idle, answers, lost>>

ConnectSpawn ==
    /\ CallStep("spawn", "clear")
    /\ holder' = socket
    /\ worker' = [worker EXCEPT ![socket] = "start"]
    /\ UNCHANGED <<shared, net, arrived, unread, evented, queue, batch, others, idle,
                   answers, lost>>

\* Done = false, and Connect returns; in a callback, so does the callback.
ConnectClear ==
    /\ call = "clear"
    /\ call' = "out" /\ caller' = "none"
    /\ done' = FALSE
    /\ batch' = IF caller = "event" THEN Tail(batch) ELSE batch
    /\ UNCHANGED <<status, active, socket, net, arrived, unread, holder, worker, evented,
                   queue, others, idle, answers, lost>>

\* Mutant: the destructor only looks at WorkerThreadActive.
DestroyJoin_Active ==
    /\ call = "destroy" /\ ~active
    /\ call' = "gone" /\ caller' = "none"
    /\ batch' = Tail(batch)
    /\ UNCHANGED <<shared, net, arrived, unread, holder, worker, evented, queue, others,
                   idle, answers, lost>>

\* ~TClientImpl: Disconnect was called, now the worker is joined.
DestroyJoin ==
    /\ call = "destroy"
    /\ holder # 0 => worker[holder] \in Ended
    /\ call' = "gone" /\ caller' = "none"
    /\ batch' = Tail(batch)
    /\ UNCHANGED <<shared, net, arrived, unread, holder, worker, evented, queue, others,
                   idle, answers, lost>>

CallSteps == ConnectCannotClose \/ ConnectClose \/ ConnectCannotBind \/ ConnectOpen
             \/ ConnectMade \/ ConnectFails \/ ConnectThrew \/ ConnectDone \/ ConnectWait
             \/ ConnectJoin \/ ConnectSpawn \/ ConnectClear \/ DestroyJoin

-----------------------------------------------------------------------------
(* The event thread runs a callback *)

CallbackOf(types) == batch # <<>> /\ caller # "event" /\ Head(batch).type \in types

CallbackReturns ==
    /\ CallbackOf({"connected", "data", "other"})
       \/ (CallbackOf({"failed"}) /\ Use = "TFriend")
    /\ batch' = Tail(batch)
    /\ UNCHANGED <<shared, net, arrived, unread, holder, worker, evented, caller, call,
                   queue, others, idle, answers, lost>>

\* ForceDisconnect.
CallbackDisconnects ==
    /\ CallbackOf({"failed", "data"})
    /\ call \notin {"gone", "dead"}
    /\ Disconnect(socket)
    /\ idle' = TRUE
    /\ batch' = Tail(batch)
    /\ UNCHANGED <<active, socket, net, arrived, unread, holder, worker, evented, caller,
                   call, queue, others, answers>>

\* TFriend::Connect, for a SP_SyncInfo, and COS_WaitingFriendAddress, for the address
\* of the friend.
CallbackConnects ==
    /\ Use = "TFriend"
    /\ caller = "none" /\ call = "out"
    /\ socket < MaxConnects
    /\ IF socket = 0 THEN CallbackOf({"other"}) ELSE CallbackOf({"data"})
    /\ caller' = "event" /\ call' = "close"
    /\ UNCHANGED <<shared, net, arrived, unread, holder, worker, evented, queue, batch,
                   others, idle, answers, lost>>

\* A SP_SyncInfo without this friend, or SP_ConnectToFriend, which replaces UdtClient.
CallbackDestroys ==
    /\ Use = "TFriend"
    /\ caller = "none" /\ call = "out" /\ socket # 0
    /\ CallbackOf({"other"})
    /\ caller' = "event" /\ call' = "destroy"
    /\ Disconnect(socket)
    /\ UNCHANGED <<active, socket, net, arrived, unread, holder, worker, evented, queue,
                   batch, others, idle, answers>>

EventSteps == TakeBatch \/ CallbackReturns \/ CallbackDisconnects
              \/ CallbackConnects \/ CallbackDestroys

-----------------------------------------------------------------------------
(* WorkerThread *)

WorkerStart(w) ==
    /\ worker[w] = "start"
    /\ active' = TRUE
    /\ Goto(w, "check")
    /\ UNCHANGED <<status, done, socket, net, arrived, unread, holder, evented, caller, call,
                   queue, batch, others, idle, answers, lost>>

WorkerCheck(w) ==
    /\ worker[w] = "check"
    /\ Goto(w, IF done THEN "leave" ELSE "poll")
    /\ UNCHANGED <<shared, net, arrived, unread, holder, evented, caller, call, queue, batch,
                   others, idle, answers, lost>>

WorkerLeave(w) ==
    /\ worker[w] = "leave"
    /\ active' = FALSE
    /\ Goto(w, "ended")
    /\ UNCHANGED <<status, done, socket, net, arrived, unread, holder, evented, caller, call,
                   queue, batch, others, idle, answers, lost>>

\* What epoll_wait has to report: while connecting also that the socket is writable.
Ready == /\ socket # 0 /\ status # "Disconnected"
         /\ \/ net[socket] = "lost"
            \/ net[socket] = "failed" /\ status = "Connecting"
            \/ net[socket] = "up" /\ (status = "Connecting" \/ unread[socket] > 0)

WorkerPoll(w) ==
    /\ worker[w] = "poll"
    /\ evented' = [evented EXCEPT ![w] = IF Ready THEN socket ELSE 0]
    /\ Goto(w, IF Ready THEN "event" ELSE "timer")
    /\ UNCHANGED <<shared, net, arrived, unread, holder, caller, call, queue, batch, others,
                   idle, answers, lost>>

\* The socket is Socket and Status is CS_Connecting: it is connected.
WorkerFindsConnected(w) ==
    /\ worker[w] = "event" /\ evented[w] = socket /\ status = "Connecting"
    /\ Goto(w, "made")
    /\ UNCHANGED <<shared, net, arrived, unread, holder, evented, caller, call, queue, batch,
                   others, idle, answers, lost>>

\* Status = CS_Connected, whatever it was set to meanwhile.  Mutant: it is not.
WorkerConnected_StillConnecting(w) ==
    /\ worker[w] = "made"
    /\ Goto(w, "tellConnected")
    /\ UNCHANGED <<shared, net, arrived, unread, holder, evented, caller, call, queue,
                   batch, others, idle, answers, lost>>

WorkerConnected(w) ==
    /\ worker[w] = "made"
    /\ status' = "Connected"
    /\ Goto(w, "tellConnected")
    /\ UNCHANGED <<done, active, socket, net, arrived, unread, holder, evented, caller, call,
                   queue, batch, others, idle, answers, lost>>

\* Mutant: the connection is read from whatever its status.
WorkerReads_Any(w) ==
    /\ worker[w] = "event"
    /\ Goto(w, "recv")
    /\ UNCHANGED <<shared, net, arrived, unread, holder, evented, caller, call, queue,
                   batch, others, idle, answers, lost>>

WorkerReads(w) ==
    /\ worker[w] = "event" /\ ~(evented[w] = socket /\ status = "Connecting")
    /\ Goto(w, "recv")
    /\ UNCHANGED <<shared, net, arrived, unread, holder, evented, caller, call, queue, batch,
                   others, idle, answers, lost>>

\* recv on a connection that is up waits for data.
WorkerReceives(w, s) ==
    /\ InRecv(w, s)
    /\ net[s] \in {"up", "lost"} /\ unread[s] > 0
    /\ unread' = [unread EXCEPT ![s] = @ - 1]
    /\ Goto(w, "tellData")
    /\ UNCHANGED <<shared, net, arrived, holder, evented, caller, call, queue, batch, others,
                   idle, answers, lost>>

\* recv fails: the connection is lost or Connect has closed the socket.
WorkerLoses(w, s) ==
    /\ InRecv(w, s)
    /\ net[s] = "closed" \/ (net[s] = "lost" /\ unread[s] = 0)
    /\ net' = [net EXCEPT ![s] = "closed"]
    /\ Goto(w, IF status = "Disconnected" THEN "timer" ELSE "drop")
    /\ UNCHANGED <<shared, arrived, unread, holder, evented, caller, call, queue,
                   batch, others, idle, answers, lost>>

\* vocal's OnDisconnected is CS_Disconnected again if it was authorized.
WorkerDrops(w) ==
    /\ worker[w] = "drop"
    /\ Drop(evented[w])
    /\ idle' \in IF answers[socket] > 0 THEN {idle, TRUE} ELSE {idle}
    /\ Goto(w, "timer")
    /\ UNCHANGED <<active, socket, net, arrived, unread, holder, evented, caller, call,
                   queue, batch, others, answers>>

\* recv fails otherwise: the connection was not made.
WorkerWarns(w, s) ==
    /\ InRecv(w, s) /\ net[s] = "failed"
    /\ Goto(w, "timer")
    /\ UNCHANGED <<shared, net, arrived, unread, holder, evented, caller, call, queue, batch,
                   others, idle, answers, lost>>

WorkerTellsConnected(w) ==
    /\ worker[w] = "tellConnected"
    /\ Add("connected", evented[w])
    /\ answers' = [answers EXCEPT ![evented[w]] = @ + 1]
    /\ Goto(w, "timer")
    /\ UNCHANGED <<shared, net, arrived, unread, holder, evented, caller, call, batch, others,
                   idle, lost>>

WorkerTellsData(w) ==
    /\ worker[w] = "tellData"
    /\ Add("data", evented[w])
    /\ Goto(w, "timer")
    /\ UNCHANGED <<shared, net, arrived, unread, holder, evented, caller, call, batch, others,
                   idle, answers, lost>>

WorkerTimeLeft(w) ==
    /\ worker[w] = "timer"
    /\ Goto(w, "check")
    /\ UNCHANGED <<shared, net, arrived, unread, holder, evented, caller, call, queue, batch,
                   others, idle, answers, lost>>

WorkerTimeout(w) ==
    /\ worker[w] = "timer" /\ status = "Connecting"
    /\ Goto(w, "expire")
    /\ UNCHANGED <<shared, net, arrived, unread, holder, evented, caller, call, queue,
                   batch, others, idle, answers, lost>>

WorkerExpires(w) ==
    /\ worker[w] = "expire"
    /\ Disconnect(socket)
    /\ evented' = [evented EXCEPT ![w] = socket]
    /\ Goto(w, "tellFailed")
    /\ UNCHANGED <<active, socket, net, arrived, unread, holder, caller, call, queue,
                   batch, others, idle, answers>>

\* The thread returns, but WorkerThreadActive stays true.
WorkerTellsFailed(w) ==
    /\ worker[w] = "tellFailed"
    /\ Add("failed", evented[w])
    /\ answers' = [answers EXCEPT ![evented[w]] = @ + 1]
    /\ Goto(w, "returned")
    /\ UNCHANGED <<shared, net, arrived, unread, holder, evented, caller, call, batch, others,
                   idle, lost>>

WorkerSteps(w) ==
    \/ WorkerStart(w)
    \/ WorkerCheck(w)
    \/ WorkerLeave(w)
    \/ WorkerPoll(w)
    \/ WorkerFindsConnected(w)
    \/ WorkerConnected(w)
    \/ WorkerReads(w)
    \/ \E s \in Connection : \/ WorkerReceives(w, s)
                             \/ WorkerLoses(w, s)
                             \/ WorkerWarns(w, s)
    \/ WorkerDrops(w)
    \/ WorkerTellsConnected(w)
    \/ WorkerTellsData(w)
    \/ WorkerTimeLeft(w)
    \/ WorkerTimeout(w)
    \/ WorkerExpires(w)
    \/ WorkerTellsFailed(w)

-----------------------------------------------------------------------------
(* The network *)

NetUnchanged == UNCHANGED <<shared, holder, worker, evented, caller, call, queue,
                            batch, others, idle, answers, lost>>

NetDelivers(s) ==
    /\ net[s] = "up" /\ arrived[s] < MaxData
    /\ arrived' = [arrived EXCEPT ![s] = @ + 1]
    /\ unread' = [unread EXCEPT ![s] = @ + 1]
    /\ UNCHANGED net
    /\ NetUnchanged

NetLoses(s) ==
    /\ net[s] = "up"
    /\ net' = [net EXCEPT ![s] = "lost"]
    /\ UNCHANGED <<arrived, unread>>
    /\ NetUnchanged

-----------------------------------------------------------------------------

Init ==
    /\ status = "Disconnected" /\ done = FALSE /\ active = FALSE /\ socket = 0
    /\ net = [c \in Connection |-> "none"]
    /\ arrived = [c \in Connection |-> 0]
    /\ unread = [c \in Connection |-> 0]
    /\ holder = 0
    /\ worker = [c \in Connection |-> "none"]
    /\ evented = [c \in Connection |-> 0]
    /\ caller = "none" /\ call = "out"
    /\ queue = <<>> /\ batch = <<>> /\ others = 0
    /\ idle = TRUE
    /\ answers = [c \in Connection |-> 0]
    /\ lost = <<>>

Next ==
    \/ UserConnect
    \/ CallSteps
    \/ EventSteps
    \/ AddOther
    \/ \E w \in Connection : WorkerSteps(w)
    \/ \E s \in Connection : NetDelivers(s) \/ NetLoses(s)

Spec == Init /\ [][Next]_vars

\* Every thread runs, and Config.Timeout does pass.
Fairness ==
    /\ WF_vars(CallSteps)
    /\ WF_vars(EventSteps)
    /\ \A w \in Connection : WF_vars(WorkerSteps(w)) /\ SF_vars(WorkerTimeout(w))

FairSpec == Spec /\ Fairness

-----------------------------------------------------------------------------
(* Properties *)

\* Every variable holds values of its type.
TypeOK ==
    /\ status \in {"Disconnected", "Connecting", "Connected"}
    /\ done \in BOOLEAN /\ active \in BOOLEAN
    /\ socket \in 0..MaxConnects
    /\ net \in [Connection -> {"none", "connecting", "up", "failed", "lost", "closed"}]
    /\ arrived \in [Connection -> 0..MaxData]
    /\ unread \in [Connection -> 0..MaxData]
    /\ holder \in 0..MaxConnects
    /\ worker \in [Connection -> Place]
    /\ evented \in [Connection -> 0..MaxConnects]
    /\ caller \in {"none", "user", "event"}
    /\ call \in {"out", "close", "threw", "open", "connecting", "done", "wait", "join",
                 "spawn", "clear", "destroy", "gone", "dead"}
    /\ queue \in Seq(Callback) /\ batch \in Seq(Callback)
    /\ others \in 0..MaxOther
    /\ idle \in BOOLEAN
    /\ answers \in [Connection -> Nat]
    /\ lost \in Seq(Connection \X Connection)

\* Only the worker thread that the client holds runs, so there is never a second one:
\* Connect joins the old one before it makes a new one, although the flags that stop
\* it are written by three threads.
OneWorker == \A w \in Connection : Running(w) => holder = w

\* A connection is reported to ConnectionCallback at most once, as made or as failed,
\* whichever of the event and the timeout comes first.
AnsweredOnce == \A c \in Connection : answers[c] <= 1

\* Once the destructor has returned no worker uses the object any more.
DestroyedStopped == call = "gone" => \A w \in Connection : ~Running(w)

\* Data is never delivered ahead of the news of the connection it came over.  (True of
\* a client that connects once.)
DataAfterConnected ==
    LET due == batch \o queue IN
    \A i \in 1..Len(due) : due[i].type = "data" =>
        /\ answers[due[i].connection] > 0
        /\ \A j \in 1..Len(due) :
             due[j].type = "connected" /\ due[j].connection = due[i].connection => j < i

\* Once the client is disconnected its worker ends, or a new Connect is called.
WorkerEnds ==
    (status = "Disconnected" /\ call = "out")
        ~> ((\A w \in Connection : ~Running(w)) \/ call # "out")

(* What does not hold of a TFriend (README, known limits) *)

\* Connect and the destructor return.
CallReturns == (caller # "none") ~> (caller = "none")

\* client.h:21 "on connected (or failed to connect)": a Connect that has returned is
\* answered, unless the client is disconnected or connects again meanwhile.
ConnectAnswered ==
    \A c \in Connection :
        (call = "out" /\ socket = c /\ holder = c /\ status = "Connecting")
            ~> (answers[c] > 0 \/ socket # c \/ status # "Connecting")

\* client.h:22 "on connection lost": ConnectionLostCallback is for the socket of the
\* present connection, never for one that Connect has replaced.
LostIsPresent == \A i \in 1..Len(lost) : lost[i][1] = lost[i][2]
=============================================================================
