------------------------------ MODULE UdtServer ------------------------------
(***************************************************************************)
(* The UDT server (library/udt/server.cpp) under the vocal server          *)
(* (vocal_server_lib/server.cpp:55-102): a thread that accepts             *)
(* connections, a worker that reads them, the event queue, and the         *)
(* sessions, which the callbacks find by address.                          *)
(*                                                                         *)
(* A connection is a socket and an address; a client may come again from   *)
(* the address it had.  OnClientConnected runs on the connections thread,  *)
(* the other callbacks on the event thread, which holds the mutex of the   *)
(* queue meanwhile (UdtClient).  Of UDT it is modelled that a socket that  *)
(* is broken when it is added to an epoll set is never reported            *)
(* (contrib/udt4/core.cpp:2650).  What the packets of a session do is in   *)
(* VocalSessions; here they are counted.                                   *)
(***************************************************************************)
EXTENDS Naturals, Sequences, FiniteSets

CONSTANTS
    Address,
    MaxSockets,   \* bound: connections made
    MaxData       \* bound: packets sent on each

ASSUME ServerAssumption == Address # {} /\ MaxSockets \in Nat \ {0} /\ MaxData \in Nat

VARIABLES
    address,      \* address of each connection made
    link,         \* of each: "None", "Up" or "Broken"
    sent,         \* packets sent and not yet read
    left,         \* packets that may still be sent
    backlog,      \* connections UDT::accept has not returned yet
    accepting,    \* the connections thread: the socket and the next step
    bySock, byAddr,  \* TClients: sockets known, and the socket of an address
    watched,      \* MainEid: sockets that are reported
    reading,      \* the worker: the event for the socket read last, and the next step
    events,       \* the event queue
    session,      \* Clients of the vocal server: by address, the socket it was made for
    done,         \* Done, and whether the destructor has returned
    incidents     \* history: "Again" when a client came again from an address while the
                  \* end of its last connection was not handled, "Early" when a connection
                  \* broke before it was watched

netVars == <<address, link, sent, left, backlog>>
vars == <<netVars, accepting, bySock, byAddr, watched, reading, events, session, done,
          incidents>>

-----------------------------------------------------------------------------
(* Data *)

Socket == 1..MaxSockets
None == 0

Made == {s \in Socket : link[s] # "None"}

Event == [type: {"Data", "Lost"}, socket: Socket]
NoEvent == [type |-> "None", socket |-> None]

Thread == {"Wait", "Callback", "Insert", "Watch", "Find", "Queue", "Ended"}
NoSocket == [step |-> "Wait", socket |-> None]

-----------------------------------------------------------------------------
(* Clients and their connections *)

OnlyNet == UNCHANGED <<accepting, bySock, byAddr, watched, reading, events, session, done>>

\* The end of a connection of this address is not handled yet.
Ending(a) ==
    \/ session[a] # None
    \/ \E s \in Made : address[s] = a /\ (s \in watched \/ s = accepting.socket)
    \/ \E i \in 1..Len(events) : address[events[i].socket] = a
    \/ reading.event # NoEvent /\ address[reading.event.socket] = a

\* A client connects, from an address where no other connection is up.
ClientConnects(s, a) ==
    /\ link[s] = "None" /\ \A r \in 1..(s - 1) : link[r] # "None"
    /\ \A r \in Made : link[r] = "Up" => address[r] # a
    /\ link' = [link EXCEPT ![s] = "Up"] /\ address' = [address EXCEPT ![s] = a]
    /\ backlog' = Append(backlog, s)
    /\ incidents' = incidents \cup IF Ending(a) \/ \E i \in 1..Len(backlog) : address[backlog[i]] = a
                                   THEN {"Again"} ELSE {}
    /\ OnlyNet /\ UNCHANGED <<sent, left>>

ClientSends(s) ==
    /\ link[s] = "Up" /\ left[s] > 0
    /\ left' = [left EXCEPT ![s] = @ - 1] /\ sent' = [sent EXCEPT ![s] = @ + 1]
    /\ OnlyNet /\ UNCHANGED <<address, link, backlog, incidents>>

\* What has arrived can still be read.
LinkBreaks(s) ==
    /\ link[s] = "Up" /\ link' = [link EXCEPT ![s] = "Broken"]
    /\ incidents' = incidents \cup IF s \in watched THEN {} ELSE {"Early"}
    /\ OnlyNet /\ UNCHANGED <<address, sent, left, backlog>>

-----------------------------------------------------------------------------
(* ConnectionsThread *)

OnlyConnections == UNCHANGED <<address, link, sent, left, reading, events, done, incidents>>

\* UDT::accept, of a connection that is still up.  The mutant does not call
\* NewConnectionCallback.
AcceptConnection_Unasked ==
    /\ accepting = NoSocket /\ ~done.flag /\ backlog # <<>>
    /\ backlog' = Tail(backlog)
    /\ accepting' = IF link[Head(backlog)] = "Up"
                    THEN [step |-> "Insert", socket |-> Head(backlog)] ELSE NoSocket
    /\ OnlyConnections /\ UNCHANGED <<bySock, byAddr, watched, session>>

AcceptConnection ==
    /\ accepting = NoSocket /\ ~done.flag /\ backlog # <<>>
    /\ backlog' = Tail(backlog)
    /\ accepting' = IF link[Head(backlog)] = "Up"
                    THEN [step |-> "Callback", socket |-> Head(backlog)] ELSE NoSocket
    /\ OnlyConnections /\ UNCHANGED <<bySock, byAddr, watched, session>>

\* NewConnectionCallback: the session of that address is replaced.
OnClientConnected ==
    LET s == accepting.socket IN
    /\ accepting.step = "Callback"
    /\ session' = [session EXCEPT ![address[s]] = s]
    /\ accepting' = [accepting EXCEPT !.step = "Insert"]
    /\ OnlyConnections /\ UNCHANGED <<backlog, bySock, byAddr, watched>>

\* Insert, under Lock.  The mutants watch the socket first, and keep an address that is known.
InsertClient_Watched ==
    LET s == accepting.socket IN
    /\ accepting.step = "Insert"
    /\ watched' = watched \cup {s}
    /\ accepting' = [accepting EXCEPT !.step = "Watch"]
    /\ OnlyConnections /\ UNCHANGED <<backlog, bySock, byAddr, session>>

InsertClient_Known ==
    LET s == accepting.socket IN
    /\ accepting.step = "Insert"
    /\ bySock' = bySock \cup {s}
    /\ byAddr' = [byAddr EXCEPT ![address[s]] = IF @ = None THEN s ELSE @]
    /\ accepting' = [accepting EXCEPT !.step = "Watch"]
    /\ OnlyConnections /\ UNCHANGED <<backlog, watched, session>>

InsertClient ==
    LET s == accepting.socket IN
    /\ accepting.step = "Insert"
    /\ bySock' = bySock \cup {s} /\ byAddr' = [byAddr EXCEPT ![address[s]] = s]
    /\ accepting' = [accepting EXCEPT !.step = "Watch"]
    /\ OnlyConnections /\ UNCHANGED <<backlog, watched, session>>

\* epoll_add_usock, which reports nothing of a broken socket.
WatchClient ==
    LET s == accepting.socket IN
    /\ accepting.step = "Watch"
    /\ watched' = IF link[s] = "Up" THEN watched \cup {s} ELSE watched
    /\ accepting' = NoSocket
    /\ OnlyConnections /\ UNCHANGED <<backlog, bySock, byAddr, session>>

\* The thread sees Done when epoll_wait has timed out.
ConnectionsEnd ==
    /\ accepting = NoSocket /\ done.flag
    /\ accepting' = [NoSocket EXCEPT !.step = "Ended"]
    /\ OnlyConnections /\ UNCHANGED <<backlog, bySock, byAddr, watched, session>>

ConnectionsThread ==
    AcceptConnection \/ OnClientConnected \/ InsertClient \/ WatchClient \/ ConnectionsEnd

-----------------------------------------------------------------------------
(* WorkerThread *)

OnlyWorker == UNCHANGED <<address, link, left, backlog, accepting, bySock, byAddr, session,
                          done, incidents>>

\* epoll_wait and recv: a packet, or the error of a broken connection.
WorkerReads ==
    \E s \in watched :
        /\ reading.step = "Wait" /\ ~done.flag
        /\ \/ sent[s] > 0 /\ reading' = [step |-> "Find", event |-> [type |-> "Data", socket |-> s]]
           \/ /\ sent[s] = 0 /\ link[s] = "Broken"
              /\ reading' = [step |-> "Find", event |-> [type |-> "Lost", socket |-> s]]
        /\ sent' = [sent EXCEPT ![s] = IF @ > 0 THEN @ - 1 ELSE @]
        /\ OnlyWorker /\ UNCHANGED <<watched, events>>

\* Clients.Get of the socket, under Lock; a broken one is closed.
WorkerFinds ==
    /\ reading.step = "Find" /\ reading.event.socket \in bySock
    /\ reading' = [reading EXCEPT !.step = "Queue"]
    /\ watched' = IF reading.event.type = "Lost" THEN watched \ {reading.event.socket} ELSE watched
    /\ OnlyWorker /\ UNCHANGED <<sent, events>>

\* TEventQueue::Add.
WorkerQueues ==
    /\ reading.step = "Queue"
    /\ events' = Append(events, reading.event)
    /\ reading' = [step |-> "Wait", event |-> NoEvent]
    /\ OnlyWorker /\ UNCHANGED <<sent, watched>>

WorkerEnds ==
    /\ reading.step = "Wait" /\ done.flag
    /\ reading' = [reading EXCEPT !.step = "Ended"]
    /\ OnlyWorker /\ UNCHANGED <<sent, watched, events>>

WorkerThread == WorkerReads \/ WorkerFinds \/ WorkerQueues \/ WorkerEnds

-----------------------------------------------------------------------------
(* The event thread *)

OnlyEvents == UNCHANGED <<netVars, accepting, bySock, byAddr, watched, reading, done, incidents>>

NextEvent(type) == events # <<>> /\ Head(events).type = type

\* OnDataReceived, in the session of that address, which must be there; it answers to the
\* address.
OnDataReceived ==
    /\ NextEvent("Data") /\ events' = Tail(events)
    /\ OnlyEvents /\ UNCHANGED session

\* OnClientDisconnected: the session of that address is erased.  The mutant keeps it.
OnClientDisconnected_Kept ==
    /\ NextEvent("Lost") /\ events' = Tail(events)
    /\ OnlyEvents /\ UNCHANGED session

OnClientDisconnected ==
    /\ NextEvent("Lost") /\ events' = Tail(events)
    /\ session' = [session EXCEPT ![address[Head(events).socket]] = None]
    /\ OnlyEvents

EventThread == OnDataReceived \/ OnClientDisconnected

-----------------------------------------------------------------------------
(* The destructor, called when the program ends *)

OnlyDestructor == UNCHANGED <<netVars, accepting, bySock, byAddr, watched, reading, events,
                              session, incidents>>

Destroy == ~done.flag /\ done' = [done EXCEPT !.flag = TRUE] /\ OnlyDestructor

\* It joins the worker and the connections thread.
Destroyed ==
    /\ done.flag /\ ~done.returned /\ reading.step = "Ended" /\ accepting.step = "Ended"
    /\ done' = [done EXCEPT !.returned = TRUE] /\ OnlyDestructor

-----------------------------------------------------------------------------

Init ==
    /\ address \in [Socket -> {CHOOSE a \in Address : TRUE}]
    /\ link = [s \in Socket |-> "None"] /\ sent = [s \in Socket |-> 0]
    /\ left = [s \in Socket |-> MaxData] /\ backlog = <<>>
    /\ accepting = NoSocket /\ bySock = {} /\ byAddr = [a \in Address |-> None]
    /\ watched = {} /\ reading = [step |-> "Wait", event |-> NoEvent]
    /\ events = <<>> /\ session = [a \in Address |-> None]
    /\ done = [flag |-> FALSE, returned |-> FALSE] /\ incidents = {}

Next ==
    \/ \E s \in Socket : (\E a \in Address : ClientConnects(s, a)) \/ ClientSends(s) \/ LinkBreaks(s)
    \/ ConnectionsThread \/ WorkerThread \/ EventThread
    \/ Destroy \/ Destroyed

Spec == Init /\ [][Next]_vars

\* The threads keep running, and a destructor that waits for them goes on when they have
\* ended.  The worker reads every socket of the set in turn.
Fairness ==
    /\ WF_vars(ConnectionsThread) /\ WF_vars(WorkerThread) /\ WF_vars(EventThread)
    /\ WF_vars(Destroyed)

FairSpec == Spec /\ Fairness

-----------------------------------------------------------------------------
(* Properties *)

\* Every variable holds values of its type.
TypeOK ==
    /\ address \in [Socket -> Address] /\ link \in [Socket -> {"None", "Up", "Broken"}]
    /\ sent \in [Socket -> Nat] /\ left \in [Socket -> Nat] /\ backlog \in Seq(Socket)
    /\ accepting \in [step: Thread, socket: Socket \cup {None}]
    /\ bySock \subseteq Socket /\ byAddr \in [Address -> Socket \cup {None}]
    /\ watched \subseteq Socket
    /\ reading \in [step: Thread, event: Event \cup {NoEvent}]
    /\ events \in Seq(Event) /\ session \in [Address -> Socket \cup {None}]
    /\ done \in [flag: BOOLEAN, returned: BOOLEAN] /\ incidents \subseteq {"Again", "Early"}

\* assert(ClientsBySock.find(socket) != ClientsBySock.end() && "client not found")
\* (udt/server.cpp:46): the worker, which takes Lock only after it has read, always knows the
\* socket, although another thread accepts connections meanwhile.
SocketKnown == reading.event # NoEvent => reading.event.socket \in bySock

\* assert(ClientsByAddr.find(address) != ClientsByAddr.end() && "client not found") (51): an
\* answer to a packet finds the address; and it goes to the connection the packet came from
\* unless the client came again too early.
AnswerGoesBack ==
    NextEvent("Data") =>
        LET s == Head(events).socket
        IN  byAddr[address[s]] # None /\ (incidents = {} => byAddr[address[s]] = s)

\* assert(Clients.find(addr) != Clients.end()) (vocal_server_lib/server.cpp:85): a packet is
\* handled in a session.
SessionThere == NextEvent("Data") => session[address[Head(events).socket]] # None

\* A packet is handled in the session of the connection it came from, and the end of a
\* connection ends its own session, although events carry only an address, unless a client
\* comes again before the end of its last connection is handled.
OwnSession ==
    "Again" \notin incidents /\ events # <<>> =>
        session[address[Head(events).socket]] = Head(events).socket

\* "on client disconnected" (server.h:22): a session whose connection has broken is finally
\* erased or replaced, unless the connection broke before it was watched, or the server ends.
BrokenSessionEnds ==
    \A s \in Socket :
        (link[s] = "Broken" /\ s \in watched)
            ~> (\A a \in Address : session[a] # s) \/ done.flag

=============================================================================
