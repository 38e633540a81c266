--------------------------- MODULE UdtServer_proofs ---------------------------
(***************************************************************************)
(* Proofs about UdtServer, for every number of addresses, connections and  *)
(* packets: the two assertions of udt/server.cpp, and that packets and     *)
(* ends of connections are handled in their own sessions.                  *)
(***************************************************************************)
EXTENDS UdtServer, SequenceTheorems, TLAPS

-----------------------------------------------------------------------------
(* The queue and the backlog *)

\* What the end of a sequence holds when an element is appended, and its rest.
LEMMA Appended ==
    ASSUME NEW S, NEW q \in Seq(S), NEW e \in S
    PROVE  /\ Append(q, e) \in Seq(S) /\ Len(Append(q, e)) = Len(q) + 1 /\ Len(q) \in Nat
           /\ Append(q, e) # <<>>
           /\ \A i \in 1..Len(q) : Append(q, e)[i] = q[i]
           /\ Append(q, e)[Len(q) + 1] = e
BY AppendProperties

\* What a sequence holds without its first element.
LEMMA Rest ==
    ASSUME NEW S, NEW q \in Seq(S), q # <<>>
    PROVE  /\ Tail(q) \in Seq(S) /\ Len(Tail(q)) = Len(q) - 1 /\ Len(q) \in Nat \ {0}
           /\ Head(q) = q[1] /\ q[1] \in S
           /\ \A i \in 1..Len(Tail(q)) : Tail(q)[i] = q[i + 1]
BY HeadTailProperties, EmptySeq

-----------------------------------------------------------------------------
(* The inductive invariant *)

\* Where the two threads can be, and what they have in hand there.
Control ==
    /\ accepting.step \in {"Wait", "Callback", "Insert", "Watch", "Ended"}
    /\ accepting.socket = None <=> accepting.step \in {"Wait", "Ended"}
    /\ reading.step \in {"Wait", "Find", "Queue", "Ended"}
    /\ reading.event = NoEvent <=> reading.step \in {"Wait", "Ended"}

\* A connection has been made before anything is known of it.
MadeFirst ==
    /\ \A i \in 1..Len(backlog) : backlog[i] \in Made
    /\ accepting.socket # None => accepting.socket \in Made
    /\ bySock \subseteq Made

\* A socket is known before it is watched, read and reported; and so is its address.
KnownFirst ==
    /\ accepting.step = "Watch" => accepting.socket \in bySock
    /\ watched \subseteq bySock
    /\ reading.event # NoEvent => reading.event.socket \in bySock
    /\ \A i \in 1..Len(events) : events[i].socket \in bySock
    /\ \A s \in bySock : byAddr[address[s]] # None

\* A connection is accepted once, and watched when that is done.
AcceptedOnce ==
    /\ \A i, j \in 1..Len(backlog) : backlog[i] = backlog[j] => i = j
    /\ \A i \in 1..Len(backlog) : backlog[i] \notin bySock /\ backlog[i] # accepting.socket
    /\ accepting.step \in {"Callback", "Insert"} => accepting.socket \notin bySock
    /\ accepting.step = "Watch" =>
         /\ accepting.socket \notin watched /\ accepting.socket # reading.event.socket
         /\ \A i \in 1..Len(events) : events[i].socket # accepting.socket

\* The end of a connection is the last that is reported of it.
LostLast ==
    /\ reading.event.type = "Lost" /\ reading.step = "Queue" => reading.event.socket \notin watched
    /\ reading.event # NoEvent =>
         \/ reading.event.socket \in watched
         \/ reading.event.type = "Lost" /\ reading.step = "Queue"
    /\ \A i \in 1..Len(events) : events[i].type = "Lost" =>
         /\ events[i].socket \notin watched /\ events[i].socket # reading.event.socket
         /\ \A j \in 1..Len(events) : events[j].socket = events[i].socket => j <= i

\* The server has read the connection or will.
Reported(s) ==
    \/ s \in watched
    \/ reading.event # NoEvent /\ reading.event.socket = s
    \/ \E i \in 1..Len(events) : events[i].socket = s

\* The end of the connection is not handled yet.
Pending(s) ==
    \/ \E i \in 1..Len(backlog) : backlog[i] = s
    \/ accepting.socket = s
    \/ Reported(s)

\* The session of the address was made for this connection, whose end is not handled yet; and
\* the address is that of this connection.
Served(s) == Reported(s) \/ (accepting.socket = s /\ accepting.step \in {"Insert", "Watch"})
Addressed(s) == Reported(s) \/ (accepting.socket = s /\ accepting.step = "Watch")

\* Unless a client comes again too early, one connection of an address is pending at a time,
\* the last one; it owns the session of the address, and the address itself.
OnePending ==
    "Again" \notin incidents =>
        /\ \A r, s \in Made : address[r] = address[s] /\ Pending(r) /\ Pending(s) => r = s
        /\ \A s \in Made : Served(s) => session[address[s]] = s
        /\ \A s \in Made : Addressed(s) => byAddr[address[s]] = s

Inv == TypeOK /\ Control /\ MadeFirst /\ KnownFirst /\ AcceptedOnce /\ LostLast /\ OnePending

-----------------------------------------------------------------------------
(* Types and control *)

\* Every step keeps them.
LEMMA TypeStep == TypeOK /\ Control /\ [Next]_vars => TypeOK' /\ Control'
<1> SUFFICES ASSUME TypeOK, Control, [Next]_vars
             PROVE  TypeOK' /\ Control'
  OBVIOUS
<1>a. None \notin Socket /\ \A s \in Socket : s # None
  BY ServerAssumption DEF Socket, None
<1>b. backlog # <<>> => Tail(backlog) \in Seq(Socket) /\ Head(backlog) \in Socket
  BY Rest DEF TypeOK
<1>c. events # <<>> => Tail(events) \in Seq(Event) /\ Head(events) \in Event
  BY Rest DEF TypeOK
<1>d. NoEvent \notin Event
  BY <1>a DEF Event, NoEvent
<1> USE <1>a DEF TypeOK, Control
<1>1. ASSUME NEW s \in Socket, NEW a \in Address, ClientConnects(s, a)
      PROVE  TypeOK' /\ Control'
  <2>1. backlog' \in Seq(Socket)
    BY <1>1, Appended DEF ClientConnects
  <2> QED
    BY <1>1, <2>1 DEF ClientConnects, OnlyNet
<1>2. ASSUME NEW s \in Socket, ClientSends(s)
      PROVE  TypeOK' /\ Control'
  BY <1>2 DEF ClientSends, OnlyNet
<1>3. ASSUME NEW s \in Socket, LinkBreaks(s)
      PROVE  TypeOK' /\ Control'
  BY <1>3 DEF LinkBreaks, OnlyNet
<1>4. CASE AcceptConnection
  BY <1>4, <1>b DEF AcceptConnection, OnlyConnections, NoSocket, Thread
<1>5. CASE OnClientConnected
  BY <1>5 DEF OnClientConnected, OnlyConnections, Thread
<1>6. CASE InsertClient
  BY <1>6 DEF InsertClient, OnlyConnections, Thread
<1>7. CASE WatchClient
  BY <1>7 DEF WatchClient, OnlyConnections, NoSocket, Thread
<1>8. CASE ConnectionsEnd
  BY <1>8 DEF ConnectionsEnd, OnlyConnections, NoSocket, Thread
<1>9. CASE WorkerReads
  BY <1>9, <1>d DEF WorkerReads, OnlyWorker, Event, Thread
<1>10. CASE WorkerFinds
  BY <1>10, <1>d DEF WorkerFinds, OnlyWorker, Thread
<1>11. CASE WorkerQueues
  <2>1. reading.event \in Event
    BY <1>11 DEF WorkerQueues
  <2>2. events' \in Seq(Event)
    BY <1>11, <2>1, Appended DEF WorkerQueues
  <2> QED
    BY <1>11, <2>2 DEF WorkerQueues, OnlyWorker, Thread
<1>12. CASE WorkerEnds
  BY <1>12 DEF WorkerEnds, OnlyWorker, Thread
<1>13. CASE OnDataReceived
  BY <1>13, <1>c DEF OnDataReceived, OnlyEvents, NextEvent, netVars
<1>14. CASE OnClientDisconnected
  BY <1>14, <1>c DEF OnClientDisconnected, OnlyEvents, NextEvent, netVars, Event
<1>15. CASE Destroy
  BY <1>15 DEF Destroy, OnlyDestructor, netVars
<1>16. CASE Destroyed
  BY <1>16 DEF Destroyed, OnlyDestructor, netVars
<1>17. CASE UNCHANGED vars
  BY <1>17 DEF vars, netVars
<1> QED
  BY <1>1, <1>2, <1>3, <1>4, <1>5, <1>6, <1>7, <1>8, <1>9, <1>10, <1>11, <1>12, <1>13, <1>14,
     <1>15, <1>16, <1>17 DEF Next, ConnectionsThread, WorkerThread, EventThread

-----------------------------------------------------------------------------
(* Connections are made before they are known, and known before they are watched *)

\* A connection that has been made keeps its address and stays made.
LEMMA MadeStays ==
    ASSUME TypeOK, [Next]_vars
    PROVE  \A s \in Made : s \in Made' /\ address'[s] = address[s]
<1>1. ASSUME NEW s \in Socket, NEW a \in Address, ClientConnects(s, a)
      PROVE  \A r \in Made : r \in Made' /\ address'[r] = address[r]
  BY <1>1 DEF ClientConnects, Made, TypeOK
<1>2. ASSUME NEW s \in Socket, LinkBreaks(s)
      PROVE  \A r \in Made : r \in Made' /\ address'[r] = address[r]
  BY <1>2 DEF LinkBreaks, Made, TypeOK
<1>3. ASSUME UNCHANGED <<address, link>>
      PROVE  \A r \in Made : r \in Made' /\ address'[r] = address[r]
  BY <1>3 DEF Made
<1>4. ASSUME NEW s \in Socket, ClientSends(s)
      PROVE  UNCHANGED <<address, link>>
  BY <1>4 DEF ClientSends
<1>5. ConnectionsThread => UNCHANGED <<address, link>>
  BY DEF ConnectionsThread, AcceptConnection, OnClientConnected, InsertClient, WatchClient,
         ConnectionsEnd, OnlyConnections
<1>6. WorkerThread => UNCHANGED <<address, link>>
  BY DEF WorkerThread, WorkerReads, WorkerFinds, WorkerQueues, WorkerEnds, OnlyWorker
<1>7. EventThread \/ Destroy \/ Destroyed \/ UNCHANGED vars => UNCHANGED <<address, link>>
  BY DEF EventThread, OnDataReceived, OnClientDisconnected, Destroy, Destroyed, OnlyEvents,
         OnlyDestructor, netVars, vars
<1> QED
  BY <1>1, <1>2, <1>3, <1>4, <1>5, <1>6, <1>7 DEF Next

\* Both parts are kept by every step.
LEMMA KnownStep ==
    TypeOK /\ Control /\ MadeFirst /\ KnownFirst /\ [Next]_vars => MadeFirst' /\ KnownFirst'
<1> SUFFICES ASSUME TypeOK, Control, MadeFirst, KnownFirst, [Next]_vars
             PROVE  MadeFirst' /\ KnownFirst'
  OBVIOUS
<1>a. None \notin Socket /\ \A s \in Socket : s # None
  BY ServerAssumption DEF Socket, None
<1>b. \A s \in Made : s \in Made' /\ address'[s] = address[s]
  BY MadeStays
<1>c. Made \subseteq Socket /\ NoEvent \notin Event
  BY <1>a DEF Made, Event, NoEvent
<1> USE <1>a, <1>b, <1>c DEF TypeOK, Control, MadeFirst, KnownFirst
<1>1. ASSUME NEW s \in Socket, NEW a \in Address, ClientConnects(s, a)
      PROVE  MadeFirst' /\ KnownFirst'
  <2>1. s \in Made'
    BY <1>1 DEF ClientConnects, Made
  <2>2. \A i \in 1..Len(backlog') : backlog'[i] \in Made'
    BY <1>1, <2>1, Appended DEF ClientConnects
  <2> QED
    BY <1>1, <2>2 DEF ClientConnects, OnlyNet
<1>2. ASSUME NEW s \in Socket, ClientSends(s)
      PROVE  MadeFirst' /\ KnownFirst'
  BY <1>2 DEF ClientSends, OnlyNet
<1>3. ASSUME NEW s \in Socket, LinkBreaks(s)
      PROVE  MadeFirst' /\ KnownFirst'
  BY <1>3 DEF LinkBreaks, OnlyNet
<1>4. CASE AcceptConnection
  <2>1. /\ Head(backlog) \in Made'
        /\ \A i \in 1..Len(backlog') : backlog'[i] \in Made'
    BY <1>4, Rest DEF AcceptConnection
  <2> QED
    BY <1>4, <2>1 DEF AcceptConnection, OnlyConnections, NoSocket
<1>5. CASE OnClientConnected
  BY <1>5 DEF OnClientConnected, OnlyConnections
<1>6. CASE InsertClient
  <2>1. accepting.socket \in Made
    BY <1>6 DEF InsertClient
  <2> QED
    BY <1>6, <2>1 DEF InsertClient, OnlyConnections
<1>7. CASE WatchClient
  BY <1>7 DEF WatchClient, OnlyConnections, NoSocket
<1>8. CASE ConnectionsEnd
  BY <1>8 DEF ConnectionsEnd, OnlyConnections, NoSocket
<1>9. CASE WorkerReads
  BY <1>9 DEF WorkerReads, OnlyWorker, Event
<1>10. CASE WorkerFinds
  BY <1>10 DEF WorkerFinds, OnlyWorker
<1>11. CASE WorkerQueues
  <2>1. reading.event \in Event /\ reading.event.socket \in bySock
    BY <1>11 DEF WorkerQueues
  <2>2. /\ Len(events') = Len(events) + 1 /\ Len(events) \in Nat
        /\ \A i \in 1..Len(events) : events'[i] = events[i]
        /\ events'[Len(events) + 1] = reading.event
    BY <1>11, <2>1, Appended DEF WorkerQueues
  <2>3. bySock' = bySock
    BY <1>11 DEF WorkerQueues, OnlyWorker
  <2>4. \A i \in 1..Len(events') : i \in 1..Len(events) \/ i = Len(events) + 1
    BY <2>2
  <2>5. \A i \in 1..Len(events') : events'[i].socket \in bySock'
    BY <2>1, <2>2, <2>3, <2>4
  <2> QED
    BY <1>11, <2>5 DEF WorkerQueues, OnlyWorker
<1>12. CASE WorkerEnds
  BY <1>12 DEF WorkerEnds, OnlyWorker
<1>13. CASE OnDataReceived
  <2>1. \A i \in 1..Len(events') : events'[i].socket \in bySock'
    BY <1>13, Rest DEF OnDataReceived, OnlyEvents, NextEvent
  <2> QED
    BY <1>13, <2>1 DEF OnDataReceived, OnlyEvents, netVars
<1>14. CASE OnClientDisconnected
  <2>1. \A i \in 1..Len(events') : events'[i].socket \in bySock'
    BY <1>14, Rest DEF OnClientDisconnected, OnlyEvents, NextEvent
  <2> QED
    BY <1>14, <2>1 DEF OnClientDisconnected, OnlyEvents, netVars
<1>15. CASE Destroy
  BY <1>15 DEF Destroy, OnlyDestructor, netVars
<1>16. CASE Destroyed
  BY <1>16 DEF Destroyed, OnlyDestructor, netVars
<1>17. CASE UNCHANGED vars
  BY <1>17 DEF vars, netVars
<1> QED
  BY <1>1, <1>2, <1>3, <1>4, <1>5, <1>6, <1>7, <1>8, <1>9, <1>10, <1>11, <1>12, <1>13, <1>14,
     <1>15, <1>16, <1>17 DEF Next, ConnectionsThread, WorkerThread, EventThread

-----------------------------------------------------------------------------
(* A connection is accepted once, and its end is reported last *)

\* What the queue holds when its first event is taken.
LEMMA EventsRest ==
    ASSUME TypeOK, events # <<>>, events' = Tail(events)
    PROVE  /\ Len(events') = Len(events) - 1 /\ Len(events) \in Nat \ {0}
           /\ Head(events) = events[1] /\ Head(events) \in Event
           /\ \A i \in 1..Len(events') : events'[i] = events[i + 1]
<1>1. events \in Seq(Event)
  BY DEF TypeOK
<1> QED
  BY <1>1, Rest

\* Both parts are kept by every step.
LEMMA OnceStep ==
    TypeOK /\ Control /\ MadeFirst /\ KnownFirst /\ AcceptedOnce /\ LostLast /\ [Next]_vars
        => AcceptedOnce' /\ LostLast'
<1> SUFFICES ASSUME TypeOK, Control, MadeFirst, KnownFirst, AcceptedOnce, LostLast, [Next]_vars
             PROVE  AcceptedOnce' /\ LostLast'
  OBVIOUS
<1>a. None \notin Socket /\ \A s \in Socket : s # None
  BY ServerAssumption DEF Socket, None
<1>c. Made \subseteq Socket /\ NoEvent \notin Event /\ NoEvent.socket = None /\ NoEvent.type = "None"
  BY <1>a DEF Made, Event, NoEvent
<1> USE <1>a, <1>c DEF TypeOK, Control, AcceptedOnce, LostLast
<1>1. ASSUME NEW s \in Socket, NEW a \in Address, ClientConnects(s, a)
      PROVE  AcceptedOnce' /\ LostLast'
  <2>1. s \notin Made
    BY <1>1 DEF ClientConnects, Made
  <2>2. /\ s \notin bySock /\ s # accepting.socket
        /\ \A i \in 1..Len(backlog) : backlog[i] # s
    BY <2>1 DEF MadeFirst
  <2>3. /\ backlog' = Append(backlog, s) /\ accepting' = accepting /\ bySock' = bySock
    BY <1>1 DEF ClientConnects, OnlyNet
  <2>4. /\ \A i, j \in 1..Len(backlog') : backlog'[i] = backlog'[j] => i = j
        /\ \A i \in 1..Len(backlog') : backlog'[i] \notin bySock' /\ backlog'[i] # accepting'.socket
    BY <2>2, <2>3, Appended
  <2> QED
    BY <1>1, <2>4 DEF ClientConnects, OnlyNet
<1>2. ASSUME NEW s \in Socket, ClientSends(s)
      PROVE  AcceptedOnce' /\ LostLast'
  BY <1>2 DEF ClientSends, OnlyNet
<1>3. ASSUME NEW s \in Socket, LinkBreaks(s)
      PROVE  AcceptedOnce' /\ LostLast'
  BY <1>3 DEF LinkBreaks, OnlyNet
<1>4. CASE AcceptConnection
  <2>1. /\ Head(backlog) = backlog[1] /\ Len(backlog') = Len(backlog) - 1 /\ Len(backlog) \in Nat \ {0}
        /\ \A i \in 1..Len(backlog') : backlog'[i] = backlog[i + 1]
    BY <1>4, Rest DEF AcceptConnection
  <2>2. accepting'.socket \in {Head(backlog), None} /\ accepting'.step \in {"Callback", "Wait"}
    BY <1>4 DEF AcceptConnection, NoSocket
  <2>a. \A i \in 1..Len(backlog') : i + 1 \in 1..Len(backlog) /\ i + 1 # 1 /\ i \in Int
    BY <2>1
  <2>b. 1 \in 1..Len(backlog)
    BY <2>1
  <2>3. ASSUME NEW i \in 1..Len(backlog'), NEW j \in 1..Len(backlog'), backlog'[i] = backlog'[j]
        PROVE  i = j
    <3>1. backlog[i + 1] = backlog[j + 1]
      BY <2>1, <2>3
    <3>2. i + 1 = j + 1
      BY <2>a, <3>1
    <3> QED
      BY <2>a, <3>2
  <2>4. /\ bySock' = bySock /\ watched' = watched /\ reading' = reading /\ events' = events
    BY <1>4 DEF AcceptConnection, OnlyConnections
  <2>5. ASSUME NEW i \in 1..Len(backlog')
        PROVE  backlog'[i] \notin bySock' /\ backlog'[i] # accepting'.socket
    <3>1. backlog'[i] = backlog[i + 1]
      BY <2>1
    <3>2. backlog[i + 1] # backlog[1] /\ backlog[i + 1] \in Socket /\ backlog[i + 1] \notin bySock
      BY <2>a, <2>b
    <3> QED
      BY <2>1, <2>2, <2>4, <3>1, <3>2
  <2>6. accepting'.step = "Callback" => accepting'.socket \notin bySock'
    BY <1>4, <2>1, <2>4 DEF AcceptConnection, NoSocket
  <2> QED
    BY <2>2, <2>3, <2>4, <2>5, <2>6
<1>5. CASE OnClientConnected
  BY <1>5 DEF OnClientConnected, OnlyConnections
<1>6. CASE InsertClient
  BY <1>6 DEF InsertClient, OnlyConnections, KnownFirst
<1>7. CASE WatchClient
  BY <1>7 DEF WatchClient, OnlyConnections, NoSocket
<1>8. CASE ConnectionsEnd
  BY <1>8 DEF ConnectionsEnd, OnlyConnections, NoSocket
<1>9. CASE WorkerReads
  BY <1>9 DEF WorkerReads, OnlyWorker, Event
<1>10. CASE WorkerFinds
  BY <1>10 DEF WorkerFinds, OnlyWorker
<1>11. CASE WorkerQueues
  <2>1. reading.event \in Event
    BY <1>11 DEF WorkerQueues
  <2>2. /\ Len(events') = Len(events) + 1 /\ Len(events) \in Nat
        /\ \A i \in 1..Len(events) : events'[i] = events[i]
        /\ events'[Len(events) + 1] = reading.event
    BY <1>11, <2>1, Appended DEF WorkerQueues
  <2>3. AcceptedOnce'
    BY <1>11, <2>2 DEF WorkerQueues, OnlyWorker
  <2>a. \A i \in 1..Len(events') : i \in 1..Len(events) \/ i = Len(events) + 1
    BY <2>2
  <2>b. /\ reading'.event = NoEvent /\ watched' = watched /\ reading.step = "Queue"
        /\ reading.event # NoEvent
    BY <1>11 DEF WorkerQueues, OnlyWorker
  <2>c. ASSUME NEW i \in 1..Len(events'), events'[i].type = "Lost"
        PROVE  /\ events'[i].socket \notin watched' /\ events'[i].socket # reading'.event.socket
               /\ \A j \in 1..Len(events') : events'[j].socket = events'[i].socket => j <= i
    <3>1. CASE i = Len(events) + 1
      <4>1. events'[i] = reading.event
        BY <2>2, <3>1
      <4>2. \A j \in 1..Len(events') : j <= i
        BY <2>2, <3>1
      <4> QED
        BY <2>1, <2>b, <2>c, <4>1, <4>2 DEF Event
    <3>2. CASE i \in 1..Len(events)
      <4>1. events'[i] = events[i] /\ events[i] \in Event
        BY <2>2, <3>2
      <4>2. /\ events[i].socket \notin watched /\ events[i].socket # reading.event.socket
            /\ \A j \in 1..Len(events) : events[j].socket = events[i].socket => j <= i
        BY <2>c, <3>2, <4>1
      <4>3. events[i].socket # NoEvent.socket
        BY <4>1 DEF Event
      <4> QED
        <5>1. events'[i].socket \notin watched' /\ events'[i].socket # reading'.event.socket
          BY <2>b, <4>1, <4>2, <4>3
        <5>2. ASSUME NEW j \in 1..Len(events'), events'[j].socket = events'[i].socket
              PROVE  j <= i
          <6>1. CASE j \in 1..Len(events)
            BY <2>2, <4>1, <4>2, <5>2, <6>1
          <6>2. CASE j = Len(events) + 1
            BY <2>2, <4>1, <4>2, <5>2, <6>2
          <6> QED
            BY <2>a, <6>1, <6>2
        <5> QED
          BY <5>1, <5>2
    <3> QED
      BY <2>a, <3>1, <3>2
  <2>4. LostLast'
    BY <2>b, <2>c
  <2> QED
    BY <2>3, <2>4
<1>12. CASE WorkerEnds
  BY <1>12 DEF WorkerEnds, OnlyWorker
<1>13. CASE EventThread
  <2>0. events # <<>> /\ events' = Tail(events)
    BY <1>13 DEF EventThread, OnDataReceived, OnClientDisconnected, NextEvent
  <2>1. /\ Len(events') = Len(events) - 1 /\ Len(events) \in Nat \ {0}
        /\ \A i \in 1..Len(events') : events'[i] = events[i + 1]
    BY <2>0, EventsRest
  <2>2. UNCHANGED <<netVars, accepting, bySock, watched, reading>>
    BY <1>13 DEF EventThread, OnDataReceived, OnClientDisconnected, OnlyEvents
  <2>a. \A i \in 1..Len(events') : i + 1 \in 1..Len(events) /\ i \in Int
    BY <2>1
  <2>3. AcceptedOnce'
    <3>1. ASSUME NEW i \in 1..Len(events'), accepting.step = "Watch"
          PROVE  events'[i].socket # accepting.socket
      <4>1. events'[i] = events[i + 1] /\ events[i + 1].socket # accepting.socket
        BY <2>1, <2>a, <3>1
      <4> QED
        BY <4>1
    <3> QED
      BY <2>2, <3>1 DEF netVars
  <2>4. LostLast'
    <3>1. ASSUME NEW i \in 1..Len(events'), events'[i].type = "Lost"
          PROVE  /\ events'[i].socket \notin watched /\ events'[i].socket # reading.event.socket
                 /\ \A j \in 1..Len(events') : events'[j].socket = events'[i].socket => j <= i
      <4>1. events'[i] = events[i + 1] /\ i + 1 \in 1..Len(events)
        BY <2>1, <2>a
      <4>2. /\ events[i + 1].socket \notin watched /\ events[i + 1].socket # reading.event.socket
            /\ \A j \in 1..Len(events) : events[j].socket = events[i + 1].socket => j <= i + 1
        BY <3>1, <4>1
      <4>3. ASSUME NEW j \in 1..Len(events'), events'[j].socket = events'[i].socket
            PROVE  j <= i
        <5>1. events'[j] = events[j + 1] /\ j + 1 \in 1..Len(events)
          BY <2>1, <2>a
        <5>2. j + 1 <= i + 1
          BY <4>1, <4>2, <4>3, <5>1
        <5> QED
          BY <5>2, <2>a
      <4> QED
        BY <4>1, <4>2, <4>3
    <3> QED
      BY <2>2, <3>1
  <2> QED
    BY <2>3, <2>4
<1>15. CASE Destroy
  BY <1>15 DEF Destroy, OnlyDestructor, netVars
<1>16. CASE Destroyed
  BY <1>16 DEF Destroyed, OnlyDestructor, netVars
<1>17. CASE UNCHANGED vars
  BY <1>17 DEF vars, netVars
<1> QED
  BY <1>1, <1>2, <1>3, <1>4, <1>5, <1>6, <1>7, <1>8, <1>9, <1>10, <1>11, <1>12, <1>13,
     <1>15, <1>16, <1>17 DEF Next, ConnectionsThread, WorkerThread

-----------------------------------------------------------------------------
(* One connection of an address is pending *)

\* What is left of the backlog was in it.
LEMMA BacklogTail ==
    ASSUME TypeOK, backlog # <<>>, backlog' = Tail(backlog), NEW s,
           \E i \in 1..Len(backlog') : backlog'[i] = s
    PROVE  \E i \in 1..Len(backlog) : backlog[i] = s
<1>1. PICK i \in 1..Len(backlog') : backlog'[i] = s
  OBVIOUS
<1>2. backlog'[i] = backlog[i + 1] /\ i + 1 \in 1..Len(backlog)
  BY Rest DEF TypeOK
<1> QED
  BY <1>1, <1>2

\* The first event is one of the queue, which holds no others when it is taken.
LEMMA EventsTail ==
    ASSUME TypeOK, events # <<>>, events' = Tail(events)
    PROVE  /\ \A s : (\E i \in 1..Len(events') : events'[i].socket = s)
                        => \E i \in 1..Len(events) : events[i].socket = s
           /\ \E i \in 1..Len(events) : events[i].socket = Head(events).socket
           /\ Head(events) \in Event
<1>1. /\ Len(events') = Len(events) - 1 /\ Len(events) \in Nat \ {0}
      /\ Head(events) = events[1] /\ Head(events) \in Event
      /\ \A i \in 1..Len(events') : events'[i] = events[i + 1]
  BY EventsRest
<1>2. ASSUME NEW s, \E i \in 1..Len(events') : events'[i].socket = s
      PROVE  \E i \in 1..Len(events) : events[i].socket = s
  <2>1. PICK i \in 1..Len(events') : events'[i].socket = s
    BY <1>2
  <2>2. events'[i] = events[i + 1] /\ i + 1 \in 1..Len(events)
    BY <1>1
  <2> QED
    BY <2>1, <2>2
<1>3. 1 \in 1..Len(events) /\ events[1].socket = Head(events).socket
  BY <1>1
<1> QED
  BY <1>1, <1>2, <1>3

\* A step that is no new connection, and leaves sessions and addresses alone or where nothing
\* is pending, keeps it.
LEMMA PendingKept ==
    ASSUME OnePending, Made' = Made, UNCHANGED <<address, incidents>>,
           \A s \in Made : Pending(s)' => Pending(s),
           \A s \in Made : Served(s)' => session'[address[s]] = s \/ "Again" \in incidents
                                           \/ (Served(s) /\ session'[address[s]] = session[address[s]]),
           \A s \in Made : Addressed(s)' => byAddr'[address[s]] = s \/ "Again" \in incidents
                                           \/ (Addressed(s) /\ byAddr'[address[s]] = byAddr[address[s]])
    PROVE  OnePending'
BY DEF OnePending

\* It is kept by every step.
LEMMA PendingStep == Inv /\ [Next]_vars => OnePending'
<1> SUFFICES ASSUME Inv, [Next]_vars
             PROVE  OnePending'
  OBVIOUS
<1> USE DEF Inv
<1>a. None \notin Socket /\ \A s \in Socket : s # None
  BY ServerAssumption DEF Socket, None
<1>b. Made \subseteq Socket /\ NoEvent \notin Event /\ NoEvent.socket = None
  BY <1>a DEF Made, Event, NoEvent
<1>1. ASSUME NEW s \in Socket, NEW a \in Address, ClientConnects(s, a), "Again" \notin incidents'
      PROVE  OnePending'
  <2>1. /\ s \notin Made /\ Made' = Made \cup {s}
        /\ \A r \in Made : address'[r] = address[r]
        /\ address'[s] = a
    BY <1>1 DEF ClientConnects, Made, TypeOK
  <2>2. /\ ~Ending(a) /\ \A i \in 1..Len(backlog) : address[backlog[i]] # a
        /\ "Again" \notin incidents
    BY <1>1 DEF ClientConnects
  <2>3. \A r \in Made : Pending(r) => address[r] # a
    BY <2>2 DEF Pending, Reported, Ending
  <2>4. /\ UNCHANGED <<accepting, watched, reading, events, session, byAddr>>
    BY <1>1 DEF ClientConnects, OnlyNet
  <2>5. \A r \in Socket : r # s => (Pending(r)' => Pending(r))
    <3>1. ASSUME NEW r \in Socket, r # s, \E i \in 1..Len(backlog') : backlog'[i] = r
          PROVE  \E i \in 1..Len(backlog) : backlog[i] = r
      BY <1>1, <3>1, Appended, SMTT(30) DEF ClientConnects, TypeOK
    <3> QED
      BY <2>4, <3>1 DEF Pending, Reported
  <2>6. \A r \in Made' : r # s => r \in Made
    BY <2>1
  <2>7. ~Served(s)' /\ ~Addressed(s)'
    <3>1. /\ s \notin watched /\ accepting.socket # s
          /\ reading.event # NoEvent => reading.event.socket # s
          /\ \A i \in 1..Len(events) : events[i].socket # s
      BY <1>a, <2>1 DEF MadeFirst, KnownFirst
    <3> QED
      BY <2>4, <3>1 DEF Served, Addressed, Reported
  <2>8. \A r \in Made : (Served(r)' => Served(r)) /\ (Addressed(r)' => Addressed(r))
    BY <2>4 DEF Served, Addressed, Reported
  <2>9. ASSUME NEW r \in Made', NEW q \in Made', address'[r] = address'[q], Pending(r)', Pending(q)'
        PROVE  r = q
    <3>1. CASE r = s \/ q = s
      BY <1>b, <2>1, <2>3, <2>5, <2>9, <3>1
    <3>2. CASE r # s /\ q # s
      BY <1>b, <2>1, <2>2, <2>5, <2>9, <3>2 DEF OnePending
    <3> QED
      BY <3>1, <3>2
  <2>10. \A r \in Made' : Served(r)' => session'[address'[r]] = r
    BY <2>1, <2>2, <2>4, <2>6, <2>7, <2>8 DEF OnePending
  <2>11. \A r \in Made' : Addressed(r)' => byAddr'[address'[r]] = r
    BY <2>1, <2>2, <2>4, <2>6, <2>7, <2>8 DEF OnePending
  <2> QED
    BY <2>9, <2>10, <2>11 DEF OnePending
<1>2. ASSUME NEW s \in Socket, LinkBreaks(s), "Again" \notin incidents'
      PROVE  OnePending'
  <2>1. /\ Made' = Made /\ "Again" \notin incidents
        /\ UNCHANGED <<address, backlog, accepting, watched, reading, events, session, byAddr>>
    BY <1>2 DEF LinkBreaks, Made, OnlyNet, TypeOK
  <2> QED
    BY <2>1 DEF OnePending, Pending, Served, Addressed, Reported
<1>3. ASSUME UNCHANGED <<link, address, backlog, accepting, watched, reading, events, session,
                         byAddr, incidents>>
      PROVE  OnePending'
  BY <1>3 DEF OnePending, Pending, Served, Addressed, Reported, Made
<1>4. CASE AcceptConnection
  <2>1. /\ Made' = Made
        /\ UNCHANGED <<address, incidents, watched, reading, events, session, byAddr>>
    BY <1>4 DEF AcceptConnection, OnlyConnections, Made
  <2>2. \A s \in Made : Pending(s)' => Pending(s)
    <3>1. \A s : (\E i \in 1..Len(backlog') : backlog'[i] = s) => \E i \in 1..Len(backlog) : backlog[i] = s
      BY <1>4, BacklogTail DEF AcceptConnection
    <3>2. \E i \in 1..Len(backlog) : backlog[i] = Head(backlog)
      <4>1. Head(backlog) = backlog[1] /\ 1 \in 1..Len(backlog)
        BY <1>4, Rest DEF AcceptConnection, TypeOK
      <4> QED
        BY <4>1
    <3>3. accepting'.socket \in {Head(backlog), None}
      BY <1>4 DEF AcceptConnection, NoSocket
    <3> QED
      BY <1>a, <1>b, <2>1, <3>1, <3>2, <3>3 DEF Pending, Reported
  <2>3. accepting'.step \in {"Callback", "Wait"}
    BY <1>4 DEF AcceptConnection, NoSocket
  <2> QED
    BY <2>1, <2>2, <2>3, PendingKept DEF Served, Addressed, Reported
<1>5. CASE OnClientConnected
  <2> DEFINE s == accepting.socket
  <2>1. /\ Made' = Made /\ accepting' = [accepting EXCEPT !.step = "Insert"]
        /\ UNCHANGED <<address, incidents, backlog, watched, reading, events, byAddr>>
    BY <1>5 DEF OnClientConnected, OnlyConnections, Made
  <2>2. s \in Made /\ Pending(s)
    BY <1>5 DEF OnClientConnected, Control, MadeFirst, Pending
  <2>3. /\ session'[address[s]] = s
        /\ \A r \in Made : address[r] # address[s] => session'[address[r]] = session[address[r]]
    BY <1>5, <1>b, <2>2 DEF OnClientConnected, TypeOK
  <2>4. accepting'.socket = s /\ accepting'.step = "Insert"
    BY <2>1 DEF TypeOK
  <2>5. \A r \in Made : Pending(r)' => Pending(r)
    BY <2>1, <2>4 DEF Pending, Reported
  <2>6. \A r \in Made : Served(r)' => r = s \/ Reported(r)
    BY <2>1, <2>4 DEF Served, Reported
  <2>7. \A r \in Made : Reported(r) /\ "Again" \notin incidents /\ address[r] = address[s] => r = s
    BY <2>2 DEF OnePending, Pending
  <2>a. \A r : Reported(r) => Served(r)
    BY DEF Served
  <2>8. ASSUME NEW r \in Made, Served(r)'
        PROVE  \/ session'[address[r]] = r \/ "Again" \in incidents
               \/ (Served(r) /\ session'[address[r]] = session[address[r]])
    <3>1. CASE r = s
      BY <2>3, <3>1
    <3>2. CASE Reported(r)
      BY <2>3, <2>7, <2>a, <3>2
    <3> QED
      BY <2>6, <2>8, <3>1, <3>2
  <2>9. \A r \in Made : Addressed(r)' => Addressed(r) /\ byAddr'[address[r]] = byAddr[address[r]]
    BY <2>1, <2>4 DEF Addressed, Reported
  <2> QED
    BY <2>1, <2>5, <2>8, <2>9, PendingKept
<1>6. CASE InsertClient
  <2> DEFINE s == accepting.socket
  <2>1. /\ Made' = Made /\ accepting' = [accepting EXCEPT !.step = "Watch"]
        /\ UNCHANGED <<address, incidents, backlog, watched, reading, events, session>>
    BY <1>6 DEF InsertClient, OnlyConnections, Made
  <2>2. s \in Made /\ Pending(s)
    BY <1>6 DEF InsertClient, Control, MadeFirst, Pending
  <2>3. /\ byAddr'[address[s]] = s
        /\ \A r \in Made : address[r] # address[s] => byAddr'[address[r]] = byAddr[address[r]]
    BY <1>6, <1>b, <2>2 DEF InsertClient, TypeOK
  <2>4. accepting'.socket = s /\ accepting'.step = "Watch" /\ accepting.step = "Insert"
    BY <1>6, <2>1 DEF InsertClient, TypeOK
  <2>5. \A r \in Made : Pending(r)' => Pending(r)
    BY <2>1, <2>4 DEF Pending, Reported
  <2>6. \A r \in Made : Addressed(r)' => r = s \/ Reported(r)
    BY <2>1, <2>4 DEF Addressed, Reported
  <2>7. \A r \in Made : Reported(r) /\ "Again" \notin incidents /\ address[r] = address[s] => r = s
    BY <2>2 DEF OnePending, Pending
  <2>a. \A r : Reported(r) => Addressed(r)
    BY DEF Addressed
  <2>8. ASSUME NEW r \in Made, Addressed(r)'
        PROVE  \/ byAddr'[address[r]] = r \/ "Again" \in incidents
               \/ (Addressed(r) /\ byAddr'[address[r]] = byAddr[address[r]])
    <3>1. CASE r = s
      BY <2>3, <3>1
    <3>2. CASE Reported(r)
      BY <2>3, <2>7, <2>a, <3>2
    <3> QED
      BY <2>6, <2>8, <3>1, <3>2
  <2>9. \A r \in Made : Served(r)' => Served(r) /\ session'[address[r]] = session[address[r]]
    BY <2>1, <2>4 DEF Served, Reported
  <2> QED
    BY <2>1, <2>5, <2>8, <2>9, PendingKept
<1>7. CASE WatchClient
  <2>1. /\ Made' = Made /\ accepting' = NoSocket /\ accepting.step = "Watch"
        /\ watched' \subseteq watched \cup {accepting.socket}
        /\ UNCHANGED <<address, incidents, backlog, reading, events, session, byAddr>>
    BY <1>7 DEF WatchClient, OnlyConnections, Made
  <2>2. accepting'.socket = None /\ accepting'.step = "Wait"
    BY <2>1 DEF NoSocket
  <2>3. \A r \in Made : Reported(r)' => Reported(r) \/ r = accepting.socket
    BY <2>1 DEF Reported
  <2>4. \A r \in Made : /\ (Pending(r)' => Pending(r)) /\ (Served(r)' => Served(r))
                        /\ (Addressed(r)' => Addressed(r))
    BY <1>a, <1>b, <2>1, <2>2, <2>3 DEF Pending, Served, Addressed
  <2> QED
    BY <2>1, <2>4, PendingKept
<1>8. CASE ConnectionsEnd
  <2>1. /\ Made' = Made /\ accepting.socket = None /\ accepting'.socket = None
        /\ UNCHANGED <<address, incidents, watched, backlog, reading, events, session, byAddr>>
    BY <1>8 DEF ConnectionsEnd, OnlyConnections, Made, NoSocket
  <2>2. \A r \in Made : /\ (Pending(r)' => Pending(r)) /\ (Served(r)' => Served(r))
                        /\ (Addressed(r)' => Addressed(r))
    BY <1>a, <1>b, <2>1 DEF Pending, Served, Addressed, Reported
  <2> QED
    BY <2>1, <2>2, PendingKept
<1>9. CASE WorkerThread
  <2>1. /\ Made' = Made
        /\ UNCHANGED <<address, incidents, backlog, accepting, session, byAddr>>
    BY <1>9 DEF WorkerThread, WorkerReads, WorkerFinds, WorkerQueues, WorkerEnds, OnlyWorker, Made
  <2>2. \A r \in Made : Reported(r)' => Reported(r)
    <3>1. CASE WorkerReads
      BY <3>1 DEF WorkerReads, Reported
    <3>2. CASE WorkerFinds
      BY <3>2 DEF WorkerFinds, Reported, TypeOK
    <3>3. CASE WorkerQueues
      <4>1. reading.event \in Event /\ reading'.event = NoEvent /\ watched' = watched
        BY <3>3 DEF WorkerQueues, Control, TypeOK
      <4>2. /\ Len(events') = Len(events) + 1 /\ Len(events) \in Nat
            /\ \A i \in 1..Len(events) : events'[i] = events[i]
            /\ events'[Len(events) + 1] = reading.event
        BY <3>3, <4>1, Appended DEF WorkerQueues, TypeOK
      <4>3. \A i \in 1..Len(events') : i \in 1..Len(events) \/ i = Len(events) + 1
        BY <4>2
      <4> QED
        BY <1>b, <4>1, <4>2, <4>3 DEF Reported
    <3>4. CASE WorkerEnds
      BY <3>4 DEF WorkerEnds, Reported, TypeOK
    <3> QED
      BY <1>9, <3>1, <3>2, <3>3, <3>4 DEF WorkerThread
  <2> QED
    BY <2>1, <2>2, PendingKept DEF Pending, Served, Addressed
<1>10. CASE OnDataReceived
  <2>1. /\ Made' = Made /\ events # <<>> /\ events' = Tail(events)
        /\ UNCHANGED <<address, incidents, backlog, accepting, session, byAddr, watched, reading>>
    BY <1>10 DEF OnDataReceived, OnlyEvents, netVars, Made, NextEvent
  <2>2. \A r \in Made : Reported(r)' => Reported(r)
    BY <2>1, EventsTail DEF Reported
  <2> QED
    BY <2>1, <2>2, PendingKept DEF Pending, Served, Addressed
<1>11. CASE OnClientDisconnected
  <2>0. PICK s \in Socket : s = Head(events).socket
    BY <1>11, EventsTail DEF OnClientDisconnected, NextEvent, OnlyEvents, Event
  <2>1. /\ Made' = Made /\ events # <<>> /\ events' = Tail(events) /\ Head(events).type = "Lost"
        /\ UNCHANGED <<address, incidents, backlog, accepting, byAddr, watched, reading>>
    BY <1>11 DEF OnClientDisconnected, OnlyEvents, netVars, Made, NextEvent
  <2>2. \A r \in Made : Reported(r)' => Reported(r)
    BY <2>1, EventsTail DEF Reported
  <2>a. /\ Head(events) = events[1] /\ 1 \in 1..Len(events) /\ Len(events') = Len(events) - 1
        /\ \A i \in 1..Len(events') : events'[i] = events[i + 1] /\ i + 1 \in 1..Len(events) /\ ~(i + 1 <= 1)
    BY <2>1, EventsRest
  <2>3. s \in Made /\ Reported(s)
    BY <2>0, <2>a DEF KnownFirst, MadeFirst, Reported
  <2>4. ~Reported(s)'
    <3>1. /\ events[1].socket \notin watched /\ events[1].socket # reading.event.socket
          /\ \A j \in 1..Len(events) : events[j].socket = events[1].socket => j <= 1
      BY <2>1, <2>a DEF LostLast
    <3>2. \A i \in 1..Len(events') : events'[i].socket # s
      BY <2>0, <2>a, <3>1
    <3>3. s \notin watched' /\ reading'.event.socket # s
      BY <2>0, <2>1, <2>a, <3>1
    <3> QED
      BY <3>2, <3>3 DEF Reported
  <2>5. accepting.step \in {"Insert", "Watch"} => accepting.socket # s
    <3>1. s \in bySock
      BY <2>0, <2>a DEF KnownFirst
    <3>2. accepting.step = "Insert" => accepting.socket # s
      BY <3>1 DEF AcceptedOnce
    <3>3. accepting.step = "Watch" => accepting.socket # s
      BY <2>0, <2>a DEF AcceptedOnce
    <3> QED
      BY <3>2, <3>3
  <2>6. ~Served(s)'
    <3>1. accepting'.step \in {"Insert", "Watch"} => accepting'.socket # s
      BY <2>1, <2>5
    <3> QED
      BY <2>4, <3>1 DEF Served
  <2>7. \A r \in Made : address[r] # address[s] => session'[address[r]] = session[address[r]]
    BY <1>11, <1>b, <2>0, <2>3 DEF OnClientDisconnected, TypeOK
  <2>8. \A r \in Made : (Pending(r)' => Pending(r)) /\ (Served(r)' => Served(r))
                          /\ (Addressed(r)' => Addressed(r)) /\ (Served(r) => Pending(r))
    BY <2>1, <2>2 DEF Pending, Served, Addressed
  <2>b. Pending(s)
    BY <2>3 DEF Pending
  <2>9. ASSUME NEW r \in Made, Served(r)', "Again" \notin incidents, address[r] = address[s]
        PROVE  FALSE
    <3>1. r = s
      BY <2>3, <2>8, <2>9, <2>b DEF OnePending
    <3> QED
      BY <2>6, <2>9, <3>1
  <2>10. \A r \in Made : Served(r)' => "Again" \in incidents
                             \/ (Served(r) /\ session'[address[r]] = session[address[r]])
    BY <2>7, <2>8, <2>9
  <2>11. \A r \in Made : Addressed(r)' => Addressed(r) /\ byAddr'[address[r]] = byAddr[address[r]]
    BY <2>1, <2>8
  <2> QED
    BY <2>1, <2>8, <2>10, <2>11, PendingKept
<1> QED
  <2>1. ASSUME NEW s \in Socket, NEW a \in Address, ClientConnects(s, a)
        PROVE  OnePending'
    BY <1>1, <2>1 DEF OnePending
  <2>2. ASSUME NEW s \in Socket, ClientSends(s) \/ LinkBreaks(s)
        PROVE  OnePending'
    BY <1>2, <1>3, <2>2 DEF OnePending, ClientSends, OnlyNet
  <2>3. CASE Destroy \/ Destroyed \/ UNCHANGED vars
    BY <1>3, <2>3 DEF Destroy, Destroyed, OnlyDestructor, netVars, vars
  <2> QED
    BY <1>4, <1>5, <1>6, <1>7, <1>8, <1>9, <1>10, <1>11, <2>1, <2>2, <2>3
       DEF Next, ConnectionsThread, EventThread

-----------------------------------------------------------------------------
(* The invariant and what it shows *)

\* The invariant holds at first.
LEMMA InvInit == Init => Inv
<1> SUFFICES ASSUME Init
             PROVE  Inv
  OBVIOUS
<1>1. None \notin Socket /\ NoEvent.socket = None /\ NoEvent.type = "None" /\ Made = {}
  BY ServerAssumption DEF Init, Socket, None, NoEvent, Made
<1>2. TypeOK
  BY ServerAssumption DEF Init, TypeOK, Thread, NoSocket
<1>3. Control /\ MadeFirst /\ KnownFirst /\ AcceptedOnce /\ LostLast
  BY <1>1 DEF Init, Control, MadeFirst, KnownFirst, AcceptedOnce, LostLast, NoSocket
<1> QED
  BY <1>1, <1>2, <1>3 DEF Inv, OnePending

\* And every step keeps it.
LEMMA InvStep == Inv /\ [Next]_vars => Inv'
BY TypeStep, KnownStep, OnceStep, PendingStep DEF Inv

\* So it always holds.
THEOREM Invariance == Spec => []Inv
BY InvInit, InvStep, PTL DEF Spec

\* Every variable always holds values of its type.
THEOREM TypeCorrect == Spec => []TypeOK
<1>1. Inv => TypeOK
  BY DEF Inv
<1> QED
  BY <1>1, Invariance, PTL

\* The worker finds every socket it has read (udt/server.cpp:46).
THEOREM SocketAlwaysKnown == Spec => []SocketKnown
<1>1. Inv => SocketKnown
  BY DEF Inv, KnownFirst, SocketKnown
<1> QED
  BY <1>1, Invariance, PTL

\* The first event of the queue, of a connection that is reported.
LEMMA NextReported ==
    ASSUME Inv, events # <<>>
    PROVE  Head(events).socket \in bySock \cap Made /\ Reported(Head(events).socket)
<1>1. Head(events) = events[1] /\ 1 \in 1..Len(events)
  BY Rest DEF Inv, TypeOK
<1> QED
  BY <1>1 DEF Inv, KnownFirst, MadeFirst, Reported

\* An answer finds its address (udt/server.cpp:51), which is that of the connection the packet
\* came from.
THEOREM AnswersGoBack == Spec => []AnswerGoesBack
<1>1. ASSUME Inv, NextEvent("Data")
      PROVE  LET s == Head(events).socket
             IN  byAddr[address[s]] # None /\ (incidents = {} => byAddr[address[s]] = s)
  <2> DEFINE s == Head(events).socket
  <2>1. s \in bySock /\ s \in Made /\ Addressed(s)
    BY <1>1, NextReported DEF NextEvent, Addressed
  <2>2. byAddr[address[s]] # None
    BY <1>1, <2>1 DEF Inv, KnownFirst
  <2>3. incidents = {} => byAddr[address[s]] = s
    BY <1>1, <2>1 DEF Inv, OnePending
  <2> QED
    BY <2>2, <2>3
<1>2. Inv => AnswerGoesBack
  BY <1>1 DEF AnswerGoesBack
<1> QED
  BY <1>2, Invariance, PTL

\* Packets and the ends of connections are handled in their own sessions, unless a client comes
\* again too early.
THEOREM SessionsOwned == Spec => []OwnSession
<1>1. ASSUME Inv, "Again" \notin incidents, events # <<>>
      PROVE  session[address[Head(events).socket]] = Head(events).socket
  <2>1. Head(events).socket \in Made /\ Served(Head(events).socket)
    BY <1>1, NextReported DEF Served
  <2> QED
    BY <1>1, <2>1 DEF Inv, OnePending
<1>2. Inv => OwnSession
  BY <1>1 DEF OwnSession
<1> QED
  BY <1>2, Invariance, PTL
=============================================================================
