--------------------------- MODULE UdtClient_proofs ---------------------------
(***************************************************************************)
(* Proofs about UdtClient, for every number of connections, packets and    *)
(* callbacks and for both uses of the client.                              *)
(***************************************************************************)
EXTENDS UdtClient, TLAPS, SequenceTheorems

\* Where the threads can be, as far as the types depend on it.
Control ==
    /\ call = "close" => socket < MaxConnects
    /\ status # "Disconnected" \/ call \in {"open", "connecting", "done", "wait", "join", "spawn"}
         => socket # 0
    /\ caller = "event" => batch # <<>>
    /\ call = "destroy" => caller = "event"
    /\ \A c \in Connection : unread[c] <= arrived[c]
    /\ \A w \in Connection :
         /\ worker[w] \in {"event", "made", "recv", "drop", "expire"} => socket # 0
         /\ worker[w] \in {"event", "made", "recv", "drop", "tellConnected", "tellData",
                           "tellFailed"} => evented[w] # 0

\* Types and control are kept by every step.
LEMMA TypeStep == TypeOK /\ Control /\ [Next]_vars => TypeOK' /\ Control'
<1> SUFFICES ASSUME TypeOK, Control, [Next]_vars
             PROVE  TypeOK' /\ Control'
  OBVIOUS
<1>a. /\ Ended \cup {"none", "start", "check", "leave", "poll"} \subseteq Place
      /\ {"event", "made", "recv", "drop", "timer", "expire"} \subseteq Place
      /\ {"tellConnected", "tellData", "tellFailed"} \subseteq Place
  BY DEF Place
<1>b. /\ batch # <<>> => Tail(batch) \in Seq(Callback)
      /\ \A e \in Callback : Append(queue, e) \in Seq(Callback)
  BY DEF TypeOK
<1>c. /\ [type |-> "other", connection |-> 0] \in Callback
      /\ \A c \in Connection, t \in {"connected", "failed", "data"} :
           [type |-> t, connection |-> c] \in Callback
  BY DEF Callback
<1>d. \A c, d \in Connection : Append(lost, <<c, d>>) \in Seq(Connection \X Connection)
  BY DEF TypeOK
<1>e. /\ \A n \in 0..MaxConnects : n # 0 => n \in Connection
      /\ \A n \in Connection : n \in 0..MaxConnects /\ n # 0
      /\ 0 \in 0..MaxConnects /\ MaxConnects \in Nat /\ MaxData \in Nat /\ MaxOther \in Nat /\ socket \in Nat
      /\ socket < MaxConnects => socket + 1 \in 0..MaxConnects /\ socket + 1 # 0
  BY UdtClientAssumption DEF Connection, TypeOK
<1> USE <1>a, <1>b, <1>c, <1>d, <1>e DEF TypeOK, Control, Ended
<1>1. CASE UserConnect
  BY <1>1 DEF UserConnect, shared
<1>2. CASE ConnectCannotClose
  BY <1>2 DEF ConnectCannotClose, CallStep, shared
<1>3. CASE ConnectClose
  BY <1>3 DEF ConnectClose, HasConnection, CallStep, InRecv, shared
<1>4. CASE ConnectOpen
  BY <1>4 DEF ConnectOpen, CallStep, shared
<1>5. CASE ConnectMade
  BY <1>5 DEF ConnectMade, CallStep, shared
<1>39. CASE ConnectCannotBind
  BY <1>39 DEF ConnectCannotBind, CallStep, shared
<1>6. CASE ConnectFails
  BY <1>6 DEF ConnectFails, CallStep, shared
<1>7. CASE ConnectThrew
  BY <1>7 DEF ConnectThrew, shared
<1>8. CASE ConnectDone
  BY <1>8 DEF ConnectDone, CallStep, shared
<1>9. CASE ConnectWait
  BY <1>9 DEF ConnectWait, CallStep, shared
<1>10. CASE ConnectJoin
  <2>1. TypeOK'
    BY <1>10 DEF ConnectJoin, CallStep, shared
  <2>2. Control'
    BY <1>10 DEF ConnectJoin, CallStep, shared
  <2> QED
    BY <2>1, <2>2
<1>11. CASE ConnectSpawn
  BY <1>11 DEF ConnectSpawn, CallStep, shared
<1>12. CASE ConnectClear
  BY <1>12 DEF ConnectClear, shared
<1>13. CASE DestroyJoin
  BY <1>13 DEF DestroyJoin, shared
<1>14. CASE TakeBatch
  <2>1. TypeOK'
    BY <1>14 DEF TakeBatch, shared
  <2>2. Control'
    BY <1>14 DEF TakeBatch, shared
  <2> QED
    BY <2>1, <2>2
<1>15. CASE CallbackReturns
  <2>1. TypeOK'
    BY <1>15 DEF CallbackReturns, CallbackOf, shared
  <2>2. Control'
    BY <1>15 DEF CallbackReturns, CallbackOf, shared
  <2> QED
    BY <2>1, <2>2
<1>16. CASE CallbackDisconnects
  <2>a. /\ <<status', done', lost'>> = <<status, done, lost>> \/ status' = "Disconnected"
        /\ done' \in BOOLEAN
        /\ lost' \in Seq(Connection \X Connection)
    <3>1. CASE status = "Disconnected"
      BY <1>16, <3>1 DEF CallbackDisconnects, CallbackOf, Disconnect, Drop, shared
    <3>2. CASE status # "Disconnected"
      <4>1. Append(lost, <<socket, socket>>) \in Seq(Connection \X Connection)
        BY <3>2
      <4> QED
        BY <1>16, <3>2, <4>1 DEF CallbackDisconnects, CallbackOf, Disconnect, Drop, shared
    <3> QED
      BY <3>1, <3>2
  <2>1. TypeOK'
    BY <1>16, <2>a DEF CallbackDisconnects, CallbackOf, Disconnect, Drop, shared
  <2>2. Control'
    BY <1>16 DEF CallbackDisconnects, CallbackOf, Disconnect, Drop, shared
  <2> QED
    BY <2>1, <2>2
<1>17. CASE CallbackConnects
  BY <1>17 DEF CallbackConnects, CallbackOf, shared
<1>18. CASE CallbackDestroys
  <2>a. /\ <<status', done', lost'>> = <<status, done, lost>> \/ status' = "Disconnected"
        /\ done' \in BOOLEAN
        /\ lost' \in Seq(Connection \X Connection)
    <3>1. CASE status = "Disconnected"
      BY <1>18, <3>1 DEF CallbackDestroys, CallbackOf, Disconnect, Drop, shared
    <3>2. CASE status # "Disconnected"
      <4>1. Append(lost, <<socket, socket>>) \in Seq(Connection \X Connection)
        BY <3>2
      <4> QED
        BY <1>18, <3>2, <4>1 DEF CallbackDestroys, CallbackOf, Disconnect, Drop, shared
    <3> QED
      BY <3>1, <3>2
  <2>1. TypeOK'
    BY <1>18, <2>a DEF CallbackDestroys, CallbackOf, Disconnect, Drop, shared
  <2>2. Control'
    BY <1>18 DEF CallbackDestroys, CallbackOf, Disconnect, Drop, shared
  <2> QED
    BY <2>1, <2>2
<1>19. CASE AddOther
  <2>a. queue' \in Seq(Callback) /\ others' \in 0..MaxOther
    BY <1>19 DEF AddOther, shared
  <2>1. TypeOK'
    BY <1>19, <2>a DEF AddOther, shared
  <2>2. Control'
    BY <1>19 DEF AddOther, shared
  <2> QED
    BY <2>1, <2>2
<1>20. ASSUME NEW w \in Connection, WorkerStart(w)
      PROVE  TypeOK' /\ Control'
  <2>1. TypeOK'
    BY <1>20 DEF WorkerStart, Goto, shared
  <2>2. Control'
    BY <1>20 DEF WorkerStart, Goto, shared
  <2> QED
    BY <2>1, <2>2
<1>21. ASSUME NEW w \in Connection, WorkerCheck(w)
      PROVE  TypeOK' /\ Control'
  <2>1. TypeOK'
    BY <1>21 DEF WorkerCheck, Goto, shared
  <2>2. Control'
    BY <1>21 DEF WorkerCheck, Goto, shared
  <2> QED
    BY <2>1, <2>2
<1>22. ASSUME NEW w \in Connection, WorkerLeave(w)
      PROVE  TypeOK' /\ Control'
  <2>1. TypeOK'
    BY <1>22 DEF WorkerLeave, Goto, shared
  <2>2. Control'
    BY <1>22 DEF WorkerLeave, Goto, shared
  <2> QED
    BY <2>1, <2>2
<1>23. ASSUME NEW w \in Connection, WorkerPoll(w)
      PROVE  TypeOK' /\ Control'
  <2>a. PICK pc \in {"event", "timer"}, e \in {socket, 0} :
          /\ worker' = [worker EXCEPT ![w] = pc]
          /\ evented' = [evented EXCEPT ![w] = e]
    BY <1>23 DEF WorkerPoll, Goto
  <2>b. UNCHANGED <<status, done, active, socket, net, arrived, unread, holder, caller, call,
                    queue, batch, others, idle, answers, lost>>
    BY <1>23 DEF WorkerPoll, shared
  <2>1. TypeOK'
    <3>1. evented' \in [Connection -> 0..MaxConnects]
      BY <2>a
    <3>2. worker' \in [Connection -> Place]
      BY <2>a
    <3> QED
      BY <3>1, <3>2, <2>b
  <2>2. Control'
    BY <1>23 DEF WorkerPoll, Goto, Ready, shared
  <2> QED
    BY <2>1, <2>2
<1>40. ASSUME NEW w \in Connection, WorkerFindsConnected(w)
      PROVE  TypeOK' /\ Control'
  BY <1>40 DEF WorkerFindsConnected, Goto, shared
<1>24. ASSUME NEW w \in Connection, WorkerConnected(w)
      PROVE  TypeOK' /\ Control'
  BY <1>24, ZenonT(40) DEF WorkerConnected, Goto, shared
<1>25. ASSUME NEW w \in Connection, WorkerReads(w)
      PROVE  TypeOK' /\ Control'
  <2>1. TypeOK'
    BY <1>25 DEF WorkerReads, Goto, shared
  <2>2. Control'
    BY <1>25 DEF WorkerReads, Goto, shared
  <2> QED
    BY <2>1, <2>2
<1>26. ASSUME NEW w \in Connection, NEW s \in Connection, WorkerReceives(w, s)
      PROVE  TypeOK' /\ Control'
  <2>a. unread[s] - 1 \in 0..MaxData /\ unread[s] - 1 <= arrived[s]
    <3>1. unread[s] \in 0..MaxData /\ arrived[s] \in 0..MaxData
      BY <1>26
    <3>2. unread[s] > 0 /\ unread[s] <= arrived[s]
      BY <1>26 DEF WorkerReceives
    <3> HIDE DEF TypeOK, Control
    <3> QED
      BY <3>1, <3>2
  <2>1. TypeOK'
    BY <1>26, <2>a DEF WorkerReceives, Goto, InRecv, shared
  <2>2. Control'
    BY <1>26, <2>a DEF WorkerReceives, Goto, InRecv, shared
  <2> QED
    BY <2>1, <2>2
<1>27. ASSUME NEW w \in Connection, NEW s \in Connection, WorkerLoses(w, s)
      PROVE  TypeOK' /\ Control'
  <2>0. /\ net' = [net EXCEPT ![s] = "closed"]
        /\ \E pc \in {"timer", "drop"} : worker' = [worker EXCEPT ![w] = pc]
        /\ UNCHANGED <<shared, arrived, unread, holder, evented, caller, call, queue,
                       batch, others, idle, answers, lost>>
    BY <1>27 DEF WorkerLoses, Goto
  <2>1. TypeOK'
    <3>1. net' \in [Connection -> {"none", "connecting", "up", "failed", "lost", "closed"}]
      <4>1. /\ net \in [Connection -> {"none", "connecting", "up", "failed", "lost", "closed"}]
            /\ net' = [net EXCEPT ![s] = "closed"]
        BY <2>0
      <4> HIDE <1>a, <1>b, <1>c, <1>d, <1>e DEF TypeOK, Control
      <4> QED
        BY <4>1
    <3>2. worker' \in [Connection -> Place]
      <4>1. PICK pc \in {"timer", "drop"} : worker' = [worker EXCEPT ![w] = pc]
        BY <2>0
      <4>2. worker \in [Connection -> Place] /\ pc \in Place
        BY <1>a
      <4> HIDE <1>a, <1>b, <1>c, <1>d, <1>e DEF TypeOK, Control
      <4> QED
        BY <4>1, <4>2
    <3>3. /\ UNCHANGED <<status, done, active, socket, arrived, unread, holder, evented, caller>>
          /\ UNCHANGED <<call, queue, batch, others, idle, answers, lost>>
      BY <2>0 DEF shared
    <3> HIDE DEF Control
    <3> QED
      BY <3>1, <3>2, <3>3
  <2>2. Control'
    BY <1>27 DEF WorkerLoses, Goto, InRecv, shared
  <2> QED
    BY <2>1, <2>2
<1>28. ASSUME NEW w \in Connection, NEW s \in Connection, WorkerWarns(w, s)
      PROVE  TypeOK' /\ Control'
  <2>1. TypeOK'
    BY <1>28 DEF WorkerWarns, Goto, InRecv, shared
  <2>2. Control'
    BY <1>28 DEF WorkerWarns, Goto, InRecv, shared
  <2> QED
    BY <2>1, <2>2
<1>29. ASSUME NEW w \in Connection, WorkerDrops(w)
      PROVE  TypeOK' /\ Control'
  <2>a. lost' \in Seq(Connection \X Connection)
    <3>1. Append(lost, <<socket, evented[w]>>) \in Seq(Connection \X Connection)
      BY <1>29 DEF WorkerDrops
    <3> QED
      BY <1>29, <3>1 DEF WorkerDrops, Drop, Goto, shared
  <2>1. TypeOK'
    BY <1>29, <2>a DEF WorkerDrops, Drop, Goto, shared
  <2>2. Control'
    BY <1>29 DEF WorkerDrops, Drop, Goto, shared
  <2> QED
    BY <2>1, <2>2
<1>30. ASSUME NEW w \in Connection, WorkerTellsConnected(w)
      PROVE  TypeOK' /\ Control'
  <2>a. evented[w] \in Connection /\ answers[evented[w]] + 1 \in Nat
    <3>1. evented[w] \in 0..MaxConnects /\ evented[w] # 0
      BY <1>30 DEF WorkerTellsConnected, Add, Goto, shared
    <3>2. evented[w] \in Connection
      BY <3>1
    <3>3. answers[evented[w]] \in Nat
      BY <3>2
    <3> HIDE DEF TypeOK, Control
    <3> QED
      BY <3>2, <3>3
  <2>b. queue' \in Seq(Callback)
    BY <1>30, <2>a DEF WorkerTellsConnected, Add, Goto, shared
  <2>1. TypeOK'
    BY <1>30, <2>a, <2>b DEF WorkerTellsConnected, Add, Goto, shared
  <2>2. Control'
    BY <1>30 DEF WorkerTellsConnected, Add, Goto, shared
  <2> QED
    BY <2>1, <2>2
<1>31. ASSUME NEW w \in Connection, WorkerTellsData(w)
      PROVE  TypeOK' /\ Control'
  <2>1. TypeOK'
    BY <1>31, ZenonT(40) DEF WorkerTellsData, Add, Goto, shared
  <2>2. Control'
    BY <1>31 DEF WorkerTellsData, Add, Goto, shared
  <2> QED
    BY <2>1, <2>2
<1>32. ASSUME NEW w \in Connection, WorkerTimeLeft(w)
      PROVE  TypeOK' /\ Control'
  <2>1. TypeOK'
    BY <1>32 DEF WorkerTimeLeft, Goto, shared
  <2>2. Control'
    BY <1>32 DEF WorkerTimeLeft, Goto, shared
  <2> QED
    BY <2>1, <2>2
<1>33. ASSUME NEW w \in Connection, WorkerTimeout(w)
      PROVE  TypeOK' /\ Control'
  <2>1. TypeOK'
    BY <1>33 DEF WorkerTimeout, Goto, shared
  <2>2. Control'
    BY <1>33 DEF WorkerTimeout, Goto, shared
  <2> QED
    BY <2>1, <2>2
<1>34. ASSUME NEW w \in Connection, WorkerExpires(w)
      PROVE  TypeOK' /\ Control'
  <2>a. /\ <<status', done', lost'>> = <<status, done, lost>> \/ status' = "Disconnected"
        /\ done' \in BOOLEAN
        /\ lost' \in Seq(Connection \X Connection)
    <3>1. CASE status = "Disconnected"
      BY <1>34, <3>1 DEF WorkerExpires, Disconnect, Drop, Goto, shared
    <3>2. CASE status # "Disconnected"
      <4>1. Append(lost, <<socket, socket>>) \in Seq(Connection \X Connection)
        BY <3>2
      <4> QED
        BY <1>34, <3>2, <4>1 DEF WorkerExpires, Disconnect, Drop, Goto, shared
    <3> QED
      BY <3>1, <3>2
  <2>1. TypeOK'
    BY <1>34, <2>a DEF WorkerExpires, Disconnect, Drop, Goto, shared
  <2>2. Control'
    BY <1>34 DEF WorkerExpires, Disconnect, Drop, Goto, shared
  <2> QED
    BY <2>1, <2>2
<1>35. ASSUME NEW w \in Connection, WorkerTellsFailed(w)
      PROVE  TypeOK' /\ Control'
  <2>a. evented[w] \in Connection /\ answers[evented[w]] + 1 \in Nat
    <3>1. evented[w] \in 0..MaxConnects /\ evented[w] # 0
      BY <1>35 DEF WorkerTellsFailed, Add, Goto, shared
    <3>2. evented[w] \in Connection
      BY <3>1
    <3>3. answers[evented[w]] \in Nat
      BY <3>2
    <3> HIDE DEF TypeOK, Control
    <3> QED
      BY <3>2, <3>3
  <2>b. queue' \in Seq(Callback)
    BY <1>35, <2>a DEF WorkerTellsFailed, Add, Goto, shared
  <2>1. TypeOK'
    BY <1>35, <2>a, <2>b DEF WorkerTellsFailed, Add, Goto, shared
  <2>2. Control'
    BY <1>35 DEF WorkerTellsFailed, Add, Goto, shared
  <2> QED
    BY <2>1, <2>2
<1>36. ASSUME NEW s \in Connection, NetDelivers(s)
      PROVE  TypeOK' /\ Control'
  <2>a. arrived[s] + 1 \in 0..MaxData /\ unread[s] + 1 \in 0..MaxData
    <3>1. unread[s] \in 0..MaxData /\ arrived[s] \in 0..MaxData
      BY <1>36
    <3>2. arrived[s] < MaxData /\ unread[s] <= arrived[s]
      BY <1>36 DEF NetDelivers
    <3> HIDE DEF TypeOK, Control
    <3> QED
      BY <3>1, <3>2
  <2>1. TypeOK'
    BY <1>36, <2>a DEF NetDelivers, NetUnchanged, shared
  <2>2. Control'
    BY <1>36 DEF NetDelivers, NetUnchanged, shared
  <2> QED
    BY <2>1, <2>2
<1>37. ASSUME NEW s \in Connection, NetLoses(s)
      PROVE  TypeOK' /\ Control'
  <2>1. TypeOK'
    BY <1>37 DEF NetLoses, NetUnchanged, shared
  <2>2. Control'
    BY <1>37 DEF NetLoses, NetUnchanged, shared
  <2> QED
    BY <2>1, <2>2
<1>38. CASE UNCHANGED vars
  BY <1>38, SMTT(30) DEF vars, shared
<1> QED
  BY <1>1, <1>2, <1>3, <1>4, <1>5, <1>6, <1>7, <1>8, <1>9, <1>10, <1>11, <1>12,
     <1>13, <1>14, <1>15, <1>16, <1>17, <1>18, <1>19, <1>20, <1>21, <1>22, <1>23, <1>24,
     <1>25, <1>26, <1>27, <1>28, <1>29, <1>30, <1>31, <1>32, <1>33, <1>34, <1>35, <1>36,
     <1>37, <1>38, <1>39, <1>40
  DEF Next, CallSteps, EventSteps, WorkerSteps

LEMMA ControlCorrect == Spec => [](TypeOK /\ Control)
<1>1. Init => TypeOK /\ Control
  <2> SUFFICES ASSUME Init PROVE TypeOK /\ Control
    OBVIOUS
  <2>1. /\ 0 \in 0..MaxConnects /\ 0 \in 0..MaxData /\ 0 \in 0..MaxOther /\ 0 \in Nat
        /\ "none" \in Place
    BY UdtClientAssumption DEF Place
  <2>2. <<>> \in Seq(Callback) /\ <<>> \in Seq(Connection \X Connection)
    OBVIOUS
  <2>3. TypeOK
    BY <2>1, <2>2 DEF Init, TypeOK
  <2>4. Control
    BY <2>1 DEF Init, Control
  <2> QED
    BY <2>3, <2>4
<1> QED
  BY <1>1, TypeStep, PTL DEF Spec

\* Every reachable state is well typed.
THEOREM TypeCorrect == Spec => []TypeOK
  BY ControlCorrect, PTL
-----------------------------------------------------------------------------

\* Why one worker at a time: ConnectJoin leaves no thread for ConnectSpawn to double.
Workers ==
    /\ OneWorker
    /\ call = "spawn" => holder = 0
    /\ DestroyedStopped

LEMMA WorkersStep == TypeOK /\ Workers /\ [Next]_vars => Workers'
<1> SUFFICES ASSUME TypeOK, Workers, [Next]_vars
             PROVE  Workers'
  OBVIOUS
<1>a. worker \in [Connection -> Place] /\ 0 \notin Connection
  BY UdtClientAssumption DEF TypeOK, Connection
<1> USE <1>a DEF Workers, OneWorker, DestroyedStopped, Running, Ended
<1>1. CASE UserConnect
  BY <1>1 DEF UserConnect, shared
<1>2. CASE ConnectCannotClose
  BY <1>2 DEF ConnectCannotClose, CallStep, shared
<1>3. CASE ConnectClose
  BY <1>3 DEF ConnectClose, HasConnection, CallStep, InRecv, shared
<1>4. CASE ConnectOpen
  BY <1>4 DEF ConnectOpen, CallStep, shared
<1>5. CASE ConnectMade
  BY <1>5 DEF ConnectMade, CallStep, shared
<1>39. CASE ConnectCannotBind
  BY <1>39 DEF ConnectCannotBind, CallStep, shared
<1>6. CASE ConnectFails
  BY <1>6 DEF ConnectFails, CallStep, shared
<1>7. CASE ConnectThrew
  BY <1>7 DEF ConnectThrew, shared
<1>8. CASE ConnectDone
  BY <1>8 DEF ConnectDone, CallStep, shared
<1>9. CASE ConnectWait
  BY <1>9 DEF ConnectWait, CallStep, shared
<1>10. CASE ConnectJoin
  BY <1>10 DEF ConnectJoin, CallStep, shared
<1>11. CASE ConnectSpawn
  BY <1>11 DEF ConnectSpawn, CallStep, shared
<1>12. CASE ConnectClear
  BY <1>12 DEF ConnectClear, shared
<1>13. CASE DestroyJoin
  BY <1>13 DEF DestroyJoin, shared
<1>14. CASE TakeBatch
  BY <1>14 DEF TakeBatch, shared
<1>15. CASE CallbackReturns
  BY <1>15 DEF CallbackReturns, CallbackOf, shared
<1>16. CASE CallbackDisconnects
  BY <1>16 DEF CallbackDisconnects, CallbackOf, Disconnect, Drop, shared
<1>17. CASE CallbackConnects
  BY <1>17 DEF CallbackConnects, CallbackOf, shared
<1>18. CASE CallbackDestroys
  BY <1>18 DEF CallbackDestroys, CallbackOf, Disconnect, Drop, shared
<1>19. CASE AddOther
  BY <1>19 DEF AddOther, shared
<1>20. ASSUME NEW w \in Connection, WorkerStart(w)
      PROVE  Workers'
  BY <1>20 DEF WorkerStart, Goto, shared
<1>21. ASSUME NEW w \in Connection, WorkerCheck(w)
      PROVE  Workers'
  BY <1>21 DEF WorkerCheck, Goto, shared
<1>22. ASSUME NEW w \in Connection, WorkerLeave(w)
      PROVE  Workers'
  BY <1>22 DEF WorkerLeave, Goto, shared
<1>23. ASSUME NEW w \in Connection, WorkerPoll(w)
      PROVE  Workers'
  BY <1>23 DEF WorkerPoll, Goto, Ready, shared
<1>40. ASSUME NEW w \in Connection, WorkerFindsConnected(w)
      PROVE  Workers'
  BY <1>40 DEF WorkerFindsConnected, Goto, shared
<1>24. ASSUME NEW w \in Connection, WorkerConnected(w)
      PROVE  Workers'
  BY <1>24 DEF WorkerConnected, Goto, shared
<1>25. ASSUME NEW w \in Connection, WorkerReads(w)
      PROVE  Workers'
  BY <1>25 DEF WorkerReads, Goto, shared
<1>26. ASSUME NEW w \in Connection, NEW s \in Connection, WorkerReceives(w, s)
      PROVE  Workers'
  BY <1>26 DEF WorkerReceives, Goto, InRecv, shared
<1>27. ASSUME NEW w \in Connection, NEW s \in Connection, WorkerLoses(w, s)
      PROVE  Workers'
  BY <1>27 DEF WorkerLoses, Goto, InRecv, shared
<1>28. ASSUME NEW w \in Connection, NEW s \in Connection, WorkerWarns(w, s)
      PROVE  Workers'
  BY <1>28 DEF WorkerWarns, Goto, InRecv, shared
<1>29. ASSUME NEW w \in Connection, WorkerDrops(w)
      PROVE  Workers'
  BY <1>29 DEF WorkerDrops, Drop, Goto, shared
<1>30. ASSUME NEW w \in Connection, WorkerTellsConnected(w)
      PROVE  Workers'
  BY <1>30 DEF WorkerTellsConnected, Add, Goto, shared
<1>31. ASSUME NEW w \in Connection, WorkerTellsData(w)
      PROVE  Workers'
  BY <1>31 DEF WorkerTellsData, Add, Goto, shared
<1>32. ASSUME NEW w \in Connection, WorkerTimeLeft(w)
      PROVE  Workers'
  BY <1>32 DEF WorkerTimeLeft, Goto, shared
<1>33. ASSUME NEW w \in Connection, WorkerTimeout(w)
      PROVE  Workers'
  BY <1>33 DEF WorkerTimeout, Goto, shared
<1>34. ASSUME NEW w \in Connection, WorkerExpires(w)
      PROVE  Workers'
  BY <1>34 DEF WorkerExpires, Disconnect, Drop, Goto, shared
<1>35. ASSUME NEW w \in Connection, WorkerTellsFailed(w)
      PROVE  Workers'
  BY <1>35 DEF WorkerTellsFailed, Add, Goto, shared
<1>36. ASSUME NEW s \in Connection, NetDelivers(s)
      PROVE  Workers'
  BY <1>36 DEF NetDelivers, NetUnchanged, shared
<1>37. ASSUME NEW s \in Connection, NetLoses(s)
      PROVE  Workers'
  BY <1>37 DEF NetLoses, NetUnchanged, shared
<1>38. CASE UNCHANGED vars
  BY <1>38 DEF vars, shared
<1> QED
  BY <1>1, <1>2, <1>3, <1>4, <1>5, <1>6, <1>7, <1>8, <1>9, <1>10, <1>11, <1>12,
     <1>13, <1>14, <1>15, <1>16, <1>17, <1>18, <1>19, <1>20, <1>21, <1>22, <1>23, <1>24,
     <1>25, <1>26, <1>27, <1>28, <1>29, <1>30, <1>31, <1>32, <1>33, <1>34, <1>35, <1>36,
     <1>37, <1>38, <1>39, <1>40
  DEF Next, CallSteps, EventSteps, WorkerSteps

\* The worker that the client holds is the only one that runs, in every use.
THEOREM SingleWorker == Spec => []OneWorker
<1>1. Init => Workers
  BY DEF Init, Workers, OneWorker, DestroyedStopped, Running, Ended
<1>2. Workers => OneWorker
  BY DEF Workers
<1> QED
  BY <1>1, <1>2, WorkersStep, TypeCorrect, PTL DEF Spec

\* No worker outlives the destructor.
THEOREM DestroyStops == Spec => []DestroyedStopped
<1>1. Init => Workers
  BY DEF Init, Workers, OneWorker, DestroyedStopped, Running, Ended
<1>2. Workers => DestroyedStopped
  BY DEF Workers
<1> QED
  BY <1>1, <1>2, WorkersStep, TypeCorrect, PTL DEF Spec

-----------------------------------------------------------------------------

\* Worker w is about to report connection c.
Telling(w, c) == worker[w] \in {"tellConnected", "tellFailed"} /\ evented[w] = c

\* Nobody has reported connection c or is about to.
Fresh(c) == answers[c] = 0 /\ \A w \in Connection : ~Telling(w, c)

\* The worker has reported a timeout.  WorkerThreadActive remains true, so Connect never
\* gets to a new worker.
Stuck == holder # 0 /\ worker[holder] \in {"tellFailed", "returned"} /\ active

\* What WorkerThreadActive says of the worker.
ActiveWorker ==
    /\ \A w \in Connection : Running(w) /\ worker[w] # "start" => active
    /\ holder # 0 => worker[holder] # "none" /\ (worker[holder] = "returned" => active)
    /\ call \in {"wait", "join"} => done
    /\ call = "join" /\ holder # 0 => worker[holder] \in {"start", "check", "leave", "ended"}

\* A socket that Connect has just made is unknown to the worker.
NewSocket ==
    /\ \A c \in Connection : c > socket => net[c] = "none"
    /\ \A w \in Connection : evented[w] <= socket
    /\ call = "open" => /\ net[socket] = "none"
                        /\ \A w \in Connection :
                             worker[w] \in {"event", "made", "recv", "drop", "tellConnected"}
                                => evented[w] # socket

\* Until a connection is reported, by one who knows its socket, it is fresh.
Answers ==
    /\ AnsweredOnce
    /\ \A w, c \in Connection : Telling(w, c) => answers[c] = 0
    /\ \A c \in Connection : c > socket => Fresh(c)
    /\ status = "Connecting" \/ call = "open" => Fresh(socket) \/ Stuck
    /\ \A w \in Connection : worker[w] = "expire" => Fresh(socket)
    /\ \A w \in Connection : worker[w] = "made" => Fresh(evented[w])

\* WorkerThreadActive is kept up to date but for a worker that has not started.
LEMMA ActiveStep ==
    TypeOK /\ Control /\ Workers /\ ActiveWorker /\ [Next]_vars => ActiveWorker'
<1> SUFFICES ASSUME TypeOK, Control, Workers, ActiveWorker, [Next]_vars
             PROVE  ActiveWorker'
  OBVIOUS
<1>a. /\ worker \in [Connection -> Place] /\ 0 \notin Connection
      /\ holder # 0 => holder \in Connection
      /\ call = "spawn" => socket \in Connection
      /\ done \in BOOLEAN /\ active \in BOOLEAN
  BY UdtClientAssumption DEF TypeOK, Control, Connection
<1> USE <1>a DEF ActiveWorker, Workers, OneWorker, Running, Ended
<1>1. CASE UserConnect
  BY <1>1 DEF UserConnect, shared
<1>2. CASE ConnectCannotClose
  BY <1>2 DEF ConnectCannotClose, CallStep, shared
<1>3. CASE ConnectClose
  BY <1>3 DEF ConnectClose, HasConnection, CallStep, InRecv, shared
<1>4. CASE ConnectOpen
  BY <1>4 DEF ConnectOpen, CallStep, shared
<1>5. CASE ConnectMade
  BY <1>5 DEF ConnectMade, CallStep, shared
<1>39. CASE ConnectCannotBind
  BY <1>39 DEF ConnectCannotBind, CallStep, shared
<1>6. CASE ConnectFails
  BY <1>6 DEF ConnectFails, CallStep, shared
<1>7. CASE ConnectThrew
  BY <1>7 DEF ConnectThrew, shared
<1>8. CASE ConnectDone
  BY <1>8 DEF ConnectDone, CallStep, shared
<1>9. CASE ConnectWait
  BY <1>9 DEF ConnectWait, CallStep, shared
<1>10. CASE ConnectJoin
  BY <1>10 DEF ConnectJoin, CallStep, shared
<1>11. CASE ConnectSpawn
  BY <1>11 DEF ConnectSpawn, CallStep, shared
<1>12. CASE ConnectClear
  BY <1>12 DEF ConnectClear, shared
<1>13. CASE DestroyJoin
  BY <1>13 DEF DestroyJoin, shared
<1>14. CASE TakeBatch
  BY <1>14 DEF TakeBatch, shared
<1>15. CASE CallbackReturns
  BY <1>15 DEF CallbackReturns, CallbackOf, shared
<1>16. CASE CallbackDisconnects
  BY <1>16 DEF CallbackDisconnects, CallbackOf, Disconnect, Drop, shared
<1>17. CASE CallbackConnects
  BY <1>17 DEF CallbackConnects, CallbackOf, shared
<1>18. CASE CallbackDestroys
  BY <1>18 DEF CallbackDestroys, CallbackOf, Disconnect, Drop, shared
<1>19. CASE AddOther
  BY <1>19 DEF AddOther, shared
<1>20. ASSUME NEW w \in Connection, WorkerStart(w)
      PROVE  ActiveWorker'
  BY <1>20 DEF WorkerStart, Goto, shared
<1>21. ASSUME NEW w \in Connection, WorkerCheck(w)
      PROVE  ActiveWorker'
  BY <1>21 DEF WorkerCheck, Goto, shared
<1>22. ASSUME NEW w \in Connection, WorkerLeave(w)
      PROVE  ActiveWorker'
  BY <1>22 DEF WorkerLeave, Goto, shared
<1>23. ASSUME NEW w \in Connection, WorkerPoll(w)
      PROVE  ActiveWorker'
  BY <1>23 DEF WorkerPoll, Goto, Ready, shared
<1>40. ASSUME NEW w \in Connection, WorkerFindsConnected(w)
      PROVE  ActiveWorker'
  BY <1>40 DEF WorkerFindsConnected, Goto, shared
<1>24. ASSUME NEW w \in Connection, WorkerConnected(w)
      PROVE  ActiveWorker'
  BY <1>24 DEF WorkerConnected, Goto, shared
<1>25. ASSUME NEW w \in Connection, WorkerReads(w)
      PROVE  ActiveWorker'
  BY <1>25 DEF WorkerReads, Goto, shared
<1>26. ASSUME NEW w \in Connection, NEW s \in Connection, WorkerReceives(w, s)
      PROVE  ActiveWorker'
  BY <1>26 DEF WorkerReceives, Goto, InRecv, shared
<1>27. ASSUME NEW w \in Connection, NEW s \in Connection, WorkerLoses(w, s)
      PROVE  ActiveWorker'
  BY <1>27 DEF WorkerLoses, Goto, InRecv, shared
<1>28. ASSUME NEW w \in Connection, NEW s \in Connection, WorkerWarns(w, s)
      PROVE  ActiveWorker'
  BY <1>28 DEF WorkerWarns, Goto, InRecv, shared
<1>29. ASSUME NEW w \in Connection, WorkerDrops(w)
      PROVE  ActiveWorker'
  BY <1>29 DEF WorkerDrops, Drop, Goto, shared
<1>30. ASSUME NEW w \in Connection, WorkerTellsConnected(w)
      PROVE  ActiveWorker'
  BY <1>30 DEF WorkerTellsConnected, Add, Goto, shared
<1>31. ASSUME NEW w \in Connection, WorkerTellsData(w)
      PROVE  ActiveWorker'
  BY <1>31 DEF WorkerTellsData, Add, Goto, shared
<1>32. ASSUME NEW w \in Connection, WorkerTimeLeft(w)
      PROVE  ActiveWorker'
  BY <1>32 DEF WorkerTimeLeft, Goto, shared
<1>33. ASSUME NEW w \in Connection, WorkerTimeout(w)
      PROVE  ActiveWorker'
  BY <1>33 DEF WorkerTimeout, Goto, shared
<1>34. ASSUME NEW w \in Connection, WorkerExpires(w)
      PROVE  ActiveWorker'
  BY <1>34 DEF WorkerExpires, Disconnect, Drop, Goto, shared
<1>35. ASSUME NEW w \in Connection, WorkerTellsFailed(w)
      PROVE  ActiveWorker'
  BY <1>35 DEF WorkerTellsFailed, Add, Goto, shared
<1>36. ASSUME NEW s \in Connection, NetDelivers(s)
      PROVE  ActiveWorker'
  BY <1>36 DEF NetDelivers, NetUnchanged, shared
<1>37. ASSUME NEW s \in Connection, NetLoses(s)
      PROVE  ActiveWorker'
  BY <1>37 DEF NetLoses, NetUnchanged, shared
<1>38. CASE UNCHANGED vars
  BY <1>38 DEF vars, shared
<1> QED
  BY <1>1, <1>2, <1>3, <1>4, <1>5, <1>6, <1>7, <1>8, <1>9, <1>10, <1>11, <1>12,
     <1>13, <1>14, <1>15, <1>16, <1>17, <1>18, <1>19, <1>20, <1>21, <1>22, <1>23, <1>24,
     <1>25, <1>26, <1>27, <1>28, <1>29, <1>30, <1>31, <1>32, <1>33, <1>34, <1>35, <1>36,
     <1>37, <1>38, <1>39, <1>40
  DEF Next, CallSteps, EventSteps, WorkerSteps

\* A socket that Connect makes is new to everyone.
LEMMA NewSocketStep == TypeOK /\ Control /\ NewSocket /\ [Next]_vars => NewSocket'
<1> SUFFICES ASSUME TypeOK, Control, NewSocket, [Next]_vars
             PROVE  NewSocket'
  OBVIOUS
<1>a. /\ net \in [Connection -> {"none", "connecting", "up", "failed", "lost", "closed"}]
      /\ worker \in [Connection -> Place]
      /\ evented \in [Connection -> 0..MaxConnects]
      /\ socket \in Nat /\ \A c \in Connection : c \in Nat
      /\ call = "close" => socket + 1 \in Connection
  BY UdtClientAssumption, SMTT(30) DEF TypeOK, Control, Connection
<1> USE <1>a DEF NewSocket
<1>1. CASE UserConnect
  BY <1>1 DEF UserConnect, shared
<1>2. CASE ConnectCannotClose
  BY <1>2 DEF ConnectCannotClose, CallStep, shared
<1>3. CASE ConnectClose
  BY <1>3 DEF ConnectClose, HasConnection, CallStep, InRecv, shared
<1>4. CASE ConnectOpen
  BY <1>4 DEF ConnectOpen, CallStep, shared
<1>5. CASE ConnectMade
  BY <1>5 DEF ConnectMade, CallStep, shared
<1>39. CASE ConnectCannotBind
  BY <1>39 DEF ConnectCannotBind, CallStep, shared
<1>6. CASE ConnectFails
  BY <1>6 DEF ConnectFails, CallStep, shared
<1>7. CASE ConnectThrew
  BY <1>7 DEF ConnectThrew, shared
<1>8. CASE ConnectDone
  BY <1>8 DEF ConnectDone, CallStep, shared
<1>9. CASE ConnectWait
  BY <1>9 DEF ConnectWait, CallStep, shared
<1>10. CASE ConnectJoin
  BY <1>10 DEF ConnectJoin, CallStep, shared
<1>11. CASE ConnectSpawn
  BY <1>11 DEF ConnectSpawn, CallStep, shared
<1>12. CASE ConnectClear
  BY <1>12 DEF ConnectClear, shared
<1>13. CASE DestroyJoin
  BY <1>13 DEF DestroyJoin, shared
<1>14. CASE TakeBatch
  BY <1>14 DEF TakeBatch, shared
<1>15. CASE CallbackReturns
  BY <1>15 DEF CallbackReturns, CallbackOf, shared
<1>16. CASE CallbackDisconnects
  BY <1>16 DEF CallbackDisconnects, CallbackOf, Disconnect, Drop, shared
<1>17. CASE CallbackConnects
  BY <1>17 DEF CallbackConnects, CallbackOf, shared
<1>18. CASE CallbackDestroys
  BY <1>18 DEF CallbackDestroys, CallbackOf, Disconnect, Drop, shared
<1>19. CASE AddOther
  BY <1>19 DEF AddOther, shared
<1>20. ASSUME NEW w \in Connection, WorkerStart(w)
      PROVE  NewSocket'
  BY <1>20 DEF WorkerStart, Goto, shared
<1>21. ASSUME NEW w \in Connection, WorkerCheck(w)
      PROVE  NewSocket'
  BY <1>21 DEF WorkerCheck, Goto, shared
<1>22. ASSUME NEW w \in Connection, WorkerLeave(w)
      PROVE  NewSocket'
  BY <1>22 DEF WorkerLeave, Goto, shared
<1>23. ASSUME NEW w \in Connection, WorkerPoll(w)
      PROVE  NewSocket'
  BY <1>23 DEF WorkerPoll, Goto, Ready, shared
<1>40. ASSUME NEW w \in Connection, WorkerFindsConnected(w)
      PROVE  NewSocket'
  BY <1>40 DEF WorkerFindsConnected, Goto, shared
<1>24. ASSUME NEW w \in Connection, WorkerConnected(w)
      PROVE  NewSocket'
  BY <1>24 DEF WorkerConnected, Goto, shared
<1>25. ASSUME NEW w \in Connection, WorkerReads(w)
      PROVE  NewSocket'
  BY <1>25 DEF WorkerReads, Goto, shared
<1>26. ASSUME NEW w \in Connection, NEW s \in Connection, WorkerReceives(w, s)
      PROVE  NewSocket'
  BY <1>26 DEF WorkerReceives, Goto, InRecv, shared
<1>27. ASSUME NEW w \in Connection, NEW s \in Connection, WorkerLoses(w, s)
      PROVE  NewSocket'
  BY <1>27 DEF WorkerLoses, Goto, InRecv, shared
<1>28. ASSUME NEW w \in Connection, NEW s \in Connection, WorkerWarns(w, s)
      PROVE  NewSocket'
  BY <1>28 DEF WorkerWarns, Goto, InRecv, shared
<1>29. ASSUME NEW w \in Connection, WorkerDrops(w)
      PROVE  NewSocket'
  BY <1>29 DEF WorkerDrops, Drop, Goto, shared
<1>30. ASSUME NEW w \in Connection, WorkerTellsConnected(w)
      PROVE  NewSocket'
  BY <1>30 DEF WorkerTellsConnected, Add, Goto, shared
<1>31. ASSUME NEW w \in Connection, WorkerTellsData(w)
      PROVE  NewSocket'
  BY <1>31 DEF WorkerTellsData, Add, Goto, shared
<1>32. ASSUME NEW w \in Connection, WorkerTimeLeft(w)
      PROVE  NewSocket'
  BY <1>32 DEF WorkerTimeLeft, Goto, shared
<1>33. ASSUME NEW w \in Connection, WorkerTimeout(w)
      PROVE  NewSocket'
  BY <1>33 DEF WorkerTimeout, Goto, shared
<1>34. ASSUME NEW w \in Connection, WorkerExpires(w)
      PROVE  NewSocket'
  BY <1>34 DEF WorkerExpires, Disconnect, Drop, Goto, shared
<1>35. ASSUME NEW w \in Connection, WorkerTellsFailed(w)
      PROVE  NewSocket'
  BY <1>35 DEF WorkerTellsFailed, Add, Goto, shared
<1>36. ASSUME NEW s \in Connection, NetDelivers(s)
      PROVE  NewSocket'
  BY <1>36 DEF NetDelivers, NetUnchanged, shared
<1>37. ASSUME NEW s \in Connection, NetLoses(s)
      PROVE  NewSocket'
  BY <1>37 DEF NetLoses, NetUnchanged, shared
<1>38. CASE UNCHANGED vars
  BY <1>38 DEF vars, shared
<1> QED
  BY <1>1, <1>2, <1>3, <1>4, <1>5, <1>6, <1>7, <1>8, <1>9, <1>10, <1>11, <1>12,
     <1>13, <1>14, <1>15, <1>16, <1>17, <1>18, <1>19, <1>20, <1>21, <1>22, <1>23, <1>24,
     <1>25, <1>26, <1>27, <1>28, <1>29, <1>30, <1>31, <1>32, <1>33, <1>34, <1>35, <1>36,
     <1>37, <1>38, <1>39, <1>40
  DEF Next, CallSteps, EventSteps, WorkerSteps

\* No step answers a connection twice.
LEMMA AnswersStep ==
    TypeOK /\ Control /\ Workers /\ ActiveWorker /\ NewSocket /\ Answers /\ [Next]_vars
        => Answers'
<1> SUFFICES ASSUME TypeOK, Control, Workers, ActiveWorker, NewSocket, Answers,
                    [Next]_vars
             PROVE  Answers'
  OBVIOUS
<1>a. /\ worker \in [Connection -> Place]
      /\ evented \in [Connection -> 0..MaxConnects]
      /\ answers \in [Connection -> Nat]
      /\ socket \in Nat /\ \A c \in Connection : c \in Nat
      /\ 0 \notin Connection
      /\ call = "close" => socket + 1 \in Connection
  BY UdtClientAssumption, SMTT(30) DEF TypeOK, Control, Connection
<1>b. ASSUME NEW w \in Connection
      PROVE  /\ worker[w] \in {"made", "tellConnected", "tellFailed"} => evented[w] \in Connection
             /\ worker[w] \in {"event", "expire"} => socket \in Connection
  <2>1. evented[w] \in 0..MaxConnects /\ socket \in 0..MaxConnects /\ MaxConnects \in Nat
    BY UdtClientAssumption DEF TypeOK
  <2>2. /\ worker[w] \in {"made", "tellConnected", "tellFailed"} => evented[w] # 0
        /\ worker[w] \in {"event", "expire"} => socket # 0
    BY DEF Control
  <2> QED
    BY <2>1, <2>2 DEF Connection
<1> USE <1>a, <1>b DEF Answers, AnsweredOnce, Telling, Fresh, Stuck, Workers, OneWorker, Running, 
                      Ended, ActiveWorker, NewSocket
<1>1. CASE UserConnect
  BY <1>1 DEF UserConnect, shared
<1>2. CASE ConnectCannotClose
  BY <1>2 DEF ConnectCannotClose, CallStep, shared
<1>3. CASE ConnectClose
  BY <1>3 DEF ConnectClose, HasConnection, CallStep, InRecv, shared
<1>4. CASE ConnectOpen
  BY <1>4 DEF ConnectOpen, CallStep, shared
<1>5. CASE ConnectMade
  BY <1>5 DEF ConnectMade, CallStep, shared
<1>39. CASE ConnectCannotBind
  BY <1>39 DEF ConnectCannotBind, CallStep, shared
<1>6. CASE ConnectFails
  BY <1>6 DEF ConnectFails, CallStep, shared
<1>7. CASE ConnectThrew
  BY <1>7 DEF ConnectThrew, shared
<1>8. CASE ConnectDone
  BY <1>8 DEF ConnectDone, CallStep, shared
<1>9. CASE ConnectWait
  BY <1>9 DEF ConnectWait, CallStep, shared
<1>10. CASE ConnectJoin
  BY <1>10 DEF ConnectJoin, CallStep, shared
<1>11. CASE ConnectSpawn
  BY <1>11 DEF ConnectSpawn, CallStep, shared
<1>12. CASE ConnectClear
  BY <1>12 DEF ConnectClear, shared
<1>13. CASE DestroyJoin
  BY <1>13 DEF DestroyJoin, shared
<1>14. CASE TakeBatch
  BY <1>14 DEF TakeBatch, shared
<1>15. CASE CallbackReturns
  BY <1>15 DEF CallbackReturns, CallbackOf, shared
<1>16. CASE CallbackDisconnects
  BY <1>16 DEF CallbackDisconnects, CallbackOf, Disconnect, Drop, shared
<1>17. CASE CallbackConnects
  BY <1>17 DEF CallbackConnects, CallbackOf, shared
<1>18. CASE CallbackDestroys
  BY <1>18 DEF CallbackDestroys, CallbackOf, Disconnect, Drop, shared
<1>19. CASE AddOther
  BY <1>19 DEF AddOther, shared
<1>20. ASSUME NEW w \in Connection, WorkerStart(w)
      PROVE  Answers'
  BY <1>20 DEF WorkerStart, Goto, shared
<1>21. ASSUME NEW w \in Connection, WorkerCheck(w)
      PROVE  Answers'
  BY <1>21 DEF WorkerCheck, Goto, shared
<1>22. ASSUME NEW w \in Connection, WorkerLeave(w)
      PROVE  Answers'
  BY <1>22 DEF WorkerLeave, Goto, shared
<1>23. ASSUME NEW w \in Connection, WorkerPoll(w)
      PROVE  Answers'
  BY <1>23 DEF WorkerPoll, Goto, Ready, shared
<1>40. ASSUME NEW w \in Connection, WorkerFindsConnected(w)
      PROVE  Answers'
  BY <1>40 DEF WorkerFindsConnected, Goto, shared
<1>24. ASSUME NEW w \in Connection, WorkerConnected(w)
      PROVE  Answers'
  BY <1>24 DEF WorkerConnected, Goto, shared
<1>25. ASSUME NEW w \in Connection, WorkerReads(w)
      PROVE  Answers'
  BY <1>25 DEF WorkerReads, Goto, shared
<1>26. ASSUME NEW w \in Connection, NEW s \in Connection, WorkerReceives(w, s)
      PROVE  Answers'
  BY <1>26 DEF WorkerReceives, Goto, InRecv, shared
<1>27. ASSUME NEW w \in Connection, NEW s \in Connection, WorkerLoses(w, s)
      PROVE  Answers'
  BY <1>27 DEF WorkerLoses, Goto, InRecv, shared
<1>28. ASSUME NEW w \in Connection, NEW s \in Connection, WorkerWarns(w, s)
      PROVE  Answers'
  BY <1>28 DEF WorkerWarns, Goto, InRecv, shared
<1>29. ASSUME NEW w \in Connection, WorkerDrops(w)
      PROVE  Answers'
  BY <1>29 DEF WorkerDrops, Drop, Goto, shared
<1>30. ASSUME NEW w \in Connection, WorkerTellsConnected(w)
      PROVE  Answers'
  <2> DEFINE c == evented[w]
  <2>1. /\ Telling(w, c) /\ c \in Connection /\ c <= socket
        /\ holder = w /\ active
        /\ \A v \in Connection : v # w => ~Running(v)
    BY <1>30 DEF WorkerTellsConnected
  <2>2. /\ answers' = [answers EXCEPT ![c] = answers[c] + 1]
        /\ answers[c] = 0
        /\ UNCHANGED <<status, active, socket, holder, evented, call>>
        /\ worker' = [worker EXCEPT ![w] = "timer"]
    BY <1>30, <2>1 DEF WorkerTellsConnected, Goto, shared
  <2>3. \A v, d \in Connection : ~Telling(v, d)' /\ worker'[v] # "expire"
    BY <2>1, <2>2
  <2>4. \A d \in Connection : answers'[d] = IF d = c THEN 1 ELSE answers[d]
    BY <2>1, <2>2
  <2>5. status' = "Connecting" \/ call' = "open" => Fresh(socket)' \/ Stuck'
    BY <1>30, <2>1, <2>2, <2>3 DEF WorkerTellsConnected
  <2> QED
    BY <2>1, <2>2, <2>3, <2>4, <2>5
<1>31. ASSUME NEW w \in Connection, WorkerTellsData(w)
      PROVE  Answers'
  BY <1>31 DEF WorkerTellsData, Add, Goto, shared
<1>32. ASSUME NEW w \in Connection, WorkerTimeLeft(w)
      PROVE  Answers'
  BY <1>32 DEF WorkerTimeLeft, Goto, shared
<1>33. ASSUME NEW w \in Connection, WorkerTimeout(w)
      PROVE  Answers'
  BY <1>33 DEF WorkerTimeout, Goto, shared
<1>34. ASSUME NEW w \in Connection, WorkerExpires(w)
      PROVE  Answers'
  <2>1. /\ Fresh(socket) /\ holder = w /\ active
        /\ \A v \in Connection : v # w => ~Running(v)
    BY <1>34 DEF WorkerExpires
  <2>2. /\ status' = "Disconnected"
        /\ evented' = [evented EXCEPT ![w] = socket]
        /\ worker' = [worker EXCEPT ![w] = "tellFailed"]
        /\ UNCHANGED <<active, socket, holder, answers, call>>
    BY <1>34 DEF WorkerExpires, Goto, Disconnect, Drop
  <2>3. Stuck'
    BY <2>1, <2>2
  <2>4. \A v, d \in Connection : Telling(v, d)' => d = socket
    BY <2>1, <2>2
  <2>5. \A v \in Connection : worker'[v] # "expire"
    BY <2>1, <2>2
  <2>6. answers[socket] = 0
    BY <2>1
  <2> QED
    BY <2>2, <2>3, <2>4, <2>5, <2>6
<1>35. ASSUME NEW w \in Connection, WorkerTellsFailed(w)
      PROVE  Answers'
  <2> DEFINE c == evented[w]
  <2>1. /\ Telling(w, c) /\ c \in Connection /\ c <= socket
        /\ holder = w /\ active
        /\ \A v \in Connection : v # w => ~Running(v)
    BY <1>35 DEF WorkerTellsFailed
  <2>2. /\ answers' = [answers EXCEPT ![c] = answers[c] + 1]
        /\ answers[c] = 0
        /\ UNCHANGED <<status, active, socket, holder, evented, call>>
        /\ worker' = [worker EXCEPT ![w] = "returned"]
    BY <1>35, <2>1 DEF WorkerTellsFailed, Goto, shared
  <2>3. \A v, d \in Connection : ~Telling(v, d)' /\ worker'[v] # "expire"
    BY <2>1, <2>2
  <2>4. \A d \in Connection : answers'[d] = IF d = c THEN 1 ELSE answers[d]
    BY <2>1, <2>2
  <2>5. status' = "Connecting" \/ call' = "open" => Fresh(socket)' \/ Stuck'
    BY <1>35, <2>1, <2>2 DEF WorkerTellsFailed, Goto
  <2> QED
    BY <2>1, <2>2, <2>3, <2>4, <2>5
<1>36. ASSUME NEW s \in Connection, NetDelivers(s)
      PROVE  Answers'
  BY <1>36 DEF NetDelivers, NetUnchanged, shared
<1>37. ASSUME NEW s \in Connection, NetLoses(s)
      PROVE  Answers'
  BY <1>37 DEF NetLoses, NetUnchanged, shared
<1>38. CASE UNCHANGED vars
  BY <1>38 DEF vars, shared
<1> QED
  BY <1>1, <1>2, <1>3, <1>4, <1>5, <1>6, <1>7, <1>8, <1>9, <1>10, <1>11, <1>12,
     <1>13, <1>14, <1>15, <1>16, <1>17, <1>18, <1>19, <1>20, <1>21, <1>22, <1>23, <1>24,
     <1>25, <1>26, <1>27, <1>28, <1>29, <1>30, <1>31, <1>32, <1>33, <1>34, <1>35, <1>36,
     <1>37, <1>38, <1>39, <1>40
  DEF Next, CallSteps, EventSteps, WorkerSteps

LEMMA AnswersInit == Init => Workers /\ ActiveWorker /\ NewSocket /\ Answers
<1> SUFFICES ASSUME Init PROVE Workers /\ ActiveWorker /\ NewSocket /\ Answers
  OBVIOUS
<1>1. \A c \in Connection : ~Running(c) /\ evented[c] = 0 /\ net[c] = "none"
  BY DEF Init, Running, Ended
<1>2. Workers /\ ActiveWorker /\ NewSocket
  BY <1>1 DEF Init, Workers, OneWorker, DestroyedStopped, ActiveWorker, NewSocket, Running
<1>3. Answers
  BY DEF Init, Answers, AnsweredOnce, Fresh, Telling
<1> QED
  BY <1>2, <1>3

\* No connection is reported twice.
THEOREM NoDoubleAnswer == Spec => []AnsweredOnce
<1>1. Init => Workers /\ ActiveWorker /\ NewSocket /\ Answers
  BY AnswersInit
<1>2. Answers => AnsweredOnce
  BY DEF Answers
<1> QED
  BY <1>1, <1>2, WorkersStep, ActiveStep, NewSocketStep, AnswersStep, ControlCorrect, PTL DEF Spec

-----------------------------------------------------------------------------
(* A client that connects once *)

\* The callbacks that are due, in their order.
Due == batch \o queue

\* Who has data or a timeout to tell finds the connection answered.
DueAnswered ==
    \A i \in 1..Len(Due) : Due[i].type \in {"data", "failed"} => answers[1] > 0

\* The news of the connection is ahead of its data.
NewsFirst ==
    \A i, j \in 1..Len(Due) : Due[i].type = "data" /\ Due[j].type = "connected" => j < i

\* The worker reads only after it has told of the connection.  When the connection is
\* dropped before that, by the destructor, the worker never gets at the queue again.
ReadsAfterNews ==
    /\ worker[1] \in {"recv", "tellData", "drop"} => answers[1] > 0 \/ call = "destroy"
    /\ Running(1) /\ status # "Connecting" =>
         answers[1] > 0 \/ call = "destroy" \/ worker[1] \in {"made", "tellConnected", "tellFailed"}
    /\ worker[1] = "none" => answers[1] = 0
    /\ socket = 0 => worker[1] = "none"
    /\ call \in {"close", "open", "connecting", "done", "wait", "join", "spawn"}
         => worker[1] = "none"
    /\ call \in {"connecting", "done", "wait", "join", "spawn"} => status = "Connecting"

LEMMA OnlyOne ==
    ASSUME MaxConnects = 1
    PROVE  Connection = {1} /\ 0..MaxConnects = {0, 1}
BY DEF Connection

\* The first callback of the batch is the first that is due.
LEMMA BatchIsDue ==
    ASSUME TypeOK, DueAnswered, batch # <<>>, Head(batch).type \in {"data", "failed"}
    PROVE  answers[1] > 0
<1>1. batch \in Seq(Callback) /\ queue \in Seq(Callback)
  BY DEF TypeOK
<1>2. 1 \in 1..Len(batch) /\ 1 \in 1..Len(Due) /\ Due[1] = Head(batch)
  BY <1>1 DEF Due
<1> QED BY <1>2 DEF DueAnswered

LEMMA ReadsStep ==
    ASSUME MaxConnects = 1
    PROVE  /\ TypeOK /\ Control /\ Workers /\ DueAnswered /\ ReadsAfterNews /\ [Next]_vars
           => ReadsAfterNews'
<1> SUFFICES ASSUME TypeOK, Control, Workers, DueAnswered, ReadsAfterNews, [Next]_vars
             PROVE  ReadsAfterNews'
  OBVIOUS
<1>a. /\ worker \in [Connection -> Place] /\ Connection = {1}
      /\ answers \in [Connection -> Nat]
      /\ holder \in {0, 1} /\ socket \in {0, 1}
      /\ evented \in [Connection -> {0, 1}]
      /\ call = "close" => socket = 0
  BY OnlyOne DEF TypeOK, Control
<1>b. batch # <<>> /\ Head(batch).type \in {"data", "failed"} => answers[1] > 0
  BY BatchIsDue
<1>c. /\ worker[1] = "event" => evented[1] = 1 /\ socket = 1
      /\ worker[1] \in {"made", "tellConnected", "tellFailed"} => evented[1] = 1
      /\ call \in {"open", "connecting", "done", "wait", "join", "spawn"} => socket = 1
      /\ call = "destroy" => batch # <<>>
      /\ Running(1) => holder = 1
  BY <1>a DEF Control, Workers, OneWorker
<1> USE <1>a, <1>b, <1>c DEF ReadsAfterNews, Running, Ended
<1>1. CASE UserConnect
  BY <1>1 DEF UserConnect, shared
<1>2. CASE ConnectCannotClose
  BY <1>2 DEF ConnectCannotClose, CallStep, shared
<1>3. CASE ConnectClose
  BY <1>3 DEF ConnectClose, HasConnection, CallStep, InRecv, shared
<1>4. CASE ConnectOpen
  BY <1>4 DEF ConnectOpen, CallStep, shared
<1>5. CASE ConnectMade
  BY <1>5 DEF ConnectMade, CallStep, shared
<1>39. CASE ConnectCannotBind
  BY <1>39 DEF ConnectCannotBind, CallStep, shared
<1>6. CASE ConnectFails
  BY <1>6 DEF ConnectFails, CallStep, shared
<1>7. CASE ConnectThrew
  BY <1>7 DEF ConnectThrew, shared
<1>8. CASE ConnectDone
  BY <1>8 DEF ConnectDone, CallStep, shared
<1>9. CASE ConnectWait
  BY <1>9 DEF ConnectWait, CallStep, shared
<1>10. CASE ConnectJoin
  BY <1>10 DEF ConnectJoin, CallStep, shared
<1>11. CASE ConnectSpawn
  BY <1>11 DEF ConnectSpawn, CallStep, shared
<1>12. CASE ConnectClear
  BY <1>12 DEF ConnectClear, shared
<1>13. CASE DestroyJoin
  BY <1>13 DEF DestroyJoin, shared
<1>14. CASE TakeBatch
  BY <1>14 DEF TakeBatch, shared
<1>15. CASE CallbackReturns
  BY <1>15 DEF CallbackReturns, CallbackOf, shared
<1>16. CASE CallbackDisconnects
  BY <1>16 DEF CallbackDisconnects, CallbackOf, Disconnect, Drop, shared
<1>17. CASE CallbackConnects
  BY <1>17 DEF CallbackConnects, CallbackOf, shared
<1>18. CASE CallbackDestroys
  BY <1>18 DEF CallbackDestroys, CallbackOf, Disconnect, Drop, shared
<1>19. CASE AddOther
  BY <1>19 DEF AddOther, shared
<1>20. ASSUME NEW w \in Connection, WorkerStart(w)
      PROVE  ReadsAfterNews'
  BY <1>20 DEF WorkerStart, Goto, shared
<1>21. ASSUME NEW w \in Connection, WorkerCheck(w)
      PROVE  ReadsAfterNews'
  BY <1>21 DEF WorkerCheck, Goto, shared
<1>22. ASSUME NEW w \in Connection, WorkerLeave(w)
      PROVE  ReadsAfterNews'
  BY <1>22 DEF WorkerLeave, Goto, shared
<1>23. ASSUME NEW w \in Connection, WorkerPoll(w)
      PROVE  ReadsAfterNews'
  BY <1>23 DEF WorkerPoll, Goto, Ready, shared
<1>40. ASSUME NEW w \in Connection, WorkerFindsConnected(w)
      PROVE  ReadsAfterNews'
  BY <1>40 DEF WorkerFindsConnected, Goto, shared
<1>24. ASSUME NEW w \in Connection, WorkerConnected(w)
      PROVE  ReadsAfterNews'
  BY <1>24 DEF WorkerConnected, Goto, shared
<1>25. ASSUME NEW w \in Connection, WorkerReads(w)
      PROVE  ReadsAfterNews'
  BY <1>25 DEF WorkerReads, Goto, shared
<1>26. ASSUME NEW w \in Connection, NEW s \in Connection, WorkerReceives(w, s)
      PROVE  ReadsAfterNews'
  BY <1>26 DEF WorkerReceives, Goto, InRecv, shared
<1>27. ASSUME NEW w \in Connection, NEW s \in Connection, WorkerLoses(w, s)
      PROVE  ReadsAfterNews'
  BY <1>27 DEF WorkerLoses, Goto, InRecv, shared
<1>28. ASSUME NEW w \in Connection, NEW s \in Connection, WorkerWarns(w, s)
      PROVE  ReadsAfterNews'
  BY <1>28 DEF WorkerWarns, Goto, InRecv, shared
<1>29. ASSUME NEW w \in Connection, WorkerDrops(w)
      PROVE  ReadsAfterNews'
  BY <1>29 DEF WorkerDrops, Drop, Goto, shared
<1>30. ASSUME NEW w \in Connection, WorkerTellsConnected(w)
      PROVE  ReadsAfterNews'
  BY <1>30 DEF WorkerTellsConnected, Add, Goto, shared
<1>31. ASSUME NEW w \in Connection, WorkerTellsData(w)
      PROVE  ReadsAfterNews'
  BY <1>31 DEF WorkerTellsData, Add, Goto, shared
<1>32. ASSUME NEW w \in Connection, WorkerTimeLeft(w)
      PROVE  ReadsAfterNews'
  BY <1>32 DEF WorkerTimeLeft, Goto, shared
<1>33. ASSUME NEW w \in Connection, WorkerTimeout(w)
      PROVE  ReadsAfterNews'
  BY <1>33 DEF WorkerTimeout, Goto, shared
<1>34. ASSUME NEW w \in Connection, WorkerExpires(w)
      PROVE  ReadsAfterNews'
  BY <1>34 DEF WorkerExpires, Disconnect, Drop, Goto, shared
<1>35. ASSUME NEW w \in Connection, WorkerTellsFailed(w)
      PROVE  ReadsAfterNews'
  BY <1>35 DEF WorkerTellsFailed, Add, Goto, shared
<1>36. ASSUME NEW s \in Connection, NetDelivers(s)
      PROVE  ReadsAfterNews'
  BY <1>36 DEF NetDelivers, NetUnchanged, shared
<1>37. ASSUME NEW s \in Connection, NetLoses(s)
      PROVE  ReadsAfterNews'
  BY <1>37 DEF NetLoses, NetUnchanged, shared
<1>38. CASE UNCHANGED vars
  BY <1>38 DEF vars, shared
<1> QED
  BY <1>1, <1>2, <1>3, <1>4, <1>5, <1>6, <1>7, <1>8, <1>9, <1>10, <1>11, <1>12,
     <1>13, <1>14, <1>15, <1>16, <1>17, <1>18, <1>19, <1>20, <1>21, <1>22, <1>23, <1>24,
     <1>25, <1>26, <1>27, <1>28, <1>29, <1>30, <1>31, <1>32, <1>33, <1>34, <1>35, <1>36,
     <1>37, <1>38, <1>39, <1>40
  DEF Next, CallSteps, EventSteps, WorkerSteps

\* What a step does to the callbacks that are due.
LEMMA DueStep ==
    ASSUME MaxConnects = 1, TypeOK, Control, ReadsAfterNews, [Next]_vars
    PROVE  \/ Due' = Due /\ (answers[1] > 0 => answers'[1] > 0)
           \/ Due # <<>> /\ Due' = Tail(Due) /\ answers' = answers
           \/ \E e \in Callback :
                /\ Due' = Append(Due, e)
                /\ (answers[1] > 0 => answers'[1] > 0)
                /\ e.type \in {"data", "failed"} => answers'[1] > 0
                /\ e.type = "connected" => \E w \in Connection : Telling(w, 1)
<1>a. /\ Connection = {1} /\ answers \in [Connection -> Nat] /\ answers[1] \in Nat
      /\ batch \in Seq(Callback) /\ queue \in Seq(Callback)
      /\ evented \in [Connection -> {0, 1}]
  BY OnlyOne DEF TypeOK
<1>b. Due \in Seq(Callback)
  BY <1>a, ConcatProperties DEF Due
<1>1. CASE UNCHANGED <<batch, queue, answers>>
  BY <1>1, <1>a DEF Due
<1>2. CASE TakeBatch
  <2>1. batch = <<>> /\ batch' = queue /\ queue' = <<>> /\ answers' = answers
    BY <1>2 DEF TakeBatch
  <2>2. <<>> \o queue = queue /\ queue \o <<>> = queue
    BY <1>a, ConcatEmptySeq
  <2> QED BY <1>a, <2>1, <2>2 DEF Due
<1>3. ASSUME batch # <<>>, batch' = Tail(batch), UNCHANGED <<queue, answers>>
      PROVE  Due # <<>> /\ Due' = Tail(Due) /\ answers' = answers
  <2>1. Len(batch) > 0 /\ Len(batch \o queue) = Len(batch) + Len(queue)
    BY <1>a, <1>3
  <2>2. Due # <<>>
    BY <1>a, <2>1 DEF Due
  <2>3. Tail(batch) \o queue = Tail(batch \o queue)
    BY <1>a, <1>3
  <2> QED BY <1>3, <2>2, <2>3 DEF Due
<1>4. ASSUME batch = <<>>, UNCHANGED batch, NEW e \in Callback, queue' = Append(queue, e)
      PROVE  Due' = Append(Due, e)
  <2>1. /\ <<>> \o queue = queue
        /\ <<>> \o Append(queue, e) = Append(queue, e)
    BY <1>a, AppendProperties, ConcatEmptySeq
  <2> QED BY <1>4, <2>1 DEF Due
<1>5. CASE AddOther
  <2> DEFINE e == [type |-> "other", connection |-> 0]
  <2>1. e \in Callback /\ e.type = "other"
    BY DEF Callback
  <2>2. queue' = Append(queue, e) /\ batch = <<>> /\ UNCHANGED <<batch, answers>>
    BY <1>5 DEF AddOther, MutexFree
  <2> HIDE DEF e
  <2> QED BY <1>4, <1>a, <2>1, <2>2
<1>6. ASSUME NEW w \in Connection,
             WorkerTellsConnected(w) \/ WorkerTellsData(w) \/ WorkerTellsFailed(w)
      PROVE  \E e \in Callback :
                /\ Due' = Append(Due, e)
                /\ (answers[1] > 0 => answers'[1] > 0)
                /\ e.type \in {"data", "failed"} => answers'[1] > 0
                /\ e.type = "connected" => \E v \in Connection : Telling(v, 1)
  <2>1. w = 1 /\ evented[1] = 1
    BY <1>6, <1>a DEF WorkerTellsConnected, WorkerTellsData, WorkerTellsFailed, Control
  <2>2. PICK t \in {"connected", "data", "failed"} :
          /\ queue' = Append(queue, [type |-> t, connection |-> 1])
          /\ t = "connected" => WorkerTellsConnected(1)
          /\ t = "data" => WorkerTellsData(1)
          /\ t = "failed" => WorkerTellsFailed(1)
    BY <1>6, <2>1 DEF WorkerTellsConnected, WorkerTellsData, WorkerTellsFailed, Add
  <2>3. batch = <<>> /\ UNCHANGED batch
    BY <2>2 DEF WorkerTellsConnected, WorkerTellsData, WorkerTellsFailed, Add, MutexFree
  <2>4. (answers[1] > 0 => answers'[1] > 0) /\ (t = "failed" => answers'[1] > 0)
    BY <1>a, <2>1, <2>2 DEF WorkerTellsConnected, WorkerTellsData, WorkerTellsFailed
  <2>5. t = "data" => answers'[1] > 0
    BY <1>a, <2>2, <2>3 DEF WorkerTellsData, ReadsAfterNews, Control
  <2>6. t = "connected" => Telling(1, 1)
    BY <2>1, <2>2 DEF WorkerTellsConnected, Telling
  <2> DEFINE e == [type |-> t, connection |-> 1]
  <2>7. e \in Callback /\ e.type = t
    BY <1>a DEF Callback
  <2>8. queue' = Append(queue, e)
    BY <2>2
  <2> HIDE DEF e
  <2>9. Due' = Append(Due, e)
    BY <1>4, <2>3, <2>7, <2>8
  <2>10. 1 \in Connection
    BY <1>a
  <2> QED BY <2>4, <2>5, <2>6, <2>7, <2>9, <2>10
<1>7. \/ UNCHANGED <<batch, queue, answers>>
      \/ TakeBatch
      \/ batch # <<>> /\ batch' = Tail(batch) /\ UNCHANGED <<queue, answers>>
      \/ AddOther
      \/ \E w \in Connection :
            WorkerTellsConnected(w) \/ WorkerTellsData(w) \/ WorkerTellsFailed(w)
  <2> DEFINE G == \/ UNCHANGED <<batch, queue, answers>>
                  \/ batch # <<>> /\ batch' = Tail(batch) /\ UNCHANGED <<queue, answers>>
  <2> SUFFICES ASSUME ~TakeBatch, ~AddOther,
                      \A w \in Connection : ~(WorkerTellsConnected(w) \/ WorkerTellsData(w)
                                              \/ WorkerTellsFailed(w))
               PROVE  G
    OBVIOUS
  <2>1. CASE UserConnect \/ CallSteps
    BY <2>1 DEF UserConnect, CallSteps, ConnectCannotClose, ConnectClose, ConnectCannotBind, ConnectOpen,
       ConnectMade, ConnectFails, ConnectThrew, ConnectDone, ConnectWait, ConnectJoin,
       ConnectSpawn, ConnectClear, DestroyJoin, Control
  <2>2. CASE EventSteps
    BY <2>2 DEF EventSteps, CallbackReturns, CallbackDisconnects, CallbackConnects,
       CallbackDestroys, CallbackOf
  <2>3. ASSUME NEW w \in Connection, WorkerSteps(w) PROVE G
    BY <2>3 DEF WorkerSteps, WorkerStart, WorkerCheck, WorkerLeave, WorkerPoll,
       WorkerFindsConnected, WorkerConnected, WorkerReads, WorkerReceives, WorkerLoses, WorkerWarns,
       WorkerDrops, WorkerTimeLeft, WorkerTimeout, WorkerExpires
  <2>4. ASSUME NEW s \in Connection, NetDelivers(s) \/ NetLoses(s) PROVE G
    BY <2>4 DEF NetDelivers, NetLoses, NetUnchanged
  <2>5. CASE UNCHANGED vars
    BY <2>5 DEF vars
  <2> QED BY <2>1, <2>2, <2>3, <2>4, <2>5 DEF Next
<1> QED BY <1>1, <1>2, <1>3, <1>5, <1>6, <1>7

LEMMA NewsStep ==
    ASSUME MaxConnects = 1
    PROVE  /\ TypeOK /\ Control /\ Answers /\ ReadsAfterNews /\ DueAnswered /\ NewsFirst
           /\ [Next]_vars
           => DueAnswered' /\ NewsFirst'
<1> SUFFICES ASSUME TypeOK, Control, Answers, ReadsAfterNews, DueAnswered, NewsFirst,
                    [Next]_vars
             PROVE  DueAnswered' /\ NewsFirst'
  OBVIOUS
<1>1. Due \in Seq(Callback) /\ answers[1] \in Nat
  BY OnlyOne, ConcatProperties DEF Due, TypeOK
<1>2. CASE Due' = Due /\ (answers[1] > 0 => answers'[1] > 0)
  <2>1. answers[1] > 0 => answers'[1] > 0
    BY <1>2
  <2> QED BY <1>2, <2>1 DEF DueAnswered, NewsFirst
<1>3. CASE Due # <<>> /\ Due' = Tail(Due) /\ answers' = answers
  <2>1. /\ Len(Due') = Len(Due) - 1 /\ Len(Due) \in Nat
        /\ \A i \in 1..Len(Due') : Due'[i] = Due[i + 1]
    BY <1>1, <1>3, HeadTailProperties
  <2>2. \A i \in 1..Len(Due') : i + 1 \in 1..Len(Due) /\ Due'[i] = Due[i + 1]
    BY <2>1
  <2>3. DueAnswered'
    BY <1>3, <2>2 DEF DueAnswered
  <2>4. ASSUME NEW i \in 1..Len(Due'), NEW j \in 1..Len(Due'),
               Due'[i].type = "data", Due'[j].type = "connected"
        PROVE  j < i
    <3>1. j + 1 < i + 1
      BY <2>2, <2>4 DEF NewsFirst
    <3> QED BY <3>1
  <2> QED BY <2>3, <2>4 DEF NewsFirst
<1>4. ASSUME NEW e \in Callback, Due' = Append(Due, e), (answers[1] > 0 => answers'[1] > 0),
             e.type \in {"data", "failed"} => answers'[1] > 0,
             e.type = "connected" => \E w \in Connection : Telling(w, 1)
      PROVE  DueAnswered' /\ NewsFirst'
  <2>1. /\ Len(Due') = Len(Due) + 1 /\ Len(Due) \in Nat
        /\ \A i \in 1..Len(Due) : Due'[i] = Due[i]
        /\ Due'[Len(Due) + 1] = e
    BY <1>1, <1>4, AppendProperties
  <2>2. \A i \in 1..Len(Due') :
          (i \in 1..Len(Due) /\ Due'[i] = Due[i]) \/ (i = Len(Due) + 1 /\ Due'[i] = e)
    BY <2>1
  <2>3. answers[1] > 0 => answers'[1] > 0
    BY <1>4
  <2>4. DueAnswered'
    BY <1>4, <2>2, <2>3 DEF DueAnswered
  <2>5. ASSUME NEW i \in 1..Len(Due), Due[i].type = "data" PROVE e.type # "connected"
    <3>1. answers[1] > 0
      BY <2>5 DEF DueAnswered
    <3>2. 1 \in Connection
      BY OnlyOne
    <3>3. \A w \in Connection : ~Telling(w, 1)
      BY <1>1, <3>1, <3>2 DEF Answers
    <3> QED BY <1>4, <3>3
  <2>6. ASSUME NEW i \in 1..Len(Due'), NEW j \in 1..Len(Due'),
               Due'[i].type = "data", Due'[j].type = "connected"
        PROVE  j < i
    <3>1. CASE i \in 1..Len(Due) /\ Due'[i] = Due[i] /\ j \in 1..Len(Due) /\ Due'[j] = Due[j]
      BY <2>6, <3>1 DEF NewsFirst
    <3>2. CASE i \in 1..Len(Due) /\ Due'[i] = Due[i] /\ Due'[j] = e
      BY <2>5, <2>6, <3>2
    <3>3. CASE i = Len(Due) + 1 /\ j \in 1..Len(Due)
      BY <2>1, <3>3
    <3>4. CASE i = Len(Due) + 1 /\ j = Len(Due) + 1
      BY <2>6, <3>4
    <3> QED BY <2>2, <3>1, <3>2, <3>3, <3>4
  <2> QED BY <2>4, <2>6 DEF NewsFirst
<1> QED BY <1>2, <1>3, <1>4, DueStep

\* The data of a client that connects once is never delivered ahead of the news that it
\* is connected, in either use: the worker tells of the connection before it reads, and
\* one that is stopped in between by the destructor never gets to the queue, whose mutex
\* the destructor's callback holds.
THEOREM NewsBeforeData ==
    ASSUME MaxConnects = 1
    PROVE  Spec => []DataAfterConnected
<1>1. Init => Workers /\ ActiveWorker /\ NewSocket /\ Answers
  BY AnswersInit
<1>2. Init => DueAnswered /\ NewsFirst /\ ReadsAfterNews
  <2> SUFFICES ASSUME Init PROVE DueAnswered /\ NewsFirst /\ ReadsAfterNews
    OBVIOUS
  <2>1. 1..Len(Due) = {}
    <3>1. Due = <<>> \o <<>>
      BY DEF Init, Due
    <3> QED BY <3>1
  <2>2. worker[1] = "none" /\ answers[1] = 0
    BY OnlyOne DEF Init
  <2> QED BY <2>1, <2>2 DEF Init, DueAnswered, NewsFirst, ReadsAfterNews, Running
<1>3. TypeOK /\ DueAnswered /\ NewsFirst => DataAfterConnected
  <2> SUFFICES ASSUME TypeOK, DueAnswered, NewsFirst,
                      NEW i \in 1..Len(Due), Due[i].type = "data"
               PROVE  /\ answers[Due[i].connection] > 0
                      /\ \A j \in 1..Len(Due) :
                           Due[j].type = "connected" /\ Due[j].connection = Due[i].connection
                             => j < i
    BY DEF DataAfterConnected, Due
  <2>1. Due[i] \in Callback
    BY ConcatProperties DEF Due, TypeOK
  <2>2. Due[i].connection = 1
    BY <2>1, OnlyOne DEF Callback
  <2>3. answers[1] > 0
    BY DEF DueAnswered
  <2> QED BY <2>2, <2>3 DEF NewsFirst
<1>4. /\ TypeOK /\ Control /\ Workers /\ DueAnswered /\ ReadsAfterNews /\ [Next]_vars
      => ReadsAfterNews'
  BY ReadsStep
<1>5. /\ TypeOK /\ Control /\ Answers /\ ReadsAfterNews /\ DueAnswered /\ NewsFirst
      /\ [Next]_vars
      => DueAnswered' /\ NewsFirst'
  BY NewsStep
<1> QED
  BY <1>1, <1>2, <1>3, <1>4, <1>5, WorkersStep, ActiveStep, NewSocketStep, AnswersStep,
     ControlCorrect, PTL DEF Spec

=============================================================================
