----------------------- MODULE VocalMessages_proofs -------------------------
(* Theorems about VocalMessages for every set of accounts, devices and bounds. *)
EXTENDS VocalMessages, SequenceTheorems, TLAPS

-----------------------------------------------------------------------------
(* Queues *)

LEMMA HeadRequest ==
    ASSUME TypeOK, NEW d \in Device, toServer[d] # <<>>
    PROVE  Head(toServer[d]) \in Request /\ Tail(toServer[d]) \in Seq(Request)
BY HeadTailProperties DEF TypeOK

LEMMA HeadPacket ==
    ASSUME TypeOK, NEW d \in Device, toClient[d] # <<>>
    PROVE  Head(toClient[d]) \in Packet /\ Tail(toClient[d]) \in Seq(Packet)
BY HeadTailProperties DEF TypeOK

\* The elements of a queue after a packet is appended or the head is taken.
LEMMA AppendElements ==
    ASSUME NEW S, NEW q \in Seq(S), NEW e \in S
    PROVE  /\ Append(q, e) \in Seq(S)
           /\ Len(Append(q, e)) = Len(q) + 1 /\ Len(q) \in Nat
           /\ \A i \in 1..Len(q) : Append(q, e)[i] = q[i]
           /\ Append(q, e)[Len(q) + 1] = e
BY AppendProperties

LEMMA TailElements ==
    ASSUME NEW S, NEW q \in Seq(S), q # <<>>
    PROVE  /\ Tail(q) \in Seq(S) /\ Len(Tail(q)) = Len(q) - 1 /\ Len(q) \in Nat \ {0}
           /\ \A i \in 1..Len(Tail(q)) : Tail(q)[i] = q[i + 1]
           /\ Head(q) = q[1]
BY HeadTailProperties, EmptySeq

LEMMA DirectedType ==
    ASSUME NEW r \in Record
    PROVE  /\ Directed(r) \in DirectionedMessage /\ Directed(r).message = r.message
           /\ Directed(r).friend = r.friend /\ Directed(r).incoming = r.incoming
           /\ Directed(r).key = r.key
BY DEF Directed, DirectionedMessage, Record

\* What GetMessages returns makes a packet, and Synced a queue of packets.
LEMMA SyncedType ==
    ASSUME TypeOK, NEW d \in Device, NEW records \in SUBSET Record,
           NEW from \in Upto, NEW to \in Upto, NEW stray
    PROVE  /\ Synced(d, records, from, to, stray) \in Seq(Packet)
           /\ GetMessages(records, Owner[d], from, to, stray) \in SUBSET DirectionedMessage
<1> DEFINE messages == GetMessages(records, Owner[d], from, to, stray)
           packet == [type |-> "Messages", messages |-> messages, to |-> to]
<1>1. messages \in SUBSET DirectionedMessage
  BY DirectedType DEF GetMessages
<1>2. packet \in Packet
  BY <1>1 DEF Packet
<1>3. toClient[d] \in Seq(Packet)
  BY DEF TypeOK
<1>4. Append(toClient[d], packet) \in Seq(Packet)
  BY <1>2, <1>3, AppendProperties
<1> QED BY <1>1, <1>3, <1>4 DEF Synced

\* SyncNewMessages keeps the types of what it changes.
LEMMA SyncNewType ==
    ASSUME TypeOK, NEW records \in SUBSET Record, NEW S \in SUBSET Login,
           NEW now \in [S -> Nat], NEW stray, SyncNewMessages(records, now, stray)
    PROVE  /\ toClient' \in [Device -> Seq(Packet)]
           /\ sessionSync' \in [Device -> Nat]
<1> DEFINE due == {d \in Device : Registered(d) /\ Owner[d] \in DOMAIN now}
<1>1. toClient' \in [Device -> Seq(Packet)]
  <2> SUFFICES ASSUME NEW d \in Device
               PROVE  (IF d \in due
                       THEN Synced(d, records, sessionSync[d], now[Owner[d]], stray)
                       ELSE toClient[d]) \in Seq(Packet)
    BY DEF SyncNewMessages
  <2>1. CASE d \in due
    <3>1. sessionSync[d] \in Upto /\ now[Owner[d]] \in Upto
      BY <2>1 DEF TypeOK, Upto
    <3> QED BY <2>1, <3>1, SyncedType
  <2>2. CASE d \notin due
    BY <2>2 DEF TypeOK
  <2> QED BY <2>1, <2>2
<1>2. sessionSync' \in [Device -> Nat]
  BY DEF SyncNewMessages, TypeOK
<1> QED BY <1>1, <1>2

-----------------------------------------------------------------------------
(* Type correctness *)

LEMMA InitType == Init => TypeOK
BY MessagesAssumption, EmptySeq DEF Init, TypeOK, Upto

LEMMA AuthorizeType ==
    ASSUME TypeOK, NEW d \in Device, Authorize(d)
    PROVE  TypeOK'
<1>1. [type |-> "Confirm"] \in Packet
  BY DEF Packet
<1>2. <<[type |-> "Confirm"]>> \in Seq(Packet)
  BY <1>1
<1>3. toClient' \in [Device -> Seq(Packet)]
  BY <1>2 DEF Authorize, TypeOK
<1>4. byLogin' \in [Login -> Device \cup {NoDevice}]
  BY MessagesAssumption DEF Authorize, TypeOK
<1>5. state' \in [Device -> {"Away", "ConfirmWait", "Connected"}]
  BY DEF Authorize, TypeOK
<1>6. connects' \in [Device -> Nat]
  BY DEF Authorize, TypeOK
<1>7. sessionSync' \in [Device -> Nat] /\ began' \in [Device -> Nat]
  BY DEF Authorize, TypeOK
<1> QED BY <1>3, <1>4, <1>5, <1>6, <1>7 DEF Authorize, TypeOK

LEMMA ConfirmType ==
    ASSUME TypeOK, NEW d \in Device, ReceiveConfirm(d)
    PROVE  TypeOK'
<1>1. Tail(toClient[d]) \in Seq(Packet)
  BY HeadPacket DEF ReceiveConfirm
<1>2. [type |-> "Sync", from |-> lastSync[d]] \in Request
  BY DEF TypeOK, Request
<1>3. Append(toServer[d], [type |-> "Sync", from |-> lastSync[d]]) \in Seq(Request)
  BY <1>2, AppendProperties DEF TypeOK
<1> QED BY <1>1, <1>3 DEF ReceiveConfirm, TypeOK

LEMMA DisconnectType ==
    ASSUME TypeOK, NEW d \in Device, Disconnect(d)
    PROVE  TypeOK'
BY MessagesAssumption, EmptySeq DEF Disconnect, TypeOK

\* The request that SendMessage makes.
Sent(d, f) == [type |-> "Send", friend |-> f, message |-> written', key |-> <<f, Owner[d]>>]

LEMMA SentRequest ==
    ASSUME NEW d \in Device, NEW f \in Login, written' \in Nat
    PROVE  Sent(d, f) \in Request
BY MessagesAssumption DEF Sent, Request, Key

LEMMA SentMade ==
    ASSUME TypeOK, NEW d \in Device, NEW f \in Login, SendMessage(d, f)
    PROVE  /\ Sent(d, f) \in Request
           /\ Sent(d, f).type = "Send" /\ Sent(d, f).friend = f
           /\ Sent(d, f).message = written' /\ Sent(d, f).key = <<f, Owner[d]>>
           /\ toServer' = [toServer EXCEPT ![d] = Append(@, Sent(d, f))]
           /\ toServer'[d] = Append(toServer[d], Sent(d, f))
<1>1. written' \in Nat
  BY DEF SendMessage, TypeOK
<1>2. Sent(d, f) \in Request
  BY <1>1, SentRequest
<1> QED BY <1>2 DEF SendMessage, Sent, TypeOK

LEMMA SendType ==
    ASSUME TypeOK, NEW d \in Device, NEW f \in Login, SendMessage(d, f)
    PROVE  TypeOK'
<1>1. written' \in Nat
  BY DEF SendMessage, TypeOK
<1>2. Sent(d, f) \in Request
  BY <1>1, SentRequest
<1>3. Append(toServer[d], Sent(d, f)) \in Seq(Request)
  BY <1>2, AppendProperties DEF TypeOK
<1> QED BY <1>1, <1>3 DEF SendMessage, TypeOK, Sent

\* When each of the two accounts is synchronized.
Now(d, f, mine, theirs) ==
    [l \in {Owner[d], f} |-> IF l = Owner[d] THEN mine ELSE theirs]

\* What a handled request q of d does, with the types of its parts.
Handled(d, q, mine, theirs, stray) ==
    /\ clock <= mine /\ mine <= theirs /\ clock' = theirs
    /\ q \in Request /\ q.type = "Send" /\ q.friend \in Login /\ q.message \in Nat
    /\ log' = log \cup {Outgoing(Owner[d], q, clock), Incoming(Owner[d], q, mine)}
    /\ log' \in SUBSET Record
    /\ SyncNewMessages(log', Now(d, q.friend, mine, theirs), stray)
    /\ Now(d, q.friend, mine, theirs) \in [{Owner[d], q.friend} -> Nat]
    /\ {Owner[d], q.friend} \in SUBSET Login

LEMMA HandleSendHead ==
    ASSUME TypeOK, NEW d \in Device, HandleSend(d)
    PROVE  /\ toServer[d] # <<>> /\ Head(toServer[d]).type = "Send"
           /\ \E mine \in Nat, theirs \in Nat, stray \in SUBSET Strays(log') :
                Handled(d, Head(toServer[d]), mine, theirs, stray)
<1> DEFINE r == Head(toServer[d])
<1>1. r \in Request /\ r.type = "Send" /\ toServer[d] # <<>>
  BY HeadRequest DEF HandleSend, NextRequest
<1>2. r.friend \in Login /\ r.message \in Nat /\ r.key \in Key /\ Owner[d] \in Login
  BY <1>1, MessagesAssumption DEF Request
<1>3. PICK mine \in {clock, clock + 1} : \E theirs \in {mine, mine + 1} :
         /\ log' = log \cup {Outgoing(Owner[d], r, clock), Incoming(Owner[d], r, mine)}
         /\ \E stray \in SUBSET Strays(log') :
              SyncNewMessages(log', [l \in {Owner[d], r.friend} |->
                                       IF l = Owner[d] THEN mine ELSE theirs], stray)
         /\ clock' = theirs
  BY DEF HandleSend
<1>4. PICK theirs \in {mine, mine + 1} :
         /\ log' = log \cup {Outgoing(Owner[d], r, clock), Incoming(Owner[d], r, mine)}
         /\ \E stray \in SUBSET Strays(log') :
              SyncNewMessages(log', [l \in {Owner[d], r.friend} |->
                                       IF l = Owner[d] THEN mine ELSE theirs], stray)
         /\ clock' = theirs
  BY <1>3
<1>5. mine \in Nat /\ theirs \in Nat /\ clock <= mine /\ mine <= theirs /\ clock \in Nat
  BY <1>3, <1>4 DEF TypeOK
<1>6. log' \in SUBSET Record
  <2>1. Outgoing(Owner[d], r, clock) \in Record /\ Incoming(Owner[d], r, mine) \in Record
    BY <1>2, <1>5 DEF Outgoing, Incoming, Record
  <2> QED BY <1>4, <2>1 DEF TypeOK
<1>7. Now(d, r.friend, mine, theirs) \in [{Owner[d], r.friend} -> Nat]
  BY <1>5 DEF Now
<1>8. {Owner[d], r.friend} \in SUBSET Login
  BY <1>2
<1>9. PICK stray \in SUBSET Strays(log') : SyncNewMessages(log', Now(d, r.friend, mine, theirs), stray)
  BY <1>4 DEF Now
<1>10. Handled(d, r, mine, theirs, stray)
  BY <1>1, <1>2, <1>4, <1>5, <1>6, <1>7, <1>8, <1>9 DEF Handled
<1> QED BY <1>1, <1>5, <1>10

LEMMA HandleSendFacts ==
    ASSUME TypeOK, NEW d \in Device, HandleSend(d)
    PROVE  \E q \in Request, mine \in Nat, theirs \in Nat, stray \in SUBSET Strays(log') :
             Handled(d, q, mine, theirs, stray)
BY HandleSendHead, HeadRequest

LEMMA HandleSendType ==
    ASSUME TypeOK, NEW d \in Device, HandleSend(d)
    PROVE  TypeOK'
<1>1. PICK q \in Request, mine \in Nat, theirs \in Nat, stray \in SUBSET Strays(log') :
         Handled(d, q, mine, theirs, stray)
  BY HandleSendFacts
<1>2. toClient' \in [Device -> Seq(Packet)] /\ sessionSync' \in [Device -> Nat]
  BY <1>1, SyncNewType DEF Handled
<1>3. Tail(toServer[d]) \in Seq(Request)
  BY HeadRequest DEF HandleSend, NextRequest
<1>4. toServer' \in [Device -> Seq(Request)]
  BY <1>3 DEF HandleSend, PopRequest, TypeOK
<1> QED BY <1>1, <1>2, <1>4 DEF HandleSend, Handled, TypeOK

LEMMA HandleSyncType ==
    ASSUME TypeOK, NEW d \in Device, HandleSync(d)
    PROVE  TypeOK'
<1> DEFINE r == Head(toServer[d])
           s == byLogin[Owner[d]]
<1>1. r \in Request /\ r.type = "Sync" /\ Tail(toServer[d]) \in Seq(Request)
  BY HeadRequest DEF HandleSync, NextRequest
<1>2. r.from \in Upto /\ Forever \in Upto
  BY <1>1 DEF Request, Upto
<1>3. ASSUME s # NoDevice, NEW stray
      PROVE  s \in Device /\ Synced(s, log, r.from, Forever, stray) \in Seq(Packet)
  <2>1. s \in Device
    BY <1>3, MessagesAssumption DEF TypeOK
  <2> QED BY <2>1, <1>2, SyncedType DEF TypeOK
<1>4. toClient' \in [Device -> Seq(Packet)]
  <2>1. toClient \in [Device -> Seq(Packet)]
    BY DEF TypeOK
  <2>2. CASE s = NoDevice
    BY <2>1, <2>2 DEF HandleSync
  <2>3. CASE s # NoDevice
    <3>1. PICK stray : toClient' = [toClient EXCEPT ![s] = Synced(s, log, r.from, Forever, stray)]
      BY <2>3 DEF HandleSync
    <3>2. s \in Device /\ Synced(s, log, r.from, Forever, stray) \in Seq(Packet)
      BY <1>3, <2>3
    <3> HIDE DEF r, s
    <3> QED BY <2>1, <3>1, <3>2
  <2> QED BY <2>2, <2>3
<1>5. toServer' \in [Device -> Seq(Request)]
  BY <1>1 DEF HandleSync, PopRequest, TypeOK
<1> QED BY <1>4, <1>5 DEF HandleSync, TypeOK

LEMMA ReceiveType ==
    ASSUME TypeOK, NEW d \in Device, ReceiveMessages(d)
    PROVE  TypeOK'
<1>1. /\ Head(toClient[d]) \in Packet /\ Head(toClient[d]).type = "Messages"
      /\ Tail(toClient[d]) \in Seq(Packet)
  BY HeadPacket DEF ReceiveMessages
<1>2. ShownOf(d, Head(toClient[d])) \in SUBSET Nat /\ Head(toClient[d]).to \in Upto
  BY <1>1 DEF Packet, ShownOf, DirectionedMessage
<1> QED BY <1>1, <1>2 DEF ReceiveMessages, TypeOK

\* Every reachable state is well typed.
THEOREM TypeCorrect == Spec => []TypeOK
<1>1. TypeOK /\ [Next]_vars => TypeOK'
  <2> SUFFICES ASSUME TypeOK, [Next]_vars PROVE TypeOK'
    OBVIOUS
  <2>1. CASE UNCHANGED vars
    BY <2>1 DEF vars, TypeOK
  <2>2. ASSUME NEW d \in Device, NEW f \in Login, SendMessage(d, f) PROVE TypeOK'
    BY <2>2, SendType
  <2>3. CASE Next
    BY <2>2, <2>3, AuthorizeType, ConfirmType, DisconnectType, HandleSendType,
       HandleSyncType, ReceiveType DEF Next, ServerSteps, ClientSteps
  <2> QED BY <2>1, <2>3
<1> QED BY <1>1, InitType, PTL DEF Spec

-----------------------------------------------------------------------------
(* What reaches a device *)

\* At most one packet of messages is appended to the packets of d.
Extended(d) ==
    \/ toClient'[d] = toClient[d]
    \/ \E e \in Packet : e.type = "Messages" /\ toClient'[d] = Append(toClient[d], e)

\* A message that is with a device stays with it when a packet is appended.
LEMMA WithAppended ==
    ASSUME TypeOK, NEW d \in Device, NEW m, With(m, d), shown'[d] = shown[d],
           Extended(d)
    PROVE  With(m, d)'
<1>1. CASE toClient'[d] = toClient[d]
  BY <1>1 DEF With
<1>2. ASSUME NEW e \in Packet, toClient'[d] = Append(toClient[d], e)
      PROVE  With(m, d)'
  <2>1. toClient[d] \in Seq(Packet)
    BY DEF TypeOK
  <2>2. /\ Len(toClient'[d]) = Len(toClient[d]) + 1 /\ Len(toClient[d]) \in Nat
        /\ \A i \in 1..Len(toClient[d]) : toClient'[d][i] = toClient[d][i]
    BY <1>2, <2>1, AppendElements
  <2>3. \A i \in 1..Len(toClient[d]) : i \in 1..Len(toClient'[d])
    BY <2>2
  <2> QED BY <2>2, <2>3 DEF With
<1> QED BY <1>1, <1>2 DEF Extended

\* Taking a packet of another kind leaves every message with its device, taking
\* a packet of messages shows them.
LEMMA WithConfirmed ==
    ASSUME TypeOK, NEW d \in Device, ReceiveConfirm(d),
           NEW e \in Device, NEW m, With(m, e)
    PROVE  With(m, e)'
<1>1. CASE e # d
  BY <1>1 DEF ReceiveConfirm, With, TypeOK
<1>2. CASE e = d
  <2>1. /\ toClient[d] \in Seq(Packet) /\ toClient[d] # <<>>
        /\ toClient'[d] = Tail(toClient[d]) /\ shown'[d] = shown[d]
        /\ Head(toClient[d]).type = "Confirm"
    BY DEF ReceiveConfirm, TypeOK
  <2>2. CASE m \in shown[d]
    BY <1>2, <2>1, <2>2 DEF With
  <2>3. ASSUME NEW i \in 1..Len(toClient[d]), toClient[d][i].type = "Messages",
               m \in ShownOf(d, toClient[d][i])
        PROVE  With(m, d)'
    <3>1. i # 1
      BY <2>1, <2>3, TailElements
    <3>2. i - 1 \in 1..Len(toClient'[d]) /\ toClient'[d][i - 1] = toClient[d][i]
      BY <2>1, <3>1, TailElements
    <3> QED BY <2>3, <3>2 DEF With
  <2> QED BY <1>2, <2>2, <2>3 DEF With
<1> QED BY <1>1, <1>2

LEMMA WithReceived ==
    ASSUME TypeOK, NEW d \in Device, ReceiveMessages(d),
           NEW e \in Device, NEW m, With(m, e)
    PROVE  With(m, e)'
<1>1. CASE e # d
  BY <1>1 DEF ReceiveMessages, With, TypeOK
<1>2. CASE e = d
  <2>1. /\ toClient[d] \in Seq(Packet) /\ toClient[d] # <<>>
        /\ toClient'[d] = Tail(toClient[d])
        /\ shown'[d] = shown[d] \cup ShownOf(d, Head(toClient[d]))
    BY DEF ReceiveMessages, TypeOK
  <2>2. CASE m \in shown[d]
    BY <1>2, <2>1, <2>2 DEF With
  <2>3. ASSUME NEW i \in 1..Len(toClient[d]), toClient[d][i].type = "Messages",
               m \in ShownOf(d, toClient[d][i])
        PROVE  With(m, d)'
    <3>1. CASE i = 1
      BY <2>1, <2>3, <3>1, TailElements DEF With
    <3>2. CASE i # 1
      <4>1. i - 1 \in 1..Len(toClient'[d]) /\ toClient'[d][i - 1] = toClient[d][i]
        BY <2>1, <3>2, TailElements
      <4> QED BY <2>3, <4>1 DEF With
    <3> QED BY <3>1, <3>2
  <2> QED BY <1>2, <2>2, <2>3 DEF With
<1> QED BY <1>1, <1>2

\* A record is encrypted with the key its account reads it with.
KeyOf(r) == r.key = IF r.incoming THEN <<r.login, r.friend>> ELSE <<r.friend, r.login>>

\* The queue Synced makes: at most one packet more, and with it every record the
\* account has within the given ends.
LEMMA SyncedQueue ==
    ASSUME TypeOK, NEW d \in Device, NEW records \in SUBSET Record,
           NEW from \in Upto, NEW to \in Upto, NEW stray,
           toClient'[d] = Synced(d, records, from, to, stray)
    PROVE  Extended(d)
<1> DEFINE messages == GetMessages(records, Owner[d], from, to, stray)
           packet == [type |-> "Messages", messages |-> messages, to |-> to]
<1>1. packet \in Packet /\ packet.type = "Messages"
  BY SyncedType DEF Packet
<1> HIDE DEF messages
<1> QED BY <1>1 DEF Synced, Extended, messages

LEMMA SyncedHas ==
    ASSUME TypeOK, NEW d \in Device, NEW records \in SUBSET Record,
           NEW from \in Upto, NEW to \in Upto, NEW stray,
           toClient'[d] = Synced(d, records, from, to, stray),
           NEW r \in records, r.login = Owner[d], Within(r.date, from, to), KeyOf(r)
    PROVE  With(r.message, d)'
<1> DEFINE messages == GetMessages(records, Owner[d], from, to, stray)
           packet == [type |-> "Messages", messages |-> messages, to |-> to]
<1>1. Directed(r) \in messages
  BY DEF GetMessages
<1>2. packet \in Packet
  BY SyncedType DEF Packet
<1>3. toClient'[d] = Append(toClient[d], packet)
  BY <1>1 DEF Synced
<1>4. packet.type = "Messages" /\ packet.messages = messages
  OBVIOUS
<1> HIDE DEF packet, messages
<1>5. toClient[d] \in Seq(Packet)
  BY DEF TypeOK
<1>6. /\ Len(toClient[d]) + 1 \in 1..Len(toClient'[d])
      /\ toClient'[d][Len(toClient[d]) + 1] = packet
  BY <1>2, <1>3, <1>5, AppendElements
<1>7. r.message \in ShownOf(d, packet)
  <2>1. Readable(d, Directed(r)) /\ Directed(r).message = r.message
    BY DirectedType DEF Readable, KeyOf
  <2> QED BY <1>1, <1>4, <2>1 DEF ShownOf
<1> QED BY <1>4, <1>6, <1>7 DEF With

\* What SyncNewMessages does to one device.
LEMMA SyncNewEffect ==
    ASSUME TypeOK, NEW records \in SUBSET Record, NEW S \in SUBSET Login,
           NEW now \in [S -> Nat], NEW stray, SyncNewMessages(records, now, stray),
           NEW d \in Device
    PROVE  /\ Extended(d)
           /\ Registered(d) /\ Owner[d] \in S =>
                 /\ toClient'[d] = Synced(d, records, sessionSync[d], now[Owner[d]], stray)
                 /\ sessionSync'[d] = now[Owner[d]]
                 /\ sessionSync[d] \in Upto /\ now[Owner[d]] \in Upto
           /\ ~(Registered(d) /\ Owner[d] \in S) =>
                 toClient'[d] = toClient[d] /\ sessionSync'[d] = sessionSync[d]
<1>1. CASE Registered(d) /\ Owner[d] \in S
  <2>1. /\ toClient'[d] = Synced(d, records, sessionSync[d], now[Owner[d]], stray)
        /\ sessionSync'[d] = now[Owner[d]]
    BY <1>1 DEF SyncNewMessages
  <2>2. sessionSync[d] \in Upto /\ now[Owner[d]] \in Upto
    BY <1>1 DEF TypeOK, Upto
  <2> QED BY <1>1, <2>1, <2>2, SyncedQueue
<1>2. CASE ~(Registered(d) /\ Owner[d] \in S)
  BY <1>2 DEF SyncNewMessages, Extended
<1> QED BY <1>1, <1>2

\* The registered session of an account belongs to one of its devices.
Owned == \A l \in Login : byLogin[l] # NoDevice => Owner[byLogin[l]] = l

LEMMA OwnedInit == Init => Owned
BY DEF Init, Owned

LEMMA OwnedStep == TypeOK /\ Owned /\ [Next]_vars => Owned'
<1> SUFFICES ASSUME TypeOK, Owned, [Next]_vars PROVE Owned'
  OBVIOUS
<1>1. ASSUME byLogin' = byLogin PROVE Owned'
  BY <1>1 DEF Owned
<1>2. ASSUME NEW d \in Device, Authorize(d) PROVE Owned'
  BY <1>2, MessagesAssumption DEF Authorize, Owned, TypeOK
<1>3. ASSUME NEW d \in Device, Disconnect(d) PROVE Owned'
  BY <1>3, MessagesAssumption DEF Disconnect, Owned, TypeOK
<1> QED BY <1>1, <1>2, <1>3 DEF Next, ServerSteps, ClientSteps, vars, ReceiveConfirm,
           SendMessage, HandleSend, HandleSync, ReceiveMessages

\* What RT_SyncMessages of d does to one device.
LEMMA HandleSyncEffect ==
    ASSUME TypeOK, Owned, NEW d \in Device, HandleSync(d), NEW e \in Device
    PROVE  /\ Extended(e)
           /\ toClient'[e] # toClient[e] => Registered(e)
           /\ Head(toServer[d]).from \in Upto /\ Forever \in Upto
           /\ toClient'[e] # toClient[e] \/ (e = d /\ Registered(d)) =>
                \E stray : toClient'[e] = Synced(e, log, Head(toServer[d]).from, Forever, stray)
<1> DEFINE r == Head(toServer[d])
           s == byLogin[Owner[d]]
<1>1. r \in Request /\ r.type = "Sync"
  BY HeadRequest DEF HandleSync, NextRequest
<1>2. r.from \in Upto /\ Forever \in Upto
  BY <1>1 DEF Request, Upto
<1>3. log \in SUBSET Record /\ toClient \in [Device -> Seq(Packet)]
  BY DEF TypeOK
<1>4. CASE s = NoDevice
  <2>1. toClient' = toClient
    BY <1>4 DEF HandleSync
  <2> QED BY <1>2, <1>4, <2>1, MessagesAssumption DEF Extended, Registered
<1>5. CASE s # NoDevice
  <2>1. PICK stray : toClient' = [toClient EXCEPT ![s] = Synced(s, log, r.from, Forever, stray)]
    BY <1>5 DEF HandleSync
  <2>2. CASE e # s
    BY <1>2, <1>3, <2>1, <2>2 DEF Extended, Registered
  <2>3. CASE e = s
    <3>1. toClient'[e] = Synced(e, log, r.from, Forever, stray)
      BY <1>3, <2>1, <2>3
    <3>2. Extended(e)
      BY <1>2, <1>3, <3>1, SyncedQueue
    <3>3. Registered(e)
      <4>1. Owner[e] = Owner[d]
        BY <1>5, <2>3, MessagesAssumption DEF Owned
      <4> QED BY <2>3, <4>1 DEF Registered
    <3> QED BY <1>2, <3>1, <3>2, <3>3
  <2> QED BY <2>2, <2>3
<1> QED BY <1>4, <1>5

-----------------------------------------------------------------------------
(* Time *)

\* Nothing is stored, and no session synchronized, later than now.
Times ==
    /\ \A r \in log : r.date <= clock
    /\ \A d \in Device : sessionSync[d] <= clock

LEMMA TimesInit == Init => Times
BY DEF Init, Times

LEMMA TimesStep == TypeOK /\ Times /\ [Next]_vars => Times'
<1> SUFFICES ASSUME TypeOK, Times, [Next]_vars PROVE Times'
  OBVIOUS
<1>1. ASSUME UNCHANGED <<clock, log, sessionSync>> PROVE Times'
  BY <1>1 DEF Times
<1>2. ASSUME NEW d \in Device, Authorize(d) PROVE Times'
  BY <1>2 DEF Authorize, Times, TypeOK
<1>3. ASSUME NEW d \in Device, HandleSend(d) PROVE Times'
  <2>1. PICK q \in Request, mine \in Nat, theirs \in Nat, stray \in SUBSET Strays(log') :
         Handled(d, q, mine, theirs, stray)
    BY <1>3, HandleSendFacts
  <2>2. \A r \in log : r.date \in Nat /\ r.date <= clock
    BY DEF TypeOK, Record, Times
  <2>3. \A r \in log' : r.date <= clock'
    BY <2>1, <2>2 DEF Handled, Outgoing, Incoming, TypeOK
  <2>4. \A e \in Device : sessionSync'[e] <= clock'
    <3> TAKE e \in Device
    <3>1. sessionSync[e] \in Nat /\ sessionSync[e] <= clock /\ clock \in Nat
      BY DEF TypeOK, Times
    <3>2. sessionSync'[e] = sessionSync[e] \/ sessionSync'[e] = mine
            \/ sessionSync'[e] = theirs
      BY <2>1 DEF Handled, Now, SyncNewMessages
    <3> QED BY <2>1, <3>1, <3>2 DEF Handled
  <2> QED BY <2>3, <2>4 DEF Times
<1> QED BY <1>1, <1>2, <1>3 DEF Next, ServerSteps, ClientSteps, vars, ReceiveConfirm,
           Disconnect, SendMessage, HandleSync, ReceiveMessages

-----------------------------------------------------------------------------
(* The first connection *)

\* The requests under way from d ask for all old messages.
AsksAll(d) ==
    \A i \in 1..Len(toServer[d]) : toServer[d][i].type = "Sync" => toServer[d][i].from = 0

\* A device that is away has no queues and is not registered; the confirmation of
\* a session comes first; on its first connection a device asks for everything.
FreshAt(d) ==
    /\ connects[d] = 0 => state[d] = "Away" /\ lastSync[d] = 0
    /\ state[d] = "Away" =>
         toClient[d] = <<>> /\ toServer[d] = <<>> /\ ~Registered(d)
    /\ state[d] = "ConfirmWait" =>
         toClient[d] # <<>> /\ toClient[d][1].type = "Confirm"
    /\ \A i \in 1..Len(toClient[d]) :
         toClient[d][i].type = "Confirm" => i = 1 /\ state[d] = "ConfirmWait"
    /\ connects[d] <= 1 /\ state[d] = "ConfirmWait" => lastSync[d] = 0
    /\ connects[d] <= 1 => AsksAll(d)

Fresh == \A d \in Device : FreshAt(d)

LEMMA FreshInit == Init => Fresh
BY MessagesAssumption DEF Init, Fresh, FreshAt, AsksAll, Registered

\* Nothing of the device changes.
LEMMA FreshFrame ==
    ASSUME NEW d \in Device, FreshAt(d),
           connects'[d] = connects[d], state'[d] = state[d], lastSync'[d] = lastSync[d],
           toServer'[d] = toServer[d], toClient'[d] = toClient[d],
           Registered(d)' => Registered(d)
    PROVE  FreshAt(d)'
BY DEF FreshAt, AsksAll

LEMMA AsksTail ==
    ASSUME TypeOK, NEW d \in Device, AsksAll(d), toServer[d] # <<>>,
           toServer'[d] = Tail(toServer[d])
    PROVE  AsksAll(d)'
<1>1. toServer[d] \in Seq(Request)
  BY DEF TypeOK
<1>2. /\ Len(toServer'[d]) = Len(toServer[d]) - 1 /\ Len(toServer[d]) \in Nat \ {0}
      /\ \A i \in 1..Len(toServer'[d]) : toServer'[d][i] = toServer[d][i + 1]
  BY <1>1, TailElements
<1>3. \A i \in 1..Len(toServer'[d]) : i + 1 \in 1..Len(toServer[d])
  BY <1>2
<1> QED BY <1>2, <1>3 DEF AsksAll

LEMMA AsksAppend ==
    ASSUME TypeOK, NEW d \in Device, AsksAll(d), NEW r \in Request,
           toServer'[d] = Append(toServer[d], r), r.type = "Sync" => r.from = 0
    PROVE  AsksAll(d)'
<1>1. toServer[d] \in Seq(Request)
  BY DEF TypeOK
<1>2. /\ Len(toServer'[d]) = Len(toServer[d]) + 1 /\ Len(toServer[d]) \in Nat
      /\ \A i \in 1..Len(toServer[d]) : toServer'[d][i] = toServer[d][i]
      /\ toServer'[d][Len(toServer[d]) + 1] = r
  BY <1>1, AppendElements
<1>3. \A i \in 1..Len(toServer'[d]) : i \in 1..Len(toServer[d]) \/ i = Len(toServer[d]) + 1
  BY <1>2
<1> QED BY <1>2, <1>3 DEF AsksAll

\* Packets of messages are appended for a registered device, requests change.
LEMMA FreshExtended ==
    ASSUME TypeOK, NEW d \in Device, FreshAt(d),
           connects' = connects, state' = state, lastSync' = lastSync, byLogin' = byLogin,
           Extended(d), toClient'[d] # toClient[d] => Registered(d),
           state[d] = "Away" => toServer'[d] = toServer[d],
           AsksAll(d) => AsksAll(d)'
    PROVE  FreshAt(d)'
<1>1. Registered(d)' = Registered(d)
  BY DEF Registered
<1>2. CASE toClient'[d] = toClient[d]
  BY <1>1, <1>2 DEF FreshAt
<1>3. ASSUME NEW e \in Packet, e.type = "Messages", toClient'[d] = Append(toClient[d], e),
             toClient'[d] # toClient[d]
      PROVE  FreshAt(d)'
  <2>1. state[d] # "Away"
    BY <1>3 DEF FreshAt
  <2>2. toClient[d] \in Seq(Packet)
    BY DEF TypeOK
  <2>3. /\ Len(toClient'[d]) = Len(toClient[d]) + 1 /\ Len(toClient[d]) \in Nat
        /\ \A i \in 1..Len(toClient[d]) : toClient'[d][i] = toClient[d][i]
        /\ toClient'[d][Len(toClient[d]) + 1] = e
    BY <1>3, <2>2, AppendElements
  <2>4. toClient[d] # <<>> => toClient'[d] # <<>> /\ toClient'[d][1] = toClient[d][1]
    <3>1. toClient[d] # <<>> => Len(toClient[d]) \in Nat \ {0}
      BY <2>2, TailElements
    <3> QED BY <3>1, <2>3
  <2>5. \A i \in 1..Len(toClient'[d]) :
           toClient'[d][i].type = "Confirm" => i = 1 /\ state[d] = "ConfirmWait"
    <3> TAKE i \in 1..Len(toClient'[d])
    <3>1. i \in 1..Len(toClient[d]) \/ i = Len(toClient[d]) + 1
      BY <2>3
    <3> QED BY <1>3, <2>3, <3>1 DEF FreshAt
  <2> QED BY <1>1, <2>1, <2>4, <2>5 DEF FreshAt
<1> QED BY <1>2, <1>3 DEF Extended

LEMMA FreshStep == TypeOK /\ Owned /\ Fresh /\ [Next]_vars => Fresh'
<1> SUFFICES ASSUME TypeOK, Owned, Fresh, [Next]_vars, NEW e \in Device PROVE FreshAt(e)'
  BY DEF Fresh
<1>0. FreshAt(e)
  BY DEF Fresh
<1>1. CASE UNCHANGED vars
  BY <1>0, <1>1, FreshFrame DEF vars, Registered
<1>2. ASSUME NEW d \in Device, Authorize(d) PROVE FreshAt(e)'
  <2>1. CASE e # d
    BY <1>0, <1>2, <2>1, FreshFrame DEF Authorize, Registered, TypeOK
  <2>2. CASE e = d
    <3>1. connects'[d] = connects[d] + 1 /\ connects[d] \in Nat /\ state'[d] = "ConfirmWait"
      BY <1>2 DEF Authorize, TypeOK
    <3>2. toClient'[d] = <<[type |-> "Confirm"]>> /\ toServer'[d] = toServer[d]
            /\ lastSync' = lastSync /\ toServer[d] = <<>>
      BY <1>0, <1>2, <2>2 DEF Authorize, TypeOK, FreshAt
    <3>3. AsksAll(d)'
      BY <3>2 DEF AsksAll
    <3>4. connects'[d] <= 1 => lastSync[d] = 0
      BY <1>0, <2>2, <3>1 DEF FreshAt
    <3> QED BY <2>2, <3>1, <3>2, <3>3, <3>4 DEF FreshAt
  <2> QED BY <2>1, <2>2
<1>3. ASSUME NEW d \in Device, Disconnect(d) PROVE FreshAt(e)'
  <2>1. CASE e # d
    BY <1>0, <1>3, <2>1, MessagesAssumption, FreshFrame DEF Disconnect, Registered, TypeOK
  <2>2. CASE e = d
    <3>1. /\ state'[d] = "Away" /\ toServer'[d] = <<>> /\ toClient'[d] = <<>>
          /\ connects' = connects /\ lastSync' = lastSync /\ ~Registered(d)'
      BY <1>3, MessagesAssumption DEF Disconnect, TypeOK, Registered
    <3>2. connects[d] # 0
      BY <1>0, <1>3, <2>2 DEF Disconnect, FreshAt
    <3> QED BY <2>2, <3>1, <3>2 DEF FreshAt, AsksAll
  <2> QED BY <2>1, <2>2
<1>4. ASSUME NEW d \in Device, ReceiveConfirm(d) PROVE FreshAt(e)'
  <2>1. CASE e # d
    BY <1>0, <1>4, <2>1, FreshFrame DEF ReceiveConfirm, Registered, TypeOK
  <2>2. CASE e = d
    <3>1. /\ toClient[d] \in Seq(Packet) /\ toClient[d] # <<>> /\ toClient[d][1].type = "Confirm"
          /\ toClient'[d] = Tail(toClient[d]) /\ state'[d] = "Connected"
          /\ connects' = connects /\ lastSync' = lastSync
          /\ toServer'[d] = Append(toServer[d], [type |-> "Sync", from |-> lastSync[d]])
          /\ [type |-> "Sync", from |-> lastSync[d]] \in Request
      BY <1>4, TailElements DEF ReceiveConfirm, TypeOK, Request
    <3>2. state[d] = "ConfirmWait" /\ connects[d] # 0
      <4>1. 1 \in 1..Len(toClient[d])
        BY <3>1, TailElements
      <4> QED BY <1>0, <2>2, <3>1, <4>1 DEF FreshAt
    <3>3. connects[d] <= 1 => AsksAll(d)'
      BY <1>0, <2>2, <3>1, <3>2, AsksAppend DEF FreshAt
    <3>4. \A i \in 1..Len(toClient'[d]) : toClient'[d][i].type # "Confirm"
      <4> TAKE i \in 1..Len(toClient'[d])
      <4>1. i + 1 \in 1..Len(toClient[d]) /\ toClient'[d][i] = toClient[d][i + 1] /\ i + 1 # 1
        BY <3>1, TailElements
      <4> QED BY <1>0, <2>2, <4>1 DEF FreshAt
    <3> QED BY <2>2, <3>1, <3>2, <3>3, <3>4 DEF FreshAt
  <2> QED BY <2>1, <2>2
<1>5. ASSUME NEW d \in Device, NEW f \in Login, SendMessage(d, f) PROVE FreshAt(e)'
  <2>1. CASE e # d
    BY <1>0, <1>5, <2>1, FreshFrame DEF SendMessage, Registered, TypeOK
  <2>2. CASE e = d
    <3> DEFINE r == Sent(d, f)
    <3>1. r \in Request /\ r.type # "Sync" /\ toServer'[d] = Append(toServer[d], r)
      BY <1>5, SentMade
    <3>2. AsksAll(d) => AsksAll(d)'
      BY <3>1, AsksAppend
    <3>3. state[d] = "Connected"
      BY <1>5 DEF SendMessage
    <3> QED BY <1>0, <1>5, <2>2, <3>2, <3>3, FreshExtended DEF SendMessage, Extended
  <2> QED BY <2>1, <2>2
<1>6. ASSUME NEW d \in Device, HandleSend(d) PROVE FreshAt(e)'
  <2>1. PICK q \in Request, mine \in Nat, theirs \in Nat, stray \in SUBSET Strays(log') :
         Handled(d, q, mine, theirs, stray)
    BY <1>6, HandleSendFacts
  <2>2. Extended(e) /\ (toClient'[e] # toClient[e] => Registered(e))
    BY <2>1, SyncNewEffect DEF Handled
  <2>3. (AsksAll(e) => AsksAll(e)') /\ (state[e] = "Away" => toServer'[e] = toServer[e])
    <3>1. CASE e # d
      BY <1>6, <3>1 DEF HandleSend, PopRequest, TypeOK, AsksAll
    <3>2. CASE e = d
      <4>1. toServer[d] # <<>> /\ toServer'[d] = Tail(toServer[d])
        BY <1>6 DEF HandleSend, PopRequest, NextRequest, TypeOK
      <4> QED BY <1>0, <3>2, <4>1, AsksTail DEF FreshAt
    <3> QED BY <3>1, <3>2
  <2> QED BY <1>0, <1>6, <2>2, <2>3, FreshExtended DEF HandleSend
<1>7. ASSUME NEW d \in Device, HandleSync(d) PROVE FreshAt(e)'
  <2> DEFINE r == Head(toServer[d])
             s == byLogin[Owner[d]]
  <2>1. Extended(e) /\ (toClient'[e] # toClient[e] => Registered(e))
    BY <1>7, HandleSyncEffect
  <2>2. (AsksAll(e) => AsksAll(e)') /\ (state[e] = "Away" => toServer'[e] = toServer[e])
    <3>1. CASE e # d
      BY <1>7, <3>1 DEF HandleSync, PopRequest, TypeOK, AsksAll
    <3>2. CASE e = d
      <4>1. toServer[d] # <<>> /\ toServer'[d] = Tail(toServer[d])
        BY <1>7 DEF HandleSync, PopRequest, NextRequest, TypeOK
      <4> QED BY <1>0, <3>2, <4>1, AsksTail DEF FreshAt
    <3> QED BY <3>1, <3>2
  <2> QED BY <1>0, <1>7, <2>1, <2>2, FreshExtended DEF HandleSync
<1>8. ASSUME NEW d \in Device, ReceiveMessages(d) PROVE FreshAt(e)'
  <2>1. CASE e # d
    BY <1>0, <1>8, <2>1, FreshFrame DEF ReceiveMessages, Registered, TypeOK
  <2>2. CASE e = d
    <3>1. /\ toClient[d] \in Seq(Packet) /\ toClient[d] # <<>> /\ toClient[d][1].type # "Confirm"
          /\ toClient'[d] = Tail(toClient[d])
          /\ state' = state /\ connects' = connects /\ toServer' = toServer
          /\ byLogin' = byLogin
      BY <1>8, TailElements DEF ReceiveMessages, TypeOK
    <3>2. state[d] = "Connected"
      BY <1>0, <2>2, <3>1 DEF FreshAt, TypeOK
    <3>3. \A i \in 1..Len(toClient'[d]) : toClient'[d][i].type # "Confirm"
      <4> TAKE i \in 1..Len(toClient'[d])
      <4>1. i + 1 \in 1..Len(toClient[d]) /\ toClient'[d][i] = toClient[d][i + 1] /\ i + 1 # 1
        BY <3>1, TailElements
      <4> QED BY <1>0, <2>2, <4>1 DEF FreshAt
    <3> QED BY <1>0, <2>2, <3>1, <3>2, <3>3 DEF FreshAt, AsksAll
  <2> QED BY <2>1, <2>2
<1> QED BY <1>1, <1>2, <1>3, <1>4, <1>5, <1>6, <1>7, <1>8
    DEF Next, ServerSteps, ClientSteps

-----------------------------------------------------------------------------
(* Keys *)

\* A message under way from d is encrypted with the key its friend chose for d's account.
KeyedAt(d) ==
    \A i \in 1..Len(toServer[d]) :
        toServer[d][i].type = "Send" =>
            toServer[d][i].key = <<toServer[d][i].friend, Owner[d]>>

Keyed ==
    /\ \A d \in Device : KeyedAt(d)
    /\ \A r \in log : KeyOf(r)

LEMMA KeyedInit == Init => Keyed
BY DEF Init, Keyed, KeyedAt

LEMMA KeyedTail ==
    ASSUME TypeOK, NEW d \in Device, KeyedAt(d), toServer[d] # <<>>,
           toServer'[d] = Tail(toServer[d])
    PROVE  KeyedAt(d)'
<1>1. toServer[d] \in Seq(Request)
  BY DEF TypeOK
<1>2. /\ Len(toServer'[d]) = Len(toServer[d]) - 1 /\ Len(toServer[d]) \in Nat \ {0}
      /\ \A i \in 1..Len(toServer'[d]) : toServer'[d][i] = toServer[d][i + 1]
  BY <1>1, TailElements
<1>3. \A i \in 1..Len(toServer'[d]) : i + 1 \in 1..Len(toServer[d])
  BY <1>2
<1> QED BY <1>2, <1>3 DEF KeyedAt

LEMMA KeyedAppend ==
    ASSUME TypeOK, NEW d \in Device, KeyedAt(d), NEW r \in Request,
           toServer'[d] = Append(toServer[d], r),
           r.type = "Send" => r.key = <<r.friend, Owner[d]>>
    PROVE  KeyedAt(d)'
<1>1. toServer[d] \in Seq(Request)
  BY DEF TypeOK
<1>2. /\ Len(toServer'[d]) = Len(toServer[d]) + 1 /\ Len(toServer[d]) \in Nat
      /\ \A i \in 1..Len(toServer[d]) : toServer'[d][i] = toServer[d][i]
      /\ toServer'[d][Len(toServer[d]) + 1] = r
  BY <1>1, AppendElements
<1>3. \A i \in 1..Len(toServer'[d]) : i \in 1..Len(toServer[d]) \/ i = Len(toServer[d]) + 1
  BY <1>2
<1> QED BY <1>2, <1>3 DEF KeyedAt

LEMMA KeyedStep == TypeOK /\ Keyed /\ [Next]_vars => Keyed'
<1> SUFFICES ASSUME TypeOK, Keyed, [Next]_vars PROVE Keyed'
  OBVIOUS
<1>0. \A d \in Device : KeyedAt(d)
  BY DEF Keyed
<1>1. \A d \in Device : toServer'[d] = toServer[d] => KeyedAt(d)'
  BY <1>0 DEF KeyedAt
<1>2. CASE UNCHANGED <<toServer, log>>
  BY <1>1, <1>2 DEF Keyed
<1>3. ASSUME NEW d \in Device, Disconnect(d) PROVE Keyed'
  <2>1. KeyedAt(d)'
    BY <1>3 DEF Disconnect, TypeOK, KeyedAt
  <2>2. \A e \in Device : e # d => toServer'[e] = toServer[e]
    BY <1>3 DEF Disconnect, TypeOK
  <2> QED BY <1>1, <1>3, <2>1, <2>2 DEF Disconnect, Keyed
<1>4. ASSUME NEW d \in Device, ReceiveConfirm(d) PROVE Keyed'
  <2> DEFINE q == [type |-> "Sync", from |-> lastSync[d]]
  <2>1. q \in Request /\ q.type # "Send" /\ toServer'[d] = Append(toServer[d], q)
    BY <1>4 DEF ReceiveConfirm, TypeOK, Request
  <2> HIDE DEF q
  <2>2. KeyedAt(d)'
    BY <1>0, <2>1, KeyedAppend
  <2>3. \A e \in Device : e # d => toServer'[e] = toServer[e]
    BY <1>4 DEF ReceiveConfirm, TypeOK
  <2> QED BY <1>1, <1>4, <2>2, <2>3 DEF ReceiveConfirm, Keyed
<1>5. ASSUME NEW d \in Device, NEW f \in Login, SendMessage(d, f) PROVE Keyed'
  <2>1. KeyedAt(d)'
    BY <1>0, <1>5, SentMade, KeyedAppend
  <2>2. \A e \in Device : e # d => toServer'[e] = toServer[e]
    BY <1>5 DEF SendMessage, TypeOK
  <2> QED BY <1>1, <1>5, <2>1, <2>2 DEF SendMessage, Keyed
<1>6. ASSUME NEW d \in Device, HandleSend(d) PROVE Keyed'
  <2> DEFINE q == Head(toServer[d])
  <2>1. toServer[d] # <<>> /\ toServer'[d] = Tail(toServer[d]) /\ q.type = "Send"
    BY <1>6 DEF HandleSend, NextRequest, PopRequest, TypeOK
  <2>2. KeyedAt(d)'
    BY <1>0, <2>1, KeyedTail
  <2>3. \A e \in Device : e # d => toServer'[e] = toServer[e]
    BY <1>6 DEF HandleSend, PopRequest, TypeOK
  <2>4. q.key = <<q.friend, Owner[d]>>
    <3>1. toServer[d] \in Seq(Request)
      BY DEF TypeOK
    <3>2. 1 \in 1..Len(toServer[d]) /\ q = toServer[d][1]
      BY <2>1, <3>1, TailElements
    <3> QED BY <1>0, <2>1, <3>2 DEF KeyedAt
  <2>5. PICK mine \in Nat : log' = log \cup {Outgoing(Owner[d], q, clock), Incoming(Owner[d], q, mine)}
    BY <1>6, HandleSendHead DEF Handled
  <2> HIDE DEF q
  <2>6. KeyOf(Outgoing(Owner[d], q, clock)) /\ KeyOf(Incoming(Owner[d], q, mine))
    BY <2>4 DEF KeyOf, Outgoing, Incoming
  <2>7. \A r \in log' : KeyOf(r)
    BY <2>5, <2>6 DEF Keyed
  <2> QED BY <1>1, <2>2, <2>3, <2>7 DEF Keyed
<1>7. ASSUME NEW d \in Device, HandleSync(d) PROVE Keyed'
  <2>1. toServer[d] # <<>> /\ toServer'[d] = Tail(toServer[d])
    BY <1>7 DEF HandleSync, NextRequest, PopRequest, TypeOK
  <2>2. KeyedAt(d)'
    BY <1>0, <2>1, KeyedTail
  <2>3. \A e \in Device : e # d => toServer'[e] = toServer[e]
    BY <1>7 DEF HandleSync, PopRequest, TypeOK
  <2> QED BY <1>1, <1>7, <2>2, <2>3 DEF HandleSync, Keyed
<1> QED BY <1>2, <1>3, <1>4, <1>5, <1>6, <1>7
    DEF Next, ServerSteps, ClientSteps, vars, Authorize, ReceiveMessages

-----------------------------------------------------------------------------
(* No message is missed *)

\* A message that is with a registered device stays with it.
LEMMA WithStep ==
    ASSUME TypeOK, Owned, Fresh, [Next]_vars, NEW d \in Device, NEW m,
           Registered(d), Registered(d)', With(m, d)
    PROVE  With(m, d)'
<1>0. state[d] # "Away"
  BY DEF Fresh, FreshAt
<1>1. CASE UNCHANGED <<shown, toClient>>
  BY <1>1 DEF With
<1>2. ASSUME NEW e \in Device, Authorize(e) PROVE With(m, d)'
  BY <1>0, <1>2 DEF Authorize, With, TypeOK
<1>3. ASSUME NEW e \in Device, Disconnect(e) PROVE With(m, d)'
  <2>1. e # d
    BY <1>3, MessagesAssumption DEF Disconnect, Registered, TypeOK
  <2> QED BY <1>3, <2>1 DEF Disconnect, With, TypeOK
<1>4. ASSUME NEW e \in Device, NEW f \in Login, SendMessage(e, f) PROVE With(m, d)'
  <2>1. toClient' = toClient /\ shown[d] \subseteq shown'[d]
    BY <1>4 DEF SendMessage, TypeOK
  <2> QED BY <2>1 DEF With
<1>5. ASSUME NEW e \in Device, HandleSend(e) PROVE With(m, d)'
  <2>1. PICK q \in Request, mine \in Nat, theirs \in Nat, stray \in SUBSET Strays(log') :
         Handled(e, q, mine, theirs, stray)
    BY <1>5, HandleSendFacts
  <2>2. Extended(d)
    BY <2>1, SyncNewEffect DEF Handled
  <2> QED BY <1>5, <2>2, WithAppended DEF HandleSend
<1>6. ASSUME NEW e \in Device, HandleSync(e) PROVE With(m, d)'
  BY <1>6, HandleSyncEffect, WithAppended DEF HandleSync
<1> QED BY <1>1, <1>2, <1>3, <1>4, <1>5, <1>6, WithConfirmed, WithReceived
    DEF Next, ServerSteps, ClientSteps, vars

\* When a message is handled, what a registered session has before its new
\* SessionLastSync was before the old one or is with the device now.
LEMMA WindowsMeet ==
    ASSUME TypeOK, Times, Keyed', NEW e \in Device, HandleSend(e),
           NEW d \in Device, Registered(d), NEW r \in log',
           r.login = Owner[d], r.date < sessionSync'[d]
    PROVE  (r \in log /\ r.date < sessionSync[d]) \/ With(r.message, d)'
<1>1. PICK q \in Request, mine \in Nat, theirs \in Nat, stray \in SUBSET Strays(log') :
         Handled(e, q, mine, theirs, stray)
  BY HandleSendFacts
<1> DEFINE now == Now(e, q.friend, mine, theirs)
           S == {Owner[e], q.friend}
<1>2. sessionSync[d] \in Nat /\ sessionSync[d] <= clock /\ clock \in Nat
  BY DEF TypeOK, Times
<1>3. r.date \in Nat /\ (r \in log \/ (clock <= r.date /\ r.login \in S))
  <2>1. r.date \in Nat
    BY <1>1 DEF Handled, Record
  <2>2. r \in log \/ r = Outgoing(Owner[e], q, clock) \/ r = Incoming(Owner[e], q, mine)
    BY <1>1 DEF Handled
  <2>3. clock <= mine
    BY <1>1 DEF Handled
  <2> QED BY <1>2, <2>1, <2>2, <2>3 DEF Outgoing, Incoming
<1>4. SUFFICES ASSUME ~(r \in log /\ r.date < sessionSync[d]) PROVE With(r.message, d)'
  OBVIOUS
<1>5. CASE Owner[d] \in S
  <2>1. /\ toClient'[d] = Synced(d, log', sessionSync[d], now[Owner[d]], stray)
        /\ sessionSync'[d] = now[Owner[d]]
        /\ sessionSync[d] \in Upto /\ now[Owner[d]] \in Upto
    BY <1>1, <1>5, SyncNewEffect DEF Handled
  <2>2. sessionSync[d] <= r.date
    BY <1>2, <1>3, <1>4
  <2>3. Within(r.date, sessionSync[d], now[Owner[d]])
    <3>1. now[Owner[d]] \in Nat
      BY <1>1, <1>5 DEF Handled
    <3>2. now[Owner[d]] # Forever /\ sessionSync[d] # Forever
      BY <1>2, <3>1, MessagesAssumption
    <3>3. r.date < now[Owner[d]]
      BY <2>1
    <3> HIDE DEF now
    <3> QED BY <2>2, <3>2, <3>3 DEF Within
  <2>4. log' \in SUBSET Record /\ KeyOf(r)
    BY <1>1 DEF Handled, Keyed
  <2> HIDE DEF now
  <2> QED BY <2>1, <2>3, <2>4, SyncedHas
<1>6. CASE Owner[d] \notin S
  <2>1. sessionSync'[d] = sessionSync[d]
    BY <1>1, <1>6, SyncNewEffect DEF Handled
  <2> QED BY <1>3, <1>4, <1>6, <2>1
<1> QED BY <1>5, <1>6

LEMMA SessionStep ==
    TypeOK /\ Owned /\ Times /\ Fresh /\ Keyed' /\ SessionComplete /\ [Next]_vars
      => SessionComplete'
<1> SUFFICES ASSUME TypeOK, Owned, Times, Fresh, Keyed', SessionComplete, [Next]_vars,
                    NEW d \in Device, Registered(d)', NEW r \in log',
                    r.login = Owner[d], began'[d] <= r.date, r.date < sessionSync'[d]
             PROVE  With(r.message, d)'
  BY DEF SessionComplete
<1>1. ASSUME Registered(d), r \in log, began[d] <= r.date, r.date < sessionSync[d]
      PROVE  With(r.message, d)'
  BY <1>1, WithStep DEF SessionComplete
<1>2. ASSUME NEW e \in Device, Authorize(e) PROVE With(r.message, d)'
  <2>1. CASE e = d
    <3>1. began'[d] = clock /\ sessionSync'[d] = clock /\ clock \in Nat /\ log' = log
      BY <1>2, <2>1 DEF Authorize, TypeOK
    <3>2. r.date \in Nat
      BY <3>1 DEF TypeOK, Record
    <3> QED BY <3>1, <3>2
  <2>2. CASE e # d
    <3>1. Registered(d)
      BY <1>2, <2>2 DEF Authorize, Registered, TypeOK
    <3>2. began'[d] = began[d] /\ sessionSync'[d] = sessionSync[d] /\ log' = log
      BY <1>2, <2>2 DEF Authorize, TypeOK
    <3> QED BY <1>1, <3>1, <3>2
  <2> QED BY <2>1, <2>2
<1>3. ASSUME NEW e \in Device, Disconnect(e) PROVE With(r.message, d)'
  <2>1. Registered(d)
    BY <1>3, MessagesAssumption DEF Disconnect, Registered, TypeOK
  <2> QED BY <1>1, <1>3, <2>1 DEF Disconnect
<1>4. ASSUME NEW e \in Device, HandleSend(e) PROVE With(r.message, d)'
  <2>1. Registered(d) /\ began' = began
    BY <1>4 DEF HandleSend, Registered
  <2> QED BY <1>1, <1>4, <2>1, WindowsMeet
<1>5. CASE UNCHANGED <<log, byLogin, began, sessionSync>>
  BY <1>1, <1>5 DEF Registered
<1> QED BY <1>2, <1>3, <1>4, <1>5 DEF Next, ServerSteps, ClientSteps, vars, ReceiveConfirm,
           SendMessage, HandleSync, ReceiveMessages

LEMMA FirstSyncStep ==
    TypeOK /\ Owned /\ Times /\ Fresh /\ Keyed' /\ SessionComplete /\ FirstSyncComplete
      /\ [Next]_vars => FirstSyncComplete'
<1> SUFFICES ASSUME TypeOK, Owned, Times, Fresh, Keyed', SessionComplete, FirstSyncComplete,
                    [Next]_vars,
                    NEW d \in Device, Answered(d)', connects'[d] = 1, NEW r \in log',
                    r.login = Owner[d], r.date < sessionSync'[d],
                    r.date < Ceiling \/ began'[d] <= r.date
             PROVE  With(r.message, d)'
  BY DEF FirstSyncComplete, Due
<1>0. Registered(d)' /\ state'[d] = "Connected"
        /\ \A i \in 1..Len(toServer'[d]) : toServer'[d][i].type # "Sync"
  BY DEF Answered
<1>1. ASSUME Answered(d), connects[d] = 1, r \in log, r.date < sessionSync[d],
             began'[d] = began[d]
      PROVE  With(r.message, d)'
  BY <1>0, <1>1, WithStep DEF FirstSyncComplete, Due, Answered
<1>2. ASSUME NEW e \in Device, Authorize(e) PROVE With(r.message, d)'
  <2>1. e # d
    BY <1>0, <1>2 DEF Authorize, TypeOK
  <2>2. Answered(d)
    BY <1>0, <1>2, <2>1 DEF Authorize, Registered, Answered, TypeOK
  <2> QED BY <1>1, <1>2, <2>1, <2>2 DEF Authorize, TypeOK
<1>3. ASSUME NEW e \in Device, Disconnect(e) PROVE With(r.message, d)'
  <2>1. e # d
    BY <1>0, <1>3 DEF Disconnect, TypeOK
  <2>2. Answered(d)
    BY <1>0, <1>3, <2>1, MessagesAssumption DEF Disconnect, Registered, Answered, TypeOK
  <2> QED BY <1>1, <1>3, <2>2 DEF Disconnect
<1>4. ASSUME NEW e \in Device, ReceiveConfirm(e) PROVE With(r.message, d)'
  <2>1. CASE e = d
    <3> DEFINE q == [type |-> "Sync", from |-> lastSync[d]]
    <3>1. toServer[d] \in Seq(Request) /\ q \in Request /\ toServer'[d] = Append(toServer[d], q)
      BY <1>4, <2>1 DEF ReceiveConfirm, TypeOK, Request
    <3>2. /\ Len(toServer[d]) + 1 \in 1..Len(toServer'[d])
          /\ toServer'[d][Len(toServer[d]) + 1] = q
      BY <3>1, AppendElements
    <3> QED BY <1>0, <3>2
  <2>2. CASE e # d
    <3>1. Answered(d)
      BY <1>0, <1>4, <2>2 DEF ReceiveConfirm, Registered, Answered, TypeOK
    <3> QED BY <1>1, <1>4, <3>1 DEF ReceiveConfirm
  <2> QED BY <2>1, <2>2
<1>5. ASSUME NEW e \in Device, NEW f \in Login, SendMessage(e, f) PROVE With(r.message, d)'
  <2>1. \A i \in 1..Len(toServer[d]) : toServer[d][i].type # "Sync"
    <3>1. CASE e # d
      BY <1>0, <1>5, <3>1 DEF SendMessage, TypeOK
    <3>2. CASE e = d
      <4> DEFINE q == Sent(d, f)
      <4>1. q \in Request /\ toServer'[d] = Append(toServer[d], q) /\ toServer[d] \in Seq(Request)
        BY <1>5, <3>2, SentMade DEF TypeOK
      <4>2. /\ \A i \in 1..Len(toServer[d]) : toServer'[d][i] = toServer[d][i]
            /\ Len(toServer'[d]) = Len(toServer[d]) + 1 /\ Len(toServer[d]) \in Nat
        BY <4>1, AppendElements
      <4> QED BY <1>0, <4>2
    <3> QED BY <3>1, <3>2
  <2> QED BY <1>0, <1>1, <1>5, <2>1 DEF SendMessage, Answered, Registered
<1>6. ASSUME NEW e \in Device, HandleSend(e) PROVE With(r.message, d)'
  <2>1. \A i \in 1..Len(toServer[d]) : toServer[d][i].type # "Sync"
    <3>1. CASE e # d
      BY <1>0, <1>6, <3>1 DEF HandleSend, PopRequest, TypeOK
    <3>2. CASE e = d
      <4>1. /\ toServer[d] \in Seq(Request) /\ toServer[d] # <<>>
            /\ toServer[d][1].type = "Send" /\ toServer'[d] = Tail(toServer[d])
        BY <1>6, <3>2, TailElements DEF HandleSend, PopRequest, NextRequest, TypeOK
      <4>2. /\ Len(toServer'[d]) = Len(toServer[d]) - 1 /\ Len(toServer[d]) \in Nat
            /\ \A i \in 1..Len(toServer'[d]) : toServer'[d][i] = toServer[d][i + 1]
        BY <4>1, TailElements
      <4> TAKE i \in 1..Len(toServer[d])
      <4>3. CASE i = 1
        BY <4>1, <4>3
      <4>4. CASE i # 1
        <5>1. i - 1 \in 1..Len(toServer'[d]) /\ toServer'[d][i - 1] = toServer[d][i]
          BY <4>2, <4>4
        <5> QED BY <1>0, <5>1
      <4> QED BY <4>3, <4>4
    <3> QED BY <3>1, <3>2
  <2>2. Answered(d) /\ Registered(d) /\ connects[d] = 1 /\ began' = began
    BY <1>0, <1>6, <2>1 DEF HandleSend, Answered, Registered
  <2>3. (r \in log /\ r.date < sessionSync[d]) \/ With(r.message, d)'
    BY <1>6, <2>2, WindowsMeet
  <2> QED BY <1>1, <2>2, <2>3
<1>7. ASSUME NEW e \in Device, HandleSync(e) PROVE With(r.message, d)'
  <2>1. Registered(d) /\ connects[d] = 1 /\ r \in log /\ r.date < sessionSync[d]
          /\ began' = began
    BY <1>0, <1>7 DEF HandleSync, Registered
  <2>2. CASE e = d
    <3>1. Head(toServer[d]).type = "Sync" /\ toServer[d] # <<>> /\ toServer[d] \in Seq(Request)
      BY <1>7, <2>2 DEF HandleSync, NextRequest, TypeOK
    <3>2. Head(toServer[d]).from = 0
      <4>1. Head(toServer[d]) = toServer[d][1] /\ 1 \in 1..Len(toServer[d])
        BY <3>1, TailElements
      <4>2. AsksAll(d)
        BY <2>1 DEF Fresh, FreshAt
      <4> QED BY <3>1, <4>1, <4>2 DEF AsksAll
    <3>3. CASE r.date < Ceiling
      <4>1. Within(r.date, 0, Forever)
        <5>1. r.date \in Nat
          BY <2>1 DEF TypeOK, Record
        <5> QED BY <3>3, <5>1, MessagesAssumption DEF Within
      <4>2. PICK stray : toClient'[d] = Synced(d, log, 0, Forever, stray)
        BY <1>7, <2>1, <2>2, <3>2, HandleSyncEffect
      <4>3. 0 \in Upto /\ Forever \in Upto /\ log \in SUBSET Record
        BY DEF Upto, TypeOK
      <4>4. KeyOf(r)
        BY <1>7, <2>1 DEF HandleSync, Keyed
      <4> QED BY <2>1, <4>1, <4>2, <4>3, <4>4, SyncedHas
    <3>4. CASE began[d] <= r.date
      <4>1. With(r.message, d)
        BY <2>1, <3>4 DEF SessionComplete
      <4> QED BY <1>0, <2>1, <4>1, WithStep
    <3> QED BY <2>1, <3>3, <3>4
  <2>3. CASE e # d
    <3>1. Answered(d)
      BY <1>0, <1>7, <2>1, <2>3 DEF HandleSync, PopRequest, Answered, TypeOK
    <3> QED BY <1>1, <2>1, <3>1
  <2> QED BY <2>2, <2>3
<1>8. CASE UNCHANGED <<log, byLogin, connects, sessionSync, state, toServer, began>>
  BY <1>0, <1>1, <1>8 DEF Answered, Registered
<1> QED BY <1>2, <1>3, <1>4, <1>5, <1>6, <1>7, <1>8
    DEF Next, ServerSteps, ClientSteps, vars, ReceiveMessages

-----------------------------------------------------------------------------
(* Theorems *)

LEMMA SupportInvariant == Spec => [](TypeOK /\ Owned /\ Times /\ Fresh /\ Keyed)
<1>1. Init => Owned /\ Times /\ Fresh /\ Keyed
  BY OwnedInit, TimesInit, FreshInit, KeyedInit
<1>2. TypeOK /\ Owned /\ Times /\ Fresh /\ Keyed /\ [Next]_vars
        => (Owned /\ Times /\ Fresh /\ Keyed)'
  BY OwnedStep, TimesStep, FreshStep, KeyedStep
<1> QED BY <1>1, <1>2, TypeCorrect, PTL DEF Spec

\* No message falls between the windows of two calls of SyncNewMessages: what is
\* stored for an account during a session is pushed to it.
THEOREM PushesComplete == Spec => []SessionComplete
<1>1. Init => SessionComplete
  BY DEF Init, SessionComplete
<1>2. TypeOK /\ Owned /\ Times /\ Fresh /\ Keyed' /\ SessionComplete /\ [Next]_vars
        => SessionComplete'
  BY SessionStep
<1> QED BY <1>1, <1>2, SupportInvariant, PTL DEF Spec

\* A device that connects for the first time gets all messages of its account, in
\* whatever order the answer to its request and new messages arrive.
THEOREM FirstConnectionComplete == Spec => []FirstSyncComplete
<1>1. Init => FirstSyncComplete
  BY DEF Init, FirstSyncComplete
<1>2. TypeOK /\ Owned /\ Times /\ Fresh /\ Keyed' /\ SessionComplete /\ FirstSyncComplete
        /\ [Next]_vars => FirstSyncComplete'
  BY FirstSyncStep
<1> QED BY <1>1, <1>2, SupportInvariant, PushesComplete, PTL DEF Spec

-----------------------------------------------------------------------------
(* VocalMessages implements MessageLog *)

\* The messages of d on their way to the server.
Sends(d) == {i \in 1..Len(toServer[d]) : toServer[d][i].type = "Send"}

Logged(m) == \E r \in log : r.message = m

\* Messages are numbered in the order they are written.
Numbered ==
    /\ written <= MaxMessages
    /\ \A d \in Device : shown[d] \subseteq 1..written
    /\ \A r \in log : r.message \in 1..written

\* A message under way to the server was shown by its author, is for someone else and is
\* not stored yet; it is under way once.
Pending ==
    /\ \A d \in Device : \A i \in Sends(d) :
         /\ toServer[d][i].friend # Owner[d]
         /\ toServer[d][i].message \in shown[d]
         /\ ~Logged(toServer[d][i].message)
    /\ \A d, e \in Device : \A i \in Sends(d), j \in Sends(e) :
         toServer[d][i].message = toServer[e][j].message => d = e /\ i = j

\* What a device can read of the packets under way to it is posted to its account.
AddressedAt(d) ==
    \A i \in 1..Len(toClient[d]) : toClient[d][i].type = "Messages" =>
        \A m \in ShownOf(d, toClient[d][i]) : <<m, Owner[d]>> \in Posted

Addressed == \A d \in Device : AddressedAt(d)

Traced == Numbered /\ Pending /\ Addressed

LEMMA TracedInit == Init => Traced
BY MessagesAssumption DEF Init, Traced, Numbered, Pending, Addressed, AddressedAt, Sends

\* The messages under way from d were under way before, k places further back.
Moved(d, k) ==
    \A i \in Sends(d)' : i + k \in Sends(d) /\ toServer'[d][i] = toServer[d][i + k]

LEMMA MovedTail ==
    ASSUME TypeOK, NEW d \in Device, toServer[d] # <<>>, toServer'[d] = Tail(toServer[d])
    PROVE  Moved(d, 1)
<1>1. toServer[d] \in Seq(Request)
  BY DEF TypeOK
<1>2. /\ Len(toServer'[d]) = Len(toServer[d]) - 1 /\ Len(toServer[d]) \in Nat \ {0}
      /\ \A i \in 1..Len(toServer'[d]) : toServer'[d][i] = toServer[d][i + 1]
  BY <1>1, TailElements
<1>3. \A i \in 1..Len(toServer'[d]) : i + 1 \in 1..Len(toServer[d])
  BY <1>2
<1> QED BY <1>2, <1>3 DEF Moved, Sends

LEMMA MovedSame ==
    ASSUME NEW d \in Device, toServer'[d] = toServer[d]
    PROVE  Moved(d, 0)
BY DEF Moved, Sends

\* Pending holds when messages only move and the store stays.
LEMMA PendingMoved ==
    ASSUME TypeOK, Pending, log' = log,
           \A d \in Device : shown[d] \subseteq shown'[d] /\ \E k \in Nat : Moved(d, k)
    PROVE  Pending'
<1>1. \A d \in Device : \A i \in Sends(d)' : i \in Nat
  BY DEF Sends
<1>2. ASSUME NEW d \in Device, NEW i \in Sends(d)'
      PROVE  /\ toServer'[d][i].friend # Owner[d]
             /\ toServer'[d][i].message \in shown'[d]
             /\ ~Logged(toServer[d][i].message)'
  <2>1. PICK k \in Nat : Moved(d, k)
    OBVIOUS
  <2>2. i + k \in Sends(d) /\ toServer'[d][i] = toServer[d][i + k]
    BY <1>2, <2>1 DEF Moved
  <2> QED BY <2>2 DEF Pending, Logged
<1>3. ASSUME NEW d \in Device, NEW e \in Device, NEW i \in Sends(d)', NEW j \in Sends(e)',
             toServer'[d][i].message = toServer'[e][j].message
      PROVE  d = e /\ i = j
  <2>1. PICK k \in Nat : Moved(d, k)
    OBVIOUS
  <2>2. PICK n \in Nat : Moved(e, n) /\ (d = e => n = k)
    BY <2>1
  <2>3. /\ i + k \in Sends(d) /\ toServer'[d][i] = toServer[d][i + k]
        /\ j + n \in Sends(e) /\ toServer'[e][j] = toServer[e][j + n]
    BY <1>3, <2>1, <2>2 DEF Moved
  <2>4. d = e /\ i + k = j + n
    BY <1>3, <2>3 DEF Pending
  <2> QED BY <1>1, <1>3, <2>2, <2>4
<1> QED BY <1>2, <1>3 DEF Pending

\* What is addressed stays so when a packet is taken and nothing is unposted.
LEMMA AddressedKept ==
    ASSUME TypeOK, NEW d \in Device, AddressedAt(d), log \subseteq log',
           toClient'[d] = toClient[d] \/ toClient'[d] = <<>>
             \/ (toClient[d] # <<>> /\ toClient'[d] = Tail(toClient[d]))
             \/ toClient'[d] = <<[type |-> "Confirm"]>>
    PROVE  AddressedAt(d)'
<1>1. Posted \subseteq Posted'
  BY DEF Posted
<1>2. CASE toClient'[d] = toClient[d]
  BY <1>1, <1>2 DEF AddressedAt
<1>3. CASE toClient'[d] = <<>>
  BY <1>3 DEF AddressedAt
<1>4. CASE toClient[d] # <<>> /\ toClient'[d] = Tail(toClient[d])
  <2>1. toClient[d] \in Seq(Packet)
    BY DEF TypeOK
  <2>2. /\ Len(toClient'[d]) = Len(toClient[d]) - 1 /\ Len(toClient[d]) \in Nat \ {0}
        /\ \A i \in 1..Len(toClient'[d]) : toClient'[d][i] = toClient[d][i + 1]
    BY <1>4, <2>1, TailElements
  <2>3. \A i \in 1..Len(toClient'[d]) : i + 1 \in 1..Len(toClient[d])
    BY <2>2
  <2> QED BY <1>1, <2>2, <2>3 DEF AddressedAt
<1>5. CASE toClient'[d] = <<[type |-> "Confirm"]>>
  <2>1. \A i \in 1..Len(toClient'[d]) : toClient'[d][i].type = "Confirm"
    BY <1>5
  <2> QED BY <2>1 DEF AddressedAt
<1> QED BY <1>2, <1>3, <1>4, <1>5

\* Of a packet that Synced makes a device can read what is posted to its account only:
\* the keys of another account's records do not fit.
LEMMA AddressedSynced ==
    ASSUME TypeOK, NEW d \in Device, AddressedAt(d), log \subseteq log', log' \subseteq Record,
           Keyed', NEW from \in Upto, NEW to \in Upto, NEW stray,
           toClient'[d] = Synced(d, log', from, to, stray)
    PROVE  AddressedAt(d)'
<1> DEFINE messages == GetMessages(log', Owner[d], from, to, stray)
           packet == [type |-> "Messages", messages |-> messages, to |-> to]
<1>1. CASE messages = {}
  BY <1>1, AddressedKept DEF Synced
<1>2. CASE messages # {}
  <2>1. toClient'[d] = Append(toClient[d], packet)
    BY <1>2 DEF Synced
  <2>2. packet \in Packet
    BY SyncedType DEF Packet
  <2>3. packet.messages = messages
    OBVIOUS
  <2>4. \A m \in ShownOf(d, packet) : <<m, Owner[d]>> \in Posted'
    <3> SUFFICES ASSUME NEW r \in log', Readable(d, Directed(r))
                 PROVE  <<Directed(r).message, Owner[d]>> \in Posted'
      <4>1. \A m \in messages : \E r \in log' : m = Directed(r)
        BY DEF GetMessages
      <4> HIDE DEF packet, messages
      <4> QED BY <2>3, <4>1 DEF ShownOf
    <3>1. /\ Directed(r).message = r.message /\ Directed(r).friend = r.friend
          /\ Directed(r).incoming = r.incoming /\ Directed(r).key = r.key
      BY DirectedType
    <3>2. r.login = Owner[d]
      <4>1. KeyOf(r)
        BY DEF Keyed
      <4>2. r.key = IF r.incoming THEN <<Owner[d], r.friend>> ELSE <<r.friend, Owner[d]>>
        BY <3>1 DEF Readable
      <4> QED BY <4>1, <4>2 DEF KeyOf
    <3> QED BY <3>1, <3>2 DEF Posted
  <2> HIDE DEF packet, messages
  <2>5. toClient[d] \in Seq(Packet)
    BY DEF TypeOK
  <2>6. /\ Len(toClient'[d]) = Len(toClient[d]) + 1 /\ Len(toClient[d]) \in Nat
        /\ \A i \in 1..Len(toClient[d]) : toClient'[d][i] = toClient[d][i]
        /\ toClient'[d][Len(toClient[d]) + 1] = packet
    BY <2>1, <2>2, <2>5, AppendElements
  <2>7. Posted \subseteq Posted'
    BY DEF Posted
  <2>8. \A i \in 1..Len(toClient'[d]) : i \in 1..Len(toClient[d]) \/ i = Len(toClient[d]) + 1
    BY <2>6
  <2> QED BY <2>4, <2>6, <2>7, <2>8 DEF AddressedAt
<1> QED BY <1>1, <1>2

-----------------------------------------------------------------------------
(* Traced, action by action *)

LEMMA TracedAuthorize ==
    ASSUME TypeOK, Traced, NEW d \in Device, Authorize(d)
    PROVE  Traced'
<1>1. Numbered'
  BY DEF Authorize, Traced, Numbered
<1>2. Pending'
  <2>1. \A e \in Device : Moved(e, 0) /\ shown[e] \subseteq shown'[e]
    BY MovedSame DEF Authorize
  <2> QED BY <2>1, PendingMoved DEF Authorize, Traced
<1>3. Addressed'
  <2> SUFFICES ASSUME NEW e \in Device PROVE AddressedAt(e)'
    BY DEF Addressed
  <2>1. toClient'[e] = toClient[e] \/ toClient'[e] = <<[type |-> "Confirm"]>>
    BY DEF Authorize, TypeOK
  <2> QED BY <2>1, AddressedKept DEF Authorize, Traced, Addressed
<1> QED BY <1>1, <1>2, <1>3 DEF Traced

LEMMA TracedConfirm ==
    ASSUME TypeOK, Traced, NEW d \in Device, ReceiveConfirm(d)
    PROVE  Traced'
<1>1. Numbered'
  BY DEF ReceiveConfirm, Traced, Numbered
<1>2. Pending'
  <2>1. ASSUME NEW e \in Device PROVE Moved(e, 0)
    <3>1. CASE e # d
      BY <3>1, MovedSame DEF ReceiveConfirm, TypeOK
    <3>2. CASE e = d
      <4> DEFINE q == [type |-> "Sync", from |-> lastSync[d]]
      <4>1. toServer[d] \in Seq(Request) /\ q \in Request /\ toServer'[d] = Append(toServer[d], q)
        BY DEF ReceiveConfirm, TypeOK, Request
      <4>2. q.type = "Sync"
        OBVIOUS
      <4> HIDE DEF q
      <4>3. /\ Len(toServer'[d]) = Len(toServer[d]) + 1 /\ Len(toServer[d]) \in Nat
            /\ \A i \in 1..Len(toServer[d]) : toServer'[d][i] = toServer[d][i]
            /\ toServer'[d][Len(toServer[d]) + 1] = q
        BY <4>1, AppendElements
      <4>4. \A i \in 1..Len(toServer'[d]) :
               i + 0 = i /\ (i \in 1..Len(toServer[d]) \/ i = Len(toServer[d]) + 1)
        BY <4>3
      <4> QED BY <3>2, <4>2, <4>3, <4>4 DEF Moved, Sends
    <3> QED BY <3>1, <3>2
  <2> QED BY <2>1, PendingMoved DEF ReceiveConfirm, Traced
<1>3. Addressed'
  <2> SUFFICES ASSUME NEW e \in Device PROVE AddressedAt(e)'
    BY DEF Addressed
  <2>1. toClient'[e] = toClient[e] \/ (toClient[e] # <<>> /\ toClient'[e] = Tail(toClient[e]))
    BY DEF ReceiveConfirm, TypeOK
  <2> QED BY <2>1, AddressedKept DEF ReceiveConfirm, Traced, Addressed
<1> QED BY <1>1, <1>2, <1>3 DEF Traced

LEMMA TracedDisconnect ==
    ASSUME TypeOK, Traced, NEW d \in Device, Disconnect(d)
    PROVE  Traced'
<1>1. Numbered'
  BY DEF Disconnect, Traced, Numbered
<1>2. Pending'
  <2>1. ASSUME NEW e \in Device PROVE Moved(e, 0)
    <3>1. CASE e # d
      BY <3>1, MovedSame DEF Disconnect, TypeOK
    <3>2. CASE e = d
      BY <3>2 DEF Disconnect, TypeOK, Moved, Sends
    <3> QED BY <3>1, <3>2
  <2> QED BY <2>1, PendingMoved DEF Disconnect, Traced
<1>3. Addressed'
  <2> SUFFICES ASSUME NEW e \in Device PROVE AddressedAt(e)'
    BY DEF Addressed
  <2>1. toClient'[e] = toClient[e] \/ toClient'[e] = <<>>
    BY DEF Disconnect, TypeOK
  <2> QED BY <2>1, AddressedKept DEF Disconnect, Traced, Addressed
<1> QED BY <1>1, <1>2, <1>3 DEF Traced

LEMMA TracedSend ==
    ASSUME TypeOK, Traced, NEW d \in Device, NEW f \in Login, SendMessage(d, f)
    PROVE  Traced'
<1> DEFINE q == Sent(d, f)
<1>1. /\ written \in Nat /\ written' = written + 1 /\ written' <= MaxMessages
      /\ MaxMessages \in Nat
  BY MessagesAssumption DEF SendMessage, TypeOK
<1>2. \A e \in Device : shown'[e] = IF e = d THEN shown[e] \cup {written'} ELSE shown[e]
  BY DEF SendMessage, TypeOK
<1>3. Numbered'
  BY <1>1, <1>2 DEF SendMessage, Traced, Numbered
<1>4. ~Logged(written') /\ \A e \in Device : written' \notin shown[e]
  BY <1>1 DEF Traced, Numbered, Logged
<1>5. \A e \in Device : e # d => toServer'[e] = toServer[e]
  BY DEF SendMessage, TypeOK
<1>6. /\ Len(toServer'[d]) = Len(toServer[d]) + 1 /\ Len(toServer[d]) \in Nat
      /\ \A i \in 1..Len(toServer[d]) : toServer'[d][i] = toServer[d][i]
      /\ toServer'[d][Len(toServer[d]) + 1] = q
  <2>1. toServer[d] \in Seq(Request) /\ q \in Request /\ toServer'[d] = Append(toServer[d], q)
    BY SentMade DEF TypeOK
  <2> HIDE DEF q
  <2> QED BY <2>1, AppendElements
<1> DEFINE new == Len(toServer[d]) + 1
<1>7. ASSUME NEW e \in Device, NEW i \in Sends(e)'
      PROVE  \/ /\ e = d /\ i = new /\ toServer'[e][i] = q
             \/ /\ i \in Sends(e) /\ toServer'[e][i] = toServer[e][i]
                /\ toServer[e][i].message # written'
  <2>1. (i \in Sends(e) /\ toServer'[e][i] = toServer[e][i])
          \/ (e = d /\ i = new /\ toServer'[e][i] = q)
    <3>1. CASE e # d
      BY <1>5, <1>7, <3>1 DEF Sends
    <3>2. CASE e = d
      <4>1. i \in 1..Len(toServer[d]) \/ i = new
        BY <1>6, <1>7, <3>2 DEF Sends
      <4> QED BY <1>6, <1>7, <3>2, <4>1 DEF Sends
    <3> QED BY <3>1, <3>2
  <2>2. i \in Sends(e) => toServer[e][i].message \in shown[e]
    BY DEF Traced, Pending
  <2> QED BY <1>4, <2>1, <2>2
<1>8. Pending'
  <2> HIDE DEF new
  <2>1. ASSUME NEW e \in Device, NEW i \in Sends(e)'
        PROVE  /\ toServer'[e][i].friend # Owner[e]
               /\ toServer'[e][i].message \in shown'[e]
               /\ ~Logged(toServer[e][i].message)'
    <3>0. log' = log /\ f # Owner[d] /\ q.friend = f /\ q.message = written'
      BY SentMade DEF SendMessage
    <3>1. CASE e = d /\ i = new /\ toServer'[e][i] = q
      <4>1. toServer'[e][i].friend = f /\ toServer'[e][i].message = written + 1
        BY <1>1, <3>0, <3>1
      <4>2. written + 1 \in shown'[e] /\ \A r \in log : r.message # written + 1
        BY <1>1, <1>2, <1>4, <3>1 DEF Logged
      <4> QED BY <3>0, <3>1, <4>1, <4>2 DEF Logged
    <3>2. CASE i \in Sends(e) /\ toServer'[e][i] = toServer[e][i]
      <4>1. /\ toServer[e][i].friend # Owner[e] /\ toServer[e][i].message \in shown[e]
            /\ ~Logged(toServer[e][i].message)
        BY <3>2 DEF Traced, Pending
      <4>2. shown[e] \subseteq shown'[e]
        BY <1>2
      <4> QED BY <3>0, <3>2, <4>1, <4>2 DEF Logged
    <3> QED BY <1>7, <2>1, <3>1, <3>2
  <2>2. ASSUME NEW e \in Device, NEW g \in Device, NEW i \in Sends(e)', NEW j \in Sends(g)',
               toServer'[e][i].message = toServer'[g][j].message
        PROVE  e = g /\ i = j
    <3>1. CASE i \in Sends(e) /\ j \in Sends(g) /\ toServer'[e][i] = toServer[e][i]
                 /\ toServer'[g][j] = toServer[g][j]
      BY <2>2, <3>1 DEF Traced, Pending
    <3>2. q.message = written'
      BY SentMade
    <3> HIDE DEF q
    <3> QED BY <1>7, <2>2, <3>1, <3>2
  <2> QED BY <2>1, <2>2 DEF Pending
<1>9. Addressed'
  BY AddressedKept DEF SendMessage, Traced, Addressed
<1> QED BY <1>3, <1>8, <1>9 DEF Traced

\* What handling a message posts.
LEMMA HandleSendPosts ==
    ASSUME TypeOK, Traced, NEW d \in Device, HandleSend(d)
    PROVE  \E m \in Nat, f \in Login :
             /\ 1 \in Sends(d) /\ toServer[d][1].message = m /\ toServer[d][1].friend = f
             /\ m \in shown[d] /\ f # Owner[d] /\ ~Logged(m) /\ log \subseteq log'
             /\ Posted' = Posted \cup {<<m, Owner[d]>>, <<m, f>>}
             /\ \A r \in log' : r \in log \/ r.message = m
<1> DEFINE m == Head(toServer[d]).message
           f == Head(toServer[d]).friend
<1>1. /\ toServer[d] # <<>> /\ Head(toServer[d]).type = "Send" /\ f \in Login /\ m \in Nat
      /\ \E mine \in Nat, theirs \in Nat, stray \in SUBSET Strays(log') :
           Handled(d, Head(toServer[d]), mine, theirs, stray)
  BY HandleSendHead DEF Handled
<1>2. 1 \in Sends(d) /\ toServer[d][1] = Head(toServer[d])
  <2>1. toServer[d] \in Seq(Request)
    BY DEF TypeOK
  <2> QED BY <1>1, <2>1, TailElements DEF Sends
<1>3. m \in shown[d] /\ f # Owner[d] /\ ~Logged(m)
  BY <1>2 DEF Traced, Pending
<1>4. PICK mine \in Nat :
         log' = log \cup {Outgoing(Owner[d], Head(toServer[d]), clock),
                          Incoming(Owner[d], Head(toServer[d]), mine)}
  BY <1>1 DEF Handled
<1>5. Posted' = Posted \cup {<<m, Owner[d]>>, <<m, f>>}
  <2> DEFINE out == Outgoing(Owner[d], Head(toServer[d]), clock)
             in(t) == Incoming(Owner[d], Head(toServer[d]), t)
  <2>1. PICK own \in Nat : log' = log \cup {out, in(own)}
    BY <1>4
  <2>2. Posted' = Posted \cup {<<out.message, out.login>>, <<in(own).message, in(own).login>>}
    <3> HIDE DEF out, in
    <3> QED BY <2>1 DEF Posted
  <2>3. out.message = m /\ out.login = Owner[d] /\ in(own).message = m /\ in(own).login = f
    BY DEF Outgoing, Incoming
  <2> HIDE DEF out, in, m, f
  <2> QED BY <2>2, <2>3
<1>6. \A r \in log' : r \in log \/ r.message = m
  BY <1>4 DEF Outgoing, Incoming
<1>7. log \subseteq log'
  BY <1>4
<1> QED BY <1>1, <1>2, <1>3, <1>5, <1>6, <1>7

\* It keeps what is traced.
LEMMA TracedHandleSend ==
    ASSUME TypeOK, Traced, Keyed', NEW d \in Device, HandleSend(d)
    PROVE  Traced'
<1>1. PICK m \in Nat, f \in Login :
         /\ 1 \in Sends(d) /\ toServer[d][1].message = m
         /\ m \in shown[d] /\ ~Logged(m) /\ log \subseteq log'
         /\ \A r \in log' : r \in log \/ r.message = m
  BY HandleSendPosts
<1>2. Numbered'
  BY <1>1 DEF HandleSend, Traced, Numbered
<1>3. \A e \in Device : IF e = d THEN Moved(e, 1) ELSE Moved(e, 0)
  <2>1. toServer[d] # <<>> /\ toServer'[d] = Tail(toServer[d])
    BY DEF HandleSend, NextRequest, PopRequest, TypeOK
  <2>2. \A e \in Device : e # d => toServer'[e] = toServer[e]
    BY DEF HandleSend, PopRequest, TypeOK
  <2> QED BY <2>1, <2>2, MovedTail, MovedSame
<1>4. Pending'
  <2>1. ASSUME NEW e \in Device, NEW i \in Sends(e)'
        PROVE  /\ toServer'[e][i].friend # Owner[e]
               /\ toServer'[e][i].message \in shown'[e]
               /\ ~Logged(toServer[e][i].message)'
    <3>0. i \in Nat \ {0}
      BY <2>1 DEF Sends
    <3>1. PICK k \in Nat : /\ i + k \in Sends(e) /\ toServer'[e][i] = toServer[e][i + k]
                           /\ e = d => k = 1
      BY <1>3, <2>1 DEF Moved
    <3>2. toServer[e][i + k].message # m
      BY <1>1, <3>0, <3>1 DEF Traced, Pending
    <3> QED BY <1>1, <3>1, <3>2 DEF HandleSend, Logged, Traced, Pending
  <2>2. ASSUME NEW e \in Device, NEW g \in Device, NEW i \in Sends(e)', NEW j \in Sends(g)',
               toServer'[e][i].message = toServer'[g][j].message
        PROVE  e = g /\ i = j
    <3>1. PICK k \in Nat : /\ i + k \in Sends(e) /\ toServer'[e][i] = toServer[e][i + k]
                           /\ k = IF e = d THEN 1 ELSE 0
      BY <1>3, <2>2 DEF Moved
    <3>2. PICK n \in Nat : /\ j + n \in Sends(g) /\ toServer'[g][j] = toServer[g][j + n]
                           /\ n = IF g = d THEN 1 ELSE 0
      BY <1>3, <2>2 DEF Moved
    <3>3. e = g /\ i + k = j + n
      BY <2>2, <3>1, <3>2 DEF Traced, Pending
    <3> QED BY <2>2, <3>1, <3>2, <3>3 DEF Sends
  <2> QED BY <2>1, <2>2 DEF Pending
<1>5. Addressed'
  <2> SUFFICES ASSUME NEW e \in Device PROVE AddressedAt(e)'
    BY DEF Addressed
  <2>1. AddressedAt(e)
    BY DEF Traced, Addressed
  <2>2. PICK q \in Request, mine \in Nat, theirs \in Nat, stray \in SUBSET Strays(log') :
          Handled(d, q, mine, theirs, stray)
    BY HandleSendFacts
  <2>3. CASE Registered(e) /\ Owner[e] \in {Owner[d], q.friend}
    <3>1. PICK from \in Upto, to \in Upto : toClient'[e] = Synced(e, log', from, to, stray)
      BY <2>2, <2>3, SyncNewEffect DEF Handled
    <3> QED BY <1>1, <2>1, <2>2, <3>1, AddressedSynced DEF Handled
  <2>4. CASE ~(Registered(e) /\ Owner[e] \in {Owner[d], q.friend})
    <3>1. toClient'[e] = toClient[e]
      BY <2>2, <2>4, SyncNewEffect DEF Handled
    <3> QED BY <1>1, <2>1, <3>1, AddressedKept
  <2> QED BY <2>3, <2>4
<1> QED BY <1>2, <1>4, <1>5 DEF Traced

LEMMA TracedHandleSync ==
    ASSUME TypeOK, Owned, Traced, Keyed', NEW d \in Device, HandleSync(d)
    PROVE  Traced'
<1> DEFINE r == Head(toServer[d])
           s == byLogin[Owner[d]]
<1>1. Numbered'
  BY DEF HandleSync, Traced, Numbered
<1>2. Pending'
  <2>1. ASSUME NEW e \in Device PROVE \E k \in Nat : Moved(e, k)
    <3>1. CASE e = d
      BY <3>1, MovedTail DEF HandleSync, NextRequest, PopRequest, TypeOK
    <3>2. CASE e # d
      BY <3>2, MovedSame DEF HandleSync, PopRequest, TypeOK
    <3> QED BY <3>1, <3>2
  <2> QED BY <2>1, PendingMoved DEF HandleSync, Traced
<1>3. Addressed'
  <2> SUFFICES ASSUME NEW e \in Device PROVE AddressedAt(e)'
    BY DEF Addressed
  <2>1. AddressedAt(e) /\ log' = log /\ log' \subseteq Record
    BY DEF Traced, Addressed, HandleSync, TypeOK
  <2>2. r.from \in Upto /\ Forever \in Upto
    BY HandleSyncEffect
  <2>3. toClient'[e] = toClient[e]
          \/ \E stray : toClient'[e] = Synced(e, log', r.from, Forever, stray)
    BY <2>1, HandleSyncEffect
  <2> QED BY <2>1, <2>2, <2>3, AddressedKept, AddressedSynced
<1> QED BY <1>1, <1>2, <1>3 DEF Traced

LEMMA TracedReceive ==
    ASSUME TypeOK, Traced, NEW d \in Device, ReceiveMessages(d)
    PROVE  Traced'
<1>1. \A m \in ShownOf(d, Head(toClient[d])) : <<m, Owner[d]>> \in Posted
  <2>1. toClient[d] \in Seq(Packet) /\ toClient[d] # <<>> /\ Head(toClient[d]).type = "Messages"
    BY DEF ReceiveMessages, TypeOK
  <2>2. 1 \in 1..Len(toClient[d]) /\ Head(toClient[d]) = toClient[d][1]
    BY <2>1, TailElements
  <2> QED BY <2>1, <2>2 DEF Traced, Addressed, AddressedAt
<1>2. ShownOf(d, Head(toClient[d])) \subseteq 1..written
  BY <1>1 DEF Posted, Traced, Numbered
<1>3. \A e \in Device :
         shown'[e] = IF e = d THEN shown[e] \cup ShownOf(d, Head(toClient[d])) ELSE shown[e]
  BY DEF ReceiveMessages, TypeOK
<1>4. Numbered'
  BY <1>2, <1>3 DEF ReceiveMessages, Traced, Numbered
<1>5. Pending'
  <2>1. \A e \in Device : Moved(e, 0) /\ shown[e] \subseteq shown'[e]
    BY <1>3, MovedSame DEF ReceiveMessages
  <2> QED BY <2>1, PendingMoved DEF ReceiveMessages, Traced
<1>6. Addressed'
  <2> SUFFICES ASSUME NEW e \in Device PROVE AddressedAt(e)'
    BY DEF Addressed
  <2>1. toClient'[e] = toClient[e] \/ (toClient[e] # <<>> /\ toClient'[e] = Tail(toClient[e]))
    BY DEF ReceiveMessages, TypeOK
  <2> QED BY <2>1, AddressedKept DEF ReceiveMessages, Traced, Addressed
<1> QED BY <1>4, <1>5, <1>6 DEF Traced

LEMMA TracedStep == TypeOK /\ Owned /\ Keyed' /\ Traced /\ [Next]_vars => Traced'
<1> SUFFICES ASSUME TypeOK, Owned, Keyed', Traced, [Next]_vars PROVE Traced'
  OBVIOUS
<1>1. CASE UNCHANGED vars
  <2>1. Numbered' /\ Pending'
    BY <1>1 DEF vars, Traced, Numbered, Pending, Sends, Logged
  <2>2. \A e \in Device : AddressedAt(e)'
    BY <1>1, AddressedKept DEF vars, Traced, Addressed
  <2> QED BY <2>1, <2>2 DEF Traced, Addressed
<1>2. CASE Next
  BY <1>2, TracedAuthorize, TracedConfirm, TracedDisconnect, TracedSend, TracedHandleSend,
     TracedHandleSync, TracedReceive DEF Next, ServerSteps, ClientSteps
<1> QED BY <1>1, <1>2

\* Each step of VocalMessages is a step of MessageLog or leaves it as it is.
LEMMA LogStep ==
    ASSUME TypeOK, Owned, Traced, [Next]_vars
    PROVE  [Abstract!Next]_Abstract!vars
<1> USE DEF Abstract!vars
<1>1. ASSUME log' = log, shown' = shown PROVE UNCHANGED Abstract!vars
  BY <1>1 DEF Posted
<1>2. ASSUME NEW d \in Device, NEW f \in Login, SendMessage(d, f) PROVE Abstract!Next
  <2>1. written + 1 \in Message /\ written \in Nat
    BY <1>2, MessagesAssumption DEF SendMessage, TypeOK, Message
  <2>2. /\ \A l \in Login : <<written + 1, l>> \notin Posted
        /\ \A e \in Device : written + 1 \notin shown[e]
    BY <2>1 DEF Traced, Numbered, Posted
  <2>3. Abstract!Write(d, written + 1)
    BY <1>2, <2>2 DEF SendMessage, Posted, Abstract!Write, Abstract!Posted
  <2> QED BY <2>1, <2>3 DEF Abstract!Next
<1>3. ASSUME NEW d \in Device, HandleSend(d) PROVE Abstract!Next
  <2>1. PICK m \in Nat, f \in Login :
          /\ m \in shown[d] /\ f # Owner[d] /\ ~Logged(m)
          /\ Posted' = Posted \cup {<<m, Owner[d]>>, <<m, f>>}
    BY <1>3, HandleSendPosts
  <2>2. m \in Message
    BY <2>1, MessagesAssumption DEF Traced, Numbered, Message, TypeOK
  <2>3. Abstract!Post(d, m, f)
    BY <1>3, <2>1 DEF HandleSend, Posted, Logged, Abstract!Post, Abstract!Posted
  <2> QED BY <2>2, <2>3 DEF Abstract!Next
<1>4. ASSUME NEW d \in Device, ReceiveMessages(d) PROVE Abstract!Next
  <2> DEFINE messages == ShownOf(d, Head(toClient[d]))
  <2>1. \A m \in messages : <<m, Owner[d]>> \in Posted
    <3>1. toClient[d] \in Seq(Packet) /\ toClient[d] # <<>> /\ Head(toClient[d]).type = "Messages"
      BY <1>4 DEF ReceiveMessages, TypeOK
    <3>2. 1 \in 1..Len(toClient[d]) /\ Head(toClient[d]) = toClient[d][1]
      BY <3>1, TailElements
    <3> QED BY <3>1, <3>2 DEF Traced, Addressed, AddressedAt
  <2>2. messages \in SUBSET Message
    <3>1. messages \subseteq 1..written
      BY <2>1 DEF Posted, Traced, Numbered
    <3> QED BY <3>1, MessagesAssumption DEF Traced, Numbered, Message, TypeOK
  <2>3. Abstract!Deliver(d, messages)
    BY <1>4, <2>1 DEF ReceiveMessages, Posted, Abstract!Deliver
  <2> QED BY <2>2, <2>3 DEF Abstract!Next
<1> QED BY <1>1, <1>2, <1>3, <1>4 DEF Next, ServerSteps, ClientSteps, vars, Authorize,
           Disconnect, ReceiveConfirm, HandleSync

\* The store, the pushes and the answers together keep the promise of MessageLog: each
\* message is stored once, for its author and one other account, and shown by no one else,
\* whichever records of other accounts a packet carries.
THEOREM Implements == Spec => ImplementsMessageLog
<1>1. Init => Traced /\ Abstract!Init
  BY TracedInit DEF Init, Posted, Abstract!Init
<1>2. TypeOK /\ Owned /\ Keyed' /\ Traced /\ [Next]_vars => Traced'
  BY TracedStep
<1>3. TypeOK /\ Owned /\ Traced /\ [Next]_vars => [Abstract!Next]_Abstract!vars
  BY LogStep
<1> QED BY <1>1, <1>2, <1>3, SupportInvariant, PTL DEF Spec, ImplementsMessageLog, Abstract!Spec
=============================================================================
