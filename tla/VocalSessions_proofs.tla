------------------------- MODULE VocalSessions_proofs -------------------------
(***************************************************************************)
(* Proofs about VocalSessions, for every number of logins, processes and   *)
(* connections.                                                            *)
(***************************************************************************)
EXTENDS VocalSessions, SequenceTheorems, TLAPS

-----------------------------------------------------------------------------
(* Sequences *)

\* What a sequence holds when another is joined to its end, or one element.
LEMMA Joined ==
    ASSUME NEW S, NEW q \in Seq(S), NEW r \in Seq(S)
    PROVE  /\ q \o r \in Seq(S) /\ Len(q \o r) = Len(q) + Len(r)
           /\ Len(q) \in Nat /\ Len(r) \in Nat
           /\ \A i \in 1..Len(q) : (q \o r)[i] = q[i]
           /\ \A i \in 1..Len(q) + Len(r) : i > Len(q) => (q \o r)[i] = r[i - Len(q)]
BY ConcatProperties, LenProperties

LEMMA Appended ==
    ASSUME NEW S, NEW q \in Seq(S), NEW e \in S
    PROVE  /\ Append(q, e) \in Seq(S) /\ Len(Append(q, e)) = Len(q) + 1 /\ Len(q) \in Nat
           /\ Append(q, e) # <<>>
           /\ \A i \in 1..Len(q) : Append(q, e)[i] = q[i]
           /\ Append(q, e)[Len(q) + 1] = e
BY AppendProperties

\* What it holds without its first element.
LEMMA Rest ==
    ASSUME NEW S, NEW q \in Seq(S), q # <<>>
    PROVE  /\ Tail(q) \in Seq(S) /\ Len(Tail(q)) = Len(q) - 1 /\ Len(q) \in Nat \ {0}
           /\ Head(q) = q[1] /\ q[1] \in S
           /\ \A i \in 1..Len(Tail(q)) : Tail(q)[i] = q[i + 1] /\ i + 1 \in 1..Len(q)
BY HeadTailProperties, EmptySeq

\* Without elements it is empty.
LEMMA Empty ==
    ASSUME NEW S, NEW q \in Seq(S)
    PROVE  (q = <<>>) <=> (Len(q) = 0)
BY EmptySeq, LenProperties

-----------------------------------------------------------------------------
(* The inductive invariant *)

Event == [type: {"Connected"}, success: BOOLEAN] \cup [type: {"Data"}, packet: ToClient]

\* What is under way between a process and the server, in both directions.
Up(d) == IF conn[d] \in Connection THEN net[conn[d]].up ELSE <<>>
Down(d) == IF conn[d] \in Connection THEN net[conn[d]].down ELSE <<>>
Serving(d) == session[conn[d]]

IsInfo(e) == e.type = "Data" /\ e.packet.type = "Info"
OnlyInfo(d) == \A i \in 1..Len(events[d]) : IsInfo(events[d][i])

\* A connection has one process; those to come are fresh, and a worker that runs has one
\* that is up.  Who asks for keys or proves to have them says which.
Connections ==
    /\ \A d \in Device :
         /\ conn[d] \in 0..connects
         /\ udt[d] \in {"Connecting", "Connected"} => conn[d] # 0 /\ net[conn[d]].state = "Up"
    /\ \A d, e \in Device : conn[d] = conn[e] /\ conn[d] # 0 => d = e
    /\ \A c \in Connection :
         /\ net[c].state # "Up" => net[c].down = <<>>
         /\ c > connects => net[c] = NoConnection /\ session[c] = SessionIn("Unknown")
         /\ \A i \in 1..Len(net[c].up) :
              net[c].up[i].type \in {"Password", "Proof"} => net[c].up[i].login \in Login
         /\ session[c].status = "Authorized" => session[c].login \in Login

\* The connection that was authorized last is still its login's, or it has gone.
Registered ==
    /\ LatestRegistered
    /\ \A l \in Login : latest[l] # 0 =>
         /\ latest[l] \in Connection
         /\ session[latest[l]] = [status |-> "Authorized", login |-> l]
              \/ session[latest[l]].status = "Gone"

\* An attempt that was cut off: nothing but its connection is made.
Cut(d) ==
    /\ d \in lost /\ conn[d] # 0 /\ Up(d) = <<>> /\ Down(d) = <<>>
    /\ Serving(d).status # "Authorized"
    /\ \A i \in 1..Len(events[d]) : IsInfo(events[d][i]) \/ events[d][i].type = "Connected"

\* No process is connected, and no event left, but those of a session that was lost or
\* of an attempt that was cut off.
Offline(d) ==
    /\ state[d] = "Disconnected" =>
         Cut(d) \/ (udt[d] \in {"Disconnected", "Ended", "Closing"} /\ OnlyInfo(d))
    /\ state[d] = "Dead" => udt[d] = "Disconnected" /\ events[d] = <<>>

\* The connection is made, the first byte sent, or its answer under way: one of these.
FirstAnswer(d) == IF state[d] = "Connecting" THEN "Challenge" ELSE "Captcha"

Starting(d) == state[d] \in {"Registering", "Logining", "Connecting"} =>
    /\ data[d].login # NoLogin
    /\ \A i \in 1..Len(events[d]) :
         \/ IsInfo(events[d][i])
         \/ /\ i = Len(events[d])
            /\ \/ events[d][i].type = "Connected"
               \/ events[d][i].type = "Data" /\ events[d][i].packet.type = FirstAnswer(d)
    /\ \A i \in 1..Len(Up(d)) : i = 1 /\ Up(d)[i].type = FirstByte[state[d]]
    /\ \A i \in 1..Len(Down(d)) : i = 1 /\ Down(d)[i].type = FirstAnswer(d)
    /\ Up(d) # <<>> => udt[d] # "Connecting" /\ Down(d) = <<>> /\ OnlyInfo(d)
    /\ Down(d) # <<>> => udt[d] # "Connecting" /\ OnlyInfo(d)
    /\ udt[d] = "Connecting" => OnlyInfo(d)
    /\ \A i \in 1..Len(events[d]) :
         events[d][i].type = "Connected" /\ ~events[d][i].success => udt[d] = "Ended"
    /\ state[d] = "Connecting" => data[d].key # 0 /\ (conn[d] # 0 => Serving(d).status # "Authorized")

\* The account's data is new until the captcha has come; then nothing is under way.
Enrolling(d) == state[d] \in {"Registering", "Logining"} =>
    /\ conn[d] # 0 /\ Serving(d).status \notin {"Authorizing", "Authorized"}
    /\ data[d].serverKey =>
         events[d] = <<>> /\ Up(d) = <<>> /\ Down(d) = <<>> /\ udt[d] # "Connecting"
    /\ state[d] = "Registering" => data[d].key # 0

\* One request, or its result, which tells the truth about the account.
Request(d, p) ==
    /\ p.login = data[d].login
    /\ \/ state[d] = "RegisteringConfirmWait" /\ p.type = "Registration" /\ p.key = data[d].key
       \/ state[d] = "LoginingConfirmWait" /\ p.type = "Password"
Result(d, p) ==
    \/ /\ state[d] = "RegisteringConfirmWait" /\ p.type = "RegisterResult"
       /\ p.ok => account[data[d].login] = data[d].key
    \/ /\ state[d] = "LoginingConfirmWait" /\ p.type = "LoginResult"
       /\ p.ok => p.key # 0 /\ p.key = account[data[d].login]

Confirming(d) == state[d] \in {"RegisteringConfirmWait", "LoginingConfirmWait"} =>
    /\ data[d].login # NoLogin /\ data[d].serverKey /\ udt[d] # "Connecting"
    /\ conn[d] # 0 /\ Serving(d).status \notin {"Authorizing", "Authorized"}
    /\ \A i \in 1..Len(Up(d)) : i = 1 /\ Request(d, Up(d)[i])
    /\ \A i \in 1..Len(Down(d)) : i = 1 /\ Result(d, Down(d)[i])
    /\ \A i \in 1..Len(events[d]) :
         i = 1 /\ events[d][i].type = "Data" /\ Result(d, events[d][i].packet)
    /\ Up(d) # <<>> => Down(d) = <<>> /\ events[d] = <<>>
    /\ Down(d) # <<>> => events[d] = <<>>
    /\ state[d] = "RegisteringConfirmWait" => data[d].key # 0

\* The proof, or after it the session key of this very connection and then the session's
\* packets.
KeyOf(d, p) ==
    /\ p.type = "SessionKey" /\ p.sessionKey = conn[d] /\ p.key = data[d].key
    /\ udt[d] = "Connected" => Serving(d) = [status |-> "Authorized", login |-> data[d].login]

Proving(d) == state[d] = "ConnectingConfirmWait" =>
    /\ data[d].login # NoLogin /\ udt[d] # "Connecting" /\ conn[d] # 0
    /\ net[conn[d]].state = "Up" => udt[d] = "Connected"
    /\ \A i \in 1..Len(Up(d)) : i = 1 /\ Up(d)[i].type = "Proof"
    /\ Up(d) # <<>> =>
         events[d] = <<>> /\ Down(d) = <<>> /\ Serving(d).status # "Authorized"
    /\ Serving(d).status = "Authorized" /\ udt[d] = "Connected" =>
         events[d] # <<>> \/ Down(d) # <<>>
    /\ \A i \in 1..Len(events[d]) :
         IF i = 1 THEN events[d][i].type = "Data" /\ KeyOf(d, events[d][i].packet)
         ELSE IsInfo(events[d][i])
    /\ \A i \in 1..Len(Down(d)) :
         IF i = 1 /\ events[d] = <<>> THEN KeyOf(d, Down(d)[i]) ELSE Down(d)[i].type = "Info"

Online(d) == state[d] = "Connected" =>
    /\ conn[d] # 0 /\ udt[d] = "Connected" /\ OnlyInfo(d)
    /\ \A i \in 1..Len(Up(d)) : Up(d)[i].type = "RT_SyncMessages"
    /\ \A i \in 1..Len(Down(d)) : Down(d)[i].type = "Info"
    /\ data[d].login # NoLogin =>
         /\ Serving(d) = [status |-> "Authorized", login |-> data[d].login]
         /\ sessionKey[d] = conn[d]

\* A proof is of the keys that the process has, and an authorized session has them.
Owned(d) == data[d].login # NoLogin =>
    /\ \A i \in 1..Len(Up(d)) : Up(d)[i].type = "Proof" =>
         Up(d)[i].login = data[d].login /\ Up(d)[i].key = data[d].key
    /\ conn[d] # 0 /\ Serving(d).status = "Authorized" =>
         /\ Serving(d).login = data[d].login
         /\ data[d].key # 0 /\ data[d].key = account[data[d].login]

Kept(d) == IF saved[d].login = NoLogin THEN saved[d].key = 0
           ELSE /\ saved[d].key # 0 /\ saved[d].key = account[saved[d].login]
                /\ saved[d].serverKey

\* As long as no connection was lost the event thread finds what it expects.
Unlost(d) == d \notin lost =>
    /\ state[d] = "Disconnected" =>
         /\ events[d] = <<>> /\ udt[d] \in {"Disconnected", "Closing"}
         /\ data[d].key # 0 => data[d].serverKey
    /\ state[d] \in {"Registering", "Logining", "Connecting"} =>
         /\ udt[d] \in {"Connecting", "Connected"}
         /\ \A i \in 1..Len(events[d]) :
              /\ udt[d] = "Connected" /\ ~IsInfo(events[d][i])
              /\ events[d][i].type = "Connected" => events[d][i].success
         /\ state[d] = "Connecting" => data[d].serverKey
    /\ state[d] \in {"RegisteringConfirmWait", "LoginingConfirmWait", "ConnectingConfirmWait"} =>
         udt[d] = "Connected"
    /\ state[d] \in {"ConnectingConfirmWait", "Connected"} =>
         /\ \A i \in 1..Len(events[d]) :
              IsInfo(events[d][i]) => events[d][i].packet.sessionKey = conn[d]
         /\ \A i \in 1..Len(Down(d)) : Down(d)[i].type = "Info" => Down(d)[i].sessionKey = conn[d]
    /\ state[d] = "Dead" => data[d].login = NoLogin

Process(d) ==
    /\ Offline(d) /\ Starting(d) /\ Enrolling(d) /\ Confirming(d) /\ Proving(d) /\ Online(d)
    /\ Owned(d) /\ Kept(d) /\ Unlost(d)

Inv == TypeOK /\ Connections /\ Registered /\ \A d \in Device : Process(d)

-----------------------------------------------------------------------------
(* What the parts of a step do *)

Net == [state: {"None", "Up", "Broken"}, up: Seq(ToServer), down: Seq(ToClient)]

\* The process closes its connection.
LEMMA ClosedNet ==
    ASSUME TypeOK, NEW d \in Device
    PROVE  /\ Closed(d) \in [Connection -> Net]
           /\ \A c \in Connection \ {conn[d]} : Closed(d)[c] = net[c]
           /\ conn[d] \in Connection =>
                Closed(d)[conn[d]] = [state |-> "Broken", up |-> net[conn[d]].up, down |-> <<>>]
<1> USE DEF TypeOK, Closed, Net
<1>1. <<>> \in Seq(ToClient)
  BY EmptySeq
<1>2. ASSUME NEW c \in Connection
      PROVE  [net[c] EXCEPT !.state = "Broken", !.down = <<>>]
                = [state |-> "Broken", up |-> net[c].up, down |-> <<>>]
  <2> DEFINE r == [net[c] EXCEPT !.state = "Broken"]
  <2>1. net[c] \in Net
    OBVIOUS
  <2>2. [net[c] EXCEPT !.state = "Broken", !.down = <<>>] = [r EXCEPT !.down = <<>>]
    BY Zenon
  <2>3. r = [state |-> "Broken", up |-> net[c].up, down |-> net[c].down]
    <3> HIDE DEF TypeOK, Closed
    <3> QED
      BY <2>1
  <2> HIDE DEF TypeOK, r
  <2>4. [r EXCEPT !.down = <<>>] = [state |-> "Broken", up |-> net[c].up, down |-> <<>>]
    BY <2>3
  <2> QED
    BY <2>2, <2>4
<1> QED
  BY <1>1, <1>2

\* The server takes a packet and sends some.
LEMMA SentNet ==
    ASSUME TypeOK, NEW c \in Connection, net[c].up # <<>>,
           NEW to, NEW packets \in Seq(ToClient), Sent(c, to, packets)
    PROVE  /\ net' \in [Connection -> Net]
           /\ \A n \in Connection :
                net'[n] = [state |-> net[n].state,
                           up |-> IF n = c THEN Tail(net[n].up) ELSE net[n].up,
                           down |-> IF n = to /\ net[n].state = "Up" THEN net[n].down \o packets
                                    ELSE net[n].down]
<1> USE DEF TypeOK, Net
<1>1. Tail(net[c].up) \in Seq(ToServer)
  BY Rest
<1>2. \A n \in Connection : net[n].down \o packets \in Seq(ToClient)
  BY Joined
<1>3. ASSUME NEW n \in Connection
      PROVE  net'[n] = [state |-> net[n].state,
                        up |-> IF n = c THEN Tail(net[n].up) ELSE net[n].up,
                        down |-> IF n = to /\ net[n].state = "Up" THEN net[n].down \o packets
                                 ELSE net[n].down]
  BY DEF Sent
<1>4. ASSUME NEW n \in Connection
      PROVE  net'[n] \in Net
  <2>1. net[n] \in Net
    OBVIOUS
  <2>2. (IF n = c THEN Tail(net[n].up) ELSE net[n].up) \in Seq(ToServer)
    BY <1>1, <2>1
  <2>3. (IF n = to /\ net[n].state = "Up" THEN net[n].down \o packets ELSE net[n].down)
          \in Seq(ToClient)
    BY <1>2, <2>1
  <2> DEFINE up == IF n = c THEN Tail(net[n].up) ELSE net[n].up
             down == IF n = to /\ net[n].state = "Up" THEN net[n].down \o packets
                     ELSE net[n].down
  <2>4. net'[n] = [state |-> net[n].state, up |-> up, down |-> down]
    BY <1>3
  <2>5. net[n].state \in {"None", "Up", "Broken"}
    BY <2>1
  <2> HIDE DEF TypeOK, up, down
  <2> QED
    BY <2>2, <2>3, <2>4, <2>5 DEF up, down
<1>5. net' = [n \in Connection |-> net'[n]]
  BY DEF Sent
<1> QED
  BY <1>3, <1>4, <1>5

\* A connection is made, or it is not.
LEMMA Opened ==
    ASSUME TypeOK, Connections, SessionsAssumption, NEW d \in Device, NewConnection(d)
    PROVE  /\ connects' \in Connection /\ connects' = connects + 1
           /\ conn' = [conn EXCEPT ![d] = connects + 1]
           /\ net' \in [Connection -> Net]
           /\ net'[connects + 1] = [state |-> "Up", up |-> <<>>, down |-> <<>>]
           /\ session[connects + 1] = SessionIn("Unknown")
           /\ \A c \in Connection \ {conn[d], connects + 1} : net'[c] = net[c]
           /\ conn[d] # 0 => net'[conn[d]].up = net[conn[d]].up /\ net'[conn[d]].down = <<>>
                              /\ net'[conn[d]].state = "Broken"
<1>1. connects \in Nat /\ MaxConnects \in Nat /\ connects < MaxConnects
  BY SessionsAssumption DEF TypeOK, NewConnection
<1>2. connects' = connects + 1 /\ connects' \in Connection
  BY <1>1 DEF NewConnection, Connection
<1>3. conn[d] \in 0..connects /\ conn[d] # connects + 1 /\ (conn[d] # 0 => conn[d] \in Connection)
  BY <1>1 DEF Connections, Connection
<1>4. net[connects + 1] = NoConnection /\ session[connects + 1] = SessionIn("Unknown")
  BY <1>1, <1>2 DEF Connections
<1>5. Closed(d)[connects + 1] = NoConnection
  BY <1>2, <1>3, <1>4, ClosedNet
<1>6. net' = [Closed(d) EXCEPT ![connects + 1] = [NoConnection EXCEPT !.state = "Up"]]
  BY <1>2, <1>5 DEF NewConnection
<1>7. [NoConnection EXCEPT !.state = "Up"] = [state |-> "Up", up |-> <<>>, down |-> <<>>]
  BY DEF NoConnection
<1>8. [state |-> "Up", up |-> <<>>, down |-> <<>>] \in Net
  BY EmptySeq DEF Net
<1>9. /\ net' \in [Connection -> Net]
      /\ \A c \in Connection \ {connects + 1} : net'[c] = Closed(d)[c]
      /\ net'[connects + 1] = [state |-> "Up", up |-> <<>>, down |-> <<>>]
  BY <1>2, <1>6, <1>7, <1>8, ClosedNet
<1>10. \A c \in Connection \ {conn[d], connects + 1} : net'[c] = net[c]
  BY <1>9, ClosedNet
<1>11. conn[d] # 0 => net'[conn[d]] = [state |-> "Broken", up |-> net[conn[d]].up, down |-> <<>>]
  BY <1>3, <1>9, ClosedNet
<1>12. conn' = [conn EXCEPT ![d] = connects + 1]
  BY <1>2 DEF NewConnection
<1>13. conn[d] # 0 => net'[conn[d]].up = net[conn[d]].up /\ net'[conn[d]].down = <<>>
                       /\ net'[conn[d]].state = "Broken"
  <2> SUFFICES ASSUME conn[d] # 0
               PROVE  net'[conn[d]].up = net[conn[d]].up /\ net'[conn[d]].down = <<>>
                      /\ net'[conn[d]].state = "Broken"
    OBVIOUS
  <2> DEFINE r == net'[conn[d]]
  <2>1. r = [state |-> "Broken", up |-> net[conn[d]].up, down |-> <<>>]
    BY <1>11
  <2> HIDE DEF r
  <2>2. r.state = "Broken" /\ r.up = net[conn[d]].up /\ r.down = <<>>
    BY <2>1
  <2> QED
    BY <2>2 DEF r
<1> QED
  BY <1>2, <1>4, <1>9, <1>10, <1>12, <1>13

\* A process has a connection, or none, which is 0.
LEMMA ConnectionOf ==
    ASSUME TypeOK, Connections, NEW d \in Device
    PROVE  /\ 0 \notin Connection /\ conn[d] \in Nat
           /\ conn[d] # 0 <=> conn[d] \in Connection
           /\ udt[d] \in {"Connecting", "Connected"} =>
                conn[d] \in Connection /\ net[conn[d]].state = "Up"
<1>1. MaxConnects \in Nat /\ connects \in 0..MaxConnects /\ conn[d] \in 0..connects
  BY SessionsAssumption DEF TypeOK, Connections
<1>2. 0 \notin Connection /\ conn[d] \in Nat /\ (conn[d] # 0 <=> conn[d] \in Connection)
  BY <1>1 DEF Connection
<1> QED
  BY <1>2 DEF Connections

\* A process sends a packet, if its connection is up.
LEMMA SendNet ==
    ASSUME TypeOK, Connections, NEW d \in Device, NEW p \in ToServer, Send(d, p)
    PROVE  /\ net' \in [Connection -> Net]
           /\ \A c \in Connection \ {conn[d]} : net'[c] = net[c]
           /\ conn[d] \in Connection =>
                net'[conn[d]] = [state |-> net[conn[d]].state,
                                 up |-> IF udt[d] = "Connected" THEN Append(net[conn[d]].up, p)
                                        ELSE net[conn[d]].up,
                                 down |-> net[conn[d]].down]
<1>1. net \in [Connection -> Net]
  BY DEF TypeOK, Net
<1>2. \A c \in Connection : /\ net[c] = [state |-> net[c].state, up |-> net[c].up, down |-> net[c].down]
                             /\ net[c].up \in Seq(ToServer)
  BY <1>1 DEF Net
<1>3. CASE udt[d] # "Connected"
  BY <1>1, <1>2, <1>3 DEF Send
<1>4. CASE udt[d] = "Connected"
  <2> DEFINE c == conn[d]
             n == [state |-> net[c].state, up |-> Append(net[c].up, p), down |-> net[c].down]
  <2>1. c \in Connection /\ net[c].state = "Up" /\ net[c] \in Net
    BY <1>1, <1>4, ConnectionOf
  <2>2. net' = [net EXCEPT ![c].up = Append(@, p)]
    BY <1>4, <2>1 DEF Send
  <2>3. Append(net[c].up, p) \in Seq(ToServer)
    BY <1>2, <2>1, Appended
  <2>4. n \in Net /\ [net[c] EXCEPT !.up = Append(@, p)] = n
    BY <2>1, <2>3 DEF Net
  <2>5. net' = [net EXCEPT ![c] = n]
    BY <2>2, <2>4
  <2> HIDE DEF n
  <2>6. net' \in [Connection -> Net] /\ net'[c] = n /\ \A k \in Connection \ {c} : net'[k] = net[k]
    BY <1>1, <2>1, <2>4, <2>5
  <2> QED
    BY <1>4, <2>6 DEF n
<1> QED
  BY <1>3, <1>4

-----------------------------------------------------------------------------
(* Types *)

\* The type invariant, with the types that have names here.
Types ==
    /\ account \in [Login -> Nat] /\ session \in [Connection -> Session]
    /\ byLogin \in [Login -> Nat] /\ latest \in [Login -> Nat]
    /\ net \in [Connection -> Net] /\ state \in [Device -> State]
    /\ data \in [Device -> Data] /\ saved \in [Device -> Data]
    /\ sessionKey \in [Device -> Nat] /\ conn \in [Device -> Nat]
    /\ udt \in [Device -> {"Disconnected", "Connecting", "Connected", "Ended", "Closing"}]
    /\ events \in [Device -> Seq(Event)]
    /\ connects \in 0..MaxConnects /\ lost \subseteq Device

LEMMA TypesAre == (TypeOK <=> Types) /\ (TypeOK' <=> Types')
BY DEF TypeOK, Types, Net, Event

\* The queue of a process, when an event is added and when one is taken.
LEMMA Queue ==
    ASSUME TypeOK, NEW d \in Device
    PROVE  /\ \A e \in Event : [events EXCEPT ![d] = Append(@, e)] \in [Device -> Seq(Event)]
           /\ events[d] # <<>> => Head(events[d]) \in Event /\ Head(events[d]) = events[d][1]
                /\ [events EXCEPT ![d] = Tail(@)] \in [Device -> Seq(Event)]
           /\ [events EXCEPT ![d] = <<>>] \in [Device -> Seq(Event)]
<1>1. events \in [Device -> Seq(Event)] /\ events[d] \in Seq(Event)
  BY TypesAre DEF Types
<1>2. \A e \in Event : Append(events[d], e) \in Seq(Event)
  BY <1>1, Appended
<1>3. events[d] # <<>> => Tail(events[d]) \in Seq(Event) /\ Head(events[d]) \in Event
                          /\ Head(events[d]) = events[d][1]
  BY <1>1, Rest
<1>4. <<>> \in Seq(Event)
  BY EmptySeq
<1> QED
  BY <1>1, <1>2, <1>3, <1>4

\* The packet that an event thread has in hand.
LEMMA PacketType ==
    ASSUME TypeOK, NEW d \in Device, NEW t, NextPacket(d, t)
    PROVE  /\ events[d] # <<>> /\ Packet(d) \in ToClient /\ Packet(d).type = t
           /\ events[d][1].type = "Data" /\ events[d][1].packet = Packet(d)
           /\ t = "LoginResult" => Packet(d).key \in Nat
           /\ t = "SessionKey" => Packet(d).sessionKey \in Nat
<1>1. events[d] # <<>> /\ Head(events[d]) \in Event /\ Head(events[d]) = events[d][1]
  BY Queue DEF NextPacket, NextEvent
<1>2. Head(events[d]).type = "Data" /\ Packet(d) = Head(events[d]).packet /\ Packet(d).type = t
  BY DEF NextPacket, NextEvent, Packet
<1>3. Packet(d) \in ToClient
  BY <1>1, <1>2 DEF Event
<1> QED
  BY <1>1, <1>2, <1>3 DEF ToClient

\* Every step of a process keeps the types.
LEMMA ProcessTypes ==
    ASSUME Inv, NEW d \in Device, User(d) \/ Restart(d) \/ Network(d) \/ ProcessEvent(d)
    PROVE  TypeOK'
<1> USE TypesAre DEF Types
<1>a. TypeOK /\ Types /\ Connections /\ SessionsAssumption
  BY SessionsAssumption DEF Inv
<1>b. /\ Closed(d) \in [Connection -> Net]
      /\ {"Disconnected", "Registering", "Logining", "Connecting", "Connected", "Dead"} \subseteq State
  BY <1>a, ClosedNet DEF State
<1>e. MaxConnects \in Nat /\ connects \in Nat
  BY <1>a DEF SessionsAssumption
<1>f. ASSUME Open(d) \/ FailToOpen(d), connects < MaxConnects
      PROVE  /\ net' \in [Connection -> Net] /\ conn' \in [Device -> Nat]
             /\ udt' \in [Device -> {"Disconnected", "Connecting", "Connected", "Ended", "Closing"}]
             /\ connects' \in 0..MaxConnects
  <2>1. CASE Open(d)
    <3>1. /\ net' \in [Connection -> Net] /\ connects' \in Connection
          /\ conn' = [conn EXCEPT ![d] = connects + 1] /\ udt' = [udt EXCEPT ![d] = "Connecting"]
      BY <1>a, <2>1, Opened DEF Open
    <3>2. connects' \in 0..MaxConnects
      BY <1>e, <3>1 DEF Connection
    <3>3. conn' \in [Device -> Nat]
      BY <1>a, <1>e, <3>1
    <3> QED
      BY <1>a, <3>1, <3>2, <3>3
  <2>2. CASE FailToOpen(d)
    BY <1>a, <1>b, <1>e, <1>f, <2>2 DEF FailToOpen
  <2> QED
    BY <1>f, <2>1, <2>2
<1>c. \A l \in Login, k \in Nat, b \in BOOLEAN :
         [login |-> l, key |-> k, serverKey |-> b] \in Data
  BY DEF Data
<1>d. NoData \in Data /\ \A l \in Login : [NoData EXCEPT !.login = l] \in Data
  BY DEF Data, NoData
<1>g. /\ \A to \in State : [state EXCEPT ![d] = to] \in [Device -> State]
      /\ "Registering" \in State /\ "Logining" \in State
      /\ state \in [Device -> State] /\ lost \subseteq Device /\ lost \cup {d} \subseteq Device
  BY <1>a, <1>b
<1>1. ASSUME NEW l \in Login, Register(d, l)
      PROVE  TypeOK'
  <2>1. Open(d) \/ FailToOpen(d)
    BY <1>1 DEF Register
  <2>2. state' \in [Device -> State] /\ lost' \subseteq Device
    <3>1. state' = [state EXCEPT ![d] = "Registering"] \/ state' = state
      BY <1>1 DEF Register
    <3>2. lost' = lost \/ lost' = lost \cup {d}
      BY <1>1 DEF Register, FailToOpen
    <3> QED
      BY <1>g, <3>1, <3>2
  <2>3. data' \in [Device -> Data]
    <3>1. [login |-> l, key |-> connects + 1, serverKey |-> FALSE] \in Data
      <4>1. connects + 1 \in Nat
        BY <1>e
      <4> QED
        BY <1>c, <4>1
    <3>2. data' = [data EXCEPT ![d] = [login |-> l, key |-> connects + 1, serverKey |-> FALSE]]
      BY <1>1 DEF Register
    <3> QED
      BY <1>a, <3>1, <3>2
  <2>4. sessionKey' \in [Device -> Nat] /\ UNCHANGED <<account, session, byLogin, latest, saved, events>>
    BY <1>a, <1>1 DEF Register, serverVars
  <2>5. connects < MaxConnects
    BY <1>1 DEF Register
  <2> QED
    BY <1>a, <1>f, <2>1, <2>2, <2>3, <2>4, <2>5
<1>2. ASSUME NEW l \in Login, LogIn(d, l)
      PROVE  TypeOK'
  <2>1. Open(d) \/ FailToOpen(d)
    BY <1>2 DEF LogIn
  <2>2. state' \in [Device -> State] /\ lost' \subseteq Device
    <3>1. state' = [state EXCEPT ![d] = "Logining"] \/ state' = state
      BY <1>2 DEF LogIn
    <3>2. lost' = lost \/ lost' = lost \cup {d}
      BY <1>2 DEF LogIn, FailToOpen
    <3> QED
      BY <1>g, <3>1, <3>2
  <2>3. data' \in [Device -> Data]
    BY <1>a, <1>d, <1>e, <1>2 DEF LogIn
  <2>4. sessionKey' \in [Device -> Nat] /\ UNCHANGED <<account, session, byLogin, latest, saved, events>>
    BY <1>a, <1>2 DEF LogIn, serverVars
  <2>5. connects < MaxConnects
    BY <1>2 DEF LogIn
  <2> QED
    BY <1>a, <1>f, <2>1, <2>2, <2>3, <2>4, <2>5
<1>3. CASE Connect(d)
  <2>1. Open(d) \/ FailToOpen(d)
    BY <1>3 DEF Connect
  <2>2. state' \in [Device -> State] /\ lost' \subseteq Device
    BY <1>a, <1>b, <1>3 DEF Connect, FailToOpen
  <2>3. UNCHANGED <<account, session, byLogin, latest, data, sessionKey, saved, events>>
    BY <1>3 DEF Connect, serverVars
  <2>4. connects < MaxConnects
    BY <1>3 DEF Connect
  <2> QED
    BY <1>a, <1>f, <2>1, <2>2, <2>3, <2>4
<1>4. CASE RejectedCall(d)
  BY <1>a, <1>d, <1>4 DEF RejectedCall, serverVars
<1>5. ASSUME NEW asked, NEW answered \in State, NEW t \in {"Registration", "Password"},
             NEW right \in BOOLEAN, Answer(d, asked, answered, t, right)
      PROVE  TypeOK'
  <2>1. [type |-> t, login |-> data[d].login, key |-> data[d].key, right |-> right] \in ToServer
    BY <1>a DEF ToServer, Data
  <2>2. net' \in [Connection -> Net]
    BY <1>a, <1>5, <2>1, SendNet DEF Answer
  <2> QED
    BY <1>a, <1>5, <2>2 DEF Answer, serverVars
<1>6. CASE Restart(d)
  BY <1>a, <1>b, <1>6, Queue DEF Restart, serverVars
<1>7. CASE Established(d)
  <2>1. Connected(TRUE) \in Event
    BY DEF Connected, Event
  <2> QED
    BY <1>a, <1>7, <2>1, Queue DEF Established, serverVars
<1>8. CASE TimedOut(d)
  <2>1. Connected(FALSE) \in Event
    BY DEF Connected, Event
  <2> QED
    BY <1>a, <1>8, <2>1, Queue DEF TimedOut, serverVars
<1>9. CASE Arrive(d)
  <2>1. conn[d] \in Connection /\ net[conn[d]] \in Net /\ net[conn[d]].down # <<>>
    BY <1>a, <1>9, ConnectionOf DEF Arrive
  <2>2. /\ Tail(net[conn[d]].down) \in Seq(ToClient)
        /\ [type |-> "Data", packet |-> Head(net[conn[d]].down)] \in Event
    BY <2>1, Rest DEF Net, Event
  <2>3. net' \in [Connection -> Net]
    BY <1>a, <1>9, <2>1, <2>2 DEF Arrive, Net
  <2> QED
    BY <1>a, <1>9, <2>2, <2>3, Queue DEF Arrive, serverVars, processVars
<1>10. CASE Break(d)
  BY <1>a, <1>b, <1>10 DEF Break, serverVars
<1>11. ASSUME Die(d), lost' \in {lost, lost \cup {d}}
       PROVE  TypeOK'
  <2>1. lost' \subseteq Device
    BY <1>g, <1>11
  <2> QED
    BY <1>a, <1>b, <1>11, <2>1, Queue DEF Die, serverVars
<1>12. CASE OnConnected(d)
  <2>1. [type |-> FirstByte[state[d]]] \in ToServer
    BY <1>12 DEF OnConnected, FirstByte, ToServer
  <2>2. net' \in [Connection -> Net]
    BY <1>a, <1>12, <2>1, SendNet DEF OnConnected
  <2> QED
    BY <1>a, <1>12, <2>2, Queue DEF OnConnected, OnlyProcess, PopEvent, NextEvent, serverVars
<1>13. CASE OnConnectionFailed(d)
  BY <1>a, <1>b, <1>13, Queue DEF OnConnectionFailed, OnlyProcess, PopEvent, NextEvent, serverVars
<1>14. CASE OnCaptcha(d)
  <2>1. data' \in [Device -> Data]
    <3>1. data[d] \in Data /\ data' = [data EXCEPT ![d] = [@ EXCEPT !.serverKey = TRUE]]
      BY <1>a, <1>14 DEF OnCaptcha
    <3>2. [data[d] EXCEPT !.serverKey = TRUE] \in Data
      BY <3>1 DEF Data
    <3> QED
      BY <1>a, <3>1, <3>2
  <2> QED
    BY <1>a, <1>14, <2>1, Queue
       DEF OnCaptcha, ExpectedPacket, OnlyProcess, PopEvent, NextPacket, NextEvent, serverVars
<1>15. CASE OnRegisterResult(d)
  BY <1>a, <1>b, <1>15, Queue
     DEF OnRegisterResult, ForceDisconnect, ExpectedPacket, OnlyProcess, PopEvent, NextPacket,
         NextEvent, serverVars
<1>16. CASE OnLoginResult(d)
  <2>1. data' \in [Device -> Data]
    <3>1. data[d] \in Data /\ Packet(d).key \in Nat
      BY <1>a, <1>16, PacketType DEF OnLoginResult, ExpectedPacket
    <3>2. [data[d] EXCEPT !.key = Packet(d).key] \in Data
      BY <3>1 DEF Data
    <3> QED
      BY <1>a, <1>16, <3>1, <3>2 DEF OnLoginResult
  <2> QED
    BY <1>a, <1>b, <1>16, <2>1, Queue
       DEF OnLoginResult, ForceDisconnect, ExpectedPacket, OnlyProcess, PopEvent, NextPacket,
           NextEvent, serverVars
<1>17. CASE OnChallenge(d)
  <2>1. PICK n \in Nat : Packet(d).challenge = n
    BY <1>a, <1>17, PacketType DEF OnChallenge, ExpectedPacket, ToClient
  <2>2. [type |-> "Proof", login |-> data[d].login, key |-> data[d].key,
         challenge |-> Packet(d).challenge] \in ToServer
    BY <1>a, <2>1 DEF ToServer, Data
  <2>3. net' \in [Connection -> Net]
    BY <1>a, <1>17, <2>2, SendNet DEF OnChallenge
  <2> QED
    BY <1>a, <1>17, <2>3, Queue
       DEF OnChallenge, ExpectedPacket, OnlyProcess, PopEvent, NextPacket, NextEvent, serverVars, State
<1>18. CASE OnSessionKey(d)
  <2>1. Packet(d).sessionKey \in Nat
    BY <1>a, <1>18, PacketType DEF OnSessionKey, ExpectedPacket
  <2>2. sessionKey' \in [Device -> Nat] /\ sessionKey'[d] = Packet(d).sessionKey
    BY <1>a, <1>18, <2>1 DEF OnSessionKey
  <2>3. [type |-> "RT_SyncMessages", sessionKey |-> sessionKey'[d]] \in ToServer
    BY <2>1, <2>2 DEF ToServer
  <2>4. net' \in [Connection -> Net]
    BY <1>a, <1>18, <2>3, SendNet DEF OnSessionKey
  <2> QED
    BY <1>a, <1>b, <1>18, <2>2, <2>4, Queue
       DEF OnSessionKey, ExpectedPacket, OnlyProcess, PopEvent, NextPacket, NextEvent, serverVars
<1>19. CASE OnInfo(d)
  BY <1>a, <1>19, Queue
     DEF OnInfo, ExpectedPacket, OnlyProcess, PopEvent, NextPacket, NextEvent, serverVars
<1>20. ASSUME NEW right \in BOOLEAN, AnswerCaptcha(d, right) \/ EnterPassword(d, right)
       PROVE  TypeOK'
  <2>1. {"RegisteringConfirmWait", "LoginingConfirmWait"} \subseteq State
    BY DEF State
  <2>2. CASE AnswerCaptcha(d, right)
    <3>1. Answer(d, "Registering", "RegisteringConfirmWait", "Registration", right)
      BY <2>2 DEF AnswerCaptcha
    <3> HIDE DEF Types
    <3> QED
      BY <1>5, <2>1, <3>1
  <2>3. CASE EnterPassword(d, right)
    BY <1>5, <2>1, <2>3 DEF EnterPassword
  <2> QED
    BY <1>20, <2>2, <2>3
<1>21. OnConnectedDies(d) \/ OnPacketDies(d) => TypeOK'
  BY <1>11 DEF OnConnectedDies, OnPacketDies
<1>22. CASE WorkerEnds(d)
  BY <1>a, <1>g, <1>22 DEF WorkerEnds, serverVars
<1>23. CASE OnLoginResultEnd(d)
  BY <1>a, <1>b, <1>23 DEF OnLoginResultEnd, ForceDisconnect, OnlyProcess, serverVars
<1>24. CASE CutCall(d)
  <2>1. CASE Die(d)
    BY <1>11, <1>24, <2>1 DEF CutCall
  <2>2. CASE ~Die(d)
    <3>1. /\ NewConnection(d) /\ lost' = lost \cup {d}
          /\ \E to \in {"Connecting", "Disconnected"} : udt' = [udt EXCEPT ![d] = to]
          /\ events' = events \/ events' = [events EXCEPT ![d] = Append(@, Connected(TRUE))]
          /\ UNCHANGED <<account, session, byLogin, latest, state, data, sessionKey, saved>>
      BY <1>24, <2>2 DEF CutCall, serverVars
    <3>2. /\ net' \in [Connection -> Net] /\ connects' \in Connection
          /\ conn' = [conn EXCEPT ![d] = connects + 1]
      BY <1>a, <3>1, Opened
    <3>3. connects' \in 0..MaxConnects /\ conn' \in [Device -> Nat] /\ lost' \subseteq Device
      BY <1>a, <1>e, <1>g, <3>1, <3>2 DEF Connection
    <3>4. udt' \in [Device -> {"Disconnected", "Connecting", "Connected", "Ended", "Closing"}]
      BY <1>a, <3>1
    <3>5. events' \in [Device -> Seq(Event)]
      <4>1. Connected(TRUE) \in Event
        BY DEF Connected, Event
      <4>2. events \in [Device -> Seq(Event)]
        BY <1>a
      <4>3. [events EXCEPT ![d] = Append(@, Connected(TRUE))] \in [Device -> Seq(Event)]
        <5>1. TypeOK
          BY DEF Inv
        <5>2. \A e \in Event : [events EXCEPT ![d] = Append(@, e)] \in [Device -> Seq(Event)]
          <6> HIDE DEF Types, TypeOK
          <6> QED
            BY <5>1, Queue
        <5> HIDE DEF Types, TypeOK
        <5> QED
          BY <4>1, <5>2, Zenon
      <4>4. CASE events' = events
        BY <4>2, <4>4
      <4>5. CASE events' = [events EXCEPT ![d] = Append(@, Connected(TRUE))]
        BY <4>3, <4>5, Zenon
      <4> QED
        BY <3>1, <4>4, <4>5
    <3> QED
      BY <1>a, <3>1, <3>2, <3>3, <3>4, <3>5
  <2> QED
    BY <2>1, <2>2
<1> QED
  BY <1>1, <1>2, <1>3, <1>4, <1>20, <1>6, <1>7, <1>8, <1>9, <1>10, <1>12, <1>13, <1>14, <1>15,
     <1>16, <1>17, <1>18, <1>19, <1>21, <1>22, <1>23, <1>24 DEF User, Network, ProcessEvent

\* The packet that the server has in hand.
LEMMA ReceivedType ==
    ASSUME TypeOK, Connections, NEW c \in Connection, NEW st, NEW t, HandledPacket(c, st, t)
    PROVE  /\ net[c].up # <<>> /\ net[c].up[1] = Received(c) /\ session[c].status = st
           /\ Received(c) \in ToServer /\ Received(c).type = t
           /\ t = "Registration" => Received(c).key \in Nat /\ Received(c).right \in BOOLEAN
           /\ t \in {"Password", "Proof"} => Received(c).login \in Login
           /\ t = "Proof" => Received(c).key \in Nat
           /\ t = "Password" => Received(c).right \in BOOLEAN
           /\ UNCHANGED <<processVars, events, connects, lost>>
<1>1. net[c].up \in Seq(ToServer) /\ net[c].up # <<>> /\ Received(c) = Head(net[c].up)
  BY TypesAre DEF Types, Net, HandledPacket, Received
<1>2. Received(c) = net[c].up[1] /\ Received(c) \in ToServer /\ Len(net[c].up) \in Nat \ {0}
  BY <1>1, Rest
<1>3. Received(c).type = t /\ session[c].status = st /\ UNCHANGED <<processVars, events, connects, lost>>
  BY <1>1 DEF HandledPacket, OnlyServer
<1>4. t \in {"Password", "Proof"} => Received(c).login \in Login
  BY <1>2, <1>3 DEF Connections
<1>5. /\ t = "Registration" => Received(c).key \in Nat /\ Received(c).right \in BOOLEAN
      /\ t = "Proof" => Received(c).key \in Nat
      /\ t = "Password" => Received(c).right \in BOOLEAN
  BY <1>2, <1>3 DEF ToServer
<1> QED
  BY <1>1, <1>2, <1>3, <1>4, <1>5

\* Every step of the server keeps the types.
LEMMA ServerTypes ==
    ASSUME Inv, NEW c \in Connection, HandleEvent(c)
    PROVE  TypeOK'
<1> USE TypesAre
<1>a. TypeOK /\ Types /\ Connections /\ Registered
  BY DEF Inv
<1>b. \A st \in Status : SessionIn(st) \in Session
  BY DEF SessionIn, Session
<1>c. /\ "Registering" \in Status /\ "Logining" \in Status /\ "Authorizing" \in Status
      /\ "Authorized" \in Status /\ "Gone" \in Status
  BY DEF Status
<1>d. \A p, q \in ToClient : <<p>> \in Seq(ToClient) /\ <<p, q>> \in Seq(ToClient)
  OBVIOUS
<1>e. c \in Nat /\ <<>> \in Seq(ToClient)
  BY SessionsAssumption, EmptySeq DEF Connection
<1>f. ASSUME net' \in [Connection -> Net], session' \in [Connection -> Session],
             account' \in [Login -> Nat], byLogin' \in [Login -> Nat],
             latest' \in [Login -> Nat], UNCHANGED <<processVars, events, connects, lost>>
      PROVE  TypeOK'
  BY <1>a, <1>f DEF Types, processVars
<1>g. ASSUME NEW to, NEW packets \in Seq(ToClient), net[c].up # <<>>, Sent(c, to, packets)
      PROVE  net' \in [Connection -> Net]
  BY <1>a, <1>g, SentNet
<1>1. CASE HandleLost(c)
  <2>1. <<>> \in Seq(ToServer) /\ net[c] \in Net
    BY <1>a, EmptySeq DEF Types
  <2>2. net' \in [Connection -> Net]
    BY <1>a, <1>1, <2>1 DEF HandleLost, Types, Net
  <2>3. session' \in [Connection -> Session] /\ byLogin' \in [Login -> Nat]
    BY <1>a, <1>b, <1>c, <1>1 DEF HandleLost, Types
  <2> QED
    BY <1>a, <1>f, <1>1, <2>2, <2>3 DEF HandleLost, OnlyServer, Types
<1>2. CASE HandleHello(c)
  <2>1. [type |-> "Captcha"] \in ToClient /\ [type |-> "Challenge", challenge |-> c] \in ToClient
    BY <1>e DEF ToClient
  <2>2. \E t : HandledPacket(c, "Unknown", t)
    BY <1>2 DEF HandleHello
  <2>3. net[c].up # <<>> /\ UNCHANGED <<processVars, events, connects, lost>>
    BY <1>a, <2>2, ReceivedType
  <2>4. net' \in [Connection -> Net]
    BY <1>d, <1>g, <1>2, <2>1, <2>3 DEF HandleHello, Respond
  <2>5. session' \in [Connection -> Session]
    BY <1>a, <1>b, <1>c, <1>2 DEF HandleHello, Types
  <2> QED
    BY <1>a, <1>f, <1>2, <2>3, <2>4, <2>5 DEF HandleHello, Types
<1>3. CASE HandleRegistration(c)
  <2>1. net[c].up # <<>> /\ Received(c).key \in Nat /\ UNCHANGED <<processVars, events, connects, lost>>
    BY <1>a, <1>3, ReceivedType DEF HandleRegistration
  <2>2. PICK ok \in BOOLEAN : Respond(c, [type |-> "RegisterResult", ok |-> ok])
    BY <1>3 DEF HandleRegistration
  <2>3. net' \in [Connection -> Net]
    BY <1>d, <1>g, <2>1, <2>2 DEF Respond, ToClient
  <2>4. account' \in [Login -> Nat]
    BY <1>a, <1>3, <2>1 DEF HandleRegistration, Types
  <2> QED
    BY <1>a, <1>f, <1>3, <2>1, <2>3, <2>4 DEF HandleRegistration, Types
<1>4. CASE HandlePassword(c)
  <2>1. net[c].up # <<>> /\ Received(c).login \in Login /\ UNCHANGED <<processVars, events, connects, lost>>
    BY <1>a, <1>4, ReceivedType DEF HandlePassword
  <2>2. PICK ok \in BOOLEAN, k \in Nat : Respond(c, [type |-> "LoginResult", ok |-> ok, key |-> k])
    BY <1>a, <1>4, <2>1 DEF HandlePassword, Types
  <2>3. net' \in [Connection -> Net]
    BY <1>d, <1>g, <2>1, <2>2 DEF Respond, ToClient
  <2> QED
    BY <1>a, <1>f, <1>4, <2>1, <2>3 DEF HandlePassword, Types
<1>5. CASE HandleProof(c)
  <2>1. /\ net[c].up # <<>> /\ Received(c).login \in Login
        /\ UNCHANGED <<processVars, events, connects, lost>>
    BY <1>a, <1>5, ReceivedType DEF HandleProof
  <2>2. PICK k \in Nat : Sent(c, c, <<[type |-> "SessionKey", key |-> k, sessionKey |-> c],
                                     [type |-> "Info", sessionKey |-> c]>>)
    BY <1>a, <1>5, <2>1 DEF HandleProof, Types
  <2>3. net' \in [Connection -> Net]
    BY <1>d, <1>e, <1>g, <2>1, <2>2 DEF ToClient
  <2>4. /\ session' \in [Connection -> Session] /\ byLogin' \in [Login -> Nat]
        /\ latest' \in [Login -> Nat]
    BY <1>a, <1>c, <1>e, <1>5, <2>1 DEF HandleProof, Types, Session
  <2> QED
    BY <1>a, <1>f, <1>5, <2>1, <2>3, <2>4 DEF HandleProof, Types
<1>6. CASE HandleWrongProof(c)
  <2>1. net[c].up # <<>> /\ UNCHANGED <<processVars, events, connects, lost>>
    BY <1>a, <1>6, ReceivedType DEF HandleWrongProof
  <2>2. net' \in [Connection -> Net]
    BY <1>e, <1>g, <1>6, <2>1 DEF HandleWrongProof
  <2> QED
    BY <1>a, <1>f, <1>6, <2>1, <2>2 DEF HandleWrongProof, Types, serverVars
<1>7. CASE HandleRequest(c)
  <2>1. /\ net[c].up # <<>> /\ session[c].status = "Authorized"
        /\ UNCHANGED <<processVars, events, connects, lost>>
    BY <1>a, <1>7, ReceivedType DEF HandleRequest
  <2>2. session[c].login \in Login
    BY <1>a, <2>1 DEF Connections
  <2>3. byLogin[session[c].login] \in Nat
    BY <1>a, <2>2 DEF Types
  <2>4. net' \in [Connection -> Net]
    <3> DEFINE r == byLogin[session[c].login]
    <3>1. [type |-> "Info", sessionKey |-> r] \in ToClient
      BY <2>3 DEF ToClient
    <3>2. CASE r = 0
      BY <1>e, <1>g, <1>7, <2>1, <3>2 DEF HandleRequest
    <3>3. CASE r # 0
      BY <1>d, <1>g, <1>7, <2>1, <3>1, <3>3 DEF HandleRequest
    <3> QED
      BY <3>2, <3>3
  <2> QED
    BY <1>a, <1>f, <1>7, <2>1, <2>4 DEF HandleRequest, Types, serverVars
<1> QED
  BY <1>1, <1>2, <1>3, <1>4, <1>5, <1>6, <1>7 DEF HandleEvent

\* Types are kept.
LEMMA TypeStep == Inv /\ [Next]_vars => TypeOK'
<1>1. Inv /\ UNCHANGED vars => TypeOK'
  BY DEF Inv, TypeOK, vars, serverVars, processVars
<1> QED
  BY <1>1, ProcessTypes, ServerTypes DEF Next

-----------------------------------------------------------------------------
(* Connections *)

\* A step of a process does one of these to the network and its own connection.
Opens(d) ==
    /\ NewConnection(d)
    /\ \E to \in {"Connecting", "Disconnected"} : udt' = [udt EXCEPT ![d] = to]
Fails(d) == FailToOpen(d) /\ connects < MaxConnects
Closes(d) ==
    /\ net' = Closed(d) /\ connects' = connects
    /\ conn' = conn \/ conn' = [conn EXCEPT ![d] = 0]
    /\ udt' = [udt EXCEPT ![d] = "Disconnected"]
Sends(d, p) ==
    /\ Send(d, p) /\ UNCHANGED <<connects, conn, udt>>
    /\ p.type \in {"Password", "Proof"} => p.login \in Login
Takes(d) ==
    /\ udt[d] = "Connected" /\ net[conn[d]].down # <<>>
    /\ net' = [net EXCEPT ![conn[d]].down = Tail(@)] /\ UNCHANGED <<connects, conn, udt>>
Keeps(d) ==
    /\ UNCHANGED <<net, connects, conn>>
    /\ \/ udt' = udt
       \/ \E to \in {"Disconnected", "Ended", "Closing"} : udt' = [udt EXCEPT ![d] = to]
       \/ Established(d)

NetStep(d) == \/ Opens(d) \/ Fails(d) \/ Closes(d) \/ (\E p \in ToServer : Sends(d, p))
              \/ Takes(d) \/ Keeps(d)

\* The other processes, and the server's state, are left alone.
OwnStep(d) ==
    /\ UNCHANGED serverVars
    /\ \A e \in Device \ {d} :
         /\ state'[e] = state[e] /\ data'[e] = data[e] /\ sessionKey'[e] = sessionKey[e]
         /\ saved'[e] = saved[e] /\ udt'[e] = udt[e] /\ conn'[e] = conn[e]
         /\ events'[e] = events[e] /\ (e \in lost' <=> e \in lost)

LEMMA OwnSteps ==
    ASSUME Inv, NEW d \in Device, User(d) \/ Restart(d) \/ Network(d) \/ ProcessEvent(d)
    PROVE  OwnStep(d)
<1> USE TypesAre DEF Types
<1>a. TypeOK
  BY DEF Inv
<1>1. ASSUME NEW l \in Login, Register(d, l) \/ LogIn(d, l)
      PROVE  OwnStep(d)
  BY <1>a, <1>1 DEF OwnStep, Register, LogIn, Open, NewConnection, FailToOpen
<1>2. Connect(d) => OwnStep(d)
  BY <1>a DEF OwnStep, Connect, Open, NewConnection, FailToOpen
<1>3. RejectedCall(d) \/ Restart(d) => OwnStep(d)
  BY <1>a DEF OwnStep, RejectedCall, Restart
<1>4. ASSUME NEW right \in BOOLEAN, AnswerCaptcha(d, right) \/ EnterPassword(d, right)
      PROVE  OwnStep(d)
  BY <1>a, <1>4 DEF OwnStep, AnswerCaptcha, EnterPassword, Answer
<1>5. Network(d) => OwnStep(d)
  BY <1>a DEF OwnStep, Network, Established, TimedOut, WorkerEnds, Arrive, Break, processVars
<1>6. OnConnected(d) \/ OnConnectionFailed(d) \/ OnConnectedDies(d) \/ OnPacketDies(d) => OwnStep(d)
  BY <1>a DEF OwnStep, OnConnected, OnConnectionFailed, OnConnectedDies, OnPacketDies, Die,
              PopEvent, OnlyProcess
<1>7. /\ OnCaptcha(d) \/ OnRegisterResult(d) \/ OnLoginResult(d) \/ OnInfo(d) => OwnStep(d)
      /\ OnLoginResultEnd(d) => OwnStep(d)
  BY <1>a DEF OwnStep, OnCaptcha, OnRegisterResult, OnLoginResult, OnInfo, ForceDisconnect,
              ExpectedPacket, PopEvent, OnlyProcess, OnLoginResultEnd
<1>9. CutCall(d) => OwnStep(d)
  BY <1>a DEF OwnStep, CutCall, NewConnection, Die
<1>8. OnChallenge(d) \/ OnSessionKey(d) => OwnStep(d)
  BY <1>a DEF OwnStep, OnChallenge, OnSessionKey, ExpectedPacket, PopEvent, OnlyProcess
<1> QED
  BY <1>1, <1>2, <1>3, <1>4, <1>5, <1>6, <1>7, <1>8, <1>9 DEF User, ProcessEvent

LEMMA NetSteps ==
    ASSUME Inv, NEW d \in Device, User(d) \/ Restart(d) \/ Network(d) \/ ProcessEvent(d)
    PROVE  NetStep(d)
<1>a. TypeOK /\ Types /\ Connections /\ Starting(d) /\ Enrolling(d)
  BY TypesAre DEF Inv, Process
<1>1. ASSUME NEW l \in Login, Register(d, l) \/ LogIn(d, l)
      PROVE  NetStep(d)
  BY <1>1 DEF NetStep, Opens, Open, Fails, Register, LogIn
<1>2. Connect(d) => NetStep(d)
  BY DEF NetStep, Opens, Open, Fails, Connect
<1>3. RejectedCall(d) => Keeps(d)
  BY DEF Keeps, RejectedCall
<1>4. Restart(d) \/ Break(d) \/ Die(d) => Closes(d)
  BY DEF Closes, Restart, Break, Die
<1>5. ASSUME NEW right \in BOOLEAN, AnswerCaptcha(d, right) \/ EnterPassword(d, right)
      PROVE  \E p \in ToServer : Sends(d, p)
  <2>1. PICK t \in {"Registration", "Password"} :
           /\ Send(d, [type |-> t, login |-> data[d].login, key |-> data[d].key, right |-> right])
           /\ state[d] \in {"Registering", "Logining"} /\ UNCHANGED <<connects, conn, udt>>
    BY <1>5 DEF AnswerCaptcha, EnterPassword, Answer
  <2> DEFINE p == [type |-> t, login |-> data[d].login, key |-> data[d].key, right |-> right]
  <2>2. data[d] \in Data /\ data[d].login # NoLogin
    BY <1>a, <2>1 DEF Types, Starting
  <2>3. p.login \in Login /\ p \in ToServer
    BY <2>2 DEF Data, ToServer
  <2> QED
    BY <2>1, <2>3 DEF Sends
<1>6. Established(d) \/ TimedOut(d) \/ WorkerEnds(d) => Keeps(d)
  BY DEF Keeps, Established, TimedOut, WorkerEnds
<1>7. Arrive(d) => Takes(d)
  BY DEF Takes, Arrive, processVars
<1>8. OnConnected(d) => \E p \in ToServer : Sends(d, p)
  <2> DEFINE p == [type |-> FirstByte[state[d]]]
  <2> SUFFICES ASSUME OnConnected(d) PROVE Sends(d, p) /\ p \in ToServer
    OBVIOUS
  <2>1. FirstByte[state[d]] \in {"RT_Register", "RT_Login", "RT_Authorize"}
    BY DEF OnConnected, FirstByte
  <2>2. p \in ToServer /\ p.type \notin {"Password", "Proof"}
    BY <2>1 DEF ToServer
  <2>3. Send(d, p) /\ UNCHANGED <<connects, conn, udt>>
    BY DEF OnConnected, OnlyProcess
  <2> QED
    BY <2>2, <2>3 DEF Sends
<1>9. OnConnectionFailed(d) \/ OnCaptcha(d) \/ OnInfo(d) => Keeps(d)
  BY DEF Keeps, OnConnectionFailed, OnCaptcha, OnInfo, ExpectedPacket, OnlyProcess
<1>10. OnRegisterResult(d) \/ OnLoginResult(d) \/ OnLoginResultEnd(d) => Keeps(d)
  BY DEF Keeps, OnRegisterResult, OnLoginResult, OnLoginResultEnd, ForceDisconnect,
         ExpectedPacket, OnlyProcess
<1>14. CutCall(d) => Opens(d) \/ Closes(d)
  BY <1>4 DEF CutCall, Opens
<1>11. OnChallenge(d) => \E p \in ToServer : Sends(d, p)
  <2> DEFINE p == [type |-> "Proof", login |-> data[d].login, key |-> data[d].key,
                   challenge |-> Packet(d).challenge]
  <2> SUFFICES ASSUME OnChallenge(d) PROVE Sends(d, p) /\ p \in ToServer
    OBVIOUS
  <2>1. NextPacket(d, "Challenge") /\ state[d] = "Connecting"
    BY DEF OnChallenge, ExpectedPacket, Expected, NextPacket
  <2>2. Packet(d).challenge \in Nat /\ data[d] \in Data /\ data[d].login # NoLogin
    <3>1. Packet(d) \in ToClient /\ Packet(d).type = "Challenge"
      BY <1>a, <2>1, PacketType
    <3>2. Packet(d).challenge \in Nat
      BY <3>1 DEF ToClient
    <3> QED
      BY <1>a, <2>1, <3>2 DEF Types, Starting
  <2>3. p \in ToServer /\ p.login \in Login
    BY <2>2 DEF ToServer, Data
  <2>4. Send(d, p) /\ UNCHANGED <<connects, conn, udt>>
    BY DEF OnChallenge, ExpectedPacket, OnlyProcess
  <2> QED
    BY <2>3, <2>4 DEF Sends
<1>12. OnSessionKey(d) => \E p \in ToServer : Sends(d, p)
  <2> DEFINE p == [type |-> "RT_SyncMessages", sessionKey |-> sessionKey'[d]]
  <2> SUFFICES ASSUME OnSessionKey(d) PROVE Sends(d, p) /\ p \in ToServer
    OBVIOUS
  <2>1. Packet(d).sessionKey \in Nat
    BY <1>a, PacketType DEF OnSessionKey, ExpectedPacket
  <2>2. sessionKey'[d] \in Nat
    BY <1>a, <2>1 DEF OnSessionKey, Types
  <2>3. p \in ToServer /\ p.type \notin {"Password", "Proof"}
    BY <2>2 DEF ToServer
  <2>4. Send(d, p) /\ UNCHANGED <<connects, conn, udt>>
    BY DEF OnSessionKey, ExpectedPacket, OnlyProcess
  <2> QED
    BY <2>3, <2>4 DEF Sends
<1>13. OnConnectedDies(d) \/ OnPacketDies(d) => Die(d)
  BY DEF OnConnectedDies, OnPacketDies
<1> QED
  BY <1>1, <1>2, <1>3, <1>4, <1>5, <1>6, <1>7, <1>8, <1>9, <1>10, <1>11, <1>12, <1>13,
     <1>14 DEF User, Network, ProcessEvent, NetStep

\* The connections are kept by every step of a process.
LEMMA ProcessConnections ==
    ASSUME Inv, NEW d \in Device, NetStep(d), OwnStep(d), Types'
    PROVE  Connections'
<1>a. TypeOK /\ Types /\ Connections
  BY TypesAre DEF Inv
<1>b. /\ MaxConnects \in Nat /\ connects \in Nat /\ connects' \in Nat /\ 0 \notin Connection
      /\ Connection = 1..MaxConnects
      /\ \A e \in Device : conn[e] \in 0..connects /\ (conn[e] # 0 <=> conn[e] \in Connection)
  BY <1>a, SessionsAssumption, ConnectionOf DEF Types, Connections, Connection
<1>c. /\ conn \in [Device -> Nat] /\ session' = session /\ connects \in 0..MaxConnects
      /\ udt \in [Device -> {"Disconnected", "Connecting", "Connected", "Ended", "Closing"}]
      /\ \A e \in Device \ {d} : udt'[e] = udt[e] /\ conn'[e] = conn[e]
  BY <1>a DEF Types, OwnStep, serverVars
\* It is enough that connections are only made fresh, lost or used.
<1>d. ASSUME connects' >= connects, conn'[d] \in {0, conn[d]} \/ conn'[d] \in connects + 1..connects',
             udt'[d] \in {"Connecting", "Connected"} =>
                conn'[d] # 0 /\ net'[conn'[d]].state = "Up",
             \A c \in Connection \ {conn[d], conn'[d]} : net'[c] = net[c],
             \A c \in Connection : net'[c].state # "Up" => net'[c].down = <<>>,
             \A c \in Connection : c > connects' => net'[c] = net[c],
             \A c \in Connection : \A i \in 1..Len(net'[c].up) :
                net'[c].up[i].type \in {"Password", "Proof"} => net'[c].up[i].login \in Login
      PROVE  Connections'
  <2>1. ASSUME NEW e \in Device
        PROVE  /\ conn'[e] \in 0..connects'
               /\ udt'[e] \in {"Connecting", "Connected"} => conn'[e] # 0 /\ net'[conn'[e]].state = "Up"
    <3>1. CASE e = d
      BY <1>b, <1>d, <3>1
    <3>2. CASE e # d
      <4>1. /\ conn'[e] = conn[e] /\ udt'[e] = udt[e] /\ conn[e] \in 0..connects
            /\ udt[e] \in {"Connecting", "Connected"} => conn[e] # 0 /\ net[conn[e]].state = "Up"
        BY <1>a, <1>c, <3>2 DEF Connections
      <4>2. conn[e] # 0 => conn[e] # conn[d] /\ conn[e] # conn'[d] /\ conn[e] \in Connection
        <5>1. conn[e] # 0 => conn[e] # conn[d] /\ conn[e] \in Connection
          BY <1>a, <1>b, <3>2 DEF Connections
        <5>2. conn[e] \notin connects + 1..connects'
          BY <1>b, <4>1
        <5> QED
          BY <1>d, <5>1, <5>2
      <4> QED
        BY <1>b, <1>d, <4>1, <4>2
    <3> QED
      BY <3>1, <3>2
  <2>2. ASSUME NEW e \in Device, NEW f \in Device, conn'[e] = conn'[f], conn'[e] # 0
        PROVE  e = f
    <3>1. ASSUME NEW g \in Device \ {d}, conn'[g] # 0
          PROVE  conn'[g] # conn'[d]
      <4>1. conn'[g] = conn[g] /\ conn[g] # conn[d] /\ conn[g] \in 0..connects
        BY <1>a, <1>b, <1>c, <3>1 DEF Connections
      <4>2. conn[g] \notin connects + 1..connects'
        BY <1>b, <4>1
      <4> QED
        BY <1>d, <3>1, <4>1, <4>2
    <3>2. e # d /\ f # d => e = f
      BY <1>a, <1>c, <2>2 DEF Connections
    <3> QED
      BY <2>2, <3>1, <3>2
  <2>3. ASSUME NEW c \in Connection, c > connects'
        PROVE  net'[c] = NoConnection /\ session'[c] = SessionIn("Unknown")
    <3>1. c > connects
      BY <1>b, <1>d, <2>3
    <3> QED
      BY <1>a, <1>c, <1>d, <2>3, <3>1 DEF Connections
  <2>4. \A c \in Connection : session'[c].status = "Authorized" => session'[c].login \in Login
    BY <1>a, <1>c DEF Connections
  <2> QED
    BY <1>d, <2>1, <2>2, <2>3, <2>4 DEF Connections
<1>e. /\ \A c \in Connection : net[c].state # "Up" => net[c].down = <<>>
      /\ \A c \in Connection : \A i \in 1..Len(net[c].up) :
           net[c].up[i].type \in {"Password", "Proof"} => net[c].up[i].login \in Login
  BY <1>a DEF Connections
\* The process closes its connection.
<1>f. /\ \A c \in Connection \ {conn[d]} : Closed(d)[c] = net[c]
      /\ \A c \in Connection : Closed(d)[c].state # "Up" => Closed(d)[c].down = <<>>
      /\ \A c \in Connection : \A i \in 1..Len(Closed(d)[c].up) :
           Closed(d)[c].up[i].type \in {"Password", "Proof"} => Closed(d)[c].up[i].login \in Login
      /\ \A c \in Connection : c > connects => Closed(d)[c] = net[c]
  <2>1. \A c \in Connection \ {conn[d]} : Closed(d)[c] = net[c]
    BY <1>a, ClosedNet
  <2>2. conn[d] \in Connection => Closed(d)[conn[d]].up = net[conn[d]].up /\ Closed(d)[conn[d]].down = <<>>
    <3>1. conn[d] \in Connection =>
            Closed(d)[conn[d]] = [state |-> "Broken", up |-> net[conn[d]].up, down |-> <<>>]
      BY <1>a, ClosedNet
    <3> QED
      BY <3>1
  <2>3. \A c \in Connection : c > connects => c # conn[d]
    BY <1>b
  <2> QED
    BY <1>e, <2>1, <2>2, <2>3
<1>1. CASE Opens(d)
  <2>1. /\ connects' = connects + 1 /\ connects' \in Connection /\ conn'[d] = connects'
        /\ net'[connects'] = [state |-> "Up", up |-> <<>>, down |-> <<>>]
        /\ \A c \in Connection \ {conn[d], connects'} : net'[c] = net[c]
        /\ conn[d] # 0 => net'[conn[d]].up = net[conn[d]].up /\ net'[conn[d]].down = <<>>
    BY <1>a, <1>b, <1>c, <1>1, SessionsAssumption, Opened DEF Opens
  <2>2. \A c \in Connection : net'[c].state # "Up" => net'[c].down = <<>>
    BY <1>b, <1>e, <2>1
  <2>3. \A c \in Connection : \A i \in 1..Len(net'[c].up) :
           net'[c].up[i].type \in {"Password", "Proof"} => net'[c].up[i].login \in Login
    <3>1. ASSUME NEW c \in Connection
          PROVE  net'[c].up = net[c].up \/ net'[c].up = <<>>
      BY <1>b, <2>1
    <3>2. \A c \in Connection : net'[c].up = <<>> => Len(net'[c].up) = 0
      OBVIOUS
    <3> QED
      BY <1>e, <3>1, <3>2
  <2>4. \A c \in Connection : c > connects' => net'[c] = net[c]
    BY <1>b, <2>1
  <2>5. connects' >= connects /\ conn'[d] \in connects + 1..connects'
    BY <1>b, <2>1
  <2>6. conn'[d] # 0 /\ net'[conn'[d]].state = "Up"
    BY <1>b, <2>1
  <2> QED
    BY <1>d, <2>1, <2>2, <2>3, <2>4, <2>5, <2>6
<1>2. CASE Fails(d)
  <2>1. /\ connects' = connects + 1 /\ conn'[d] = 0 /\ udt'[d] = "Disconnected"
        /\ net' = Closed(d)
    BY <1>c, <1>2 DEF Fails, FailToOpen
  <2>2. connects' >= connects /\ \A c \in Connection : c > connects' => c > connects
    BY <1>b, <2>1
  <2> QED
    BY <1>d, <1>f, <2>1, <2>2
<1>3. CASE Closes(d)
  <2>1. /\ connects' = connects /\ conn'[d] \in {0, conn[d]} /\ udt'[d] = "Disconnected"
        /\ net' = Closed(d)
    BY <1>c, <1>3 DEF Closes
  <2> QED
    BY <1>b, <1>d, <1>f, <2>1
<1>4. ASSUME NEW p \in ToServer, Sends(d, p)
      PROVE  Connections'
  <2>1. /\ \A c \in Connection \ {conn[d]} : net'[c] = net[c]
        /\ connects' = connects /\ conn' = conn /\ udt' = udt
        /\ p.type \in {"Password", "Proof"} => p.login \in Login
    BY <1>a, <1>4, SendNet DEF Sends
  <2>2. conn[d] \in Connection => /\ net'[conn[d]].state = net[conn[d]].state
                                  /\ net'[conn[d]].down = net[conn[d]].down
                                  /\ net'[conn[d]].up \in {net[conn[d]].up, Append(net[conn[d]].up, p)}
    <3>1. conn[d] \in Connection =>
            \E q \in {net[conn[d]].up, Append(net[conn[d]].up, p)} :
              net'[conn[d]] = [state |-> net[conn[d]].state, up |-> q, down |-> net[conn[d]].down]
      BY <1>a, <1>4, SendNet DEF Sends
    <3> QED
      BY <3>1
  <2>3. \A c \in Connection : net'[c].state = net[c].state /\ net'[c].down = net[c].down
    BY <2>1, <2>2
  <2>4. ASSUME NEW c \in Connection, NEW i \in 1..Len(net'[c].up),
               net'[c].up[i].type \in {"Password", "Proof"}
        PROVE  net'[c].up[i].login \in Login
    <3>1. CASE net'[c].up = net[c].up
      BY <1>e, <2>4, <3>1
    <3>2. CASE net'[c].up = Append(net[c].up, p)
      <4>1. net[c].up \in Seq(ToServer)
        BY <1>a DEF Types, Net
      <4>2. /\ \A j \in 1..Len(net[c].up) : net'[c].up[j] = net[c].up[j]
            /\ net'[c].up[Len(net[c].up) + 1] = p /\ Len(net'[c].up) = Len(net[c].up) + 1
            /\ Len(net[c].up) \in Nat
        BY <3>2, <4>1, Appended
      <4>3. CASE i = Len(net[c].up) + 1
        BY <2>1, <2>4, <4>2, <4>3
      <4>4. CASE i \in 1..Len(net[c].up)
        BY <1>e, <2>4, <4>2, <4>4
      <4> QED
        BY <4>2, <4>3, <4>4
    <3> QED
      BY <2>1, <2>2, <3>1, <3>2
  <2>5. ASSUME NEW c \in Connection, c > connects'
        PROVE  net'[c] = net[c]
    BY <1>b, <2>1, <2>5
  <2>6. udt'[d] \in {"Connecting", "Connected"} => conn'[d] # 0 /\ net'[conn'[d]].state = "Up"
    BY <1>a, <1>b, <2>1, <2>3 DEF Connections
  <2> QED
    BY <1>b, <1>d, <1>e, <2>1, <2>3, <2>4, <2>5, <2>6
<1>5. CASE Takes(d)
  <2>1. /\ conn[d] \in Connection /\ net[conn[d]].state = "Up" /\ net[conn[d]] \in Net
        /\ connects' = connects /\ conn' = conn /\ udt' = udt
    BY <1>a, <1>5, ConnectionOf DEF Takes, Types
  <2> DEFINE n == [state |-> net[conn[d]].state, up |-> net[conn[d]].up,
                   down |-> Tail(net[conn[d]].down)]
  <2>a. [net[conn[d]] EXCEPT !.down = Tail(@)] = n
    <3>1. \A r \in Net : \A q : [r EXCEPT !.down = q] = [state |-> r.state, up |-> r.up, down |-> q]
      BY DEF Net
    <3> QED
      BY <2>1, <3>1
  <2>b. net' = [net EXCEPT ![conn[d]] = n]
    BY <1>5, <2>a DEF Takes
  <2>2. (\A c \in Connection \ {conn[d]} : net'[c] = net[c]) /\ net'[conn[d]] = n
    BY <1>a, <2>1, <2>b DEF Types
  <2>3. net'[conn[d]].up = net[conn[d]].up /\ net'[conn[d]].state = "Up"
    BY <2>1, <2>2
  <2>4. \A c \in Connection : net'[c].up = net[c].up /\ net'[c].state = net[c].state
    BY <2>1, <2>2, <2>3
  <2>5. \A c \in Connection : c > connects => c # conn[d]
    BY <1>b
  <2>6. conn'[d] # 0 /\ net'[conn'[d]].state = "Up"
    BY <1>b, <2>1, <2>3
  <2> HIDE DEF n
  <2>7. /\ connects' >= connects /\ conn'[d] \in {0, conn[d]}
        /\ \A c \in Connection \ {conn[d], conn'[d]} : net'[c] = net[c]
        /\ \A c \in Connection : c > connects' => net'[c] = net[c]
    BY <1>b, <2>1, <2>2, <2>5
  <2>8. \A c \in Connection : net'[c].state # "Up" => net'[c].down = <<>>
    BY <1>e, <2>2, <2>3
  <2>9. \A c \in Connection : \A i \in 1..Len(net'[c].up) :
           net'[c].up[i].type \in {"Password", "Proof"} => net'[c].up[i].login \in Login
    BY <1>e, <2>4
  <2> QED
    BY <1>d, <2>6, <2>7, <2>8, <2>9
<1>6. CASE Keeps(d)
  <2>1. net' = net /\ connects' = connects /\ conn' = conn
    BY <1>6 DEF Keeps
  <2>2. udt'[d] \in {"Connecting", "Connected"} => udt[d] \in {"Connecting", "Connected"}
    BY <1>c, <1>6 DEF Keeps, Established
  <2>3. udt'[d] \in {"Connecting", "Connected"} => conn'[d] # 0 /\ net'[conn'[d]].state = "Up"
    BY <1>a, <2>1, <2>2 DEF Connections
  <2> QED
    BY <1>b, <1>d, <1>e, <2>1, <2>3
<1> QED
  BY <1>1, <1>2, <1>3, <1>4, <1>5, <1>6 DEF NetStep

\* What a step of the server does to the network: it takes a packet and sends others, to
\* that session or to the one registered for its login; or it learns of a loss.
Serves(c, to, packets) ==
    /\ net[c].up # <<>> /\ net' \in [Connection -> Net]
    /\ \A n \in Connection :
         net'[n] = [state |-> net[n].state,
                    up |-> IF n = c THEN Tail(net[n].up) ELSE net[n].up,
                    down |-> IF n = to /\ net[n].state = "Up" THEN net[n].down \o packets
                             ELSE net[n].down]
    /\ \A n \in Connection \ {c} : session'[n] = session[n]
    /\ UNCHANGED <<processVars, events, connects, lost>>

Loses(c) ==
    /\ net[c].state = "Broken" /\ net' \in [Connection -> Net]
    /\ \A n \in Connection \ {c} : net'[n] = net[n] /\ session'[n] = session[n]
    /\ net'[c] = [state |-> "Broken", up |-> <<>>, down |-> net[c].down]
    /\ session'[c] = SessionIn("Gone")
    /\ UNCHANGED <<processVars, events, connects, lost, account, latest>>

\* A packet that was sent over a connection is served.
LEMMA SentServes ==
    ASSUME Inv, NEW c \in Connection, net[c].up # <<>>, NEW to, NEW packets \in Seq(ToClient),
           Sent(c, to, packets), \A n \in Connection \ {c} : session'[n] = session[n],
           UNCHANGED <<processVars, events, connects, lost>>
    PROVE  Serves(c, to, packets)
BY SentNet DEF Serves, Inv

LEMMA LostLoses ==
    ASSUME Inv, NEW c \in Connection, HandleLost(c)
    PROVE  Loses(c)
<1>1. net \in [Connection -> Net] /\ session \in [Connection -> Session] /\ <<>> \in Seq(ToServer)
  BY TypesAre, EmptySeq DEF Inv, Types
<1> DEFINE n == [state |-> net[c].state, up |-> <<>>, down |-> net[c].down]
<1>2. [net[c] EXCEPT !.up = <<>>] = n /\ n \in Net
  <2>1. \A r \in Net : \A q : [r EXCEPT !.up = q] = [state |-> r.state, up |-> q, down |-> r.down]
    BY DEF Net
  <2>2. net[c] \in Net
    BY <1>1
  <2> QED
    BY <1>1, <2>1, <2>2 DEF Net
<1>3. net' = [net EXCEPT ![c] = n] /\ net[c].state = "Broken"
  BY <1>2 DEF HandleLost
<1>4. session' = [session EXCEPT ![c] = SessionIn("Gone")]
  BY DEF HandleLost
<1>5. UNCHANGED <<processVars, events, connects, lost, account, latest>>
  BY DEF HandleLost, OnlyServer
<1>6. net' \in [Connection -> Net] /\ net'[c] = n /\ \A k \in Connection \ {c} : net'[k] = net[k]
  BY <1>1, <1>2, <1>3
<1>7. session'[c] = SessionIn("Gone") /\ \A k \in Connection \ {c} : session'[k] = session[k]
  BY <1>1, <1>4
<1> QED
  BY <1>3, <1>5, <1>6, <1>7 DEF Loses

\* The answers of the server, one by one.
LEMMA HelloServes ==
    ASSUME Inv, NEW c \in Connection, HandleHello(c)
    PROVE  \E k \in {"Registering", "Logining", "Authorizing"}, p \in ToClient :
             /\ Serves(c, c, <<p>>) /\ session' = [session EXCEPT ![c] = SessionIn(k)]
             /\ session[c].status = "Unknown" /\ net[c].up[1] = Received(c)
             /\ Received(c).type = CASE k = "Registering" -> "RT_Register"
                                     [] k = "Logining" -> "RT_Login"
                                     [] k = "Authorizing" -> "RT_Authorize"
             /\ p.type = IF k = "Authorizing" THEN "Challenge" ELSE "Captcha"
             /\ UNCHANGED <<account, byLogin, latest>>
<1>a. TypeOK /\ Connections /\ Types /\ c \in Nat
  BY TypesAre, SessionsAssumption DEF Inv, Connection
<1>1. PICK k \in {"Registering", "Logining", "Authorizing"},
           t \in {"RT_Register", "RT_Login", "RT_Authorize"},
           p \in {[type |-> "Captcha"], [type |-> "Challenge", challenge |-> c]} :
        /\ HandledPacket(c, "Unknown", t) /\ Respond(c, p)
        /\ session' = [session EXCEPT ![c] = SessionIn(k)]
        /\ t = CASE k = "Registering" -> "RT_Register" [] k = "Logining" -> "RT_Login"
                  [] k = "Authorizing" -> "RT_Authorize"
        /\ p.type = IF k = "Authorizing" THEN "Challenge" ELSE "Captcha"
        /\ UNCHANGED <<account, byLogin, latest>>
  BY DEF HandleHello
<1>2. p \in ToClient /\ <<p>> \in Seq(ToClient)
  BY <1>a, <1>1 DEF ToClient
<1>3. /\ net[c].up # <<>> /\ net[c].up[1] = Received(c) /\ session[c].status = "Unknown"
      /\ Received(c).type = t /\ UNCHANGED <<processVars, events, connects, lost>>
  BY <1>a, <1>1, ReceivedType
<1>4. \A n \in Connection \ {c} : session'[n] = session[n]
  BY <1>a, <1>1 DEF Types
<1>5. Serves(c, c, <<p>>)
  BY <1>1, <1>2, <1>3, <1>4, SentServes DEF Respond
<1> QED
  BY <1>1, <1>2, <1>3, <1>5

LEMMA RegistrationServes ==
    ASSUME Inv, NEW c \in Connection, HandleRegistration(c)
    PROVE  \E ok \in BOOLEAN, p \in ToClient :
             /\ p.type = "RegisterResult" /\ p.ok = ok /\ Serves(c, c, <<p>>)
             /\ net[c].up[1] = Received(c) /\ Received(c).type = "Registration"
             /\ session[c].status = "Registering"
             /\ ok => account[Received(c).login] = 0 /\ Received(c).key \in Nat
             /\ account' = IF ok THEN [account EXCEPT ![Received(c).login] = Received(c).key]
                           ELSE account
             /\ UNCHANGED <<session, byLogin, latest>>
<1>a. TypeOK /\ Connections
  BY DEF Inv
<1>1. /\ net[c].up # <<>> /\ net[c].up[1] = Received(c) /\ session[c].status = "Registering"
      /\ Received(c).type = "Registration" /\ Received(c).key \in Nat
      /\ UNCHANGED <<processVars, events, connects, lost>>
  BY <1>a, ReceivedType DEF HandleRegistration
<1>2. PICK ok \in BOOLEAN :
        /\ Respond(c, [type |-> "RegisterResult", ok |-> ok])
        /\ ok => account[Received(c).login] = 0
        /\ account' = IF ok THEN [account EXCEPT ![Received(c).login] = Received(c).key] ELSE account
        /\ UNCHANGED <<session, byLogin, latest>>
  BY DEF HandleRegistration
<1> DEFINE p == [type |-> "RegisterResult", ok |-> ok]
<1>3. p \in ToClient /\ <<p>> \in Seq(ToClient) /\ p.type = "RegisterResult" /\ p.ok = ok
  BY DEF ToClient
<1>4. Respond(c, p)
  BY <1>2
<1> HIDE DEF p
<1>5. Serves(c, c, <<p>>)
  BY <1>1, <1>2, <1>3, <1>4, SentServes DEF Respond
<1> QED
  BY <1>1, <1>2, <1>3, <1>5

LEMMA PasswordServes ==
    ASSUME Inv, NEW c \in Connection, HandlePassword(c)
    PROVE  \E ok \in BOOLEAN, p \in ToClient :
             /\ p.type = "LoginResult" /\ p.ok = ok /\ Serves(c, c, <<p>>)
             /\ net[c].up[1] = Received(c) /\ Received(c).type = "Password"
             /\ session[c].status = "Logining"
             /\ ok => p.key = account[Received(c).login] /\ p.key # 0
             /\ UNCHANGED serverVars
<1>a. TypeOK /\ Types /\ Connections
  BY TypesAre DEF Inv
<1>1. /\ net[c].up # <<>> /\ net[c].up[1] = Received(c) /\ session[c].status = "Logining"
      /\ Received(c).type = "Password" /\ Received(c).login \in Login
      /\ UNCHANGED <<processVars, events, connects, lost>>
  BY <1>a, ReceivedType DEF HandlePassword
<1>2. PICK ok \in BOOLEAN, k \in Nat :
        /\ Respond(c, [type |-> "LoginResult", ok |-> ok, key |-> k])
        /\ ok => k = account[Received(c).login] /\ k # 0
        /\ UNCHANGED serverVars
  BY <1>a, <1>1 DEF HandlePassword, Types, serverVars
<1> DEFINE p == [type |-> "LoginResult", ok |-> ok, key |-> k]
<1>3. /\ p \in ToClient /\ <<p>> \in Seq(ToClient) /\ p.type = "LoginResult" /\ p.ok = ok
      /\ p.key = k
  BY DEF ToClient
<1>4. Respond(c, p)
  BY <1>2
<1> HIDE DEF p
<1>5. Serves(c, c, <<p>>)
  BY <1>1, <1>2, <1>3, <1>4, SentServes DEF Respond, serverVars
<1> QED
  BY <1>1, <1>2, <1>3, <1>5

LEMMA ProofServes ==
    ASSUME Inv, NEW c \in Connection, HandleProof(c)
    PROVE  \E l \in Login, p, q \in ToClient :
             /\ l = Received(c).login /\ Serves(c, c, <<p, q>>)
             /\ net[c].up[1] = Received(c) /\ Received(c).type = "Proof"
             /\ p.type = "SessionKey" /\ p.key = Received(c).key /\ p.sessionKey = c
             /\ q.type = "Info" /\ q.sessionKey = c
             /\ session[c].status = "Authorizing"
             /\ account[l] # 0 /\ account[l] = Received(c).key
             /\ session' = [session EXCEPT ![c] = [status |-> "Authorized", login |-> l]]
             /\ byLogin' = [byLogin EXCEPT ![l] = c] /\ latest' = [latest EXCEPT ![l] = c]
             /\ UNCHANGED account
<1>a. TypeOK /\ Types /\ Connections /\ c \in Nat
  BY TypesAre, SessionsAssumption DEF Inv, Connection
<1> DEFINE l == Received(c).login
           p == [type |-> "SessionKey", key |-> Received(c).key, sessionKey |-> c]
           q == [type |-> "Info", sessionKey |-> c]
<1>1. /\ net[c].up # <<>> /\ net[c].up[1] = Received(c) /\ session[c].status = "Authorizing"
      /\ Received(c).type = "Proof" /\ l \in Login /\ Received(c).key \in Nat
      /\ UNCHANGED <<processVars, events, connects, lost>>
  BY <1>a, ReceivedType DEF HandleProof
<1>2. /\ account[l] # 0 /\ account[l] = Received(c).key /\ UNCHANGED account
      /\ session' = [session EXCEPT ![c] = [status |-> "Authorized", login |-> l]]
      /\ byLogin' = [byLogin EXCEPT ![l] = c] /\ latest' = [latest EXCEPT ![l] = c]
  BY DEF HandleProof, Proved
<1>3. Sent(c, c, <<p, q>>)
  BY <1>2 DEF HandleProof
<1>4. /\ p \in ToClient /\ q \in ToClient /\ <<p, q>> \in Seq(ToClient)
      /\ p.type = "SessionKey" /\ p.key = Received(c).key /\ p.sessionKey = c
      /\ q.type = "Info" /\ q.sessionKey = c
  BY <1>a, <1>1 DEF ToClient
<1>5. \A n \in Connection \ {c} : session'[n] = session[n]
  BY <1>a, <1>2 DEF Types
<1> HIDE DEF p, q
<1>6. Serves(c, c, <<p, q>>)
  BY <1>1, <1>3, <1>4, <1>5, SentServes
<1> QED
  BY <1>1, <1>2, <1>4, <1>6

LEMMA WrongProofServes ==
    ASSUME Inv, NEW c \in Connection, HandleWrongProof(c)
    PROVE  Serves(c, c, <<>>) /\ UNCHANGED serverVars
<1>a. TypeOK /\ Connections /\ <<>> \in Seq(ToClient)
  BY EmptySeq DEF Inv
<1>1. net[c].up # <<>> /\ UNCHANGED <<processVars, events, connects, lost>>
  BY <1>a, ReceivedType DEF HandleWrongProof
<1>2. Sent(c, c, <<>>) /\ UNCHANGED serverVars
  BY DEF HandleWrongProof
<1> QED
  BY <1>a, <1>1, <1>2, SentServes DEF serverVars

LEMMA RequestServes ==
    ASSUME Inv, NEW c \in Connection, HandleRequest(c)
    PROVE  /\ session[c].status = "Authorized" /\ UNCHANGED serverVars
           /\ \E r \in Nat : /\ r # 0 => r \in Connection /\ session[r].status = "Authorized"
                            /\ \/ Serves(c, r, <<>>) /\ r = 0
                               \/ \E p \in ToClient : /\ Serves(c, r, <<p>>) /\ r # 0
                                                     /\ p.type = "Info" /\ p.sessionKey = r
<1>a. TypeOK /\ Types /\ Connections /\ Registered /\ <<>> \in Seq(ToClient)
  BY TypesAre, EmptySeq DEF Inv
<1>1. /\ net[c].up # <<>> /\ session[c].status = "Authorized"
      /\ UNCHANGED <<processVars, events, connects, lost>>
  BY <1>a, ReceivedType DEF HandleRequest
<1> DEFINE r == byLogin[session[c].login]
           p == [type |-> "Info", sessionKey |-> r]
<1>2. session[c].login \in Login
  BY <1>a, <1>1 DEF Connections
<1>3. r \in Nat /\ (r # 0 => r \in Connection /\ session[r].status = "Authorized")
  BY <1>a, <1>2 DEF Types, Registered, LatestRegistered
<1>4. UNCHANGED serverVars /\ Sent(c, r, IF r = 0 THEN <<>> ELSE <<p>>)
  BY DEF HandleRequest
<1>5. p \in ToClient /\ p.type = "Info" /\ p.sessionKey = r
  BY <1>3 DEF ToClient
<1>6. \A n \in Connection \ {c} : session'[n] = session[n]
  BY <1>4 DEF serverVars
<1> HIDE DEF r, p
<1>7. <<p>> \in Seq(ToClient)
  BY <1>5
<1>8. CASE r = 0
  BY <1>a, <1>1, <1>3, <1>4, <1>6, <1>8, SentServes
<1>9. CASE r # 0
  BY <1>1, <1>3, <1>4, <1>5, <1>6, <1>7, <1>9, SentServes
<1> QED
  BY <1>1, <1>4, <1>8, <1>9

\* Whatever the server answers, a session that becomes authorized names its login.
LEMMA ServedConnections ==
    ASSUME Inv, NEW c \in Connection, NEW to, NEW packets \in Seq(ToClient), Serves(c, to, packets),
           session'[c].status = "Authorized" => session'[c].login \in Login
    PROVE  Connections'
<1>a. TypeOK /\ Types /\ Connections
  BY TypesAre DEF Inv
<1>1. /\ \A n \in Connection : net'[n].state = net[n].state
      /\ \A n \in Connection \ {c} : net'[n].up = net[n].up /\ session'[n] = session[n]
      /\ net'[c].up = Tail(net[c].up) /\ net[c].up # <<>>
      /\ \A n \in Connection : net[n].state # "Up" => net'[n].down = net[n].down
      /\ conn' = conn /\ udt' = udt /\ connects' = connects
  <2>1. \A n \in Connection : net'[n].state = net[n].state
    BY DEF Serves
  <2>2. \A n \in Connection \ {c} : net'[n].up = net[n].up /\ session'[n] = session[n]
    BY DEF Serves
  <2>3. net'[c].up = Tail(net[c].up) /\ net[c].up # <<>>
    <3>1. \E q : net'[c] = [state |-> net[c].state, up |-> Tail(net[c].up), down |-> q]
      BY DEF Serves
    <3> QED
      BY <3>1 DEF Serves
  <2>4. \A n \in Connection : net[n].state # "Up" => net'[n].down = net[n].down
    BY DEF Serves
  <2>5. conn' = conn /\ udt' = udt /\ connects' = connects
    BY DEF Serves, processVars
  <2> QED
    BY <2>1, <2>2, <2>3, <2>4, <2>5
<1>2. net[c].up \in Seq(ToServer) /\ c <= connects /\ c \in Nat /\ connects \in Nat
  <2>1. NoConnection.up = <<>>
    BY DEF NoConnection
  <2>2. c \in Nat /\ connects \in Nat
    BY <1>a, SessionsAssumption DEF Types, Connection
  <2>3. net[c].up \in Seq(ToServer)
    BY <1>a DEF Types, Net
  <2>4. ~(c > connects)
    BY <1>a, <1>1, <2>1 DEF Connections
  <2> QED
    BY <2>2, <2>3, <2>4
<1>3. /\ \A d \in Device :
           /\ conn'[d] \in 0..connects'
           /\ udt'[d] \in {"Connecting", "Connected"} => conn'[d] # 0 /\ net'[conn'[d]].state = "Up"
      /\ \A d, e \in Device : conn'[d] = conn'[e] /\ conn'[d] # 0 => d = e
  BY <1>a, <1>1, ConnectionOf DEF Connections
<1>4. ASSUME NEW n \in Connection
      PROVE  net'[n].state # "Up" => net'[n].down = <<>>
  BY <1>a, <1>1, <1>4 DEF Connections
<1>5. ASSUME NEW n \in Connection, n > connects'
      PROVE  net'[n] = NoConnection /\ session'[n] = SessionIn("Unknown")
  <2>1. n # c /\ net[n] = NoConnection /\ session[n] = SessionIn("Unknown")
    <3>1. n > connects
      BY <1>1, <1>5
    <3>2. n # c
      BY <1>2, <3>1
    <3> QED
      BY <1>a, <3>1, <3>2 DEF Connections
  <2>2. net'[n] = [state |-> net[n].state, up |-> net[n].up, down |-> net[n].down]
    BY <2>1 DEF Serves, NoConnection
  <2> QED
    BY <1>1, <2>1, <2>2 DEF NoConnection
<1>6. ASSUME NEW n \in Connection, NEW i \in 1..Len(net'[n].up),
             net'[n].up[i].type \in {"Password", "Proof"}
      PROVE  net'[n].up[i].login \in Login
  <2>1. CASE n # c
    BY <1>a, <1>1, <1>6, <2>1 DEF Connections
  <2>2. CASE n = c
    <3>1. net'[c].up[i] = net[c].up[i + 1] /\ i + 1 \in 1..Len(net[c].up)
      <4>1. i \in 1..Len(Tail(net[c].up)) /\ net'[c].up = Tail(net[c].up) /\ net[c].up # <<>>
        BY <1>1, <1>6, <2>2
      <4> QED
        BY <1>2, <4>1, Rest
    <3> QED
      BY <1>a, <1>6, <2>2, <3>1 DEF Connections
  <2> QED
    BY <2>1, <2>2
<1>7. \A n \in Connection : session'[n].status = "Authorized" => session'[n].login \in Login
  BY <1>a, <1>1 DEF Connections
<1> QED
  BY <1>3, <1>4, <1>5, <1>6, <1>7 DEF Connections

LEMMA LostConnections ==
    ASSUME Inv, NEW c \in Connection, Loses(c)
    PROVE  Connections'
<1>a. TypeOK /\ Types /\ Connections
  BY TypesAre DEF Inv
<1>1. /\ \A n \in Connection : net'[n].state = net[n].state /\ net'[n].down = net[n].down
      /\ \A n \in Connection \ {c} : net'[n] = net[n] /\ session'[n] = session[n]
      /\ net'[c].up = <<>> /\ session'[c].status # "Authorized" /\ net[c].state = "Broken"
      /\ conn' = conn /\ udt' = udt /\ connects' = connects
  BY DEF Loses, processVars, SessionIn
<1>2. \A n \in Connection : n > connects => n # c
  BY <1>a, <1>1 DEF Connections, NoConnection
<1>3. \A n \in Connection : \A i \in 1..Len(net'[n].up) :
         net'[n].up[i].type \in {"Password", "Proof"} => net'[n].up[i].login \in Login
  <2>1. \A i \in 1..Len(net'[c].up) : FALSE
    BY <1>1
  <2> QED
    BY <1>a, <1>1, <2>1 DEF Connections
<1>4. /\ \A d \in Device :
           /\ conn'[d] \in 0..connects'
           /\ udt'[d] \in {"Connecting", "Connected"} => conn'[d] # 0 /\ net'[conn'[d]].state = "Up"
      /\ \A d, e \in Device : conn'[d] = conn'[e] /\ conn'[d] # 0 => d = e
  BY <1>a, <1>1, ConnectionOf DEF Connections
<1> QED
  BY <1>a, <1>1, <1>2, <1>3, <1>4 DEF Connections

\* Connections and the registered sessions are kept by every step of the server.
LEMMA ServerConnections ==
    ASSUME Inv, NEW c \in Connection, HandleEvent(c)
    PROVE  Connections' /\ Registered'
<1>a. TypeOK /\ Types /\ Connections /\ Registered
  BY TypesAre DEF Inv
<1>b. 0 \notin Connection /\ c \in Connection /\ session \in [Connection -> Session]
      /\ byLogin \in [Login -> Nat] /\ latest \in [Login -> Nat]
  BY <1>a, SessionsAssumption DEF Types, Connection
<1> USE DEF Registered, LatestRegistered
<1>e. /\ \A l \in Login : latest[l] # 0 =>
           latest[l] \in Connection /\ session[latest[l]].status \in {"Authorized", "Gone"}
      /\ <<>> \in Seq(ToClient) /\ \A p, q \in ToClient : <<p>> \in Seq(ToClient) /\ <<p, q>> \in Seq(ToClient)
  <2>1. \A l \in Login : latest[l] # 0 =>
           latest[l] \in Connection /\ session[latest[l]].status \in {"Authorized", "Gone"}
    <3>1. ASSUME NEW l \in Login, latest[l] # 0
          PROVE  /\ latest[l] \in Connection
                 /\ session[latest[l]] = [status |-> "Authorized", login |-> l]
                      \/ session[latest[l]].status = "Gone"
      BY <1>a, <3>1
    <3>2. ASSUME NEW l \in Login, latest[l] # 0
          PROVE  session[latest[l]].status \in {"Authorized", "Gone"}
      <4>1. session[latest[l]] = [status |-> "Authorized", login |-> l]
                => session[latest[l]].status = "Authorized"
        OBVIOUS
      <4> QED
        BY <3>1, <3>2, <4>1
    <3> QED
      BY <3>1, <3>2
  <2>2. <<>> \in Seq(ToClient)
    BY EmptySeq
  <2>3. \A p, q \in ToClient : <<p>> \in Seq(ToClient) /\ <<p, q>> \in Seq(ToClient)
    OBVIOUS
  <2> QED
    BY <2>1, <2>2, <2>3
\* A session that is not authorized, before or after, is no login's.
<1>c. ASSUME \A n \in Connection \ {c} : session'[n] = session[n],
             session[c].status \notin {"Authorized", "Gone"},
             session'[c].status # "Authorized", UNCHANGED <<byLogin, latest>>
      PROVE  Registered'
  <2>1. ASSUME NEW l \in Login, latest[l] # 0
        PROVE  latest[l] \in Connection \ {c} /\ session'[latest[l]] = session[latest[l]]
    BY <1>c, <1>e, <2>1
  <2> QED
    BY <1>a, <1>b, <1>c, <2>1
<1>d. session' = session /\ UNCHANGED <<byLogin, latest>> => Registered'
  BY <1>a
<1>1. CASE HandleLost(c)
  <2>1. Loses(c) /\ Connections'
    BY <1>1, LostLoses, LostConnections
  <2>2. /\ session'[c].status = "Gone" /\ latest' = latest
        /\ \A n \in Connection \ {c} : session'[n] = session[n]
        /\ \A l \in Login : byLogin'[l] = IF session[c].login = l /\ byLogin[l] = c THEN 0 ELSE byLogin[l]
    BY <1>b, <1>1, <2>1 DEF Loses, SessionIn, HandleLost
  <2>3. ASSUME NEW l \in Login
        PROVE  /\ byLogin'[l] = IF latest[l] # 0 /\ session'[latest[l]].status = "Authorized"
                                 THEN latest[l] ELSE 0
               /\ latest[l] # 0 => /\ latest[l] \in Connection
                                   /\ session'[latest[l]] = [status |-> "Authorized", login |-> l]
                                        \/ session'[latest[l]].status = "Gone"
    <3>1. CASE latest[l] = c
      BY <1>a, <1>b, <2>2, <3>1
    <3>2. CASE latest[l] # c
      BY <1>a, <1>b, <2>2, <3>2
    <3> QED
      BY <3>1, <3>2
  <2> QED
    BY <2>1, <2>2, <2>3
<1>2. CASE HandleHello(c)
  <2>1. PICK k \in {"Registering", "Logining", "Authorizing"}, p \in ToClient :
          /\ Serves(c, c, <<p>>) /\ session' = [session EXCEPT ![c] = SessionIn(k)]
          /\ session[c].status = "Unknown" /\ UNCHANGED <<byLogin, latest>>
    BY <1>2, HelloServes
  <2>2. session'[c].status # "Authorized" /\ \A n \in Connection \ {c} : session'[n] = session[n]
    BY <1>b, <2>1 DEF SessionIn
  <2>3. Connections'
    BY <1>e, <2>1, <2>2, ServedConnections
  <2> QED
    BY <1>c, <2>1, <2>2, <2>3
<1>3. CASE HandleRegistration(c)
  <2>1. PICK p \in ToClient : Serves(c, c, <<p>>) /\ UNCHANGED <<session, byLogin, latest>>
    BY <1>3, RegistrationServes
  <2>2. session'[c].status = "Authorized" => session'[c].login \in Login
    BY <1>a, <2>1 DEF Connections
  <2>3. Connections'
    BY <1>e, <2>1, <2>2, ServedConnections
  <2> QED
    BY <1>d, <2>1, <2>3
<1>4. CASE HandlePassword(c)
  <2>1. PICK p \in ToClient : Serves(c, c, <<p>>) /\ UNCHANGED <<session, byLogin, latest>>
    BY <1>4, PasswordServes DEF serverVars
  <2>2. session'[c].status = "Authorized" => session'[c].login \in Login
    BY <1>a, <2>1 DEF Connections
  <2>3. Connections'
    BY <1>e, <2>1, <2>2, ServedConnections
  <2> QED
    BY <1>d, <2>1, <2>3
<1>5. CASE HandleProof(c)
  <2>1. PICK l \in Login, p, q \in ToClient :
          /\ l = Received(c).login /\ Serves(c, c, <<p, q>>)
          /\ net[c].up[1] = Received(c) /\ Received(c).type = "Proof"
          /\ p.type = "SessionKey" /\ p.key = Received(c).key /\ p.sessionKey = c
          /\ q.type = "Info" /\ q.sessionKey = c
          /\ session[c].status = "Authorizing"
          /\ account[l] # 0 /\ account[l] = Received(c).key
          /\ session' = [session EXCEPT ![c] = [status |-> "Authorized", login |-> l]]
          /\ byLogin' = [byLogin EXCEPT ![l] = c] /\ latest' = [latest EXCEPT ![l] = c]
          /\ UNCHANGED account
    BY <1>5, ProofServes
  <2>2. /\ session'[c] = [status |-> "Authorized", login |-> l]
        /\ \A n \in Connection \ {c} : session'[n] = session[n]
        /\ byLogin'[l] = c /\ latest'[l] = c
        /\ \A k \in Login \ {l} : byLogin'[k] = byLogin[k] /\ latest'[k] = latest[k]
    BY <1>b, <2>1
  <2>3. Connections'
    <3>1. <<p, q>> \in Seq(ToClient) /\ session'[c].login \in Login
      BY <1>e, <2>1, <2>2
    <3> QED
      BY <2>1, <3>1, ServedConnections
  <2>4. \A k \in Login : latest[k] # 0 => latest[k] \in Connection \ {c}
    BY <1>e, <2>1
  <2> QED
    BY <1>a, <1>b, <2>1, <2>2, <2>3, <2>4
<1>6. CASE HandleWrongProof(c)
  <2>1. Serves(c, c, <<>>) /\ UNCHANGED <<session, byLogin, latest>> /\ <<>> \in Seq(ToClient)
    BY <1>6, WrongProofServes, EmptySeq DEF serverVars
  <2>2. session'[c].status = "Authorized" => session'[c].login \in Login
    BY <1>a, <2>1 DEF Connections
  <2>3. Connections'
    <3> DEFINE none == <<>>
    <3>1. none \in Seq(ToClient) /\ Serves(c, c, none)
      BY <2>1
    <3> HIDE DEF none
    <3> QED
      BY <2>2, <3>1, ServedConnections
  <2> QED
    BY <1>d, <2>1, <2>3
<1>7. CASE HandleRequest(c)
  <2>1. UNCHANGED <<session, byLogin, latest>>
    BY <1>7, RequestServes DEF serverVars
  <2>2. session'[c].status = "Authorized" => session'[c].login \in Login
    BY <1>a, <2>1 DEF Connections
  <2>3. PICK r \in Nat, packets \in Seq(ToClient) : Serves(c, r, packets)
    BY <1>7, <1>e, RequestServes
  <2>4. Connections'
    BY <2>2, <2>3, ServedConnections
  <2> QED
    BY <1>d, <2>1, <2>4
<1> QED
  BY <1>1, <1>2, <1>3, <1>4, <1>5, <1>6, <1>7 DEF HandleEvent

-----------------------------------------------------------------------------
(* The processes that a step leaves alone *)

\* Nothing of this process, its connection and its session changes.
Untouched(d) ==
    /\ state'[d] = state[d] /\ data'[d] = data[d] /\ sessionKey'[d] = sessionKey[d]
    /\ saved'[d] = saved[d] /\ udt'[d] = udt[d] /\ conn'[d] = conn[d] /\ events'[d] = events[d]
    /\ (d \in lost' <=> d \in lost)
    /\ Up(d)' = Up(d) /\ Down(d)' = Down(d)
    /\ conn[d] # 0 => Serving(d)' = Serving(d) /\ net'[conn[d]].state = net[conn[d]].state

\* Accounts are never changed.
Accounts == \A l \in Login : account[l] # 0 => account'[l] = account[l]

LEMMA UntouchedKept ==
    ASSUME Types, NEW d \in Device, Process(d), Untouched(d), Accounts
    PROVE  Process(d)'
<1> DEFINE u == Up(d)
           w == Down(d)
<1>1. /\ state'[d] = state[d] /\ data'[d] = data[d] /\ sessionKey'[d] = sessionKey[d]
      /\ saved'[d] = saved[d] /\ udt'[d] = udt[d] /\ conn'[d] = conn[d] /\ events'[d] = events[d]
      /\ (d \in lost' <=> d \in lost) /\ Up(d)' = u /\ Down(d)' = w
      /\ conn[d] # 0 => Serving(d)' = Serving(d) /\ net'[conn[d]].state = net[conn[d]].state
  BY DEF Untouched
<1>2. /\ Offline(d) /\ Starting(d) /\ Enrolling(d) /\ Confirming(d) /\ Proving(d) /\ Online(d)
      /\ Owned(d) /\ Kept(d) /\ Unlost(d) /\ Up(d) = u /\ Down(d) = w
  BY DEF Process
<1>3. /\ data[d].login # NoLogin => data[d].login \in Login
      /\ saved[d].login # NoLogin => saved[d].login \in Login
  <2>1. data[d] \in Data /\ saved[d] \in Data
    BY DEF Types
  <2> QED
    BY <2>1 DEF Data
<1> HIDE DEF u, w
<1>4. Offline(d)'
  <2>1. Cut(d) => Cut(d)'
    BY <1>1, <1>2 DEF Cut
  <2> QED
    BY <1>1, <1>2, <2>1 DEF Offline, OnlyInfo
<1>5. Starting(d)'
  BY <1>1, <1>2 DEF Starting, OnlyInfo, FirstAnswer
<1>6. Enrolling(d)'
  BY <1>1, <1>2 DEF Enrolling
<1>7. Confirming(d)'
  <2>1. CASE state[d] \notin {"RegisteringConfirmWait", "LoginingConfirmWait"}
    BY <1>1, <2>1 DEF Confirming
  <2>2. CASE state[d] \in {"RegisteringConfirmWait", "LoginingConfirmWait"}
    <3>1. \A p : Request(d, p) => Request(d, p)'
      BY <1>1 DEF Request
    <3>2. \A p : Result(d, p) => Result(d, p)'
      BY <1>1, <1>2, <1>3, <2>2 DEF Result, Accounts, Confirming
    <3> QED
      BY <1>1, <1>2, <2>2, <3>1, <3>2 DEF Confirming
  <2> QED
    BY <2>1, <2>2
<1>8. Proving(d)'
  <2>1. CASE state[d] # "ConnectingConfirmWait"
    BY <1>1, <2>1 DEF Proving
  <2>2. CASE state[d] = "ConnectingConfirmWait"
    <3>1. Serving(d)' = Serving(d) /\ conn[d] # 0 /\ net'[conn[d]].state = net[conn[d]].state
      BY <1>1, <1>2, <2>2 DEF Proving
    <3>2. \A p : KeyOf(d, p) => KeyOf(d, p)'
      BY <1>1, <3>1 DEF KeyOf
    <3> QED
      BY <1>1, <1>2, <2>2, <3>1, <3>2 DEF Proving
  <2> QED
    BY <2>1, <2>2
<1>9. Online(d)'
  BY <1>1, <1>2 DEF Online, OnlyInfo
<1>10. Owned(d)'
  BY <1>1, <1>2, <1>3 DEF Owned, Accounts
<1>11. Kept(d)'
  BY <1>1, <1>2, <1>3 DEF Kept, Accounts
<1>12. Unlost(d)'
  BY <1>1, <1>2 DEF Unlost
<1> QED
  BY <1>4, <1>5, <1>6, <1>7, <1>8, <1>9, <1>10, <1>11, <1>12 DEF Process

\* Another process' step.
LEMMA OtherProcess ==
    ASSUME Inv, NEW e \in Device, NetStep(e), OwnStep(e), NEW d \in Device \ {e}
    PROVE  Process(d)'
<1>a. TypeOK /\ Types /\ Connections /\ Process(d)
  BY TypesAre DEF Inv
<1>1. /\ state'[d] = state[d] /\ data'[d] = data[d] /\ sessionKey'[d] = sessionKey[d]
      /\ saved'[d] = saved[d] /\ udt'[d] = udt[d] /\ conn'[d] = conn[d] /\ events'[d] = events[d]
      /\ (d \in lost' <=> d \in lost) /\ session' = session /\ account' = account
  BY DEF OwnStep, serverVars
<1>2. conn[d] # 0 => conn[d] \in Connection /\ conn[d] # conn[e] /\ conn[d] # connects + 1
  <2>1. conn[d] \in 0..connects /\ connects \in Nat
    BY <1>a, SessionsAssumption DEF Connections, Types
  <2>2. conn[d] # connects + 1
    BY <2>1
  <2> QED
    BY <1>a, <2>2, ConnectionOf DEF Connections
<1>3. conn[d] # 0 => net'[conn[d]] = net[conn[d]]
  <2>1. CASE Opens(e)
    BY <1>a, <1>2, <2>1, SessionsAssumption, Opened DEF Opens
  <2>2. CASE Fails(e)
    BY <1>a, <1>2, <2>2, ClosedNet DEF Fails, FailToOpen
  <2>3. CASE Closes(e)
    BY <1>a, <1>2, <2>3, ClosedNet DEF Closes
  <2>4. ASSUME NEW p \in ToServer, Sends(e, p)
        PROVE  conn[d] # 0 => net'[conn[d]] = net[conn[d]]
    BY <1>a, <1>2, <2>4, SendNet DEF Sends
  <2>5. CASE Takes(e)
    BY <1>a, <1>2, <2>5 DEF Takes, Types
  <2>6. CASE Keeps(e)
    BY <2>6 DEF Keeps
  <2> QED
    BY <2>1, <2>2, <2>3, <2>4, <2>5, <2>6 DEF NetStep
<1>4. Up(d)' = Up(d) /\ Down(d)' = Down(d)
  BY <1>a, <1>1, <1>2, <1>3, ConnectionOf DEF Up, Down
<1>5. Untouched(d) /\ Accounts
  BY <1>1, <1>3, <1>4 DEF Untouched, Accounts, Serving
<1> QED
  BY <1>a, <1>5, UntouchedKept

-----------------------------------------------------------------------------
(* The process that takes a step *)

\* What there is of a process.
LEMMA Parts ==
    ASSUME TypeOK, Connections, NEW d \in Device
    PROVE  /\ Up(d) \in Seq(ToServer) /\ Down(d) \in Seq(ToClient) /\ events[d] \in Seq(Event)
           /\ Len(Up(d)) \in Nat /\ Len(Down(d)) \in Nat /\ Len(events[d]) \in Nat
           /\ Up(d) = <<>> <=> Len(Up(d)) = 0
           /\ Down(d) = <<>> <=> Len(Down(d)) = 0
           /\ events[d] = <<>> <=> Len(events[d]) = 0
           /\ conn[d] = 0 => Up(d) = <<>> /\ Down(d) = <<>>
           /\ conn[d] # 0 => Up(d) = net[conn[d]].up /\ Down(d) = net[conn[d]].down
           /\ udt[d] \in {"Disconnected", "Connecting", "Connected", "Ended", "Closing"}
           /\ data[d] \in Data /\ saved[d] \in Data /\ state[d] \in State
<1>1. /\ data[d] \in Data /\ saved[d] \in Data /\ state[d] \in State
      /\ udt[d] \in {"Disconnected", "Connecting", "Connected", "Ended", "Closing"}
      /\ events[d] \in Seq(Event) /\ net \in [Connection -> Net]
  BY TypesAre DEF Types
<1>2. conn[d] # 0 <=> conn[d] \in Connection
  BY ConnectionOf
<1>3. <<>> \in Seq(ToServer) /\ <<>> \in Seq(ToClient)
  BY EmptySeq
<1>4. Up(d) \in Seq(ToServer) /\ Down(d) \in Seq(ToClient)
  BY <1>1, <1>3 DEF Up, Down, Net
<1>5. /\ conn[d] = 0 => Up(d) = <<>> /\ Down(d) = <<>>
      /\ conn[d] # 0 => Up(d) = net[conn[d]].up /\ Down(d) = net[conn[d]].down
  BY <1>2 DEF Up, Down
<1>6. Len(Up(d)) \in Nat /\ Len(Down(d)) \in Nat /\ Len(events[d]) \in Nat
  BY <1>1, <1>4, LenProperties
<1>7. (Up(d) = <<>> <=> Len(Up(d)) = 0) /\ (Down(d) = <<>> <=> Len(Down(d)) = 0)
      /\ (events[d] = <<>> <=> Len(events[d]) = 0)
  BY <1>1, <1>4, Empty
<1> QED
  BY <1>1, <1>4, <1>5, <1>6, <1>7

\* The event that is taken is the first.
LEMMA Popped ==
    ASSUME TypeOK, NEW d \in Device, events[d] # <<>>, PopEvent(d)
    PROVE  /\ Len(events[d]) \in Nat \ {0} /\ Head(events[d]) = events[d][1] /\ 1 \in 1..Len(events[d])
           /\ events'[d] = Tail(events[d]) /\ Len(events'[d]) = Len(events[d]) - 1
           /\ \A i \in 1..Len(events'[d]) : /\ events'[d][i] = events[d][i + 1]
                                           /\ i + 1 \in 1..Len(events[d]) /\ i + 1 # 1
           /\ Len(events[d]) = 1 => events'[d] = <<>>
<1>1. events \in [Device -> Seq(Event)] /\ events[d] \in Seq(Event)
  BY TypesAre DEF Types
<1>2. events'[d] = Tail(events[d])
  BY <1>1 DEF PopEvent
<1>3. /\ Tail(events[d]) \in Seq(Event) /\ Len(Tail(events[d])) = Len(events[d]) - 1
      /\ Len(events[d]) \in Nat \ {0} /\ Head(events[d]) = events[d][1]
      /\ \A i \in 1..Len(Tail(events[d])) : /\ Tail(events[d])[i] = events[d][i + 1]
                                            /\ i + 1 \in 1..Len(events[d])
  BY <1>1, Rest
<1>4. /\ 1 \in 1..Len(events[d]) /\ \A i \in 1..Len(Tail(events[d])) : i + 1 # 1
      /\ Len(events[d]) = 1 => Len(Tail(events[d])) = 0
  BY <1>3
<1>5. Len(events[d]) = 1 => Tail(events[d]) = <<>>
  BY <1>3, <1>4, Empty
<1> QED
  BY <1>2, <1>3, <1>4, <1>5

\* The connection and the session of a process that opens, closes or uses it.
LEMMA OpenedParts ==
    ASSUME Inv, NEW d \in Device, NewConnection(d), UNCHANGED session
    PROVE  /\ Up(d)' = <<>> /\ Down(d)' = <<>> /\ conn'[d] # 0
           /\ Serving(d)' = SessionIn("Unknown")
<1>a. TypeOK /\ Types /\ Connections
  BY TypesAre DEF Inv
<1>1. /\ connects' \in Connection /\ connects' = connects + 1
      /\ conn' = [conn EXCEPT ![d] = connects + 1]
      /\ net'[connects + 1] = [state |-> "Up", up |-> <<>>, down |-> <<>>]
      /\ session[connects + 1] = SessionIn("Unknown")
  BY <1>a, SessionsAssumption, Opened
<1>2. conn'[d] = connects + 1 /\ connects + 1 \in Connection
  BY <1>a, <1>1 DEF Types
<1>3. 0 \notin Connection
  BY <1>a, ConnectionOf
<1>4. net'[conn'[d]].up = <<>> /\ net'[conn'[d]].down = <<>>
  BY <1>1, <1>2
<1> QED
  BY <1>1, <1>2, <1>3, <1>4 DEF Up, Down, Serving

LEMMA ClosedParts ==
    ASSUME Inv, NEW d \in Device, net' = Closed(d), conn' = conn
    PROVE  Up(d)' = Up(d) /\ Down(d)' = <<>>
<1>a. TypeOK
  BY DEF Inv
<1>1. CASE conn[d] \in Connection
  <2>1. Closed(d)[conn[d]].up = net[conn[d]].up /\ Closed(d)[conn[d]].down = <<>>
    <3>1. Closed(d)[conn[d]] = [state |-> "Broken", up |-> net[conn[d]].up, down |-> <<>>]
      BY <1>a, <1>1, ClosedNet
    <3> QED
      BY <3>1
  <2> QED
    BY <1>1, <2>1 DEF Up, Down
<1>2. CASE conn[d] \notin Connection
  BY <1>2 DEF Up, Down
<1> QED
  BY <1>1, <1>2

LEMMA NoParts ==
    ASSUME SessionsAssumption, NEW d \in Device, conn'[d] = 0
    PROVE  Up(d)' = <<>> /\ Down(d)' = <<>>
<1>1. 0 \notin Connection
  BY DEF SessionsAssumption, Connection
<1> QED
  BY <1>1 DEF Up, Down

LEMMA SentParts ==
    ASSUME Inv, NEW d \in Device, NEW p \in ToServer, Send(d, p), conn' = conn
    PROVE  /\ Down(d)' = Down(d)
           /\ Up(d)' = IF udt[d] = "Connected" THEN Append(Up(d), p) ELSE Up(d)
<1>a. TypeOK /\ Connections
  BY DEF Inv
<1>1. CASE conn[d] \in Connection
  <2>1. \E q : /\ net'[conn[d]] = [state |-> net[conn[d]].state, up |-> q, down |-> net[conn[d]].down]
               /\ q = IF udt[d] = "Connected" THEN Append(net[conn[d]].up, p) ELSE net[conn[d]].up
    BY <1>a, <1>1, SendNet
  <2>2. /\ net'[conn[d]].down = net[conn[d]].down
        /\ net'[conn[d]].up = IF udt[d] = "Connected" THEN Append(net[conn[d]].up, p)
                               ELSE net[conn[d]].up
    BY <2>1
  <2> QED
    BY <1>1, <2>2 DEF Up, Down
<1>2. CASE conn[d] \notin Connection
  BY <1>a, <1>2, ConnectionOf DEF Up, Down
<1> QED
  BY <1>1, <1>2

LEMMA SameParts ==
    ASSUME NEW d \in Device, net' = net, conn' = conn
    PROVE  Up(d)' = Up(d) /\ Down(d)' = Down(d)
BY DEF Up, Down

\* What a call of the user starts: nothing is under way on its connection, or there is none.
LEMMA CallProcess ==
    ASSUME Inv, NEW d \in Device, NEW to \in {"Registering", "Logining", "Connecting"},
           CanCall(d),
           (Open(d) /\ UNCHANGED lost)
             \/ (FailToOpen(d) /\ state'[d] \in {"Disconnected", "Connecting"}),
           UNCHANGED session, UNCHANGED account,
           saved'[d] = saved[d], events'[d] = events[d],
           Open(d) => state'[d] = to, state'[d] = "Connecting" => to = "Connecting",
           data'[d].login # NoLogin, data'[d].key # 0 \/ to = "Logining",
           to # "Connecting" => ~data'[d].serverKey,
           d \notin lost /\ to = "Connecting" => data'[d].serverKey
    PROVE  Process(d)'
<1>a. TypeOK /\ Types /\ Connections /\ Process(d) /\ SessionsAssumption /\ 0 \notin Connection
  BY TypesAre, SessionsAssumption DEF Inv, Connection
<1>b. state[d] = "Disconnected" /\ OnlyInfo(d) /\ OnlyInfo(d)'
  <2>1. state[d] = "Disconnected" /\ \A i \in DOMAIN events[d] : events[d][i].type # "Connected"
    BY DEF CanCall
  <2>2. DOMAIN events[d] = 1..Len(events[d])
    BY <1>a, LenProperties DEF Types
  <2>3. OnlyInfo(d)
    BY <1>a, <2>1, <2>2 DEF Process, Offline, Cut, OnlyInfo
  <2> QED
    BY <2>1, <2>3 DEF OnlyInfo
<1>c. Kept(d)'
  BY <1>a DEF Process, Kept
<1>1. CASE Open(d) /\ UNCHANGED lost
  <2>1. /\ Up(d)' = <<>> /\ Down(d)' = <<>> /\ conn'[d] # 0 /\ udt'[d] = "Connecting"
        /\ Serving(d)' = SessionIn("Unknown") /\ state'[d] = to
    BY <1>a, <1>1, OpenedParts DEF Open, Types
  <2>2. Serving(d)'.status = "Unknown"
    BY <2>1 DEF SessionIn
  <2>3. Len(Up(d)') = 0 /\ Len(Down(d)') = 0
    BY <2>1
  <2>4. \A i \in 1..Len(Up(d)') : FALSE
    BY <2>3
  <2>5. \A i \in 1..Len(Down(d)') : FALSE
    BY <2>3
  <2>6. Offline(d)' /\ Confirming(d)' /\ Proving(d)' /\ Online(d)'
    BY <2>1 DEF Offline, Confirming, Proving, Online
  <2>7. \A i \in 1..Len(events'[d]) : IsInfo(events'[d][i])
    BY <1>b DEF OnlyInfo
  <2>8. Starting(d)'
    BY <1>b, <2>1, <2>2, <2>4, <2>5, <2>7 DEF Starting, IsInfo
  <2>9. Enrolling(d)'
    BY <2>1, <2>2 DEF Enrolling
  <2>10. Owned(d)'
    BY <2>2, <2>4 DEF Owned
  <2>11. Unlost(d)'
    <3>1. d \notin lost => events'[d] = <<>>
      BY <1>a, <1>b DEF Process, Unlost
    <3>2. d \notin lost => \A i \in 1..Len(events'[d]) : FALSE
      BY <3>1
    <3> QED
      BY <1>1, <2>1, <3>2 DEF Unlost
  <2> QED
    BY <1>c, <2>6, <2>8, <2>9, <2>10, <2>11 DEF Process
<1>2. CASE FailToOpen(d) /\ state'[d] \in {"Disconnected", "Connecting"}
  <2>1. conn'[d] = 0 /\ udt'[d] = "Disconnected" /\ d \in lost'
    BY <1>a, <1>2 DEF FailToOpen, Types
  <2>2. Up(d)' = <<>> /\ Down(d)' = <<>>
    BY <1>a, <2>1, NoParts
  <2>3. \A i \in 1..Len(Up(d)') : FALSE
    BY <2>2
  <2>4. \A i \in 1..Len(Down(d)') : FALSE
    BY <2>2
  <2>5. Offline(d)' /\ Enrolling(d)' /\ Confirming(d)' /\ Proving(d)' /\ Online(d)'
    BY <1>b, <1>2, <2>1 DEF Offline, Enrolling, Confirming, Proving, Online
  <2>7. \A i \in 1..Len(events'[d]) : IsInfo(events'[d][i])
    BY <1>b DEF OnlyInfo
  <2>8. Starting(d)'
    BY <1>b, <1>2, <2>1, <2>2, <2>3, <2>4, <2>7 DEF Starting, IsInfo
  <2>9. Owned(d)'
    BY <2>1, <2>3 DEF Owned
  <2>10. Unlost(d)'
    BY <2>1 DEF Unlost
  <2> QED
    BY <1>c, <2>5, <2>8, <2>9, <2>10 DEF Process
<1> QED
  BY <1>1, <1>2

LEMMA CallSteps ==
    ASSUME Inv, NEW d \in Device,
           (\E l \in Login : Register(d, l) \/ LogIn(d, l)) \/ Connect(d)
    PROVE  Process(d)'
<1>a. TypeOK /\ Types /\ Connections /\ Process(d) /\ SessionsAssumption
  BY TypesAre, SessionsAssumption DEF Inv
<1>b. connects + 1 # 0 /\ data[d] \in Data
  BY <1>a, SessionsAssumption DEF Types
<1>1. ASSUME NEW l \in Login, Register(d, l)
      PROVE  Process(d)'
  <2>1. data'[d] = [login |-> l, key |-> connects + 1, serverKey |-> FALSE] /\ l # NoLogin
    BY <1>a, <1>1 DEF Register, Types, SessionsAssumption
  <2>2. Open(d) => state'[d] = "Registering" /\ UNCHANGED lost
    <3>1. CASE Open(d) /\ state' = [state EXCEPT ![d] = "Registering"] /\ UNCHANGED lost
      BY <1>a, <3>1 DEF Types
    <3>2. CASE FailToOpen(d)
      <4>1. conn'[d] = 0 /\ (Open(d) => conn'[d] = connects + 1)
        BY <1>a, <3>2 DEF FailToOpen, Open, Types
      <4> QED
        BY <1>b, <4>1
    <3> QED
      BY <1>1, <3>1, <3>2 DEF Register
  <2>3. /\ CanCall(d)
        /\ (Open(d) /\ UNCHANGED lost) \/ (FailToOpen(d) /\ state'[d] = "Disconnected")
        /\ Open(d) \/ state'[d] = "Disconnected"
    <3>1. state[d] = "Disconnected" /\ CanCall(d)
      BY <1>1 DEF Register, CanCall
    <3>2. \/ Open(d) /\ UNCHANGED lost
          \/ FailToOpen(d) /\ state'[d] = state[d]
      BY <1>1 DEF Register
    <3>3. CASE Open(d) /\ UNCHANGED lost
      BY <3>1, <3>3
    <3>4. CASE FailToOpen(d) /\ state'[d] = state[d]
      <4>1. state'[d] = "Disconnected"
        BY <3>1, <3>4
      <4> QED
        BY <3>1, <3>4, <4>1
    <3> QED
      BY <3>2, <3>3, <3>4
  <2>4. UNCHANGED session /\ UNCHANGED account /\ saved'[d] = saved[d] /\ events'[d] = events[d]
    BY <1>1 DEF Register, serverVars
  <2> QED
    BY <1>b, <2>1, <2>2, <2>3, <2>4, CallProcess
<1>2. ASSUME NEW l \in Login, LogIn(d, l)
      PROVE  Process(d)'
  <2>1. data'[d] = [login |-> l, key |-> 0, serverKey |-> FALSE] /\ l # NoLogin
    BY <1>a, <1>2 DEF LogIn, NoData, Types, SessionsAssumption
  <2>2. Open(d) => state'[d] = "Logining" /\ UNCHANGED lost
    <3>1. CASE Open(d) /\ state' = [state EXCEPT ![d] = "Logining"] /\ UNCHANGED lost
      BY <1>a, <3>1 DEF Types
    <3>2. CASE FailToOpen(d)
      <4>1. conn'[d] = 0 /\ (Open(d) => conn'[d] = connects + 1)
        BY <1>a, <3>2 DEF FailToOpen, Open, Types
      <4> QED
        BY <1>b, <4>1
    <3> QED
      BY <1>2, <3>1, <3>2 DEF LogIn
  <2>3. /\ CanCall(d)
        /\ (Open(d) /\ UNCHANGED lost) \/ (FailToOpen(d) /\ state'[d] = "Disconnected")
        /\ Open(d) \/ state'[d] = "Disconnected"
    <3>1. state[d] = "Disconnected" /\ CanCall(d)
      BY <1>2 DEF LogIn, CanCall
    <3>2. \/ Open(d) /\ UNCHANGED lost
          \/ FailToOpen(d) /\ state'[d] = state[d]
      BY <1>2 DEF LogIn
    <3>3. CASE Open(d) /\ UNCHANGED lost
      BY <3>1, <3>3
    <3>4. CASE FailToOpen(d) /\ state'[d] = state[d]
      <4>1. state'[d] = "Disconnected"
        BY <3>1, <3>4
      <4> QED
        BY <3>1, <3>4, <4>1
    <3> QED
      BY <3>2, <3>3, <3>4
  <2>4. UNCHANGED session /\ UNCHANGED account /\ saved'[d] = saved[d] /\ events'[d] = events[d]
    BY <1>2 DEF LogIn, serverVars
  <2> QED
    BY <2>1, <2>2, <2>3, <2>4, CallProcess
<1>3. ASSUME Connect(d)
      PROVE  Process(d)'
  <2>1. data'[d] = data[d] /\ data[d].login # NoLogin /\ data[d].key # 0 /\ state'[d] = "Connecting"
    BY <1>a, <1>3 DEF Connect, Types
  <2>2. CanCall(d) /\ ((Open(d) /\ UNCHANGED lost) \/ FailToOpen(d))
    BY <1>3 DEF Connect
  <2>3. UNCHANGED session /\ UNCHANGED account /\ saved'[d] = saved[d] /\ events'[d] = events[d]
    BY <1>3 DEF Connect, serverVars
  <2>4. d \notin lost => data[d].serverKey
    BY <1>a, <2>1, <2>2 DEF CanCall, Process, Unlost
  <2> QED
    BY <2>1, <2>2, <2>3, <2>4, CallProcess
<1> QED
  BY <1>1, <1>2, <1>3

\* A call that is rejected, and a restart, which takes the data that was saved.
LEMMA ResetProcess ==
    ASSUME Inv, NEW d \in Device, RejectedCall(d) \/ Restart(d)
    PROVE  Process(d)'
<1>a. TypeOK /\ Types /\ Connections /\ Process(d) /\ SessionsAssumption
  BY TypesAre, SessionsAssumption DEF Inv
<1>1. CASE RejectedCall(d)
  <2>1. /\ state[d] = "Connected" /\ state'[d] = state[d] /\ data'[d].login = NoLogin
        /\ saved'[d] = saved[d] /\ udt'[d] = udt[d] /\ conn'[d] = conn[d] /\ events'[d] = events[d]
        /\ lost' = lost /\ account' = account
    BY <1>a, <1>1 DEF RejectedCall, Types, NoData, serverVars
  <2>2. Up(d)' = Up(d) /\ Down(d)' = Down(d)
    BY <1>1, SameParts DEF RejectedCall
  <2>3. Online(d) /\ Kept(d) /\ Unlost(d)
    BY <1>a DEF Process
  <2>4. /\ Offline(d)' /\ Starting(d)' /\ Enrolling(d)' /\ Confirming(d)' /\ Proving(d)'
        /\ Owned(d)' /\ Kept(d)'
    BY <2>1, <2>3 DEF Offline, Starting, Enrolling, Confirming, Proving, Owned, Kept
  <2>5. Online(d)'
    BY <2>1, <2>2, <2>3 DEF Online, OnlyInfo
  <2>6. Unlost(d)'
    BY <2>1, <2>2, <2>3 DEF Unlost
  <2> QED
    BY <2>4, <2>5, <2>6 DEF Process
<1>2. CASE Restart(d)
  <2>1. /\ state'[d] = "Disconnected" /\ data'[d] = saved[d] /\ saved'[d] = saved[d]
        /\ udt'[d] = "Disconnected" /\ conn'[d] = 0 /\ events'[d] = <<>>
        /\ account' = account
    BY <1>a, <1>2 DEF Restart, Types, serverVars
  <2>2. Up(d)' = <<>> /\ Down(d)' = <<>>
    BY <1>a, <2>1, NoParts
  <2>3. \A i \in 1..Len(Up(d)') : FALSE
    BY <2>2
  <2>4. \A i \in 1..Len(events'[d]) : FALSE
    BY <2>1
  <2>5. Kept(d) /\ Kept(d)'
    BY <1>a, <2>1 DEF Process, Kept
  <2>6. /\ Offline(d)' /\ Starting(d)' /\ Enrolling(d)' /\ Confirming(d)' /\ Proving(d)'
        /\ Online(d)'
    BY <2>1, <2>4 DEF Offline, OnlyInfo, Starting, Enrolling, Confirming, Proving, Online
  <2>7. Owned(d)'
    BY <2>1, <2>3 DEF Owned
  <2>8. Unlost(d)'
    BY <2>1, <2>5 DEF Unlost, Kept
  <2> QED
    BY <2>5, <2>6, <2>7, <2>8 DEF Process
<1> QED
  BY <1>1, <1>2

\* The answer goes up, when nothing else is under way.
LEMMA AnswerProcess ==
    ASSUME Inv, NEW d \in Device, NEW right \in BOOLEAN,
           AnswerCaptcha(d, right) \/ EnterPassword(d, right)
    PROVE  Process(d)'
<1>a. TypeOK /\ Types /\ Connections /\ Process(d)
  BY TypesAre DEF Inv
<1>b. PICK from \in {"Registering", "Logining"} :
        LET t == IF from = "Registering" THEN "Registration" ELSE "Password"
            to == IF from = "Registering" THEN "RegisteringConfirmWait" ELSE "LoginingConfirmWait" IN
        Answer(d, from, to, t, right)
  BY DEF AnswerCaptcha, EnterPassword
<1> DEFINE t == IF from = "Registering" THEN "Registration" ELSE "Password"
           to == IF from = "Registering" THEN "RegisteringConfirmWait" ELSE "LoginingConfirmWait"
           p == [type |-> t, login |-> data[d].login, key |-> data[d].key, right |-> right]
<1>1. /\ state[d] = from /\ data[d].serverKey /\ Send(d, p) /\ state'[d] = to
      /\ data'[d] = data[d] /\ saved'[d] = saved[d] /\ udt'[d] = udt[d] /\ conn' = conn
      /\ events'[d] = events[d] /\ lost' = lost /\ account' = account /\ session' = session
  BY <1>a, <1>b DEF Answer, Types, serverVars
<1>2. /\ Starting(d) /\ Enrolling(d) /\ Owned(d) /\ Kept(d) /\ Unlost(d) /\ p \in ToServer
      /\ data[d].login # NoLogin
  <2>1. data[d] \in Data
    BY <1>a DEF Types
  <2>2. p \in ToServer
    BY <2>1 DEF Data, ToServer
  <2>3. Starting(d) /\ Enrolling(d) /\ Owned(d) /\ Kept(d) /\ Unlost(d)
    BY <1>a DEF Process
  <2> QED
    BY <1>1, <2>2, <2>3 DEF Starting
<1>3. /\ events[d] = <<>> /\ Up(d) = <<>> /\ Down(d) = <<>> /\ udt[d] # "Connecting" /\ conn[d] # 0
      /\ Serving(d).status \notin {"Authorizing", "Authorized"}
      /\ from = "Registering" => data[d].key # 0
  BY <1>1, <1>2 DEF Enrolling
<1>4. Down(d)' = <<>> /\ Up(d)' \in {<<>>, <<p>>} /\ Serving(d)' = Serving(d)
  <2>1. Append(<<>>, p) = <<p>>
    OBVIOUS
  <2> QED
    BY <1>1, <1>2, <1>3, <2>1, SentParts DEF Serving
<1>5. /\ \A i \in 1..Len(Up(d)') : i = 1 /\ Up(d)'[i] = p
      /\ \A i \in 1..Len(Down(d)') : FALSE
      /\ \A i \in 1..Len(events'[d]) : FALSE
  <2> HIDE DEF p
  <2>1. Len(<<p>>) = 1 /\ <<p>>[1] = p /\ Len(<<>>) = 0
    OBVIOUS
  <2>2. Len(Down(d)') = 0 /\ events'[d] = <<>> /\ Len(events'[d]) = 0
    BY <1>1, <1>3, <1>4
  <2>3. \A i \in 1..Len(Up(d)') : i = 1 /\ Up(d)'[i] = p
    <3>1. CASE Up(d)' = <<>>
      BY <3>1
    <3>2. CASE Up(d)' = <<p>>
      BY <2>1, <3>2
    <3> QED
      BY <1>4, <3>1, <3>2
  <2> QED
    BY <2>2, <2>3
<1>6. /\ p.login = data'[d].login /\ p.type # "Proof"
      /\ \/ state'[d] = "RegisteringConfirmWait" /\ p.type = "Registration" /\ p.key = data'[d].key
         \/ state'[d] = "LoginingConfirmWait" /\ p.type = "Password"
  BY <1>1
<1> HIDE DEF p
<1>7. Confirming(d)'
  <2>1. \A i \in 1..Len(Up(d)') : i = 1 /\ Request(d, Up(d)[i])'
    BY <1>5, <1>6 DEF Request
  <2> QED
    BY <1>1, <1>2, <1>3, <1>4, <1>5, <2>1 DEF Confirming
<1>8. Owned(d)'
  BY <1>1, <1>3, <1>4, <1>5, <1>6 DEF Owned
<1>9. Offline(d)' /\ Starting(d)' /\ Enrolling(d)' /\ Proving(d)' /\ Online(d)'
  BY <1>1 DEF Offline, Starting, Enrolling, Proving, Online
<1>10. Kept(d)' /\ Unlost(d)'
  BY <1>1, <1>2, <1>3 DEF Kept, Unlost
<1> QED
  BY <1>7, <1>8, <1>9, <1>10 DEF Process

\* The states in which a worker runs.
LEMMA LiveState ==
    ASSUME NEW d \in Device, Process(d), state[d] \in State,
           state[d] # "Disconnected" \/ ~Cut(d)
    PROVE  /\ udt[d] = "Connecting" => state[d] \in {"Registering", "Logining", "Connecting"}
           /\ udt[d] = "Connected" => state[d] \notin {"Disconnected", "Dead"}
BY DEF Process, Offline, Confirming, Proving, Online, State

\* It stays offline while neither the process nor what is left of it changes.
LEMMA OfflineKept ==
    ASSUME NEW d \in Device, Offline(d), state' = state, udt' = udt, events' = events,
           state[d] = "Disconnected" /\ Cut(d) => Cut(d)'
    PROVE  Offline(d)'
BY DEF Offline, OnlyInfo

\* The process ends.
LEMMA DieProcess ==
    ASSUME Inv, NEW d \in Device, Die(d), d \in lost' \/ data[d].login = NoLogin
    PROVE  Process(d)'
<1>a. TypeOK /\ Types /\ Connections /\ Process(d)
  BY TypesAre DEF Inv
<1>1. /\ udt'[d] = "Disconnected" /\ state'[d] = "Dead" /\ events'[d] = <<>>
      /\ data'[d] = data[d] /\ saved'[d] = saved[d] /\ conn' = conn
      /\ account' = account /\ session' = session /\ net' = Closed(d)
  BY <1>a DEF Die, Types, serverVars
<1>2. Up(d)' = Up(d) /\ Down(d)' = <<>> /\ Serving(d)' = Serving(d)
  BY <1>1, ClosedParts DEF Serving
<1>3. Owned(d) /\ Kept(d)
  BY <1>a DEF Process
<1>4. Owned(d)' /\ Kept(d)'
  BY <1>1, <1>2, <1>3 DEF Owned, Kept
<1>5. Offline(d)' /\ Starting(d)' /\ Enrolling(d)' /\ Confirming(d)' /\ Proving(d)' /\ Online(d)'
  BY <1>1 DEF Offline, Starting, Enrolling, Confirming, Proving, Online
<1>6. Unlost(d)'
  BY <1>1 DEF Unlost
<1> QED
  BY <1>4, <1>5, <1>6 DEF Process

\* The event of a worker, at the end of a queue.
LEMMA ConnectedAdded ==
    ASSUME TypeOK, NEW d \in Device, NEW b \in BOOLEAN,
           \A i \in 1..Len(events[d]) : IsInfo(events[d][i]) \/ events[d][i].type = "Connected",
           events' = events \/ events' = [events EXCEPT ![d] = Append(@, Connected(b))]
    PROVE  \A i \in 1..Len(events'[d]) : IsInfo(events'[d][i]) \/ events'[d][i].type = "Connected"
<1>1. CASE events' = events
  BY <1>1
<1>2. CASE events' = [events EXCEPT ![d] = Append(@, Connected(b))]
  <2>1. events \in [Device -> Seq(Event)] /\ Connected(b) \in Event /\ Connected(b).type = "Connected"
    BY TypesAre DEF Types, Connected, Event
  <2>2. events'[d] = Append(events[d], Connected(b)) /\ events[d] \in Seq(Event)
    BY <1>2, <2>1
  <2>3. /\ Len(events'[d]) = Len(events[d]) + 1 /\ Len(events[d]) \in Nat
        /\ \A i \in 1..Len(events[d]) : events'[d][i] = events[d][i]
        /\ events'[d][Len(events[d]) + 1] = Connected(b)
    BY <2>1, <2>2, Appended
  <2>4. ASSUME NEW i \in 1..Len(events'[d])
        PROVE  i \in 1..Len(events[d]) \/ i = Len(events[d]) + 1
    BY <2>3
  <2> QED
    BY <2>1, <2>3, <2>4
<1> QED
  BY <1>1, <1>2

\* A process whose attempt was cut off.
LEMMA CutProcess ==
    ASSUME NEW d \in Device, Process(d), state'[d] = "Disconnected", Cut(d)',
           saved'[d] = saved[d], UNCHANGED account
    PROVE  Process(d)'
<1>1. d \in lost' /\ Serving(d)'.status # "Authorized" /\ Up(d)' = <<>>
  BY DEF Cut
<1>2. \A i \in 1..Len(Up(d)') : FALSE
  BY <1>1
<1>3. Kept(d)'
  BY DEF Process, Kept
<1>4. Owned(d)'
  BY <1>1, <1>2 DEF Owned
<1>5. Unlost(d)'
  BY <1>1 DEF Unlost
<1>6. Offline(d)' /\ Starting(d)' /\ Enrolling(d)' /\ Confirming(d)' /\ Proving(d)' /\ Online(d)'
  BY DEF Offline, Starting, Enrolling, Confirming, Proving, Online
<1> QED
  BY <1>3, <1>4, <1>5, <1>6 DEF Process

\* What its worker does.
LEMMA CutStep ==
    ASSUME Inv, NEW d \in Device, state[d] = "Disconnected", Cut(d), Network(d)
    PROVE  Process(d)'
<1>a. TypeOK /\ Types /\ Connections /\ Process(d)
  BY TypesAre DEF Inv
<1>1. /\ conn[d] # 0 /\ Up(d) = <<>> /\ Down(d) = <<>> /\ Serving(d).status # "Authorized"
      /\ d \in lost /\ \A i \in 1..Len(events[d]) :
                         IsInfo(events[d][i]) \/ events[d][i].type = "Connected"
  BY DEF Cut
<1>2. ~Arrive(d)
  <2>1. SUFFICES ASSUME Arrive(d) PROVE FALSE
    OBVIOUS
  <2>2. net[conn[d]].down # <<>>
    BY <2>1 DEF Arrive
  <2> QED
    BY <1>a, <1>1, <2>2, Parts
<1>3. /\ Established(d) \/ TimedOut(d) \/ WorkerEnds(d) \/ Break(d)
      /\ UNCHANGED <<account, session, saved, conn>> /\ d \in lost'
  BY <1>1, <1>2 DEF Network, Established, TimedOut, WorkerEnds, Break, serverVars
<1>4. Up(d)' = <<>> /\ Down(d)' = <<>> /\ state'[d] = "Disconnected"
  <2>1. CASE Break(d)
    <3>1. net' = Closed(d)
      BY <2>1 DEF Break
    <3>2. state'[d] = "Disconnected"
      BY <1>a, <2>1 DEF Break, Types
    <3> QED
      BY <1>1, <1>3, <3>1, <3>2, ClosedParts
  <2>2. CASE Established(d) \/ TimedOut(d) \/ WorkerEnds(d)
    <3>1. net' = net /\ state' = state
      BY <2>2 DEF Established, TimedOut, WorkerEnds
    <3> QED
      BY <1>1, <1>3, <3>1, SameParts
  <2> QED
    BY <1>3, <2>1, <2>2
<1>5. \A i \in 1..Len(events'[d]) : IsInfo(events'[d][i]) \/ events'[d][i].type = "Connected"
  <2>1. CASE Break(d) \/ WorkerEnds(d)
    <3>1. events' = events
      BY <2>1 DEF Break, WorkerEnds
    <3> QED
      BY <1>1, <3>1
  <2>2. ASSUME NEW b \in BOOLEAN, events' = [events EXCEPT ![d] = Append(@, Connected(b))]
        PROVE  \A i \in 1..Len(events'[d]) : IsInfo(events'[d][i]) \/ events'[d][i].type = "Connected"
    BY <1>a, <1>1, <2>2, ConnectedAdded
  <2>3. CASE Established(d) \/ TimedOut(d)
    BY <2>2, <2>3 DEF Established, TimedOut
  <2> QED
    BY <1>3, <2>1, <2>3
<1>6. Cut(d)'
  BY <1>1, <1>3, <1>4, <1>5 DEF Cut, Serving
<1> QED
  BY <1>a, <1>3, <1>4, <1>6, CutProcess

\* The call that is cut off.
LEMMA CutCallProcess ==
    ASSUME Inv, NEW d \in Device, CutCall(d)
    PROVE  Process(d)'
<1>a. TypeOK /\ Types /\ Connections /\ Process(d)
  BY TypesAre DEF Inv
<1>1. state[d] = "Disconnected" /\ lost' = lost \cup {d} /\ d \in lost'
  BY DEF CutCall
<1>2. CASE Die(d)
  BY <1>1, <1>2, DieProcess
<1>3. CASE ~Die(d)
  <2>1. /\ NewConnection(d) /\ UNCHANGED <<account, session, state, saved>>
        /\ events' = events \/ events' = [events EXCEPT ![d] = Append(@, Connected(TRUE))]
    BY <1>3 DEF CutCall, serverVars
  <2>2. /\ Up(d)' = <<>> /\ Down(d)' = <<>> /\ conn'[d] # 0
        /\ Serving(d)' = SessionIn("Unknown")
    BY <2>1, OpenedParts
  <2>3. Serving(d)'.status # "Authorized"
    BY <2>2 DEF SessionIn
  <2>4. \A i \in 1..Len(events[d]) : IsInfo(events[d][i]) \/ events[d][i].type = "Connected"
    BY <1>a, <1>1 DEF Process, Offline, Cut, OnlyInfo
  <2>5. \A i \in 1..Len(events'[d]) : IsInfo(events'[d][i]) \/ events'[d][i].type = "Connected"
    BY <1>a, <2>1, <2>4, ConnectedAdded
  <2>6. Cut(d)'
    BY <1>1, <2>2, <2>3, <2>5 DEF Cut
  <2> QED
    BY <1>a, <1>1, <2>1, <2>6, CutProcess
<1> QED
  BY <1>2, <1>3

\* The worker ends unreported.
LEMMA EndedProcess ==
    ASSUME Inv, NEW d \in Device, WorkerEnds(d), state[d] # "Disconnected" \/ ~Cut(d)
    PROVE  Process(d)'
<1>a. TypeOK /\ Types /\ Connections /\ Process(d)
  BY TypesAre DEF Inv
<1>1. /\ udt[d] = "Connecting" /\ udt'[d] = "Ended" /\ d \in lost'
      /\ UNCHANGED <<net, state, data, saved, conn, events, account, session>>
  BY <1>a DEF WorkerEnds, Types, serverVars
<1>2. /\ state[d] \in {"Registering", "Logining", "Connecting"}
      /\ Starting(d) /\ Enrolling(d) /\ Owned(d) /\ Kept(d)
  BY <1>a, <1>1, LiveState DEF Process, Types
<1>3. Up(d)' = Up(d) /\ Down(d)' = Down(d) /\ Serving(d)' = Serving(d)
  BY <1>1, SameParts DEF Serving
<1>4. Starting(d)'
  BY <1>1, <1>2, <1>3 DEF Starting, OnlyInfo, FirstAnswer
<1>5. Enrolling(d)'
  BY <1>1, <1>2, <1>3 DEF Enrolling
<1>6. Owned(d)' /\ Kept(d)'
  BY <1>1, <1>2, <1>3 DEF Owned, Kept
<1>7. Offline(d)' /\ Confirming(d)' /\ Proving(d)' /\ Online(d)' /\ Unlost(d)'
  BY <1>1, <1>2 DEF Offline, Confirming, Proving, Online, Unlost
<1> QED
  BY <1>4, <1>5, <1>6, <1>7 DEF Process

\* The worker has connected, or given up.
LEMMA WorkerProcess ==
    ASSUME Inv, NEW d \in Device, Established(d) \/ TimedOut(d),
           state[d] # "Disconnected" \/ ~Cut(d)
    PROVE  Process(d)'
<1>a. TypeOK /\ Types /\ Connections /\ Process(d)
  BY TypesAre DEF Inv
<1>b. PICK done \in BOOLEAN : done <=> Established(d)
  OBVIOUS
<1> DEFINE e == [type |-> "Connected", success |-> done]
           q == events[d]
<1>1. /\ udt[d] = "Connecting" /\ state'[d] = state[d] /\ data'[d] = data[d]
      /\ saved'[d] = saved[d] /\ conn' = conn /\ net' = net
      /\ account' = account /\ session' = session
  BY <1>a DEF Established, TimedOut, serverVars
<1>2. IF done THEN udt'[d] = "Connected" /\ events'[d] = Append(q, e) /\ lost' = lost
      ELSE udt'[d] = "Ended" /\ events'[d] = Append(q, e) /\ d \in lost'
  <2>1. events \in [Device -> Seq(Event)] /\ udt \in [Device -> {"Disconnected", "Connecting", "Connected", "Ended", "Closing"}]
    BY <1>a DEF Types
  <2>2. CASE Established(d)
    <3>1. done = TRUE
      BY <1>b, <2>2
    <3> QED
      BY <2>1, <2>2, <3>1 DEF Established, Connected
  <2>3. CASE TimedOut(d) /\ ~Established(d)
    <3>1. done = FALSE
      BY <1>b, <2>3
    <3> QED
      BY <2>1, <2>3, <3>1 DEF TimedOut, Connected
  <2> QED
    BY <2>2, <2>3
<1>3. /\ state[d] \in {"Registering", "Logining", "Connecting"}
      /\ Starting(d) /\ Enrolling(d) /\ Owned(d) /\ Kept(d) /\ Unlost(d)
  BY <1>a, <1>1, LiveState DEF Process, Types
<1>4. /\ \A i \in 1..Len(q) : IsInfo(q[i])
      /\ Up(d) = <<>> /\ Down(d) = <<>>
      /\ Up(d)' = <<>> /\ Down(d)' = <<>> /\ Serving(d)' = Serving(d)
  <2>1. Up(d) = <<>> /\ Down(d) = <<>> /\ OnlyInfo(d)
    BY <1>1, <1>3 DEF Starting
  <2> QED
    BY <1>1, <2>1, SameParts DEF OnlyInfo, Serving
<1>5. /\ Len(events'[d]) = Len(q) + 1 /\ Len(q) \in Nat /\ events'[d][Len(q) + 1] = e
      /\ \A i \in 1..Len(q) : events'[d][i] = q[i]
  <2>1. q \in Seq(Event) /\ e \in Event
    BY <1>a DEF Types, Event
  <2> QED
    BY <1>2, <2>1, Appended
<1>6. e.type = "Connected" /\ e.success = done /\ ~IsInfo(e)
  BY DEF IsInfo
<1> HIDE DEF e, q
<1>7. \A i \in 1..Len(events'[d]) :
         \/ events'[d][i].type = "Data" /\ IsInfo(events'[d][i]) /\ i \in 1..Len(q)
         \/ i = Len(events'[d]) /\ events'[d][i] = e
  <2>1. ASSUME NEW i \in 1..Len(events'[d]), i # Len(events'[d])
        PROVE  events'[d][i].type = "Data" /\ IsInfo(events'[d][i]) /\ i \in 1..Len(q)
    BY <1>4, <1>5, <2>1 DEF IsInfo
  <2> QED
    BY <1>5, <2>1
<1>8. /\ \A i \in 1..Len(Up(d)') : FALSE
      /\ \A i \in 1..Len(Down(d)') : FALSE
  BY <1>4
<1>9. Starting(d)'
  <2>1. udt'[d] # "Connecting" /\ (~done => udt'[d] = "Ended")
    BY <1>2
  <2>2. \A i \in 1..Len(events'[d]) :
           /\ \/ IsInfo(events'[d][i])
              \/ i = Len(events'[d]) /\ events'[d][i].type = "Connected"
           /\ events'[d][i].type = "Connected" /\ ~events'[d][i].success => udt'[d] = "Ended"
    BY <1>6, <1>7, <2>1
  <2> QED
    BY <1>1, <1>3, <1>4, <1>8, <2>1, <2>2 DEF Starting, IsInfo
<1>10. Enrolling(d)'
  <2>1. state[d] \in {"Registering", "Logining"} => ~data[d].serverKey
    BY <1>1, <1>3 DEF Enrolling
  <2> QED
    BY <1>1, <1>3, <1>4, <2>1 DEF Enrolling
<1>11. Owned(d)' /\ Kept(d)'
  BY <1>1, <1>3, <1>4, <1>8 DEF Owned, Kept
<1>12. Unlost(d)'
  <2>1. CASE done /\ d \notin lost
    <3>1. \A i \in 1..Len(q) : FALSE
      BY <1>1, <1>3, <2>1 DEF Unlost, q
    <3>2. \A i \in 1..Len(events'[d]) : ~IsInfo(events'[d][i]) /\ events'[d][i].success
      BY <1>6, <1>7, <2>1, <3>1
    <3> QED
      BY <1>1, <1>2, <1>3, <2>1, <3>2 DEF Unlost
  <2>2. CASE ~(done /\ d \notin lost)
    BY <1>2, <2>2 DEF Unlost
  <2> QED
    BY <2>1, <2>2
<1>13. Offline(d)' /\ Confirming(d)' /\ Proving(d)' /\ Online(d)'
  BY <1>1, <1>3 DEF Offline, Confirming, Proving, Online
<1> QED
  BY <1>9, <1>10, <1>11, <1>12, <1>13 DEF Process

\* The connection of a process breaks.
LEMMA BreakProcess ==
    ASSUME Inv, NEW d \in Device, Break(d), state[d] # "Disconnected" \/ ~Cut(d)
    PROVE  Process(d)'
<1>a. TypeOK /\ Types /\ Connections /\ Process(d)
  BY TypesAre DEF Inv
<1>1. /\ udt[d] = "Connected" /\ udt'[d] = "Disconnected" /\ d \in lost'
      /\ state'[d] = IF state[d] = "Connected" THEN "Disconnected" ELSE state[d]
      /\ data'[d] = data[d] /\ saved'[d] = saved[d] /\ conn' = conn /\ events' = events
      /\ account' = account /\ session' = session /\ net' = Closed(d)
  BY <1>a DEF Break, Types, serverVars
<1>2. Up(d)' = Up(d) /\ Down(d)' = <<>> /\ Serving(d)' = Serving(d)
  BY <1>1, ClosedParts DEF Serving
<1>3. \A i \in 1..Len(Down(d)') : FALSE
  BY <1>2
<1>4. /\ Offline(d) /\ Starting(d) /\ Enrolling(d) /\ Confirming(d) /\ Proving(d) /\ Online(d)
      /\ Owned(d) /\ Kept(d) /\ state[d] \notin {"Disconnected", "Dead"}
  BY <1>a, <1>1, LiveState DEF Process, Types
<1>5. Offline(d)'
  BY <1>1, <1>4 DEF Offline, Online, OnlyInfo
<1>6. Starting(d)'
  <2>1. OnlyInfo(d)' <=> OnlyInfo(d)
    BY <1>1 DEF OnlyInfo
  <2>2. \A i \in 1..Len(events[d]) : ~(events[d][i].type = "Connected" /\ ~events[d][i].success)
          \/ state[d] \notin {"Registering", "Logining", "Connecting"}
    BY <1>1, <1>4 DEF Starting
  <2> QED
    BY <1>1, <1>2, <1>3, <1>4, <2>1, <2>2 DEF Starting, FirstAnswer
<1>7. Enrolling(d)'
  BY <1>1, <1>2, <1>4 DEF Enrolling
<1>8. Confirming(d)'
  <2>1. CASE state'[d] \notin {"RegisteringConfirmWait", "LoginingConfirmWait"}
    BY <2>1 DEF Confirming
  <2>2. CASE state'[d] \in {"RegisteringConfirmWait", "LoginingConfirmWait"}
    <3>1. \A p : Request(d, p) => Request(d, p)'
      BY <1>1, <2>2 DEF Request
    <3>2. \A p : Result(d, p) => Result(d, p)'
      BY <1>1, <2>2 DEF Result
    <3> QED
      BY <1>1, <1>2, <1>3, <1>4, <2>2, <3>1, <3>2 DEF Confirming
  <2> QED
    BY <2>1, <2>2
<1>9. Proving(d)'
  <2>1. CASE state'[d] # "ConnectingConfirmWait"
    BY <2>1 DEF Proving
  <2>2. CASE state'[d] = "ConnectingConfirmWait"
    <3>1. \A p : KeyOf(d, p) => KeyOf(d, p)'
      BY <1>1, <1>2 DEF KeyOf
    <3>2. net'[conn'[d]].state = "Broken"
      <4>1. Closed(d)[conn[d]] = [state |-> "Broken", up |-> net[conn[d]].up, down |-> <<>>]
        BY <1>a, <1>1, ClosedNet, ConnectionOf
      <4>2. Closed(d)[conn[d]].state = "Broken"
        BY <4>1
      <4> QED
        BY <1>1, <4>2
    <3> QED
      BY <1>1, <1>2, <1>3, <1>4, <2>2, <3>1, <3>2 DEF Proving
  <2> QED
    BY <2>1, <2>2
<1>10. Online(d)' /\ Owned(d)' /\ Kept(d)'
  BY <1>1, <1>2, <1>4 DEF Online, Owned, Kept
<1>11. Unlost(d)'
  BY <1>1 DEF Unlost
<1> QED
  BY <1>5, <1>6, <1>7, <1>8, <1>9, <1>10, <1>11 DEF Process

\* A packet comes down to the queue of the process.
LEMMA ArriveParts ==
    ASSUME Inv, NEW d \in Device, Arrive(d)
    PROVE  /\ Down(d) # <<>> /\ Up(d)' = Up(d) /\ Len(Down(d)) \in Nat \ {0}
           /\ Len(Down(d)') = Len(Down(d)) - 1
           /\ Down(d)' = <<>> <=> Len(Down(d)) = 1
           /\ \A i \in 1..Len(Down(d)') :
                Down(d)'[i] = Down(d)[i + 1] /\ i + 1 \in 1..Len(Down(d)) /\ i + 1 # 1
           /\ Len(events'[d]) = Len(events[d]) + 1 /\ Len(events[d]) \in Nat /\ events'[d] # <<>>
           /\ \A i \in 1..Len(events[d]) : events'[d][i] = events[d][i]
           /\ events'[d][Len(events[d]) + 1] = [type |-> "Data", packet |-> Down(d)[1]]
<1>a. TypeOK /\ Types /\ Connections
  BY TypesAre DEF Inv
<1> DEFINE c == conn[d]
           w == net[c].down
           q == events[d]
           e == [type |-> "Data", packet |-> w[1]]
<1>1. /\ udt[d] = "Connected" /\ w # <<>> /\ net' = [net EXCEPT ![c].down = Tail(@)]
      /\ events' = [events EXCEPT ![d] = Append(@, [type |-> "Data", packet |-> Head(w)])]
      /\ conn' = conn
  BY DEF Arrive, processVars
<1>2. c \in Connection /\ c # 0
  BY <1>a, <1>1, ConnectionOf
<1>3. net[c] \in Net /\ net \in [Connection -> Net] /\ events \in [Device -> Seq(Event)]
  BY <1>a, <1>2 DEF Types
<1>4. w \in Seq(ToClient) /\ q \in Seq(Event)
  BY <1>3 DEF Net
<1>5. /\ Tail(w) \in Seq(ToClient) /\ Len(Tail(w)) = Len(w) - 1 /\ Len(w) \in Nat \ {0}
      /\ Head(w) = w[1] /\ w[1] \in ToClient
      /\ \A i \in 1..Len(Tail(w)) : Tail(w)[i] = w[i + 1] /\ i + 1 \in 1..Len(w)
  BY <1>1, <1>4, Rest
<1>6. Up(d) = net[c].up /\ Down(d) = w /\ Up(d)' = net'[c].up /\ Down(d)' = net'[c].down
  BY <1>1, <1>2 DEF Up, Down
<1>7. net'[c].up = net[c].up /\ net'[c].down = Tail(w)
  <2>1. net'[c] = [net[c] EXCEPT !.down = Tail(w)]
    BY <1>1, <1>2, <1>3
  <2>2. net[c] = [state |-> net[c].state, up |-> net[c].up, down |-> net[c].down]
    BY <1>3 DEF Net
  <2> QED
    BY <2>1, <2>2
<1>8. Tail(w) = <<>> <=> Len(w) = 1
  <2>1. Tail(w) = <<>> <=> Len(Tail(w)) = 0
    BY <1>5, Empty
  <2> QED
    BY <1>5, <2>1
<1>9. e \in Event /\ events'[d] = Append(q, e)
  <2>1. e \in Event
    BY <1>5 DEF Event
  <2> QED
    BY <1>1, <1>3, <1>5, <2>1
<1>10. /\ Len(Append(q, e)) = Len(q) + 1 /\ Len(q) \in Nat /\ Append(q, e) # <<>>
       /\ \A i \in 1..Len(q) : Append(q, e)[i] = q[i]
       /\ Append(q, e)[Len(q) + 1] = e
  BY <1>4, <1>9, Appended
<1>11. \A i \in 1..Len(Tail(w)) : i + 1 # 1
  BY <1>5
<1> HIDE DEF c, w, q, e
<1>12. /\ Len(Down(d)') = Len(Down(d)) - 1 /\ Len(Down(d)) \in Nat \ {0} /\ Down(d) # <<>>
       /\ Down(d)' = <<>> <=> Len(Down(d)) = 1
       /\ \A i \in 1..Len(Down(d)') :
            Down(d)'[i] = Down(d)[i + 1] /\ i + 1 \in 1..Len(Down(d)) /\ i + 1 # 1
  BY <1>1, <1>5, <1>6, <1>7, <1>8, <1>11
<1>13. /\ Len(events'[d]) = Len(q) + 1 /\ Len(q) \in Nat /\ events'[d] # <<>>
       /\ \A i \in 1..Len(q) : events'[d][i] = q[i]
       /\ events'[d][Len(q) + 1] = [type |-> "Data", packet |-> Down(d)[1]]
  BY <1>6, <1>9, <1>10 DEF e
<1> QED
  BY <1>6, <1>7, <1>12, <1>13 DEF q

LEMMA ArriveProcess ==
    ASSUME Inv, NEW d \in Device, Arrive(d), state[d] # "Disconnected" \/ ~Cut(d)
    PROVE  Process(d)'
<1>a. TypeOK /\ Types /\ Connections /\ Process(d)
  BY TypesAre DEF Inv
<1> DEFINE q == events[d]
           r == events'[d]
           e == [type |-> "Data", packet |-> Down(d)[1]]
<1>1. /\ udt[d] = "Connected" /\ udt'[d] = "Connected" /\ lost' = lost /\ state'[d] = state[d]
      /\ data'[d] = data[d] /\ saved'[d] = saved[d] /\ conn' = conn /\ sessionKey'[d] = sessionKey[d]
      /\ account' = account /\ session' = session /\ Serving(d)' = Serving(d)
  BY DEF Arrive, serverVars, processVars, Serving
<1>2. /\ Down(d) # <<>> /\ Up(d)' = Up(d) /\ Len(Down(d)) \in Nat \ {0}
      /\ Len(Down(d)') = Len(Down(d)) - 1
      /\ Down(d)' = <<>> <=> Len(Down(d)) = 1
      /\ \A i \in 1..Len(Down(d)') :
           Down(d)'[i] = Down(d)[i + 1] /\ i + 1 \in 1..Len(Down(d)) /\ i + 1 # 1
      /\ Len(r) = Len(q) + 1 /\ Len(q) \in Nat /\ r # <<>>
      /\ \A i \in 1..Len(q) : r[i] = q[i]
      /\ r[Len(q) + 1] = e
  BY ArriveParts
<1>3. \A i \in 1..Len(r) : \/ i \in 1..Len(q) /\ r[i] = q[i]
                           \/ i = Len(r) /\ i = Len(q) + 1 /\ r[i] = e
  BY <1>2
<1>4. e.type = "Data" /\ e.packet = Down(d)[1] /\ 1 \in 1..Len(Down(d))
  BY <1>2
<1>5. q = <<>> <=> Len(q) = 0
  BY <1>a, Parts
<1>6. /\ Starting(d) /\ Enrolling(d) /\ Confirming(d) /\ Proving(d) /\ Online(d)
      /\ Owned(d) /\ Kept(d) /\ Unlost(d) /\ state[d] \notin {"Disconnected", "Dead"}
  BY <1>a, <1>1, LiveState DEF Process, Types
<1> HIDE DEF q, e
<1>7. Starting(d)'
  <2> SUFFICES ASSUME state[d] \in {"Registering", "Logining", "Connecting"}
               PROVE  Starting(d)'
    BY <1>1 DEF Starting
  <2>1. /\ \A i \in 1..Len(q) : IsInfo(q[i])
        /\ Up(d) = <<>> /\ Down(d)[1].type = FirstAnswer(d)
        /\ \A i \in 1..Len(Down(d)) : i = 1
    BY <1>2, <1>4, <1>6 DEF Starting, OnlyInfo, q
  <2>2. Len(Down(d)') = 0 /\ Down(d)' = <<>>
    BY <1>2, <2>1
  <2>3. \A i \in 1..Len(r) :
           /\ IsInfo(r[i]) \/ (i = Len(r) /\ r[i].type = "Data" /\ r[i].packet.type = FirstAnswer(d))
           /\ r[i].type # "Connected"
    BY <1>3, <1>4, <2>1 DEF IsInfo
  <2>4. FirstAnswer(d)' = FirstAnswer(d)
    BY <1>1 DEF FirstAnswer
  <2>5. \A i \in 1..Len(Up(d)') : FALSE
    BY <1>2, <2>1
  <2>6. \A i \in 1..Len(Down(d)') : FALSE
    BY <2>2
  <2> QED
    BY <1>1, <1>2, <1>6, <2>1, <2>2, <2>3, <2>4, <2>5, <2>6 DEF Starting, IsInfo
<1>8. Enrolling(d)'
  <2>1. state[d] \in {"Registering", "Logining"} => ~data[d].serverKey
    BY <1>2, <1>6 DEF Enrolling
  <2> QED
    BY <1>1, <1>6, <2>1 DEF Enrolling
<1>9. Confirming(d)'
  <2> SUFFICES ASSUME state[d] \in {"RegisteringConfirmWait", "LoginingConfirmWait"}
               PROVE  Confirming(d)'
    BY <1>1 DEF Confirming
  <2>1. /\ q = <<>> /\ Up(d) = <<>> /\ Result(d, Down(d)[1])
        /\ \A i \in 1..Len(Down(d)) : i = 1
    BY <1>2, <1>4, <1>6 DEF Confirming, q
  <2>2. Len(Down(d)') = 0 /\ Down(d)' = <<>> /\ Len(q) = 0
    BY <1>2, <1>5, <2>1
  <2>3. \A i \in 1..Len(r) : i = 1 /\ r[i] = e
    BY <1>3, <2>2
  <2>5. \A i \in 1..Len(events'[d]) :
           i = 1 /\ events'[d][i].type = "Data" /\ Result(d, events[d][i].packet)'
    <3>1. Result(d, Down(d)[1])
      BY <2>1
    <3>2. \A i \in 1..Len(r) : r[i].packet = Down(d)[1] /\ r[i].type = "Data" /\ i = 1
      BY <1>4, <2>3
    <3> QED
      BY <1>1, <3>1, <3>2 DEF Result
  <2>6. \A i \in 1..Len(Up(d)') : FALSE
    BY <1>2, <2>1
  <2>7. \A i \in 1..Len(Down(d)') : FALSE
    BY <2>2
  <2> QED
    BY <1>1, <1>2, <1>6, <2>1, <2>2, <2>5, <2>6, <2>7 DEF Confirming
<1>10. Proving(d)'
  <2> SUFFICES ASSUME state[d] = "ConnectingConfirmWait"
               PROVE  Proving(d)'
    BY <1>1 DEF Proving
  <2>1. /\ Up(d) = <<>>
        /\ \A i \in 1..Len(q) : IF i = 1 THEN q[i].type = "Data" /\ KeyOf(d, q[i].packet)
                                ELSE IsInfo(q[i])
        /\ IF q = <<>> THEN KeyOf(d, Down(d)[1]) ELSE Down(d)[1].type = "Info"
        /\ \A i \in 1..Len(Down(d)) : i # 1 => Down(d)[i].type = "Info"
    BY <1>2, <1>4, <1>6 DEF Proving, q
  <2>2. \A i \in 1..Len(r) : IF i = 1 THEN r[i].type = "Data" /\ KeyOf(d, r[i].packet)
                             ELSE IsInfo(r[i])
    <3>1. ASSUME NEW i \in 1..Len(q)
          PROVE  r[i] = q[i]
      BY <1>2
    <3>2. Len(q) + 1 = 1 <=> q = <<>>
      BY <1>2, <1>5
    <3>3. r[Len(q) + 1].type = "Data" /\ r[Len(q) + 1].packet = Down(d)[1]
      BY <1>2, <1>4
    <3>4. IF Len(q) + 1 = 1 THEN KeyOf(d, r[Len(q) + 1].packet) ELSE IsInfo(r[Len(q) + 1])
      BY <2>1, <3>2, <3>3 DEF IsInfo
    <3>5. ASSUME NEW i \in 1..Len(r)
          PROVE  IF i = 1 THEN r[i].type = "Data" /\ KeyOf(d, r[i].packet) ELSE IsInfo(r[i])
      <4>1. CASE i \in 1..Len(q)
        BY <2>1, <3>1, <4>1
      <4>2. CASE i = Len(q) + 1
        BY <3>3, <3>4, <4>2
      <4> QED
        BY <1>3, <4>1, <4>2
    <3> QED
      BY <3>5
  <2>3. \A i \in 1..Len(Down(d)') : Down(d)'[i].type = "Info"
    BY <1>2, <2>1
  <2>5. \A i \in 1..Len(events'[d]) :
           IF i = 1 THEN events'[d][i].type = "Data" /\ KeyOf(d, events[d][i].packet)'
           ELSE IsInfo(events'[d][i])
    BY <1>1, <2>2 DEF KeyOf
  <2>6. \A i \in 1..Len(Up(d)') : FALSE
    BY <1>2, <2>1
  <2> QED
    BY <1>1, <1>2, <1>6, <2>1, <2>3, <2>5, <2>6 DEF Proving, IsInfo
<1>11. Online(d)'
  <2> SUFFICES ASSUME state[d] = "Connected"
               PROVE  Online(d)'
    BY <1>1 DEF Online
  <2>1. /\ \A i \in 1..Len(q) : IsInfo(q[i])
        /\ \A i \in 1..Len(Down(d)) : Down(d)[i].type = "Info"
    BY <1>6 DEF Online, OnlyInfo, q
  <2>2. OnlyInfo(d)'
    BY <1>3, <1>4, <2>1 DEF OnlyInfo, IsInfo
  <2>3. \A i \in 1..Len(Down(d)') : Down(d)'[i].type = "Info"
    BY <1>2, <2>1
  <2> QED
    BY <1>1, <1>2, <1>6, <2>2, <2>3 DEF Online
<1>12. Owned(d)' /\ Kept(d)'
  BY <1>1, <1>2, <1>6 DEF Owned, Kept
<1>13. Unlost(d)'
  <2> SUFFICES ASSUME d \notin lost
               PROVE  Unlost(d)'
    BY <1>1 DEF Unlost
  <2>1. CASE state[d] \in {"Registering", "Logining", "Connecting"}
    <3>1. \A i \in 1..Len(q) : IsInfo(q[i]) /\ ~IsInfo(q[i])
      BY <1>2, <1>6, <2>1 DEF Starting, OnlyInfo, Unlost, q
    <3>2. Down(d)[1].type = FirstAnswer(d)
      BY <1>4, <1>6, <2>1 DEF Starting
    <3>3. ~IsInfo(e)
      BY <1>4, <3>2 DEF IsInfo, FirstAnswer
    <3>4. \A i \in 1..Len(r) : ~IsInfo(r[i]) /\ r[i].type # "Connected"
      BY <1>3, <1>4, <3>1, <3>3
    <3>5. state[d] = "Connecting" => data[d].serverKey
      BY <1>6, <2>1 DEF Unlost
    <3> QED
      BY <1>1, <2>1, <3>4, <3>5 DEF Unlost
  <2>2. CASE state[d] \in {"RegisteringConfirmWait", "LoginingConfirmWait"}
    BY <1>1, <2>2 DEF Unlost
  <2>3. CASE state[d] \in {"ConnectingConfirmWait", "Connected"}
    <3>1. /\ \A i \in 1..Len(q) : IsInfo(q[i]) => q[i].packet.sessionKey = conn[d]
          /\ \A i \in 1..Len(Down(d)) : Down(d)[i].type = "Info" => Down(d)[i].sessionKey = conn[d]
      BY <1>6, <2>3 DEF Unlost, q
    <3>2. \A i \in 1..Len(r) : IsInfo(r[i]) => r[i].packet.sessionKey = conn[d]
      BY <1>3, <1>4, <3>1 DEF IsInfo
    <3>3. \A i \in 1..Len(Down(d)') : Down(d)'[i].type = "Info" => Down(d)'[i].sessionKey = conn[d]
      BY <1>2, <3>1
    <3> QED
      BY <1>1, <2>3, <3>2, <3>3 DEF Unlost
  <2> QED
    BY <1>1, <1>6, <2>1, <2>2, <2>3, <1>a DEF Types, State
<1>14. Offline(d)'
  BY <1>1, <1>6 DEF Offline
<1> QED
  BY <1>7, <1>8, <1>9, <1>10, <1>11, <1>12, <1>13, <1>14 DEF Process

\* What the queue, and what is under way, must be when an event that does not belong to
\* an authorized session is at the head: nothing else.
LEMMA HeadAlone ==
    ASSUME Inv, NEW d \in Device, events[d] # <<>>, ~IsInfo(Head(events[d])),
           state[d] \notin {"ConnectingConfirmWait", "Disconnected"}
    PROVE  /\ Len(events[d]) = 1 /\ events[d][1] = Head(events[d]) /\ 1 \in 1..Len(events[d])
           /\ Up(d) = <<>> /\ Down(d) = <<>> /\ udt[d] # "Connecting"
           /\ state[d] \in {"Registering", "Logining", "Connecting", "RegisteringConfirmWait",
                            "LoginingConfirmWait"}
           /\ state[d] \in {"Registering", "Logining"} => ~data[d].serverKey
<1>a. TypeOK /\ Types /\ Connections /\ Process(d)
  BY TypesAre DEF Inv
<1>1. /\ Head(events[d]) = events[d][1] /\ Len(events[d]) \in Nat \ {0} /\ 1 \in 1..Len(events[d])
  <2>1. events[d] \in Seq(Event)
    BY <1>a DEF Types
  <2>2. Head(events[d]) = events[d][1] /\ Len(events[d]) \in Nat \ {0}
    BY <2>1, Rest
  <2> QED
    BY <2>2
<1>2. ~OnlyInfo(d) /\ ~IsInfo(events[d][1])
  BY <1>1 DEF OnlyInfo
<1>3. /\ Offline(d) /\ Starting(d) /\ Enrolling(d) /\ Confirming(d) /\ Online(d)
      /\ state[d] \in State
  BY <1>a DEF Process, Types
<1>4. state[d] \in {"Registering", "Logining", "Connecting", "RegisteringConfirmWait",
                    "LoginingConfirmWait"}
  BY <1>2, <1>3 DEF Offline, Online, State
<1>5. CASE state[d] \in {"Registering", "Logining", "Connecting"}
  <2>1. Len(events[d]) = 1
    BY <1>1, <1>2, <1>3, <1>5 DEF Starting
  <2>2. Up(d) = <<>> /\ Down(d) = <<>> /\ udt[d] # "Connecting"
    BY <1>2, <1>3, <1>5 DEF Starting
  <2>3. state[d] \in {"Registering", "Logining"} => ~data[d].serverKey
    BY <1>3 DEF Enrolling
  <2> QED
    BY <1>1, <1>4, <2>1, <2>2, <2>3
<1>6. CASE state[d] \in {"RegisteringConfirmWait", "LoginingConfirmWait"}
  <2>1. \A i \in 1..Len(events[d]) : i = 1
    BY <1>3, <1>6 DEF Confirming
  <2>2. Len(events[d]) = 1
    <3>1. Len(events[d]) \in 1..Len(events[d])
      BY <1>1
    <3> QED
      BY <2>1, <3>1
  <2>3. Up(d) = <<>> /\ Down(d) = <<>> /\ udt[d] # "Connecting"
    BY <1>3, <1>6 DEF Confirming
  <2> QED
    BY <1>1, <1>4, <1>6, <2>2, <2>3
<1> QED
  BY <1>4, <1>5, <1>6

\* OnConnected and OnConnectionFailed.
LEMMA ConnectedProcess ==
    ASSUME Inv, NEW d \in Device, OnConnected(d) \/ OnConnectionFailed(d)
    PROVE  Process(d)'
<1>a. TypeOK /\ Types /\ Connections /\ Process(d)
  BY TypesAre DEF Inv
<1>1. /\ events[d] # <<>> /\ Head(events[d]).type = "Connected" /\ ~IsInfo(Head(events[d]))
      /\ state[d] \in {"Registering", "Logining", "Connecting"} /\ PopEvent(d)
      /\ data' = data /\ saved' = saved /\ conn' = conn /\ udt' = udt /\ lost' = lost
      /\ account' = account /\ session' = session /\ Serving(d)' = Serving(d)
  <2>1. NextEvent(d, "Connected") /\ state[d] \in {"Registering", "Logining", "Connecting"}
    BY DEF OnConnected, OnConnectionFailed, FirstByte
  <2>2. /\ PopEvent(d) /\ data' = data /\ saved' = saved /\ conn' = conn /\ udt' = udt
        /\ lost' = lost /\ account' = account /\ session' = session
    BY DEF OnConnected, OnConnectionFailed, OnlyProcess, serverVars
  <2> QED
    BY <2>1, <2>2 DEF NextEvent, IsInfo, Serving
<1>2. /\ Len(events[d]) = 1 /\ events[d][1] = Head(events[d]) /\ 1 \in 1..Len(events[d])
      /\ Up(d) = <<>> /\ Down(d) = <<>> /\ udt[d] # "Connecting"
      /\ state[d] \in {"Registering", "Logining"} => ~data[d].serverKey
  BY <1>1, HeadAlone
<1>3. events'[d] = <<>>
  BY <1>a, <1>1, <1>2, Popped
<1>4. \A i \in 1..Len(events'[d]) : FALSE
  BY <1>3
<1>5. Starting(d) /\ Enrolling(d) /\ Owned(d) /\ Kept(d) /\ Unlost(d)
  BY <1>a DEF Process
<1>6. CASE OnConnected(d)
  <2> DEFINE p == [type |-> FirstByte[state[d]]]
  <2>1. /\ udt[d] = "Connected" /\ Send(d, p) /\ state' = state
    BY <1>6 DEF OnConnected
  <2>2. p.type = FirstByte[state[d]] /\ p.type \in {"RT_Register", "RT_Login", "RT_Authorize"}
    BY <1>1 DEF FirstByte
  <2>3. p \in ToServer
    BY <2>2 DEF ToServer
  <2> HIDE DEF p
  <2>4. Down(d)' = <<>> /\ Up(d)' = <<p>>
    <3>1. Append(<<>>, p) = <<p>>
      OBVIOUS
    <3> QED
      BY <1>1, <1>2, <2>1, <2>3, <3>1, SentParts
  <2>5. \A i \in 1..Len(Up(d)') : i = 1 /\ Up(d)'[i] = p
    <3>1. Len(<<p>>) = 1 /\ <<p>>[1] = p
      OBVIOUS
    <3> QED
      BY <2>4, <3>1
  <2>6. \A i \in 1..Len(Down(d)') : FALSE
    BY <2>4
  <2>7. Starting(d)'
    BY <1>1, <1>4, <1>5, <2>1, <2>2, <2>4, <2>5, <2>6 DEF Starting, OnlyInfo
  <2>8. Enrolling(d)'
    BY <1>1, <1>2, <1>5, <2>1 DEF Enrolling
  <2>9. Owned(d)' /\ Kept(d)'
    BY <1>1, <1>5, <2>2, <2>5 DEF Owned, Kept
  <2>10. Unlost(d)'
    BY <1>1, <1>4, <1>5, <2>1 DEF Unlost
  <2>11. Offline(d)' /\ Confirming(d)' /\ Proving(d)' /\ Online(d)'
    BY <1>1, <2>1 DEF Offline, Confirming, Proving, Online
  <2> QED
    BY <2>7, <2>8, <2>9, <2>10, <2>11 DEF Process
<1>7. CASE OnConnectionFailed(d)
  <2>1. state'[d] = "Disconnected" /\ net' = net /\ ~Head(events[d]).success
    BY <1>a, <1>7 DEF OnConnectionFailed, Types
  <2>2. Up(d)' = Up(d)
    BY <1>1, <2>1, SameParts
  <2>3. udt[d] = "Ended"
    BY <1>1, <1>2, <1>5, <2>1 DEF Starting
  <2>4. d \in lost
    BY <1>1, <1>2, <1>5, <2>3 DEF Unlost
  <2>5. Offline(d)'
    BY <1>1, <1>4, <2>1, <2>3 DEF Offline, OnlyInfo
  <2>6. Starting(d)' /\ Enrolling(d)' /\ Confirming(d)' /\ Proving(d)' /\ Online(d)'
    BY <2>1 DEF Starting, Enrolling, Confirming, Proving, Online
  <2>7. Owned(d)' /\ Kept(d)'
    BY <1>1, <1>5, <2>2 DEF Owned, Kept
  <2>8. Unlost(d)'
    BY <1>1, <2>4 DEF Unlost
  <2> QED
    BY <2>5, <2>6, <2>7, <2>8 DEF Process
<1> QED
  BY <1>6, <1>7

\* The packet in hand, when it is the one that is expected.
LEMMA ExpectedAlone ==
    ASSUME Inv, NEW d \in Device,
           NEW t \in {"Captcha", "RegisterResult", "LoginResult", "Challenge"}, ExpectedPacket(d, t)
    PROVE  /\ events[d][1].type = "Data" /\ events[d][1].packet = Packet(d) /\ Packet(d).type = t
           /\ 1 \in 1..Len(events[d]) /\ events'[d] = <<>> /\ (\A i \in 1..Len(events'[d]) : FALSE)
           /\ Up(d) = <<>> /\ Down(d) = <<>> /\ udt[d] # "Connecting"
           /\ (\A i \in 1..Len(Up(d)) : FALSE) /\ (\A i \in 1..Len(Down(d)) : FALSE)
           /\ t = "Captcha" => state[d] \in {"Registering", "Logining"}
           /\ t = "RegisterResult" => state[d] = "RegisteringConfirmWait"
           /\ t = "LoginResult" => state[d] = "LoginingConfirmWait"
           /\ t = "Challenge" => state[d] = "Connecting" /\ data[d].serverKey /\ udt[d] = "Connected"
           /\ account' = account /\ session' = session /\ conn' = conn /\ lost' = lost
<1>a. TypeOK /\ Types /\ Connections
  BY TypesAre DEF Inv
<1>1. NextPacket(d, t) /\ Expected(d) /\ PopEvent(d) /\ OnlyProcess
  BY DEF ExpectedPacket
<1>2. /\ events[d] # <<>> /\ Packet(d).type = t
      /\ events[d][1].type = "Data" /\ events[d][1].packet = Packet(d)
  BY <1>a, <1>1, PacketType
<1>3. /\ t = "Captcha" => state[d] \in {"Registering", "Logining"}
      /\ t = "RegisterResult" => state[d] = "RegisteringConfirmWait"
      /\ t = "LoginResult" => state[d] = "LoginingConfirmWait"
      /\ t = "Challenge" => state[d] = "Connecting" /\ data[d].serverKey /\ udt[d] = "Connected"
  BY <1>1, <1>2 DEF Expected, NextPacket, Packet
<1>4. /\ Head(events[d]) = events[d][1] /\ ~IsInfo(Head(events[d]))
      /\ state[d] \notin {"ConnectingConfirmWait", "Disconnected"}
  BY <1>a, <1>2, <1>3, Queue DEF IsInfo
<1>5. /\ Len(events[d]) = 1 /\ 1 \in 1..Len(events[d])
      /\ Up(d) = <<>> /\ Down(d) = <<>> /\ udt[d] # "Connecting"
  BY <1>2, <1>4, HeadAlone
<1>6. events'[d] = <<>>
  BY <1>a, <1>1, <1>2, <1>5, Popped
<1>7. /\ \A i \in 1..Len(events'[d]) : FALSE
      /\ \A i \in 1..Len(Up(d)) : FALSE
      /\ \A i \in 1..Len(Down(d)) : FALSE
  BY <1>5, <1>6
<1> QED
  BY <1>1, <1>2, <1>3, <1>5, <1>6, <1>7 DEF OnlyProcess, serverVars

\* The captcha has come.
LEMMA CaptchaProcess ==
    ASSUME Inv, NEW d \in Device, OnCaptcha(d)
    PROVE  Process(d)'
<1>a. TypeOK /\ Types /\ Connections /\ Process(d)
  BY TypesAre DEF Inv
<1>1. /\ events[d][1].type = "Data" /\ events[d][1].packet = Packet(d)
      /\ events'[d] = <<>> /\ (\A i \in 1..Len(events'[d]) : FALSE)
      /\ Up(d) = <<>> /\ Down(d) = <<>> /\ udt[d] # "Connecting"
      /\ (\A i \in 1..Len(Up(d)) : FALSE) /\ (\A i \in 1..Len(Down(d)) : FALSE)
      /\ state[d] \in {"Registering", "Logining"}
      /\ account' = account /\ session' = session /\ conn' = conn /\ lost' = lost
  BY ExpectedAlone DEF OnCaptcha
<1>2. /\ data'[d].login = data[d].login /\ data'[d].key = data[d].key
      /\ net' = net /\ state' = state /\ saved' = saved /\ udt' = udt
  <2>1. data' = [data EXCEPT ![d].serverKey = TRUE] /\ data[d] \in Data /\ data \in [Device -> Data]
    BY <1>a DEF OnCaptcha, Types
  <2>2. data'[d] = [data[d] EXCEPT !.serverKey = TRUE]
    BY <2>1
  <2>3. data'[d].login = data[d].login /\ data'[d].key = data[d].key
    BY <2>1, <2>2 DEF Data
  <2> QED
    BY <2>3 DEF OnCaptcha
<1>3. Up(d)' = Up(d) /\ Down(d)' = Down(d) /\ Serving(d)' = Serving(d)
  BY <1>1, <1>2, SameParts DEF Serving
<1>4. Starting(d) /\ Enrolling(d) /\ Owned(d) /\ Kept(d) /\ Unlost(d)
  BY <1>a DEF Process
<1>5. (\A i \in 1..Len(Up(d)') : FALSE) /\ (\A i \in 1..Len(Down(d)') : FALSE)
  BY <1>1, <1>3
<1>6. Starting(d)'
  BY <1>1, <1>2, <1>3, <1>4, <1>5 DEF Starting
<1>7. Enrolling(d)'
  BY <1>1, <1>2, <1>3, <1>4 DEF Enrolling
<1>8. Owned(d)' /\ Kept(d)'
  BY <1>1, <1>2, <1>3, <1>4, <1>5 DEF Owned, Enrolling, Kept
<1>9. Unlost(d)'
  BY <1>1, <1>2, <1>4 DEF Unlost
<1>10. Offline(d)' /\ Confirming(d)' /\ Proving(d)' /\ Online(d)'
  BY <1>1, <1>2 DEF Offline, Confirming, Proving, Online
<1> QED
  BY <1>6, <1>7, <1>8, <1>9, <1>10 DEF Process

\* The result of a registration or a login has come.
LEMMA ResultProcess ==
    ASSUME Inv, NEW d \in Device, OnRegisterResult(d) \/ OnLoginResult(d)
    PROVE  Process(d)'
<1>a. TypeOK /\ Types /\ Connections /\ Process(d)
  BY TypesAre DEF Inv
<1> DEFINE t == IF state[d] = "RegisteringConfirmWait" THEN "RegisterResult" ELSE "LoginResult"
<1>1. /\ events[d][1].packet = Packet(d) /\ 1 \in 1..Len(events[d]) /\ Packet(d).type = t
      /\ events'[d] = <<>> /\ (\A i \in 1..Len(events'[d]) : FALSE)
      /\ Up(d) = <<>> /\ (\A i \in 1..Len(Up(d)) : FALSE)
      /\ state[d] \in {"RegisteringConfirmWait", "LoginingConfirmWait"}
      /\ t = "RegisterResult" <=> state[d] = "RegisteringConfirmWait"
      /\ account' = account /\ session' = session /\ conn' = conn /\ lost' = lost
  BY ExpectedAlone DEF OnRegisterResult, OnLoginResult
<1>2. /\ Confirming(d) /\ Kept(d) /\ Unlost(d)
  BY <1>a DEF Process
<1>3. /\ data[d].login # NoLogin /\ data[d].serverKey /\ conn[d] # 0
      /\ Serving(d).status # "Authorized" /\ Result(d, Packet(d))
      /\ t = "RegisterResult" => data[d].key # 0
  BY <1>1, <1>2 DEF Confirming
<1>4. net' = net /\ state'[d] = "Disconnected" /\ udt'[d] \in {"Disconnected", "Closing"}
  BY <1>a DEF OnRegisterResult, OnLoginResult, ForceDisconnect, Types
<1>5. Up(d)' = Up(d) /\ Serving(d)' = Serving(d)
  BY <1>1, <1>4, SameParts DEF Serving
<1>6. /\ data'[d].login = data[d].login /\ data'[d].serverKey
      /\ \/ saved'[d] = saved[d]
         \/ saved'[d] = data'[d] /\ data'[d].key # 0 /\ data'[d].key = account[data[d].login]
  <2>1. CASE OnRegisterResult(d)
    <3>1. data' = data /\ saved'[d] = IF Packet(d).ok THEN data[d] ELSE saved[d]
      BY <1>a, <2>1 DEF OnRegisterResult, Types
    <3>2. Packet(d).type = "RegisterResult"
      BY <2>1 DEF OnRegisterResult, ExpectedPacket, NextPacket, Packet
    <3>3. Packet(d).ok => account[data[d].login] = data[d].key /\ data[d].key # 0
      BY <1>1, <1>3, <3>2 DEF Result
    <3> QED
      BY <1>3, <3>1, <3>3
  <2>2. CASE OnLoginResult(d)
    <3>1. Packet(d).type = "LoginResult"
      BY <2>2 DEF OnLoginResult, ExpectedPacket, NextPacket, Packet
    <3>2. Packet(d).ok => Packet(d).key # 0 /\ Packet(d).key = account[data[d].login]
      BY <1>1, <1>3, <3>1 DEF Result
    <3>3. CASE Packet(d).ok
      <4>1. /\ data' = [data EXCEPT ![d].key = Packet(d).key] /\ data[d] \in Data
            /\ data \in [Device -> Data] /\ saved \in [Device -> Data]
            /\ saved' = [saved EXCEPT ![d] = data'[d]]
        BY <1>a, <2>2, <3>3 DEF OnLoginResult, Types
      <4>2. data'[d] = [data[d] EXCEPT !.key = Packet(d).key] /\ saved'[d] = data'[d]
        BY <4>1
      <4>3. data'[d].login = data[d].login /\ data'[d].serverKey /\ data'[d].key = Packet(d).key
        BY <1>3, <4>1, <4>2 DEF Data
      <4> QED
        BY <3>2, <3>3, <4>2, <4>3
    <3>4. CASE ~Packet(d).ok
      <4>1. data' = data /\ saved'[d] = saved[d]
        BY <1>a, <2>2, <3>4 DEF OnLoginResult, Types
      <4> QED
        BY <1>3, <4>1
    <3> QED
      BY <3>3, <3>4
  <2> QED
    BY <2>1, <2>2
<1>7. Kept(d)'
  BY <1>1, <1>2, <1>3, <1>6 DEF Kept
<1>8. Owned(d)'
  BY <1>1, <1>3, <1>5 DEF Owned
<1>9. Unlost(d)'
  BY <1>1, <1>4, <1>6 DEF Unlost
<1>10. Offline(d)'
  BY <1>1, <1>4 DEF Offline, OnlyInfo
<1>11. Starting(d)' /\ Enrolling(d)' /\ Confirming(d)' /\ Proving(d)' /\ Online(d)'
  BY <1>4 DEF Starting, Enrolling, Confirming, Proving, Online
<1> QED
  BY <1>7, <1>8, <1>9, <1>10, <1>11 DEF Process

\* The handler of the login result ends.
LEMMA EndProcess ==
    ASSUME Inv, NEW d \in Device, OnLoginResultEnd(d)
    PROVE  Process(d)'
<1>a. TypeOK /\ Types /\ Process(d)
  BY TypesAre DEF Inv
<1>1. /\ state[d] = "Disconnected" /\ state'[d] = "Disconnected" /\ udt'[d] = "Disconnected"
      /\ UNCHANGED <<net, data, saved, conn, events, lost, account, session>>
  BY <1>a DEF OnLoginResultEnd, ForceDisconnect, OnlyProcess, Types, serverVars
<1>2. Up(d)' = Up(d) /\ Down(d)' = Down(d) /\ Serving(d)' = Serving(d)
  BY <1>1, SameParts DEF Serving
<1>3. Offline(d) /\ Owned(d) /\ Kept(d) /\ Unlost(d)
  BY <1>a DEF Process
<1>4. Offline(d)'
  <2>1. Cut(d) => Cut(d)'
    BY <1>1, <1>2 DEF Cut
  <2> QED
    BY <1>1, <1>3, <2>1 DEF Offline, OnlyInfo
<1>5. Owned(d)' /\ Kept(d)'
  BY <1>1, <1>2, <1>3 DEF Owned, Kept
<1>6. Unlost(d)'
  BY <1>1, <1>3 DEF Unlost
<1>7. Starting(d)' /\ Enrolling(d)' /\ Confirming(d)' /\ Proving(d)' /\ Online(d)'
  BY <1>1 DEF Starting, Enrolling, Confirming, Proving, Online
<1> QED
  BY <1>4, <1>5, <1>6, <1>7 DEF Process

\* The challenge has come, and the proof goes up.
LEMMA ChallengeProcess ==
    ASSUME Inv, NEW d \in Device, OnChallenge(d)
    PROVE  Process(d)'
<1>a. TypeOK /\ Types /\ Connections /\ Process(d)
  BY TypesAre DEF Inv
<1> DEFINE p == [type |-> "Proof", login |-> data[d].login, key |-> data[d].key,
                 challenge |-> Packet(d).challenge]
<1>1. /\ events'[d] = <<>> /\ (\A i \in 1..Len(events'[d]) : FALSE)
      /\ Up(d) = <<>> /\ Down(d) = <<>> /\ udt[d] = "Connected" /\ state[d] = "Connecting"
      /\ (\A i \in 1..Len(Down(d)) : FALSE) /\ data[d].serverKey
      /\ account' = account /\ session' = session /\ conn' = conn /\ lost' = lost
  BY ExpectedAlone DEF OnChallenge
<1>2. /\ data' = data /\ saved' = saved /\ udt' = udt /\ state'[d] = "ConnectingConfirmWait"
      /\ Send(d, p)
  BY <1>a DEF OnChallenge, Types
<1>3. p \in ToServer
  <2>1. NextPacket(d, "Challenge")
    BY DEF OnChallenge, ExpectedPacket
  <2>2. Packet(d) \in ToClient /\ Packet(d).type = "Challenge"
    BY <1>a, <2>1, PacketType
  <2>3. Packet(d).challenge \in Nat
    BY <2>2 DEF ToClient
  <2>4. data[d] \in Data
    BY <1>a DEF Types
  <2> QED
    BY <2>3, <2>4 DEF Data, ToServer
<1>4. /\ Starting(d) /\ Owned(d) /\ Kept(d) /\ Unlost(d) /\ conn[d] # 0
  BY <1>a, <1>1, ConnectionOf DEF Process
<1>5. data[d].login # NoLogin /\ Serving(d).status # "Authorized"
  BY <1>1, <1>4 DEF Starting
<1>6. p.type = "Proof" /\ p.login = data[d].login /\ p.key = data[d].key
  OBVIOUS
<1> HIDE DEF p
<1>7. Down(d)' = <<>> /\ Up(d)' = <<p>> /\ Serving(d)' = Serving(d)
  <2>1. Append(<<>>, p) = <<p>>
    OBVIOUS
  <2> QED
    BY <1>1, <1>2, <1>3, <2>1, SentParts DEF Serving
<1>8. (\A i \in 1..Len(Up(d)') : i = 1 /\ Up(d)'[i] = p) /\ (\A i \in 1..Len(Down(d)') : FALSE)
  <2>1. Len(<<p>>) = 1 /\ <<p>>[1] = p
    OBVIOUS
  <2> QED
    BY <1>1, <1>7, <2>1
<1>9. Proving(d)'
  BY <1>1, <1>2, <1>4, <1>5, <1>6, <1>7, <1>8 DEF Proving
<1>10. Owned(d)' /\ Kept(d)'
  BY <1>1, <1>2, <1>4, <1>5, <1>6, <1>7, <1>8 DEF Owned, Kept
<1>11. Unlost(d)'
  BY <1>1, <1>2, <1>8 DEF Unlost
<1>12. Offline(d)' /\ Starting(d)' /\ Enrolling(d)' /\ Confirming(d)' /\ Online(d)'
  BY <1>2 DEF Offline, Starting, Enrolling, Confirming, Online
<1> QED
  BY <1>9, <1>10, <1>11, <1>12 DEF Process

\* The session key has come: the process is connected, and asks for all messages.
LEMMA SessionKeyProcess ==
    ASSUME Inv, NEW d \in Device, OnSessionKey(d)
    PROVE  Process(d)'
<1>a. TypeOK /\ Types /\ Connections /\ Process(d)
  BY TypesAre DEF Inv
<1> DEFINE p == [type |-> "RT_SyncMessages", sessionKey |-> sessionKey'[d]]
<1>1. NextPacket(d, "SessionKey") /\ Expected(d) /\ PopEvent(d) /\ OnlyProcess
  BY DEF OnSessionKey, ExpectedPacket
<1>2. /\ events[d] # <<>> /\ Packet(d).type = "SessionKey" /\ Packet(d).sessionKey \in Nat
      /\ events[d][1].type = "Data" /\ events[d][1].packet = Packet(d)
  BY <1>a, <1>1, PacketType
<1>3. state[d] = "ConnectingConfirmWait" /\ udt[d] = "Connected"
  BY <1>1, <1>2 DEF Expected, NextPacket, Packet
<1>4. /\ data' = data /\ saved' = saved /\ udt' = udt /\ state'[d] = "Connected"
      /\ sessionKey'[d] = Packet(d).sessionKey /\ Send(d, p)
      /\ account' = account /\ session' = session /\ conn' = conn /\ lost' = lost
  BY <1>a, <1>1 DEF OnSessionKey, Types, OnlyProcess, serverVars
<1>5. Proving(d) /\ Owned(d) /\ Kept(d) /\ Unlost(d)
  BY <1>a DEF Process
<1>6. /\ \A i \in 1..Len(events'[d]) : /\ events'[d][i] = events[d][i + 1]
                                       /\ i + 1 \in 1..Len(events[d]) /\ i + 1 # 1
      /\ 1 \in 1..Len(events[d])
  BY <1>a, <1>1, <1>2, Popped
<1>7. /\ Up(d) = <<>> /\ conn[d] # 0 /\ Packet(d).sessionKey = conn[d]
      /\ Serving(d) = [status |-> "Authorized", login |-> data[d].login]
      /\ \A i \in 1..Len(Down(d)) : Down(d)[i].type = "Info"
      /\ \A i \in 1..Len(events'[d]) : IsInfo(events'[d][i])
  <2>1. /\ Up(d) = <<>> /\ conn[d] # 0 /\ KeyOf(d, events[d][1].packet)
        /\ \A i \in 1..Len(Down(d)) : Down(d)[i].type = "Info"
    BY <1>2, <1>3, <1>5, <1>6 DEF Proving
  <2>2. \A i \in 1..Len(events'[d]) : IsInfo(events'[d][i])
    BY <1>3, <1>5, <1>6 DEF Proving
  <2> QED
    BY <1>2, <1>3, <2>1, <2>2 DEF KeyOf
<1>8. p \in ToServer /\ p.type = "RT_SyncMessages"
  BY <1>2, <1>4 DEF ToServer
<1> HIDE DEF p
<1>9. Down(d)' = Down(d) /\ Up(d)' = <<p>> /\ Serving(d)' = Serving(d)
  <2>1. Append(<<>>, p) = <<p>>
    OBVIOUS
  <2> QED
    BY <1>3, <1>4, <1>7, <1>8, <2>1, SentParts DEF Serving
<1>10. \A i \in 1..Len(Up(d)') : Up(d)'[i].type = "RT_SyncMessages"
  <2>1. Len(<<p>>) = 1 /\ <<p>>[1] = p
    OBVIOUS
  <2> QED
    BY <1>8, <1>9, <2>1
<1>11. Online(d)'
  BY <1>3, <1>4, <1>7, <1>9, <1>10 DEF Online, OnlyInfo
<1>12. Owned(d)' /\ Kept(d)'
  BY <1>4, <1>5, <1>9, <1>10 DEF Owned, Kept
<1>13. Unlost(d)'
  BY <1>3, <1>4, <1>5, <1>6, <1>9 DEF Unlost
<1>14. Offline(d)' /\ Starting(d)' /\ Enrolling(d)' /\ Confirming(d)' /\ Proving(d)'
  BY <1>4 DEF Offline, Starting, Enrolling, Confirming, Proving
<1> QED
  BY <1>11, <1>12, <1>13, <1>14 DEF Process

\* A packet of the session has come.
LEMMA InfoProcess ==
    ASSUME Inv, NEW d \in Device, OnInfo(d)
    PROVE  Process(d)'
<1>a. TypeOK /\ Types /\ Connections /\ Process(d)
  BY TypesAre DEF Inv
<1>1. NextPacket(d, "Info") /\ Expected(d) /\ PopEvent(d) /\ OnlyProcess
  BY DEF OnInfo, ExpectedPacket
<1>2. events[d] # <<>> /\ Packet(d).type = "Info"
  BY <1>a, <1>1, PacketType
<1>3. state[d] = "Connected"
  BY <1>1, <1>2 DEF Expected, NextPacket, Packet
<1>4. /\ data' = data /\ saved' = saved /\ udt' = udt /\ state' = state /\ net' = net
      /\ account' = account /\ session' = session /\ conn' = conn /\ lost' = lost
      /\ sessionKey' = sessionKey
  BY <1>1 DEF OnInfo, OnlyProcess, serverVars
<1>5. Up(d)' = Up(d) /\ Down(d)' = Down(d) /\ Serving(d)' = Serving(d)
  BY <1>4, SameParts DEF Serving
<1>6. \A i \in 1..Len(events'[d]) : events'[d][i] = events[d][i + 1] /\ i + 1 \in 1..Len(events[d])
  BY <1>a, <1>1, <1>2, Popped
<1>7. Online(d) /\ Owned(d) /\ Kept(d) /\ Unlost(d)
  BY <1>a DEF Process
<1>8. Online(d)'
  BY <1>3, <1>4, <1>5, <1>6, <1>7 DEF Online, OnlyInfo
<1>9. Owned(d)' /\ Kept(d)'
  BY <1>4, <1>5, <1>7 DEF Owned, Kept
<1>10. Unlost(d)'
  BY <1>3, <1>4, <1>5, <1>6, <1>7 DEF Unlost
<1>11. Offline(d)' /\ Starting(d)' /\ Enrolling(d)' /\ Confirming(d)' /\ Proving(d)'
  BY <1>3, <1>4 DEF Offline, Starting, Enrolling, Confirming, Proving
<1> QED
  BY <1>8, <1>9, <1>10, <1>11 DEF Process

\* The event thread ends the process only after a loss, or when the data was cleared.
LEMMA EventDies ==
    ASSUME Inv, NEW d \in Device, OnConnectedDies(d) \/ OnPacketDies(d)
    PROVE  Process(d)'
<1>a. TypeOK /\ Types /\ Connections /\ Process(d)
  BY TypesAre DEF Inv
<1>b. /\ Offline(d) /\ Starting(d) /\ Enrolling(d) /\ Confirming(d) /\ Proving(d) /\ Online(d)
      /\ Unlost(d) /\ state[d] \in State
  BY <1>a DEF Process, Types
<1> SUFFICES ASSUME d \notin lost, data[d].login # NoLogin
             PROVE  FALSE
  BY DieProcess DEF OnConnectedDies, OnPacketDies
<1>1. events[d] # <<>>
  BY DEF OnConnectedDies, OnPacketDies, NextEvent
<1>2. Head(events[d]) \in Event /\ Head(events[d]) = events[d][1] /\ 1 \in 1..Len(events[d])
  <2>1. events[d] \in Seq(Event)
    BY <1>a DEF Types
  <2>2. Head(events[d]) \in Event /\ Head(events[d]) = events[d][1] /\ Len(events[d]) \in Nat \ {0}
    BY <1>1, <2>1, Rest
  <2> QED
    BY <2>2
<1>3. state[d] \notin {"Disconnected", "Dead"}
  BY <1>1, <1>b DEF Unlost
<1>4. CASE state[d] \in {"Registering", "Logining", "Connecting"}
  <2>1. /\ udt[d] = "Connected" /\ ~IsInfo(events[d][1])
        /\ events[d][1].type = "Connected" => events[d][1].success
        /\ state[d] = "Connecting" => data[d].serverKey
    BY <1>2, <1>4, <1>b DEF Unlost
  <2>2. \/ events[d][1].type = "Connected"
        \/ events[d][1].type = "Data" /\ events[d][1].packet.type = FirstAnswer(d)
    BY <1>2, <1>4, <1>b, <2>1 DEF Starting
  <2>3. ~OnConnectedDies(d)
    BY <1>2, <1>4, <2>1 DEF OnConnectedDies, NextEvent, FirstByte
  <2>4. ~OnPacketDies(d)
    BY <1>1, <1>2, <1>4, <2>1, <2>2
       DEF OnPacketDies, NextEvent, Expected, NextPacket, FirstAnswer
  <2> QED
    BY <2>3, <2>4
<1>5. CASE state[d] \in {"RegisteringConfirmWait", "LoginingConfirmWait"}
  <2>1. events[d][1].type = "Data" /\ Result(d, events[d][1].packet)
    BY <1>2, <1>5, <1>b DEF Confirming
  <2> QED
    BY <1>1, <1>2, <1>5, <2>1
       DEF OnConnectedDies, OnPacketDies, NextEvent, Expected, NextPacket, Result
<1>6. CASE state[d] = "ConnectingConfirmWait"
  <2>1. events[d][1].type = "Data" /\ KeyOf(d, events[d][1].packet) /\ udt[d] = "Connected"
    BY <1>2, <1>6, <1>b DEF Proving, Unlost
  <2> QED
    BY <1>1, <1>2, <1>6, <2>1
       DEF OnConnectedDies, OnPacketDies, NextEvent, Expected, NextPacket, KeyOf, Packet
<1>7. CASE state[d] = "Connected"
  <2>1. IsInfo(events[d][1]) /\ events[d][1].packet.sessionKey = conn[d] /\ sessionKey[d] = conn[d]
    BY <1>2, <1>7, <1>b DEF Online, OnlyInfo, Unlost
  <2> QED
    BY <1>1, <1>2, <1>7, <2>1
       DEF OnConnectedDies, OnPacketDies, NextEvent, Expected, NextPacket, IsInfo, Packet
<1> QED
  BY <1>3, <1>4, <1>5, <1>6, <1>7, <1>b DEF State

\* Every step of a process keeps what holds of it.
LEMMA ActingProcess ==
    ASSUME Inv, NEW d \in Device, User(d) \/ Restart(d) \/ Network(d) \/ ProcessEvent(d)
    PROVE  Process(d)'
<1>1. ASSUME User(d) PROVE Process(d)'
  <2>1. CASE (\E l \in Login : Register(d, l) \/ LogIn(d, l)) \/ Connect(d)
    BY <2>1, CallSteps
  <2>2. CASE RejectedCall(d)
    BY <2>2, ResetProcess
  <2>4. CASE CutCall(d)
    BY <2>4, CutCallProcess
  <2>3. ASSUME NEW right \in BOOLEAN, AnswerCaptcha(d, right) \/ EnterPassword(d, right)
        PROVE  Process(d)'
    BY <2>3, AnswerProcess
  <2> QED
    BY <1>1, <2>1, <2>2, <2>3, <2>4 DEF User
<1>2. Restart(d) => Process(d)'
  BY ResetProcess
<1>3. Network(d) => Process(d)'
  BY CutStep, WorkerProcess, EndedProcess, ArriveProcess, BreakProcess DEF Network
<1>4. ProcessEvent(d) => Process(d)'
  BY ConnectedProcess, EventDies, CaptchaProcess, ResultProcess, EndProcess, ChallengeProcess,
     SessionKeyProcess, InfoProcess DEF ProcessEvent
<1> QED
  BY <1>1, <1>2, <1>3, <1>4

\* And it keeps the invariant.
LEMMA ProcessStep ==
    ASSUME Inv, NEW d \in Device, User(d) \/ Restart(d) \/ Network(d) \/ ProcessEvent(d)
    PROVE  Inv'
<1>1. TypeOK' /\ Types'
  BY ProcessTypes, TypesAre
<1>2. OwnStep(d) /\ NetStep(d)
  BY OwnSteps, NetSteps
<1>3. Connections'
  BY <1>1, <1>2, ProcessConnections
<1>4. Registered'
  BY <1>2 DEF OwnStep, Registered, LatestRegistered, serverVars, Inv
<1>5. ASSUME NEW e \in Device PROVE Process(e)'
  BY <1>2, ActingProcess, OtherProcess
<1> QED
  BY <1>1, <1>3, <1>4, <1>5 DEF Inv

-----------------------------------------------------------------------------
(* The processes, when the server takes a step *)

\* What a process sees of it.
LEMMA ServedParts ==
    ASSUME Inv, NEW c \in Connection, NEW to, NEW packets \in Seq(ToClient), Serves(c, to, packets),
           NEW d \in Device
    PROVE  /\ state' = state /\ data' = data /\ sessionKey' = sessionKey /\ saved' = saved
           /\ udt' = udt /\ conn' = conn /\ events' = events /\ lost' = lost
           /\ Up(d)' = IF conn[d] = c THEN Tail(Up(d)) ELSE Up(d)
           /\ conn[d] = c => Up(d) # <<>> /\ conn[d] # 0 /\ Up(d)[1] = net[c].up[1]
           /\ Down(d)' = IF conn[d] = to /\ conn[d] # 0 /\ net[conn[d]].state = "Up"
                         THEN Down(d) \o packets ELSE Down(d)
           /\ conn[d] # 0 => net'[conn[d]].state = net[conn[d]].state
           /\ conn[d] # 0 /\ conn[d] # c => Serving(d)' = Serving(d)
<1>a. TypeOK /\ Types /\ Connections
  BY TypesAre DEF Inv
<1>1. /\ state' = state /\ data' = data /\ sessionKey' = sessionKey /\ saved' = saved
      /\ udt' = udt /\ conn' = conn /\ events' = events /\ lost' = lost
  BY DEF Serves, processVars
<1>2. 0 \notin Connection /\ (conn[d] # 0 <=> conn[d] \in Connection)
  BY <1>a, ConnectionOf
<1>3. CASE conn[d] = 0
  BY <1>1, <1>2, <1>3 DEF Up, Down
<1>4. CASE conn[d] # 0
  <2> DEFINE n == conn[d]
             up == IF n = c THEN Tail(net[n].up) ELSE net[n].up
             down == IF n = to /\ net[n].state = "Up" THEN net[n].down \o packets ELSE net[n].down
  <2>1. n \in Connection
    BY <1>2, <1>4
  <2>2. net'[n] = [state |-> net[n].state, up |-> up, down |-> down]
    BY <2>1 DEF Serves
  <2> HIDE DEF up, down
  <2>3. net'[n].state = net[n].state /\ net'[n].up = up /\ net'[n].down = down
    BY <2>2
  <2>4. Up(d) = net[n].up /\ Down(d) = net[n].down /\ Up(d)' = up /\ Down(d)' = down
    BY <1>1, <2>1, <2>3 DEF Up, Down
  <2>5. n = c => net[c].up # <<>>
    BY DEF Serves
  <2>6. n # c => session'[n] = session[n]
    BY <2>1 DEF Serves
  <2> QED
    BY <1>1, <1>4, <2>3, <2>4, <2>5, <2>6 DEF up, down, Serving
<1> QED
  BY <1>3, <1>4

\* The first packet that is under way up tells in which state its sender can be.
LEMMA FirstUp ==
    ASSUME Inv, NEW d \in Device, Up(d) # <<>>
    PROVE  /\ Up(d)' = Tail(Up(d)) =>
                \A i \in 1..Len(Up(d)') : Up(d)'[i] = Up(d)[i + 1] /\ i + 1 \in 1..Len(Up(d)) /\ i + 1 # 1
           /\ conn[d] # 0 /\ 1 \in 1..Len(Up(d))
           /\ state[d] \in {"Registering", "Logining", "Connecting"} =>
                Up(d)[1].type = FirstByte[state[d]]
           /\ state[d] \in {"RegisteringConfirmWait", "LoginingConfirmWait"} => Request(d, Up(d)[1])
           /\ state[d] = "ConnectingConfirmWait" => Up(d)[1].type = "Proof"
           /\ state[d] = "Connected" => Up(d)[1].type = "RT_SyncMessages"
           /\ state[d] \notin {"Connected", "Disconnected", "Dead"} /\ Up(d)' = Tail(Up(d)) =>
                \A i \in 1..Len(Up(d)') : FALSE
<1>a. TypeOK /\ Connections /\ Process(d)
  BY DEF Inv
<1>1. /\ Len(Up(d)) \in Nat \ {0} /\ conn[d] # 0 /\ Up(d) \in Seq(ToServer) /\ state[d] \in State
  BY <1>a, Parts
<1>2. 1 \in 1..Len(Up(d))
  BY <1>1
<1>3. /\ Starting(d) /\ Confirming(d) /\ Proving(d) /\ Online(d)
  BY <1>a DEF Process
<1>4. /\ state[d] \in {"Registering", "Logining", "Connecting"} =>
           Up(d)[1].type = FirstByte[state[d]] /\ \A i \in 1..Len(Up(d)) : i = 1
      /\ state[d] \in {"RegisteringConfirmWait", "LoginingConfirmWait"} =>
           Request(d, Up(d)[1]) /\ \A i \in 1..Len(Up(d)) : i = 1
      /\ state[d] = "ConnectingConfirmWait" =>
           Up(d)[1].type = "Proof" /\ \A i \in 1..Len(Up(d)) : i = 1
      /\ state[d] = "Connected" => Up(d)[1].type = "RT_SyncMessages"
  BY <1>2, <1>3 DEF Starting, Confirming, Proving, Online
<1>5. Up(d)' = Tail(Up(d)) =>
        \A i \in 1..Len(Up(d)') : Up(d)'[i] = Up(d)[i + 1] /\ i + 1 \in 1..Len(Up(d)) /\ i + 1 # 1
  <2>1. \A i \in 1..Len(Tail(Up(d))) : Tail(Up(d))[i] = Up(d)[i + 1] /\ i + 1 \in 1..Len(Up(d))
    BY <1>1, Rest
  <2>2. \A i \in 1..Len(Tail(Up(d))) : i + 1 # 1
    OBVIOUS
  <2> QED
    BY <2>1, <2>2
<1> QED
  BY <1>1, <1>2, <1>4, <1>5 DEF State

\* Its first packet is taken, and nothing else changes for it.
LEMMA TakenProcess ==
    ASSUME Inv, NEW d \in Device, Up(d) # <<>>, Up(d)' = Tail(Up(d)), Down(d)' = Down(d),
           Serving(d)' = Serving(d), UNCHANGED <<processVars, events, connects, lost>>,
           net'[conn[d]].state = net[conn[d]].state, Accounts
    PROVE  Process(d)'
<1>a. TypeOK /\ Types /\ Connections /\ Process(d) /\ Offline(d) /\ Starting(d) /\ Enrolling(d)
      /\ Confirming(d) /\ Proving(d) /\ Online(d) /\ Owned(d) /\ Kept(d) /\ Unlost(d)
  BY TypesAre DEF Inv, Process
<1>1. /\ state' = state /\ data' = data /\ sessionKey' = sessionKey /\ saved' = saved
      /\ udt' = udt /\ conn' = conn /\ events' = events /\ lost' = lost
  BY DEF processVars
<1>2. /\ \A i \in 1..Len(Up(d)') : Up(d)'[i] = Up(d)[i + 1] /\ i + 1 \in 1..Len(Up(d))
      /\ state[d] \notin {"Connected", "Disconnected", "Dead"} => \A i \in 1..Len(Up(d)') : FALSE
      /\ conn[d] # 0
  BY FirstUp
<1>3. /\ data[d].login # NoLogin => data[d].login \in Login
      /\ saved[d].login # NoLogin => saved[d].login \in Login
  <2>1. data[d] \in Data /\ saved[d] \in Data
    BY <1>a DEF Types
  <2> QED
    BY <2>1 DEF Data
<1>4. Offline(d)'
  <2>1. ~Cut(d)
    BY DEF Cut
  <2> QED
    BY <1>a, <1>1, <2>1, OfflineKept
<1>5. Starting(d)'
  <2> SUFFICES ASSUME state[d] \in {"Registering", "Logining", "Connecting"} PROVE Starting(d)'
    BY <1>1 DEF Starting
  <2>1. (\A i \in 1..Len(Up(d)') : FALSE) /\ udt[d] # "Connecting" /\ Down(d) = <<>> /\ OnlyInfo(d)
    BY <1>a, <1>2 DEF Starting
  <2> QED
    BY <1>a, <1>1, <2>1 DEF Starting, OnlyInfo
<1>6. Enrolling(d)'
  <2>1. state[d] \in {"Registering", "Logining"} => ~data[d].serverKey
    BY <1>a DEF Enrolling
  <2> QED
    BY <1>a, <1>1, <2>1 DEF Enrolling
<1>7. Confirming(d)'
  <2> SUFFICES ASSUME state[d] \in {"RegisteringConfirmWait", "LoginingConfirmWait"}
               PROVE  Confirming(d)'
    BY <1>1 DEF Confirming
  <2>1. Down(d) = <<>> /\ events[d] = <<>>
    BY <1>a DEF Confirming
  <2>2. (\A i \in 1..Len(Down(d)') : FALSE) /\ (\A i \in 1..Len(events'[d]) : FALSE)
    BY <1>1, <2>1
  <2>3. \A i \in 1..Len(Up(d)') : FALSE
    BY <1>2
  <2> QED
    BY <1>a, <1>1, <2>1, <2>2, <2>3 DEF Confirming
<1>8. Proving(d)'
  <2> SUFFICES ASSUME state[d] = "ConnectingConfirmWait" PROVE Proving(d)'
    BY <1>1 DEF Proving
  <2>1. Down(d) = <<>> /\ events[d] = <<>> /\ Serving(d).status # "Authorized"
    BY <1>a DEF Proving
  <2>2. (\A i \in 1..Len(Down(d)') : FALSE) /\ (\A i \in 1..Len(events'[d]) : FALSE)
    BY <1>1, <2>1
  <2>3. \A i \in 1..Len(Up(d)') : FALSE
    BY <1>2
  <2> QED
    BY <1>a, <1>1, <2>1, <2>2, <2>3 DEF Proving
<1>9. Online(d)'
  BY <1>a, <1>1, <1>2 DEF Online, OnlyInfo
<1>10. Owned(d)' /\ Kept(d)'
  BY <1>a, <1>1, <1>2, <1>3 DEF Owned, Kept, Accounts
<1>11. Unlost(d)'
  BY <1>a, <1>1 DEF Unlost
<1> QED
  BY <1>4, <1>5, <1>6, <1>7, <1>8, <1>9, <1>10, <1>11 DEF Process

\* Its session ends.
LEMMA LostProcess ==
    ASSUME Inv, NEW c \in Connection, HandleLost(c), NEW d \in Device
    PROVE  Process(d)'
<1>a. TypeOK /\ Types /\ Connections /\ Process(d) /\ Offline(d) /\ Starting(d) /\ Enrolling(d)
      /\ Confirming(d) /\ Proving(d) /\ Online(d) /\ Owned(d) /\ Kept(d) /\ Unlost(d)
  BY TypesAre DEF Inv, Process
<1>b. Loses(c)
  BY LostLoses
<1>1. /\ state' = state /\ data' = data /\ sessionKey' = sessionKey /\ saved' = saved
      /\ udt' = udt /\ conn' = conn /\ events' = events /\ lost' = lost /\ account' = account
  BY <1>b DEF Loses, processVars
<1>2. 0 \notin Connection /\ (conn[d] # 0 <=> conn[d] \in Connection)
  BY <1>a, ConnectionOf
<1>3. CASE conn[d] # c
  <2>1. conn[d] # 0 => net'[conn[d]] = net[conn[d]] /\ session'[conn[d]] = session[conn[d]]
    BY <1>2, <1>3, <1>b DEF Loses
  <2>2. Up(d)' = Up(d) /\ Down(d)' = Down(d)
    BY <1>1, <1>2, <2>1 DEF Up, Down
  <2>3. Untouched(d) /\ Accounts
    BY <1>1, <2>1, <2>2 DEF Untouched, Accounts, Serving
  <2> QED
    BY <1>a, <2>3, UntouchedKept
<1>4. CASE conn[d] = c
  <2>1. net[c].state = "Broken" /\ net'[c].state = "Broken" /\ net'[c].up = <<>> /\ net'[c].down = net[c].down
    <3>1. net'[c] = [state |-> "Broken", up |-> <<>>, down |-> net[c].down] /\ net[c].state = "Broken"
      BY <1>b DEF Loses
    <3> QED
      BY <3>1
  <2>2. /\ Up(d)' = <<>> /\ Down(d)' = Down(d) /\ Down(d) = <<>> /\ conn[d] # 0
        /\ Serving(d)'.status = "Gone" /\ net'[conn'[d]].state # "Up"
    <3>1. Up(d)' = <<>> /\ Down(d)' = net[c].down /\ Down(d) = net[c].down /\ conn[d] # 0
      BY <1>1, <1>2, <1>4, <2>1 DEF Up, Down
    <3>2. net[c].down = <<>>
      BY <1>a, <2>1 DEF Connections
    <3>3. Serving(d)'.status = "Gone"
      BY <1>1, <1>4, <1>b DEF Loses, Serving, SessionIn
    <3> QED
      BY <1>1, <1>4, <2>1, <3>1, <3>2, <3>3
  <2>3. udt[d] \notin {"Connecting", "Connected"}
    BY <1>a, <1>4, <2>1, ConnectionOf
  <2>4. (\A i \in 1..Len(Up(d)') : FALSE) /\ (\A i \in 1..Len(Down(d)') : FALSE)
    BY <2>2
  <2>5. Offline(d)'
    <3>1. Cut(d) => Cut(d)'
      BY <1>1, <2>2 DEF Cut
    <3> QED
      BY <1>a, <1>1, <3>1, OfflineKept
  <2>6. Starting(d)'
    BY <1>a, <1>1, <2>2, <2>3, <2>4 DEF Starting, FirstAnswer
  <2>7. Enrolling(d)'
    BY <1>a, <1>1, <2>2, <2>3 DEF Enrolling
  <2>8. Confirming(d)'
    <3>1. state[d] \in {"RegisteringConfirmWait", "LoginingConfirmWait"} => \A p : Result(d, p) => Result(d, p)'
      BY <1>1 DEF Result
    <3> QED
      BY <1>a, <1>1, <2>2, <2>3, <2>4, <3>1 DEF Confirming
  <2>9. Proving(d)'
    <3>1. \A p : KeyOf(d, p) => KeyOf(d, p)'
      BY <1>1, <2>3 DEF KeyOf
    <3> QED
      BY <1>a, <1>1, <2>2, <2>3, <2>4, <3>1 DEF Proving
  <2>10. Online(d)'
    BY <1>a, <1>1, <2>3 DEF Online
  <2>11. Owned(d)' /\ Kept(d)'
    BY <1>a, <1>1, <2>2, <2>4 DEF Owned, Kept
  <2>12. Unlost(d)'
    BY <1>a, <1>1, <2>2 DEF Unlost
  <2> QED
    BY <2>5, <2>6, <2>7, <2>8, <2>9, <2>10, <2>11, <2>12 DEF Process
<1> QED
  BY <1>3, <1>4

\* The processes whose connection it is not about.
LEMMA NotServed ==
    ASSUME Inv, NEW c \in Connection, NEW to, NEW packets \in Seq(ToClient), Serves(c, to, packets),
           NEW d \in Device, conn[d] # c, conn[d] # to \/ conn[d] = 0, Accounts
    PROVE  Process(d)'
<1>1. Types /\ Process(d)
  BY TypesAre DEF Inv
<1>2. Untouched(d)
  BY ServedParts DEF Untouched
<1> QED
  BY <1>1, <1>2, UntouchedKept

\* Its connection is served, and the answer goes to it: what there is then.
LEMMA ServedSelf ==
    ASSUME Inv, NEW c \in Connection, NEW p \in ToClient, Serves(c, c, <<p>>),
           NEW d \in Device, conn[d] = c, Down(d) = <<>>
    PROVE  /\ \A i \in 1..Len(Down(d)') : i = 1 /\ Down(d)'[i] = p
           /\ Down(d)' # <<>> => Down(d)' = <<p>>
<1>1. <<p>> \in Seq(ToClient) /\ Len(<<p>>) = 1 /\ <<p>>[1] = p
  OBVIOUS
<1>2. Down(d)' = Down(d) \o <<p>> \/ Down(d)' = Down(d)
  BY <1>1, ServedParts
<1>3. <<>> \o <<p>> = <<p>>
  OBVIOUS
<1>4. CASE Down(d)' = <<p>>
  BY <1>1, <1>4
<1>5. CASE Down(d)' = <<>>
  BY <1>5
<1> QED
  BY <1>2, <1>3, <1>4, <1>5

\* The first byte of a session arrives.
LEMMA HelloProcess ==
    ASSUME Inv, NEW c \in Connection, HandleHello(c), NEW d \in Device
    PROVE  Process(d)'
<1>a. TypeOK /\ Types /\ Connections /\ Process(d) /\ Offline(d) /\ Starting(d) /\ Enrolling(d)
      /\ Confirming(d) /\ Proving(d) /\ Online(d) /\ Owned(d) /\ Kept(d) /\ Unlost(d)
  BY TypesAre DEF Inv, Process
<1>b. PICK k \in {"Registering", "Logining", "Authorizing"}, p \in ToClient :
        /\ Serves(c, c, <<p>>) /\ session' = [session EXCEPT ![c] = SessionIn(k)]
        /\ session[c].status = "Unknown" /\ net[c].up[1] = Received(c)
        /\ Received(c).type = CASE k = "Registering" -> "RT_Register"
                                [] k = "Logining" -> "RT_Login"
                                [] k = "Authorizing" -> "RT_Authorize"
        /\ p.type = IF k = "Authorizing" THEN "Challenge" ELSE "Captcha"
        /\ UNCHANGED <<account, byLogin, latest>>
  BY HelloServes
<1>c. <<p>> \in Seq(ToClient) /\ account' = account /\ Accounts
  BY <1>b DEF Accounts
<1>1. CASE conn[d] # c
  BY <1>1, <1>b, <1>c, NotServed
<1>2. CASE conn[d] = c
  <2>1. /\ state' = state /\ data' = data /\ sessionKey' = sessionKey /\ saved' = saved
        /\ udt' = udt /\ conn' = conn /\ events' = events /\ lost' = lost
        /\ Up(d)' = Tail(Up(d)) /\ Up(d) # <<>> /\ conn[d] # 0 /\ Up(d)[1] = Received(c)
    BY <1>2, <1>b, <1>c, ServedParts
  <2>2. Serving(d)' = SessionIn(k) /\ Serving(d)'.status = k
    BY <1>2, <1>a, <1>b, <2>1 DEF Serving, SessionIn, Types
  <2>3. Received(c).type \in {"RT_Register", "RT_Login", "RT_Authorize"}
    BY <1>b
  <2>4. /\ state[d] \in {"Registering", "Logining", "Connecting"} =>
             Received(c).type = FirstByte[state[d]] /\ \A i \in 1..Len(Up(d)') : FALSE
        /\ state[d] \notin {"RegisteringConfirmWait", "LoginingConfirmWait",
                            "ConnectingConfirmWait", "Connected"}
        /\ \A i \in 1..Len(Up(d)') : Up(d)'[i] = Up(d)[i + 1] /\ i + 1 \in 1..Len(Up(d))
    BY <2>1, <2>3, FirstUp DEF Request
  <2>5. Starting(d)'
    <3> SUFFICES ASSUME state[d] \in {"Registering", "Logining", "Connecting"} PROVE Starting(d)'
      BY <2>1 DEF Starting
    <3>1. udt[d] # "Connecting" /\ Down(d) = <<>> /\ OnlyInfo(d)
      BY <1>a, <2>1 DEF Starting
    <3>2. /\ \A i \in 1..Len(Down(d)') : i = 1 /\ Down(d)'[i] = p
          /\ Down(d)' # <<>> => Down(d)' = <<p>>
      BY <1>2, <1>b, <3>1, ServedSelf
    <3>3. p.type = FirstAnswer(d) /\ (state[d] = "Connecting" => k = "Authorizing")
      BY <1>b, <2>4 DEF FirstByte, FirstAnswer
    <3>4. OnlyInfo(d)' /\ FirstAnswer(d)' = FirstAnswer(d)
      BY <2>1, <3>1 DEF OnlyInfo, FirstAnswer
    <3>5. Up(d)' = <<>>
      <4>1. Up(d)' \in Seq(ToServer)
        BY <1>a, <2>1, Parts, Rest
      <4>2. Len(Up(d)') \in Nat /\ (Up(d)' = <<>> <=> Len(Up(d)') = 0)
        BY <4>1, Empty, LenProperties
      <4> QED
        BY <2>4, <4>2
    <3> QED
      BY <1>a, <2>1, <2>2, <2>4, <3>1, <3>2, <3>3, <3>4, <3>5 DEF Starting
  <2>6. Enrolling(d)'
    <3>1. state[d] \in {"Registering", "Logining"} => ~data[d].serverKey /\ k # "Authorizing"
      BY <1>a, <1>b, <2>1, <2>4 DEF Enrolling, FirstByte
    <3> QED
      BY <1>a, <2>1, <2>2, <3>1 DEF Enrolling
  <2>7. Confirming(d)' /\ Proving(d)' /\ Online(d)'
    BY <1>a, <2>1, <2>4 DEF Confirming, Proving, Online
  <2>10. Offline(d)'
    <3>1. ~Cut(d)
      BY <2>1 DEF Cut
    <3> QED
      BY <1>a, <2>1, <3>1, OfflineKept
  <2>8. Owned(d)' /\ Kept(d)'
    BY <1>a, <1>c, <2>1, <2>2, <2>4 DEF Owned, Kept
  <2>9. Unlost(d)'
    BY <1>a, <2>1, <2>4 DEF Unlost
  <2> QED
    BY <2>5, <2>6, <2>7, <2>8, <2>9, <2>10 DEF Process
<1> QED
  BY <1>1, <1>2

\* The answer of a user who registers or logs in arrives, and its result is sent.
LEMMA AnswersProcess ==
    ASSUME Inv, NEW c \in Connection, HandleRegistration(c) \/ HandlePassword(c), NEW d \in Device
    PROVE  Process(d)'
<1>a. TypeOK /\ Types /\ Connections /\ Process(d) /\ Offline(d) /\ Starting(d) /\ Enrolling(d)
      /\ Confirming(d) /\ Proving(d) /\ Online(d) /\ Owned(d) /\ Kept(d) /\ Unlost(d)
  BY TypesAre DEF Inv, Process
<1>b. PICK ok \in BOOLEAN, p \in ToClient :
        /\ p.ok = ok /\ Serves(c, c, <<p>>) /\ net[c].up[1] = Received(c) /\ session' = session
        /\ session[c].status \in {"Registering", "Logining"} /\ Accounts
        /\ \/ /\ Received(c).type = "Registration" /\ p.type = "RegisterResult"
              /\ ok /\ Received(c).login \in Login => account'[Received(c).login] = Received(c).key
           \/ /\ Received(c).type = "Password" /\ p.type = "LoginResult"
              /\ ok => p.key = account[Received(c).login] /\ p.key # 0
              /\ account' = account
  <2>1. CASE HandleRegistration(c)
    <3>1. PICK ok \in BOOLEAN, p \in ToClient :
             /\ p.type = "RegisterResult" /\ p.ok = ok /\ Serves(c, c, <<p>>)
             /\ net[c].up[1] = Received(c) /\ Received(c).type = "Registration"
             /\ session[c].status = "Registering"
             /\ ok => account[Received(c).login] = 0 /\ Received(c).key \in Nat
             /\ account' = IF ok THEN [account EXCEPT ![Received(c).login] = Received(c).key]
                           ELSE account
             /\ UNCHANGED <<session, byLogin, latest>>
      BY <2>1, RegistrationServes
    <3>2. account \in [Login -> Nat]
      BY <1>a DEF Types
    <3>3. ok /\ Received(c).login \in Login => account'[Received(c).login] = Received(c).key
      BY <3>1, <3>2
    <3>4. Accounts
      BY <3>1, <3>2 DEF Accounts
    <3> QED
      BY <3>1, <3>3, <3>4
  <2>2. CASE HandlePassword(c)
    <3>1. PICK ok \in BOOLEAN, p \in ToClient :
             /\ p.type = "LoginResult" /\ p.ok = ok /\ Serves(c, c, <<p>>)
             /\ net[c].up[1] = Received(c) /\ Received(c).type = "Password"
             /\ session[c].status = "Logining"
             /\ ok => p.key = account[Received(c).login] /\ p.key # 0
             /\ UNCHANGED serverVars
      BY <2>2, PasswordServes
    <3>2. account' = account /\ session' = session /\ Accounts
      BY <3>1 DEF serverVars, Accounts
    <3> QED
      BY <3>1, <3>2
  <2> QED
    BY <2>1, <2>2
<1>c. <<p>> \in Seq(ToClient)
  OBVIOUS
<1>1. CASE conn[d] # c
  BY <1>1, <1>b, <1>c, NotServed
<1>2. CASE conn[d] = c
  <2>1. /\ state' = state /\ data' = data /\ sessionKey' = sessionKey /\ saved' = saved
        /\ udt' = udt /\ conn' = conn /\ events' = events /\ lost' = lost
        /\ Up(d)' = Tail(Up(d)) /\ Up(d) # <<>> /\ conn[d] # 0 /\ Up(d)[1] = Received(c)
    BY <1>2, <1>b, <1>c, ServedParts
  <2>2. Serving(d)' = Serving(d) /\ Serving(d).status \notin {"Authorizing", "Authorized"}
    BY <1>2, <1>b, <2>1 DEF Serving
  <2>3. Received(c).type \in {"Registration", "Password"}
    BY <1>b
  <2>4. /\ state[d] \in {"RegisteringConfirmWait", "LoginingConfirmWait"} =>
             Request(d, Received(c)) /\ \A i \in 1..Len(Up(d)') : FALSE
        /\ state[d] \notin {"Registering", "Logining", "Connecting", "ConnectingConfirmWait", "Connected"}
        /\ \A i \in 1..Len(Up(d)') : Up(d)'[i] = Up(d)[i + 1] /\ i + 1 \in 1..Len(Up(d))
    BY <2>1, <2>3, FirstUp DEF FirstByte
  <2>5. Confirming(d)'
    <3> SUFFICES ASSUME state[d] \in {"RegisteringConfirmWait", "LoginingConfirmWait"}
                 PROVE  Confirming(d)'
      BY <2>1 DEF Confirming
    <3>1. Down(d) = <<>> /\ events[d] = <<>> /\ data[d].login # NoLogin
      BY <1>a, <2>1 DEF Confirming
    <3>2. \A i \in 1..Len(Down(d)') : i = 1 /\ Down(d)'[i] = p
      BY <1>2, <1>b, <3>1, ServedSelf
    <3>3. Request(d, Received(c)) /\ data[d].login \in Login
      <4>1. data[d] \in Data
        BY <1>a DEF Types
      <4> QED
        BY <2>4, <3>1, <4>1 DEF Data
    <3>4. \/ /\ state[d] = "RegisteringConfirmWait" /\ p.type = "RegisterResult"
             /\ p.ok => account'[data[d].login] = data[d].key
          \/ /\ state[d] = "LoginingConfirmWait" /\ p.type = "LoginResult"
             /\ p.ok => p.key # 0 /\ p.key = account'[data[d].login]
      BY <1>b, <3>3 DEF Request
    <3>5. \A i \in 1..Len(Down(d)') : i = 1 /\ Result(d, Down(d)[i])'
      BY <2>1, <3>2, <3>4 DEF Result
    <3>6. \A i \in 1..Len(events'[d]) : FALSE
      BY <2>1, <3>1
    <3>7. Up(d)' = <<>>
      <4>1. Up(d)' \in Seq(ToServer)
        BY <1>a, <2>1, Parts, Rest
      <4>2. Len(Up(d)') \in Nat /\ (Up(d)' = <<>> <=> Len(Up(d)') = 0)
        BY <4>1, Empty, LenProperties
      <4> QED
        BY <2>4, <4>2
    <3> QED
      BY <1>a, <2>1, <2>2, <2>4, <3>1, <3>5, <3>6, <3>7 DEF Confirming
  <2>6. Starting(d)' /\ Enrolling(d)' /\ Proving(d)' /\ Online(d)' /\ Offline(d)'
    <3>1. ~Cut(d)
      BY <2>1 DEF Cut
    <3>2. Offline(d)'
      BY <1>a, <2>1, <3>1, OfflineKept
    <3> QED
      BY <1>a, <2>1, <2>4, <3>2 DEF Starting, Enrolling, Proving, Online
  <2>7. Owned(d)'
    BY <1>a, <2>1, <2>2, <2>4 DEF Owned
  <2>8. Kept(d)'
    <3>1. saved[d].login # NoLogin => saved[d].login \in Login
      <4>1. saved[d] \in Data
        BY <1>a DEF Types
      <4> QED
        BY <4>1 DEF Data
    <3> QED
      BY <1>a, <1>b, <2>1, <3>1 DEF Kept, Accounts
  <2>9. Unlost(d)'
    BY <1>a, <2>1, <2>4 DEF Unlost
  <2> QED
    BY <2>5, <2>6, <2>7, <2>8, <2>9 DEF Process
<1> QED
  BY <1>1, <1>2

\* A proof that is accepted: its session is that account's, and its key is sent.
LEMMA ProofProcess ==
    ASSUME Inv, NEW c \in Connection, HandleProof(c), NEW d \in Device
    PROVE  Process(d)'
<1>a. TypeOK /\ Types /\ Connections /\ Process(d) /\ Offline(d) /\ Starting(d) /\ Enrolling(d)
      /\ Confirming(d) /\ Proving(d) /\ Online(d) /\ Owned(d) /\ Kept(d) /\ Unlost(d)
  BY TypesAre DEF Inv, Process
<1>b. PICK l \in Login, p, q \in ToClient :
        /\ l = Received(c).login /\ Serves(c, c, <<p, q>>)
        /\ net[c].up[1] = Received(c) /\ Received(c).type = "Proof"
        /\ p.type = "SessionKey" /\ p.key = Received(c).key /\ p.sessionKey = c
        /\ q.type = "Info" /\ q.sessionKey = c
        /\ session[c].status = "Authorizing"
        /\ account[l] # 0 /\ account[l] = Received(c).key
        /\ session' = [session EXCEPT ![c] = [status |-> "Authorized", login |-> l]]
        /\ byLogin' = [byLogin EXCEPT ![l] = c] /\ latest' = [latest EXCEPT ![l] = c]
        /\ UNCHANGED account
  BY ProofServes
<1>c. <<p, q>> \in Seq(ToClient) /\ Accounts /\ Len(<<p, q>>) = 2 /\ <<p, q>>[1] = p /\ <<p, q>>[2] = q
  <2>1. Accounts
    BY <1>b DEF Accounts
  <2> QED
    BY <2>1
<1>1. CASE conn[d] # c
  BY <1>1, <1>b, <1>c, NotServed
<1>2. CASE conn[d] = c
  <2>1. /\ state' = state /\ data' = data /\ sessionKey' = sessionKey /\ saved' = saved
        /\ udt' = udt /\ conn' = conn /\ events' = events /\ lost' = lost
        /\ Up(d)' = Tail(Up(d)) /\ Up(d) # <<>> /\ conn[d] # 0 /\ Up(d)[1] = Received(c)
        /\ net'[c].state = net[c].state
        /\ Down(d)' = IF net[c].state = "Up" THEN Down(d) \o <<p, q>> ELSE Down(d)
    <3> DEFINE r == <<p, q>>
    <3>1. Serves(c, c, r) /\ r \in Seq(ToClient)
      BY <1>b, <1>c
    <3> HIDE DEF r
    <3>2. /\ state' = state /\ data' = data /\ sessionKey' = sessionKey /\ saved' = saved
          /\ udt' = udt /\ conn' = conn /\ events' = events /\ lost' = lost
          /\ Up(d)' = Tail(Up(d)) /\ Up(d) # <<>> /\ conn[d] # 0 /\ Up(d)[1] = net[c].up[1]
          /\ net'[c].state = net[c].state
          /\ Down(d)' = IF net[c].state = "Up" THEN Down(d) \o r ELSE Down(d)
      BY <1>2, <3>1, ServedParts
    <3> QED
      BY <1>b, <3>2 DEF r
  <2>2. Serving(d)' = [status |-> "Authorized", login |-> l]
    BY <1>2, <1>a, <1>b, <2>1 DEF Serving, Types
  <2>3. /\ state[d] \notin {"Registering", "Logining", "Connecting", "RegisteringConfirmWait",
                            "LoginingConfirmWait", "Connected"}
        /\ \A i \in 1..Len(Up(d)') : Up(d)'[i] = Up(d)[i + 1] /\ i + 1 \in 1..Len(Up(d))
        /\ state[d] = "ConnectingConfirmWait" => \A i \in 1..Len(Up(d)') : FALSE
        /\ 1 \in 1..Len(Up(d))
    <3>1. Up(d)[1].type = "Proof"
      BY <1>b, <2>1
    <3>2. state[d] \notin {"Registering", "Logining", "Connecting", "RegisteringConfirmWait",
                           "LoginingConfirmWait", "Connected"}
      BY <2>1, <3>1, FirstUp DEF FirstByte, Request
    <3> QED
      BY <2>1, <3>2, FirstUp
  <2>4. data[d].login # NoLogin => l = data[d].login /\ Received(c).key = data[d].key
    BY <1>a, <1>b, <2>1, <2>3 DEF Owned
  <2>5. Owned(d)'
    BY <1>a, <1>b, <2>1, <2>2, <2>3, <2>4 DEF Owned
  <2>6. state[d] = "ConnectingConfirmWait" =>
          /\ Down(d)' \in {<<>>, <<p, q>>} /\ (net[c].state = "Up" => Down(d)' = <<p, q>>)
          /\ events'[d] = <<>>
    <3>1. <<>> \o <<p, q>> = <<p, q>>
      OBVIOUS
    <3> QED
      BY <1>a, <2>1, <3>1 DEF Proving
  <2>7. state[d] = "ConnectingConfirmWait" =>
          \A i \in 1..Len(Down(d)') : \/ i = 1 /\ Down(d)'[i] = p
                                      \/ i = 2 /\ Down(d)'[i] = q
    <3>1. ASSUME Down(d)' = <<p, q>>
          PROVE  \A i \in 1..Len(Down(d)') : \/ i = 1 /\ Down(d)'[i] = p
                                             \/ i = 2 /\ Down(d)'[i] = q
      BY <1>c, <3>1
    <3>2. ASSUME Down(d)' = <<>>
          PROVE  \A i \in 1..Len(Down(d)') : FALSE
      BY <3>2
    <3> QED
      BY <2>6, <3>1, <3>2
  <2>8. Proving(d)'
    <3> SUFFICES ASSUME state[d] = "ConnectingConfirmWait" PROVE Proving(d)'
      BY <2>1 DEF Proving
    <3>1. /\ data[d].login # NoLogin /\ udt[d] # "Connecting"
          /\ net[c].state = "Up" => udt[d] = "Connected"
      BY <1>2, <1>a DEF Proving
    <3>2. udt[d] = "Connected" => net[c].state = "Up"
      BY <1>2, <1>a, ConnectionOf
    <3>3. \A i \in 1..Len(events'[d]) : FALSE
      BY <2>6
    <3>4. udt[d] = "Connected" => Down(d)' # <<>>
      <4>1. <<p, q>> # <<>>
        OBVIOUS
      <4> QED
        BY <2>6, <3>2, <4>1
    <3>5. Up(d)' = <<>>
      <4>1. Up(d)' \in Seq(ToServer)
        BY <1>a, <2>1, Parts, Rest
      <4>2. Len(Up(d)') \in Nat /\ (Up(d)' = <<>> <=> Len(Up(d)') = 0)
        BY <4>1, Empty, LenProperties
      <4> QED
        BY <2>3, <4>2
    <3>6. \A i \in 1..Len(Down(d)') :
             IF i = 1 /\ events'[d] = <<>> THEN KeyOf(d, Down(d)[i])' ELSE Down(d)'[i].type = "Info"
      <4>1. ASSUME NEW i \in 1..Len(Down(d)')
            PROVE  IF i = 1 /\ events'[d] = <<>> THEN KeyOf(d, Down(d)[i])'
                   ELSE Down(d)'[i].type = "Info"
        <5>1. CASE i = 1 /\ Down(d)'[i] = p
          <6>1. KeyOf(d, Down(d)[i])'
            BY <1>2, <1>b, <2>1, <2>2, <2>4, <3>1, <5>1 DEF KeyOf
          <6> QED
            BY <2>6, <5>1, <6>1
        <5>2. CASE i = 2 /\ Down(d)'[i] = q
          BY <1>b, <5>2
        <5> QED
          BY <2>7, <5>1, <5>2
      <4> QED
        BY <4>1
    <3>7. \A i \in 1..Len(Up(d)') : FALSE
      BY <2>3
    <3> QED
      BY <1>2, <2>1, <3>1, <3>3, <3>4, <3>5, <3>6, <3>7 DEF Proving
  <2>9. Starting(d)' /\ Enrolling(d)' /\ Confirming(d)' /\ Online(d)' /\ Offline(d)'
    <3>1. ~Cut(d)
      BY <2>1 DEF Cut
    <3>2. Offline(d)'
      BY <1>a, <2>1, <3>1, OfflineKept
    <3> QED
      BY <1>a, <2>1, <2>3, <3>2 DEF Starting, Enrolling, Confirming, Online
  <2>10. Kept(d)'
    BY <1>a, <1>b, <2>1 DEF Kept
  <2>11. Unlost(d)'
    <3>1. state[d] = "ConnectingConfirmWait" =>
            \A i \in 1..Len(Down(d)') : Down(d)'[i].type = "Info" => Down(d)'[i].sessionKey = conn[d]
      BY <1>2, <1>b, <2>7
    <3> QED
      BY <1>a, <2>1, <2>3, <3>1 DEF Unlost
  <2> QED
    BY <2>5, <2>8, <2>9, <2>10, <2>11 DEF Process
<1> QED
  BY <1>1, <1>2

\* A packet of the session that is registered is sent to it, on a connection that is up.
LEMMA InfoSent ==
    ASSUME Inv, NEW d \in Device, conn[d] # 0, Serving(d).status = "Authorized",
           NEW p \in ToClient, p.type = "Info", p.sessionKey = conn[d],
           net[conn[d]].state = "Up", Down(d)' = Down(d) \o <<p>>,
           Up(d)' = Up(d) \/ (Up(d) # <<>> /\ Up(d)' = Tail(Up(d)) /\ Up(d)[1].type = "RT_SyncMessages"),
           UNCHANGED <<processVars, events, connects, lost, account>>,
           net'[conn[d]].state = net[conn[d]].state, Serving(d)' = Serving(d)
    PROVE  Process(d)'
<1>a. TypeOK /\ Types /\ Connections /\ Process(d) /\ Offline(d) /\ Starting(d) /\ Enrolling(d)
      /\ Confirming(d) /\ Proving(d) /\ Online(d) /\ Owned(d) /\ Kept(d) /\ Unlost(d)
  BY TypesAre DEF Inv, Process
<1>1. /\ state' = state /\ data' = data /\ sessionKey' = sessionKey /\ saved' = saved
      /\ udt' = udt /\ conn' = conn /\ events' = events /\ lost' = lost /\ account' = account
  BY DEF processVars
<1>2. state[d] \in {"ConnectingConfirmWait", "Connected", "Disconnected", "Dead"}
  BY <1>a DEF Starting, Enrolling, Confirming, Types, State
<1>3. \A i \in 1..Len(Up(d)') : \E j \in 1..Len(Up(d)) : Up(d)'[i] = Up(d)[j]
  <2>1. CASE Up(d)' = Up(d)
    BY <2>1
  <2>2. CASE Up(d) # <<>> /\ Up(d)' = Tail(Up(d))
    BY <2>2, FirstUp
  <2> QED
    BY <2>1, <2>2
<1>4. /\ Down(d)' # <<>> /\ \A i \in 1..Len(Down(d)) : Down(d)'[i] = Down(d)[i]
      /\ \A i \in 1..Len(Down(d)') : i \in 1..Len(Down(d)) \/ (i = Len(Down(d)) + 1 /\ Down(d)'[i] = p)
      /\ Len(Down(d)) \in Nat /\ (Down(d) = <<>> <=> Len(Down(d)) = 0)
  <2>1. Down(d) \in Seq(ToClient) /\ <<p>> \in Seq(ToClient) /\ Len(<<p>>) = 1 /\ <<p>>[1] = p
    BY <1>a, Parts
  <2>2. /\ Down(d)' \in Seq(ToClient) /\ Len(Down(d)') = Len(Down(d)) + 1 /\ Len(Down(d)) \in Nat
        /\ \A i \in 1..Len(Down(d)) : Down(d)'[i] = Down(d)[i]
        /\ \A i \in 1..Len(Down(d)) + 1 : i > Len(Down(d)) => Down(d)'[i] = <<p>>[i - Len(Down(d))]
    <3> DEFINE w == Down(d)
               r == <<p>>
    <3>1. w \in Seq(ToClient) /\ r \in Seq(ToClient) /\ Len(r) = 1
      BY <2>1
    <3> HIDE DEF w, r
    <3>2. /\ w \o r \in Seq(ToClient) /\ Len(w \o r) = Len(w) + Len(r) /\ Len(w) \in Nat
          /\ \A i \in 1..Len(w) : (w \o r)[i] = w[i]
          /\ \A i \in 1..Len(w) + Len(r) : i > Len(w) => (w \o r)[i] = r[i - Len(w)]
      BY <3>1, Joined
    <3> QED
      BY <3>1, <3>2 DEF w, r
  <2>3. Down(d)'[Len(Down(d)) + 1] = p
    BY <2>1, <2>2
  <2>4. (Down(d)' = <<>> <=> Len(Down(d)') = 0) /\ (Down(d) = <<>> <=> Len(Down(d)) = 0)
    BY <2>1, <2>2, Empty
  <2> QED
    BY <2>2, <2>3, <2>4
<1>5. Proving(d)'
  <2> SUFFICES ASSUME state[d] = "ConnectingConfirmWait" PROVE Proving(d)'
    BY <1>1 DEF Proving
  <2>1. /\ Up(d) = <<>> /\ udt[d] = "Connected" /\ (events[d] # <<>> \/ Down(d) # <<>>)
        /\ \A i \in 1..Len(Down(d)) :
             IF i = 1 /\ events[d] = <<>> THEN KeyOf(d, Down(d)[i]) ELSE Down(d)[i].type = "Info"
    BY <1>a DEF Proving
  <2>2. \A x : KeyOf(d, x) => KeyOf(d, x)'
    BY <1>1 DEF KeyOf
  <2>3. ASSUME NEW i \in 1..Len(Down(d)')
        PROVE  IF i = 1 /\ events'[d] = <<>> THEN KeyOf(d, Down(d)[i])' ELSE Down(d)'[i].type = "Info"
    <3>1. CASE i \in 1..Len(Down(d))
      <4>1. Down(d)'[i] = Down(d)[i]
        BY <1>4, <3>1
      <4>2. IF i = 1 /\ events[d] = <<>> THEN KeyOf(d, Down(d)[i]) ELSE Down(d)[i].type = "Info"
        BY <2>1, <3>1
      <4> QED
        BY <1>1, <4>1, <4>2 DEF KeyOf
    <3>2. CASE i = Len(Down(d)) + 1 /\ Down(d)'[i] = p
      <4>1. ~(i = 1 /\ events'[d] = <<>>)
        BY <1>1, <1>4, <2>1, <3>2
      <4> QED
        BY <3>2, <4>1
    <3> QED
      BY <1>4, <3>1, <3>2
  <2>4. Up(d)' = <<>> /\ (\A i \in 1..Len(Up(d)') : FALSE)
    BY <2>1
  <2>5. \A i \in 1..Len(events'[d]) :
          IF i = 1 THEN events'[d][i].type = "Data" /\ KeyOf(d, events[d][i].packet)'
          ELSE IsInfo(events'[d][i])
    BY <1>a, <1>1 DEF Proving, KeyOf
  <2> QED
    BY <1>a, <1>1, <1>4, <2>1, <2>3, <2>4, <2>5 DEF Proving, IsInfo
<1>6. Online(d)'
  <2>1. state[d] = "Connected" => \A i \in 1..Len(Down(d)') : Down(d)'[i].type = "Info"
    BY <1>a, <1>4 DEF Online
  <2> QED
    BY <1>a, <1>1, <1>3, <2>1 DEF Online, OnlyInfo
<1>7. Owned(d)' /\ Kept(d)'
  BY <1>a, <1>1, <1>3 DEF Owned, Kept
<1>8. Unlost(d)'
  <2>1. d \notin lost /\ state[d] \in {"ConnectingConfirmWait", "Connected"} =>
          \A i \in 1..Len(Down(d)') : Down(d)'[i].type = "Info" => Down(d)'[i].sessionKey = conn[d]
    BY <1>a, <1>4 DEF Unlost
  <2> QED
    BY <1>a, <1>1, <1>2, <2>1 DEF Unlost
<1>9. Starting(d)' /\ Enrolling(d)' /\ Confirming(d)' /\ Offline(d)'
  <2>1. ~Cut(d)
    BY DEF Cut
  <2>2. Offline(d)'
    BY <1>a, <1>1, <2>1, OfflineKept
  <2> QED
    BY <1>a, <1>1, <1>2, <2>2 DEF Starting, Enrolling, Confirming
<1> QED
  BY <1>5, <1>6, <1>7, <1>8, <1>9 DEF Process

\* A proof that is not accepted, and a request of a session.
LEMMA RequestProcess ==
    ASSUME Inv, NEW c \in Connection, HandleWrongProof(c) \/ HandleRequest(c), NEW d \in Device
    PROVE  Process(d)'
<1>a. TypeOK /\ Types /\ Connections /\ Process(d) /\ <<>> \in Seq(ToClient)
  BY TypesAre, EmptySeq DEF Inv
<1>b. PICK to \in Nat, packets \in Seq(ToClient) :
        /\ Serves(c, to, packets) /\ session' = session /\ account' = account
        /\ \/ packets = <<>>
           \/ /\ Received(c).type = "RT_SyncMessages" /\ to # 0
              /\ session[to].status = "Authorized"
              /\ \E p \in ToClient : packets = <<p>> /\ p.type = "Info" /\ p.sessionKey = to
  <2>1. CASE HandleWrongProof(c)
    <3>1. c \in Nat
      BY DEF Connection
    <3> QED
      BY <1>a, <2>1, <3>1, WrongProofServes DEF serverVars
  <2>2. CASE HandleRequest(c)
    <3>1. session' = session /\ account' = account
      BY <2>2, RequestServes DEF serverVars
    <3>2. PICK r \in Nat : /\ r # 0 => r \in Connection /\ session[r].status = "Authorized"
                           /\ \/ Serves(c, r, <<>>) /\ r = 0
                              \/ \E p \in ToClient : /\ Serves(c, r, <<p>>) /\ r # 0
                                                     /\ p.type = "Info" /\ p.sessionKey = r
      BY <2>2, RequestServes
    <3>3. Received(c).type = "RT_SyncMessages"
      BY <2>2 DEF HandleRequest, HandledPacket, Received
    <3>4. CASE Serves(c, r, <<>>)
      BY <1>a, <3>1, <3>4
    <3>5. CASE \E p \in ToClient : Serves(c, r, <<p>>) /\ r # 0 /\ p.type = "Info" /\ p.sessionKey = r
      <4>1. PICK p \in ToClient : Serves(c, r, <<p>>) /\ r # 0 /\ p.type = "Info" /\ p.sessionKey = r
        BY <3>5
      <4>2. <<p>> \in Seq(ToClient)
        OBVIOUS
      <4> QED
        BY <3>1, <3>2, <3>3, <4>1, <4>2
    <3> QED
      BY <3>2, <3>4, <3>5
  <2> QED
    BY <2>1, <2>2
<1>1. /\ UNCHANGED <<processVars, events, connects, lost>>
      /\ Up(d)' = IF conn[d] = c THEN Tail(Up(d)) ELSE Up(d)
      /\ conn[d] = c => Up(d) # <<>> /\ conn[d] # 0 /\ Up(d)[1] = net[c].up[1]
      /\ Down(d)' = IF conn[d] = to /\ conn[d] # 0 /\ net[conn[d]].state = "Up"
                    THEN Down(d) \o packets ELSE Down(d)
      /\ conn[d] # 0 => net'[conn[d]].state = net[conn[d]].state
      /\ conn' = conn /\ Serving(d)' = Serving(d) /\ Accounts
  <2>1. UNCHANGED <<processVars, events, connects, lost>>
    BY <1>b DEF Serves
  <2>2. conn' = conn /\ Serving(d)' = Serving(d) /\ Accounts
    BY <1>b, <2>1 DEF processVars, Serving, Accounts
  <2> QED
    BY <1>b, <2>1, <2>2, ServedParts
<1>2. CASE Down(d)' = Down(d)
  <2>1. CASE conn[d] = c
    BY <1>1, <1>2, <2>1, TakenProcess
  <2>2. CASE conn[d] # c
    <3>1. Untouched(d)
      BY <1>1, <1>2, <2>2 DEF Untouched, processVars
    <3> QED
      BY <1>1, <1>a, <3>1, UntouchedKept
  <2> QED
    BY <2>1, <2>2
<1>3. CASE Down(d)' # Down(d)
  <2>1. /\ conn[d] = to /\ conn[d] # 0 /\ net[conn[d]].state = "Up" /\ Down(d)' = Down(d) \o packets
    BY <1>1, <1>3
  <2>2. Down(d) \o <<>> = Down(d)
    <3>1. Down(d) \in Seq(ToClient)
      BY <1>a, Parts
    <3> QED
      BY <3>1, ConcatEmptySeq
  <2>3. PICK p \in ToClient : packets = <<p>> /\ p.type = "Info" /\ p.sessionKey = conn[d]
    BY <1>3, <1>b, <2>1, <2>2
  <2>4. Received(c).type = "RT_SyncMessages" /\ Serving(d).status = "Authorized"
    BY <1>3, <1>b, <2>1, <2>2 DEF Serving
  <2>5. conn[d] = c => Up(d)[1].type = "RT_SyncMessages"
    <3>1. net[c].up # <<>> /\ net \in [Connection -> Net]
      BY <1>a, <1>b DEF Serves, Types
    <3>2. Head(net[c].up) = net[c].up[1]
      BY <3>1, Rest DEF Net
    <3> QED
      BY <1>1, <2>4, <3>2 DEF Received
  <2>6. Up(d)' = Up(d) \/ (Up(d) # <<>> /\ Up(d)' = Tail(Up(d)) /\ Up(d)[1].type = "RT_SyncMessages")
    BY <1>1, <2>5
  <2> QED
    BY <1>1, <1>b, <2>1, <2>3, <2>4, <2>6, InfoSent
<1> QED
  BY <1>2, <1>3

\* Every step of the server keeps the invariant.
LEMMA ServerStep ==
    ASSUME Inv, NEW c \in Connection, HandleEvent(c)
    PROVE  Inv'
<1>1. TypeOK'
  BY ServerTypes
<1>2. Connections' /\ Registered'
  BY ServerConnections
<1>3. ASSUME NEW d \in Device PROVE Process(d)'
  BY LostProcess, HelloProcess, AnswersProcess, ProofProcess, RequestProcess DEF HandleEvent
<1> QED
  BY <1>1, <1>2, <1>3 DEF Inv

-----------------------------------------------------------------------------
(* The theorems *)

LEMMA InvInit == Init => Inv
<1> SUFFICES ASSUME Init PROVE Inv
  OBVIOUS
<1> USE SessionsAssumption DEF SessionsAssumption
<1>1. PICK old \in SUBSET Login : account = [l \in Login |-> IF l \in old THEN OldKey[l] ELSE 0]
  BY DEF Init
<1>2. /\ session = [c \in Connection |-> SessionIn("Unknown")]
      /\ byLogin = [l \in Login |-> 0] /\ latest = [l \in Login |-> 0]
      /\ net = [c \in Connection |-> NoConnection]
      /\ state = [d \in Device |-> "Disconnected"]
      /\ saved \in [Device -> Saved(account)] /\ data = saved
      /\ sessionKey = [d \in Device |-> 0]
      /\ udt = [d \in Device |-> "Disconnected"] /\ conn = [d \in Device |-> 0]
      /\ events = [d \in Device |-> <<>>] /\ connects = 0 /\ lost = {}
  BY DEF Init
<1>3. account \in [Login -> Nat]
  BY <1>1
<1>4. ASSUME NEW s \in Saved(account)
      PROVE  /\ s \in Data
             /\ s.login = NoLogin => s.key = 0
             /\ s.login # NoLogin => s.key # 0 /\ s.key = account[s.login] /\ s.serverKey
  <2>1. CASE s = NoData
    BY <2>1 DEF NoData, Data
  <2>2. ASSUME NEW l \in Login, account[l] # 0,
               s = [login |-> l, key |-> account[l], serverKey |-> TRUE]
        PROVE  /\ s \in Data
               /\ s.login = NoLogin => s.key = 0
               /\ s.login # NoLogin => s.key # 0 /\ s.key = account[s.login] /\ s.serverKey
    BY <1>3, <2>2 DEF Data
  <2> QED
    BY <2>1, <2>2 DEF Saved
<1>5. /\ NoConnection \in Net /\ NoConnection.state # "Up" /\ NoConnection.up = <<>>
      /\ NoConnection.down = <<>> /\ SessionIn("Unknown") \in Session
      /\ SessionIn("Unknown").status = "Unknown" /\ <<>> \in Seq(Event)
  <2>1. <<>> \in Seq(ToServer) /\ <<>> \in Seq(ToClient) /\ <<>> \in Seq(Event)
    BY EmptySeq
  <2> QED
    BY <2>1 DEF NoConnection, Net, SessionIn, Session, Status
<1>6. TypeOK
  <2>1. saved \in [Device -> Data]
    BY <1>2, <1>4
  <2>2. session \in [Connection -> Session] /\ net \in [Connection -> Net]
    BY <1>2, <1>5
  <2>3. events \in [Device -> Seq(Event)]
    BY <1>2, <1>5
  <2>4. byLogin \in [Login -> Nat] /\ latest \in [Login -> Nat] /\ sessionKey \in [Device -> Nat]
        /\ conn \in [Device -> Nat] /\ connects \in 0..MaxConnects /\ lost \subseteq Device
    BY <1>2
  <2>5. state \in [Device -> State]
        /\ udt \in [Device -> {"Disconnected", "Connecting", "Connected", "Ended", "Closing"}]
    BY <1>2 DEF State
  <2> QED
    BY <1>2, <1>3, <2>1, <2>2, <2>3, <2>4, <2>5, TypesAre DEF Types
<1>7. Connections
  <2>1. \A c \in Connection : net[c] = NoConnection /\ session[c] = SessionIn("Unknown")
    BY <1>2
  <2>2. \A c \in Connection : \A i \in 1..Len(net[c].up) : FALSE
    BY <1>5, <2>1
  <2> QED
    BY <1>2, <1>5, <2>1, <2>2 DEF Connections
<1>8. Registered
  BY <1>2 DEF Registered, LatestRegistered
<1>9. ASSUME NEW d \in Device PROVE Process(d)
  <2>1. /\ state[d] = "Disconnected" /\ udt[d] = "Disconnected" /\ conn[d] = 0 /\ events[d] = <<>>
        /\ data[d] = saved[d] /\ saved[d] \in Saved(account)
    BY <1>2
  <2>2. Up(d) = <<>> /\ 0 \notin Connection
    BY <2>1 DEF Up, Connection
  <2>3. (\A i \in 1..Len(Up(d)) : FALSE) /\ (\A i \in 1..Len(events[d]) : FALSE)
    BY <2>1, <2>2
  <2>4. Offline(d) /\ Starting(d) /\ Enrolling(d) /\ Confirming(d) /\ Proving(d) /\ Online(d)
    BY <2>1, <2>3 DEF Offline, OnlyInfo, Starting, Enrolling, Confirming, Proving, Online
  <2>5. Owned(d)
    BY <2>1, <2>3 DEF Owned
  <2>6. Kept(d)
    BY <1>4, <2>1 DEF Kept
  <2>7. Unlost(d)
    BY <1>4, <2>1 DEF Unlost
  <2> QED
    BY <2>4, <2>5, <2>6, <2>7 DEF Process
<1> QED
  BY <1>6, <1>7, <1>8, <1>9 DEF Inv

LEMMA InvStep == Inv /\ [Next]_vars => Inv'
<1>1. Inv /\ UNCHANGED vars => Inv'
  <2> SUFFICES ASSUME Inv, UNCHANGED vars PROVE Inv'
    OBVIOUS
  <2>1. /\ UNCHANGED <<account, session, byLogin, latest>> /\ UNCHANGED <<state, data, sessionKey, saved>>
        /\ UNCHANGED <<udt, conn, net, events, connects, lost>>
    BY DEF vars, serverVars, processVars
  <2>2. TypeOK'
    BY <2>1 DEF Inv, TypeOK
  <2>3. Connections' /\ Registered'
    BY <2>1 DEF Inv, Connections, Registered, LatestRegistered
  <2>4. ASSUME NEW d \in Device PROVE Process(d)'
    <3>1. Untouched(d) /\ Accounts
      BY <2>1 DEF Untouched, Accounts, Up, Down, Serving
    <3> QED
      BY <3>1, TypesAre, UntouchedKept DEF Inv
  <2> QED
    BY <2>2, <2>3, <2>4 DEF Inv
<1>2. ASSUME Inv, NEW d \in Device, User(d) \/ Restart(d) \/ Network(d) \/ ProcessEvent(d)
      PROVE  Inv'
  BY <1>2, ProcessStep
<1>3. ASSUME Inv, NEW c \in Connection, HandleEvent(c)
      PROVE  Inv'
  BY <1>3, ServerStep
<1> QED
  BY <1>1, <1>2, <1>3 DEF Next

LEMMA Invariant == Spec => []Inv
BY InvInit, InvStep, PTL DEF Spec

\* Every variable holds values of its type, for any number of logins, processes and
\* connections.
THEOREM TypeCorrect == Spec => []TypeOK
<1>1. Inv => TypeOK
  BY DEF Inv
<1> QED
  BY <1>1, Invariant, PTL

\* A client that is connected talks to a session of its own account, under the key that
\* the session has (client.cpp:234): whatever was lost, queued or started before.
THEOREM SessionsAreAgreed == Spec => []SessionsAgree
<1>1. Inv => SessionsAgree
  BY DEF Inv, Process, Online, Serving, SessionsAgree
<1> QED
  BY <1>1, Invariant, PTL

\* A session is authorized only for a process that has the keys of that account, also
\* when others try with those of a registration that was refused (server.cpp:229).
THEOREM OnlyOwnersAuthorized == Spec => []OnlyOwners
<1>1. Inv => OnlyOwners
  BY DEF Inv, Process, Owned, Serving, OnlyOwners
<1> QED
  BY <1>1, Invariant, PTL

\* The keys that a client saves are those of the account that the server keeps
\* (client.cpp:164, 200), whichever answers are lost and whoever registers the login too.
THEOREM SavedKeysAreTheAccounts == Spec => []SavedKeys
<1>1. Inv => SavedKeys
  BY DEF Inv, Process, Kept, SavedKeys
<1> QED
  BY <1>1, Invariant, PTL

\* ClientsByLogin holds the session that was authorized last as long as it lives
\* (server.cpp:79, 238).
THEOREM LatestIsRegistered == Spec => []LatestRegistered
<1>1. Inv => LatestRegistered
  BY DEF Inv, Registered
<1> QED
  BY <1>1, Invariant, PTL

\* "unknown state" and the exceptions of the event thread (client.cpp:123, 423) end a
\* process only after a loss, or when a rejected call has cleared its State.
THEOREM DiesOnlyAfterLoss == Spec => []DiesOnlyOfLoss
<1>1. Inv => DiesOnlyOfLoss
  BY DEF Inv, Process, Unlost, DiesOnlyOfLoss
<1> QED
  BY <1>1, Invariant, PTL

=============================================================================
