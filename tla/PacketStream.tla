----------------------------- MODULE PacketStream -----------------------------
(***************************************************************************)
(* The packets of one direction of a link (vocal_lib/serializer.cpp): they *)
(* are written into a stream of bytes with their length in front, sent in  *)
(* pieces (library/udt/client.cpp:115), read in slices (154), and taken    *)
(* out of a buffer of TClient or TFriend (client.cpp:128, friend.cpp:261)  *)
(* which outlives its connections.                                         *)
(*                                                                         *)
(* A byte is its packet and its place there; bytes 1 and 2 are the length, *)
(* a ui16.  Two bytes that are not the length of one packet may announce   *)
(* any length.  Several threads send: the windows, the recorder and the    *)
(* event thread.  The reader of a server has a buffer for each session     *)
(* (UdtServer).                                                            *)
(***************************************************************************)
EXTENDS Naturals, Sequences, SequencesExt

CONSTANTS
    Thread,       \* threads that send
    Size,         \* sizes of packets, without the length
    Width,        \* 2^16: lengths are taken modulo this
    Piece,        \* 900
    Slice,        \* 4096, the most recv returns
    Payload,      \* what UDT::send surely takes when it takes anything
    MaxPackets,   \* bound: packets sent
    MaxLinks      \* bound: connections

ASSUME StreamAssumption ==
    /\ Size \subseteq Nat \ {0} /\ MaxPackets \in Nat \ {0} /\ MaxLinks \in Nat \ {0}
    /\ {Width, Piece, Slice, Payload} \subseteq Nat \ {0} /\ Piece <= Payload

VARIABLES
    size,         \* sizes of the packets sent, in the order of their first pieces
    sending,      \* each thread: the packet in Send and the next byte
    up, links,    \* the connection, and how many were made
    wire,         \* bytes sent and not yet read
    events,       \* the event queue: slices read
    buffer,       \* Buffer
    handling,     \* OnDataReceived is in its loop
    received,     \* packets taken out of the buffer; 0 is none that was sent
    incidents     \* history: "Large" when a packet had Width bytes or more, "Mixed" when two
                  \* threads sent at once, "Cut" when a connection was lost within a packet,
                  \* "Threw" when a packet was refused

vars == <<size, sending, up, links, wire, events, buffer, handling, received, incidents>>

-----------------------------------------------------------------------------
(* Data *)

Packet == 1..Len(size)
Idle == [packet |-> 0, next |-> 0]

\* Serialize: the length and the packet.
Serialized(n) == n + 2
Bytes(p, first, n) == [i \in 1..n |-> <<p, first + i - 1>>]

\* The last bytes the reader has, or will read when this is left of the wire.
Latest(rest) == IF rest # <<>> THEN rest ELSE IF events # <<>> THEN Last(events) ELSE buffer

\* These bytes end with a packet.
Whole(s) == s = <<>> \/ Last(s)[2] = Serialized(size[Last(s)[1]])

-----------------------------------------------------------------------------
(* Send *)

OnlySender == UNCHANGED <<up, links, events, buffer, handling, received>>

\* UDT::send of n bytes: it may take fewer, but a payload at least.
Taken(n) == {k \in 1..n : k >= Payload \/ k = n}

\* Bytes of a packet from this one on, and what is sent of them at once.  The mutant does not
\* send in pieces ("dirty hack to send big messages", client.cpp:119).
Left(n, next) == Serialized(n) - next + 1
AtOnce_All(n, next) == Left(n, next)
AtOnce(n, next) == IF Left(n, next) < Piece THEN Left(n, next) ELSE Piece

\* The loop ends with the last byte.  The mutant leaves out an incomplete piece.
After_Complete(p, n, next) ==
    IF Left(n, next) - AtOnce(n, next) < Piece THEN Idle
    ELSE [packet |-> p, next |-> next + AtOnce(n, next)]

After(p, n, next) ==
    IF Left(n, next) = AtOnce(n, next) THEN Idle
    ELSE [packet |-> p, next |-> next + AtOnce(n, next)]

\* One piece; what UDT::send did not take is not sent again.
SendPiece(t, p, n, next) ==
    /\ \E k \in Taken(AtOnce(n, next)) : wire' = wire \o Bytes(p, next, k)
    /\ sending' = [sending EXCEPT ![t] = After(p, n, next)]

\* Send, which throws when there is no connection.
Send(t, n) ==
    /\ up /\ sending[t] = Idle /\ Len(size) < MaxPackets
    /\ size' = Append(size, n)
    /\ SendPiece(t, Len(size) + 1, n, 1)
    /\ incidents' = incidents
          \cup (IF n >= Width THEN {"Large"} ELSE {})
          \cup (IF \E r \in Thread : sending[r] # Idle THEN {"Mixed"} ELSE {})
    /\ OnlySender

\* Send goes on; the socket may be that of a new connection.
SendMore(t) ==
    /\ up /\ sending[t] # Idle
    /\ SendPiece(t, sending[t].packet, size[sending[t].packet], sending[t].next)
    /\ OnlySender /\ UNCHANGED <<size, incidents>>

\* "send error": the rest is not sent.
SendThrows(t) ==
    /\ ~up /\ sending[t] # Idle
    /\ sending' = [sending EXCEPT ![t] = Idle]
    /\ OnlySender /\ UNCHANGED <<size, wire, incidents>>

-----------------------------------------------------------------------------
(* Connections *)

OnlyLink == UNCHANGED <<size, sending, events, buffer, handling, received>>

\* The connection is lost, with any part of what was sent and not read.
LinkLost ==
    /\ up /\ up' = FALSE
    /\ \E n \in 0..Len(wire) :
          LET rest == SubSeq(wire, 1, n) IN
          /\ wire' = rest
          /\ incidents' = incidents \cup
                IF (\A t \in Thread : sending[t] = Idle) /\ Whole(Latest(rest)) THEN {} ELSE {"Cut"}
    /\ OnlyLink /\ UNCHANGED links

\* A new one is made when the worker of the last has ended (UdtClient).
Reconnected ==
    /\ ~up /\ wire = <<>> /\ links < MaxLinks
    /\ up' = TRUE /\ links' = links + 1
    /\ OnlyLink /\ UNCHANGED <<wire, incidents>>

-----------------------------------------------------------------------------
(* Worker and event thread of the reader *)

OnlyReader == UNCHANGED <<size, sending, up, links>>

\* recv and TEventQueue::Add.
WorkerReads ==
    /\ wire # <<>>
    /\ \E n \in 1..Slice :
          /\ n <= Len(wire)
          /\ events' = Append(events, SubSeq(wire, 1, n))
          /\ wire' = SubSeq(wire, n + 1, Len(wire))
    /\ OnlyReader /\ UNCHANGED <<buffer, handling, received, incidents>>

\* OnDataReceived, up to its loop.
OnDataReceived ==
    /\ ~handling /\ events # <<>>
    /\ buffer' = buffer \o Head(events) /\ events' = Tail(events)
    /\ handling' = TRUE
    /\ OnlyReader /\ UNCHANGED <<wire, received, incidents>>

\* The lengths the first two bytes may announce, if they are there.
Announced ==
    IF Len(buffer) < 2 THEN {}
    ELSE IF \E p \in Packet : SubSeq(buffer, 1, 2) = Bytes(p, 1, 2)
    THEN {size[buffer[1][1]] % Width}
    ELSE 0..(Width - 1)

\* Deserialize can take a packet of n bytes.
Takes(n) == n \in Announced /\ Len(buffer) - 2 >= n

\* The packet in the first bytes, 0 when it is none that was sent.
Taking(n) ==
    IF \E p \in Packet : size[p] = n /\ SubSeq(buffer, 1, n + 2) = Bytes(p, 1, n + 2)
    THEN buffer[1][1] ELSE 0

\* The rest of the buffer.
Remaining(n) == SubSeq(buffer, n + 3, Len(buffer))

\* Deserialize returns true, and the packet is handled.  The mutant is no loop.
OnPacketReceived_Once ==
    /\ handling
    /\ \E n \in 0..(Width - 1) :
          Takes(n) /\ received' = Append(received, Taking(n)) /\ buffer' = Remaining(n)
    /\ handling' = FALSE
    /\ OnlyReader /\ UNCHANGED <<wire, events, incidents>>

OnPacketReceived ==
    /\ handling
    /\ \E n \in 0..(Width - 1) :
          Takes(n) /\ received' = Append(received, Taking(n)) /\ buffer' = Remaining(n)
    /\ OnlyReader /\ UNCHANGED <<wire, events, handling, incidents>>

\* Handling it throws: TFriend catches outside of the loop (friend.cpp:420).
OnPacketThrows ==
    /\ handling
    /\ \E n \in 0..(Width - 1) :
          Takes(n) /\ received' = Append(received, Taking(n)) /\ buffer' = Remaining(n)
    /\ handling' = FALSE /\ incidents' = incidents \cup {"Threw"}
    /\ OnlyReader /\ UNCHANGED <<wire, events>>

\* Deserialize returns false.
MoreRequired ==
    /\ handling
    /\ Announced = {} \/ \E n \in Announced : Len(buffer) - 2 < n
    /\ handling' = FALSE
    /\ OnlyReader /\ UNCHANGED <<wire, events, buffer, received, incidents>>

EventThread == OnDataReceived \/ OnPacketReceived \/ OnPacketThrows \/ MoreRequired

-----------------------------------------------------------------------------

Init ==
    /\ size = <<>> /\ sending = [t \in Thread |-> Idle]
    /\ up = TRUE /\ links = 1 /\ wire = <<>> /\ events = <<>>
    /\ buffer = <<>> /\ handling = FALSE /\ received = <<>> /\ incidents = {}

Next ==
    \/ \E t \in Thread : (\E n \in Size : Send(t, n)) \/ SendMore(t) \/ SendThrows(t)
    \/ LinkLost \/ Reconnected
    \/ WorkerReads \/ EventThread

Spec == Init /\ [][Next]_vars

\* A thread in Send, the worker and the event thread go on.
Fairness ==
    /\ \A t \in Thread : WF_vars(SendMore(t))
    /\ WF_vars(WorkerReads) /\ WF_vars(EventThread)

FairSpec == Spec /\ Fairness

-----------------------------------------------------------------------------
(* Properties *)

\* Every variable holds values of its type.
TypeOK ==
    LET Stream == Seq((Nat \ {0}) \X (Nat \ {0})) IN
    /\ size \in Seq(Size)
    /\ sending \in [Thread -> [packet: Nat, next: Nat]]
    /\ \A t \in Thread : sending[t] # Idle =>
          sending[t].packet \in Packet /\ sending[t].next \in 1..Serialized(size[sending[t].packet])
    /\ up \in BOOLEAN /\ links \in Nat
    /\ wire \in Stream /\ events \in Seq(Stream) /\ buffer \in Stream
    /\ handling \in BOOLEAN /\ received \in Seq(Nat)
    /\ incidents \subseteq {"Large", "Mixed", "Cut", "Threw"}

\* "extracts data to result" (serializer.h:8): whatever the pieces and slices, every packet
\* that is taken out of the buffer was sent, and they come in the order they were sent and
\* once each, also over connections that are lost between two packets; unless a packet is too
\* large for its length, two threads send at once or a connection is lost within a packet.
InOrder ==
    incidents \subseteq {"Threw"} =>
    \A i \in 1..Len(received) :
        received[i] # 0 /\ \A j \in 1..(i - 1) : received[j] < received[i]

\* "false - require more data" (serializer.h:10): when OnDataReceived returns, what it leaves
\* in the buffer is not yet a packet, unless the handling of one threw.
NoneKept ==
    incidents = {} /\ ~handling => \A n \in 0..(Width - 1) : ~Takes(n)

\* Some of the packet is in Send, on the wire, in the queue or in the buffer.
OnItsWay(p) ==
    \/ \E t \in Thread : sending[t].packet = p
    \/ \E s \in {wire, buffer} \cup ToSet(events) : \E i \in 1..Len(s) : s[i][1] = p

\* A packet on its way is finally handled, however it is cut into pieces and slices, unless
\* something of the above happens or its connection is lost.
PacketsArrive ==
    \A p \in 1..MaxPackets :
        OnItsWay(p) ~> (\E i \in 1..Len(received) : received[i] = p) \/ incidents # {} \/ ~up
=============================================================================
