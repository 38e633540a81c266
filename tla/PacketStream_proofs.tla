-------------------------- MODULE PacketStream_proofs --------------------------
(***************************************************************************)
(* Proofs about PacketStream, for every number of threads, and every size  *)
(* of packets, pieces and slices: what comes out of the buffer is what was *)
(* sent.                                                                   *)
(***************************************************************************)
EXTENDS PacketStream, SequenceTheorems, TLAPS

\* Bytes of a stream.
Byte == (Nat \ {0}) \X (Nat \ {0})

\* A part of a stream is a stream.
LEMMA PartOfStream ==
    ASSUME NEW s \in Seq(Byte), NEW k \in Nat \ {0}, NEW n \in Nat, n <= Len(s)
    PROVE  SubSeq(s, k, n) \in Seq(Byte)
<1>1. \A i \in k..n : i \in 1..Len(s)
  OBVIOUS
<1>2. \A i \in k..n : s[i] \in Byte
  BY <1>1, ElementOfSeq
<1> QED
  BY <1>2, SubSeqProperties

\* So are the bytes of a packet.
LEMMA BytesOfPacket ==
    ASSUME NEW p \in Nat \ {0}, NEW k \in Nat \ {0}, NEW n \in Nat
    PROVE  Bytes(p, k, n) \in Seq(Byte)
<1>1. \A i \in 1..n : <<p, k + i - 1>> \in Byte
  BY DEF Byte
<1>2. Bytes(p, k, n) \in [1..n -> Byte]
  BY <1>1 DEF Bytes
<1> QED
  BY <1>2, SeqDef

\* What is sent at once of a packet is a part of what is left of it.
LEMMA AtOnceBounds ==
    ASSUME NEW n \in Nat \ {0}, NEW next \in 1..Serialized(n)
    PROVE  /\ Left(n, next) \in 1..Serialized(n) /\ AtOnce(n, next) \in 1..Left(n, next)
           /\ next + Left(n, next) = Serialized(n) + 1
<1>1. n \in Nat \ {0} /\ next \in 1..(n + 2) /\ Piece \in Nat \ {0}
  BY StreamAssumption DEF Serialized
<1>2. Left(n, next) = n + 3 - next
  BY <1>1 DEF Left, Serialized
<1>3. Left(n, next) \in 1..(n + 2) /\ next + Left(n, next) = n + 3
  BY <1>1, <1>2
<1>4. AtOnce(n, next) = Left(n, next) \/ (Left(n, next) >= Piece /\ AtOnce(n, next) = Piece)
  BY <1>1, <1>3 DEF AtOnce
<1> QED
  BY <1>1, <1>3, <1>4 DEF Serialized

\* A piece of a packet leaves the thread within the packet, and the wire a stream.
LEMMA PieceSent ==
    ASSUME NEW t \in Thread, NEW p \in Nat \ {0}, NEW n \in Size, NEW next \in 1..Serialized(n),
           SendPiece(t, p, n, next), sending \in [Thread -> [packet: Nat, next: Nat]],
           wire \in Seq(Byte)
    PROVE  /\ wire' \in Seq(Byte) /\ sending' \in [Thread -> [packet: Nat, next: Nat]]
           /\ \A r \in Thread : r # t => sending'[r] = sending[r]
           /\ sending'[t] # Idle => sending'[t].packet = p /\ sending'[t].next \in 1..Serialized(n)
<1>1. n \in Nat \ {0} /\ next \in Nat \ {0}
  BY StreamAssumption
<1>2. /\ Left(n, next) \in 1..Serialized(n) /\ AtOnce(n, next) \in 1..Left(n, next)
      /\ next + Left(n, next) = Serialized(n) + 1 /\ Serialized(n) \in Nat
  BY <1>1, AtOnceBounds DEF Serialized
<1>3. wire' \in Seq(Byte)
  <2>1. PICK k \in 1..AtOnce(n, next) : wire' = wire \o Bytes(p, next, k)
    BY DEF SendPiece, Taken
  <2>2. k \in Nat
    BY <1>2, <2>1
  <2> QED
    BY <1>1, <2>1, <2>2, BytesOfPacket, ConcatProperties
<1>4. /\ After(p, n, next) \in [packet: Nat, next: Nat]
      /\ After(p, n, next) # Idle =>
            After(p, n, next).packet = p /\ After(p, n, next).next \in 1..Serialized(n)
  BY <1>1, <1>2 DEF After, Idle
<1> QED
  BY <1>3, <1>4 DEF SendPiece

\* Every step keeps the types.
LEMMA TypeStep == TypeOK /\ [Next]_vars => TypeOK'
<1> SUFFICES ASSUME TypeOK, [Next]_vars
             PROVE  TypeOK'
  OBVIOUS
<1> USE DEF TypeOK, Byte, Packet
<1>a. Len(size) \in Nat /\ \A p \in 1..Len(size) : size[p] \in Size /\ p \in Nat \ {0}
  BY LenProperties
<1>b. Idle \in [packet: Nat, next: Nat]
  BY DEF Idle
<1>1. ASSUME NEW t \in Thread, NEW n \in Size, Send(t, n)
      PROVE  TypeOK'
  <2>1. /\ size' \in Seq(Size) /\ Len(size') = Len(size) + 1 /\ size'[Len(size) + 1] = n
        /\ \A p \in 1..Len(size) : size'[p] = size[p]
    BY <1>1, AppendProperties DEF Send
  <2>2. 1 \in 1..Serialized(n) /\ Len(size) + 1 \in Nat \ {0}
    BY <1>a, StreamAssumption DEF Serialized
  <2>3. /\ wire' \in Seq(Byte) /\ sending' \in [Thread -> [packet: Nat, next: Nat]]
        /\ \A r \in Thread : r # t => sending'[r] = sending[r]
        /\ sending'[t] # Idle => sending'[t].packet = Len(size) + 1 /\ sending'[t].next \in 1..Serialized(n)
    BY <1>1, <2>2, PieceSent DEF Send
  <2>4. ASSUME NEW r \in Thread, sending'[r] # Idle
        PROVE  /\ sending'[r].packet \in 1..Len(size')
               /\ sending'[r].next \in 1..Serialized(size'[sending'[r].packet])
    <3>1. CASE r = t
      <4>1. Len(size) + 1 \in 1..Len(size')
        BY <1>a, <2>1
      <4> QED
        BY <2>1, <2>3, <2>4, <3>1, <4>1
    <3>2. CASE r # t
      <4>1. /\ sending[r] = sending'[r] /\ sending[r].packet \in 1..Len(size)
            /\ sending[r].next \in 1..Serialized(size[sending[r].packet])
        BY <2>3, <2>4, <3>2
      <4>2. 1..Len(size) \subseteq 1..Len(size')
        BY <1>a, <2>1
      <4> QED
        BY <2>1, <4>1, <4>2
    <3> QED
      BY <3>1, <3>2
  <2> QED
    BY <1>1, <2>1, <2>3, <2>4 DEF Send, OnlySender
<1>2. ASSUME NEW t \in Thread, SendMore(t)
      PROVE  TypeOK'
  <2> DEFINE p == sending[t].packet
  <2>1. p \in 1..Len(size) /\ sending[t].next \in 1..Serialized(size[p])
    BY <1>2 DEF SendMore
  <2>2. /\ wire' \in Seq(Byte) /\ sending' \in [Thread -> [packet: Nat, next: Nat]]
        /\ \A r \in Thread : r # t => sending'[r] = sending[r]
        /\ sending'[t] # Idle => sending'[t].packet = p /\ sending'[t].next \in 1..Serialized(size[p])
    BY <1>2, <1>a, <2>1, PieceSent DEF SendMore
  <2>3. ASSUME NEW r \in Thread, sending'[r] # Idle
        PROVE  /\ sending'[r].packet \in 1..Len(size)
               /\ sending'[r].next \in 1..Serialized(size[sending'[r].packet])
    BY <2>1, <2>2, <2>3
  <2> QED
    BY <1>2, <2>2, <2>3 DEF SendMore, OnlySender
<1>3. ASSUME NEW t \in Thread, SendThrows(t)
      PROVE  TypeOK'
  BY <1>3, <1>b DEF SendThrows, OnlySender
<1>4. CASE LinkLost
  <2>1. PICK n \in 0..Len(wire) : wire' = SubSeq(wire, 1, n)
    BY <1>4 DEF LinkLost
  <2>2. Len(wire) \in Nat
    BY LenProperties
  <2>3. wire' \in Seq(Byte)
    BY <2>1, <2>2, PartOfStream
  <2>4. incidents' \subseteq {"Large", "Mixed", "Cut", "Threw"}
    BY <1>4 DEF LinkLost
  <2> QED
    BY <1>4, <2>3, <2>4 DEF LinkLost, OnlyLink
<1>5. CASE Reconnected
  BY <1>5 DEF Reconnected, OnlyLink
<1>6. CASE WorkerReads
  <2>1. PICK n \in 1..Slice : /\ n <= Len(wire) /\ events' = Append(events, SubSeq(wire, 1, n))
                              /\ wire' = SubSeq(wire, n + 1, Len(wire))
    BY <1>6 DEF WorkerReads
  <2>2. Len(wire) \in Nat /\ n \in Nat /\ n + 1 \in Nat \ {0}
    BY <2>1, LenProperties, StreamAssumption
  <2>a. SubSeq(wire, 1, n) \in Seq(Byte)
    BY <2>1, <2>2, PartOfStream, SMTT(30)
  <2>b. SubSeq(wire, n + 1, Len(wire)) \in Seq(Byte)
    BY <2>2, PartOfStream, SMTT(30)
  <2>3. SubSeq(wire, 1, n) \in Seq(Byte) /\ wire' \in Seq(Byte)
    BY <2>1, <2>a, <2>b
  <2>4. events' \in Seq(Seq(Byte))
    BY <2>1, <2>3, AppendProperties
  <2> QED
    BY <1>6, <2>3, <2>4 DEF WorkerReads, OnlyReader
<1>7. CASE OnDataReceived
  <2>1. Head(events) \in Seq(Byte) /\ events' \in Seq(Seq(Byte))
    BY <1>7, HeadTailProperties DEF OnDataReceived
  <2>2. buffer' \in Seq(Byte)
    BY <1>7, <2>1, ConcatProperties DEF OnDataReceived
  <2> QED
    BY <1>7, <2>1, <2>2 DEF OnDataReceived, OnlyReader
<1>8. ASSUME NEW n \in 0..(Width - 1), Takes(n)
      PROVE  Append(received, Taking(n)) \in Seq(Nat) /\ Remaining(n) \in Seq(Byte)
  <2>1. Len(buffer) \in Nat /\ n \in Nat /\ Len(buffer) >= 2
    BY <1>8, LenProperties, StreamAssumption DEF Takes, Announced
  <2>2. Taking(n) \in Nat
    <3>1. buffer[1] \in Byte
      BY <2>1, ElementOfSeq
    <3> QED
      BY <3>1 DEF Taking
  <2>3. Remaining(n) \in Seq(Byte)
    BY <2>1, PartOfStream DEF Remaining
  <2> QED
    BY <2>2, <2>3, AppendProperties
<1>9. CASE OnPacketReceived
  <2>1. received' \in Seq(Nat) /\ buffer' \in Seq(Byte)
    BY <1>8, <1>9 DEF OnPacketReceived
  <2> QED
    BY <1>9, <2>1 DEF OnPacketReceived, OnlyReader
<1>10. CASE OnPacketThrows
  <2>1. received' \in Seq(Nat) /\ buffer' \in Seq(Byte)
    BY <1>8, <1>10 DEF OnPacketThrows
  <2> QED
    BY <1>10, <2>1 DEF OnPacketThrows, OnlyReader
<1>11. CASE MoreRequired
  BY <1>11 DEF MoreRequired, OnlyReader
<1>12. CASE UNCHANGED vars
  BY <1>12 DEF vars
<1> QED
  BY <1>1, <1>2, <1>3, <1>4, <1>5, <1>6, <1>7, <1>9, <1>10, <1>11, <1>12 DEF Next, EventThread

LEMMA TypeInit == Init => TypeOK
<1> SUFFICES ASSUME Init
             PROVE  TypeOK
  OBVIOUS
<1>1. /\ <<>> \in Seq(Size) /\ <<>> \in Seq(Byte) /\ <<>> \in Seq(Seq(Byte))
      /\ <<>> \in Seq(Nat)
  BY EmptySeq
<1>2. sending \in [Thread -> [packet: Nat, next: Nat]] /\ \A t \in Thread : sending[t] = Idle
  BY DEF Init, Idle
<1>3. size = <<>> /\ wire = <<>> /\ events = <<>> /\ buffer = <<>> /\ received = <<>>
  BY DEF Init
<1> QED
  BY <1>1, <1>2, <1>3 DEF Init, TypeOK, Byte

-----------------------------------------------------------------------------
(* What is under way is what was sent *)

\* A byte of a packet, when these are the sizes of the packets sent.
IsByte(z, b) == b[1] \in 1..Len(z) /\ b[2] \in 1..Serialized(z[b[1]])

\* Byte b comes d places behind byte a: in the same packet, or in a later one with the rest
\* of a's packet and the beginning of its own between them.
Follows(z, a, b, d) ==
    \/ a[1] = b[1] /\ b[2] = a[2] + d
    \/ a[1] < b[1] /\ a[2] + d >= Serialized(z[a[1]]) + b[2]

\* A sequence of bytes as the packets have them.
IsStream(z, s) ==
    /\ \A i \in 1..Len(s) : IsByte(z, s[i])
    /\ \A i, j \in 1..Len(s) : i < j => Follows(z, s[i], s[j], j - i)

\* The byte a is followed by the first of the bytes B, or ends its packet.
Before(z, a, B) ==
    /\ \A b \in B : Follows(z, a, b, 1)
    /\ B = {} => a[2] = Serialized(z[a[1]])

\* The byte that Send has to send next; none when no thread is in it.
Pending == {<<sending[t].packet, sending[t].next>> : t \in {r \in Thread : sending[r] # Idle}}

\* The first byte behind the event queue, behind the buffer, and of all that is under way.
BehindEvents == IF wire # <<>> THEN {wire[1]} ELSE Pending
BehindBuffer == IF events # <<>> THEN {events[1][1]} ELSE BehindEvents
First == IF buffer # <<>> THEN {buffer[1]} ELSE BehindBuffer

Segments ==
    /\ IsStream(size, buffer) /\ IsStream(size, wire)
    /\ \A i \in 1..Len(events) : IsStream(size, events[i]) /\ events[i] # <<>>

Junctions ==
    /\ wire # <<>> => Before(size, Last(wire), Pending)
    /\ events # <<>> => Before(size, Last(Last(events)), BehindEvents)
    /\ \A i \in 1..(Len(events) - 1) : Follows(size, Last(events[i]), events[i + 1][1], 1)
    /\ buffer # <<>> => Before(size, Last(buffer), BehindBuffer)

\* The reader is at the beginning of a packet, and that is a new one.
Beginning == \A b \in First : b[2] = 1 /\ \A i \in 1..Len(received) : received[i] < b[1]

\* One thread sends, and only over a connection.
Senders ==
    /\ \A t, r \in Thread : sending[t] # Idle /\ sending[r] # Idle => t = r
    /\ ~up => \A t \in Thread : sending[t] = Idle
    /\ \A p \in Packet : size[p] < Width

Increasing ==
    \A i \in 1..Len(received) :
        received[i] \in Packet /\ \A j \in 1..(i - 1) : received[j] < received[i]

Unbroken == Segments /\ Junctions /\ Beginning /\ Senders /\ Increasing

Inv == TypeOK /\ (incidents \subseteq {"Threw"} => Unbroken) /\ NoneKept

-----------------------------------------------------------------------------
(* Streams *)

Sizes == Seq(Size)

LEMMA SizesOf ==
    ASSUME NEW z \in Sizes
    PROVE  /\ Len(z) \in Nat
           /\ \A p \in 1..Len(z) : /\ z[p] \in Nat \ {0} /\ p \in Nat \ {0}
                                   /\ Serialized(z[p]) = z[p] + 2 /\ Serialized(z[p]) \in Nat
<1>1. Len(z) \in Nat /\ \A p \in 1..Len(z) : z[p] \in Size
  BY LenProperties, ElementOfSeq DEF Sizes
<1>2. ASSUME NEW p \in 1..Len(z)
      PROVE  /\ z[p] \in Nat \ {0} /\ p \in Nat \ {0}
             /\ Serialized(z[p]) = z[p] + 2 /\ Serialized(z[p]) \in Nat
  <2>1. z[p] \in Nat \ {0}
    BY <1>1, StreamAssumption, Zenon
  <2>2. p \in Nat \ {0}
    BY <1>1
  <2> QED
    BY <2>1, <2>2 DEF Serialized
<1> QED
  BY <1>1, <1>2

LEMMA BytesOf ==
    ASSUME NEW z \in Sizes, NEW b, IsByte(z, b)
    PROVE  /\ b[1] \in Nat /\ b[2] \in Nat \ {0} /\ Serialized(z[b[1]]) \in Nat
           /\ b[2] <= Serialized(z[b[1]])
<1>1. b[1] \in 1..Len(z) /\ Len(z) \in Nat /\ Serialized(z[b[1]]) \in Nat
  BY SizesOf DEF IsByte
<1> QED
  BY <1>1 DEF IsByte

LEMMA FollowsTransitive ==
    ASSUME NEW z \in Sizes, NEW a, NEW b, NEW c, IsByte(z, a), IsByte(z, b), IsByte(z, c),
           NEW d \in Nat, NEW e \in Nat, Follows(z, a, b, d), Follows(z, b, c, e)
    PROVE  Follows(z, a, c, d + e)
<1>1. /\ a[1] \in Nat /\ b[1] \in Nat /\ c[1] \in Nat /\ a[2] \in Nat /\ b[2] \in Nat /\ c[2] \in Nat
      /\ b[2] <= Serialized(z[b[1]]) /\ Serialized(z[b[1]]) \in Nat /\ Serialized(z[a[1]]) \in Nat
  BY BytesOf
<1> QED
  BY <1>1 DEF Follows

LEMMA PartIsStream ==
    ASSUME NEW z \in Sizes, NEW s \in Seq(Byte), IsStream(z, s),
           NEW k \in Nat \ {0}, NEW n \in Nat, n <= Len(s)
    PROVE  IsStream(z, SubSeq(s, k, n))
<1> DEFINE r == SubSeq(s, k, n)
<1>1. /\ Len(r) = IF k <= n + 1 THEN n - k + 1 ELSE 0
      /\ \A i \in 1..Len(r) : r[i] = s[k + i - 1] /\ k + i - 1 \in 1..Len(s)
  BY LenProperties
<1>2. \A i, j \in 1..Len(r) : (k + j - 1) - (k + i - 1) = j - i /\ (i < j => k + i - 1 < k + j - 1)
  OBVIOUS
<1> QED
  BY <1>1, <1>2 DEF IsStream

LEMMA JoinedIsStream ==
    ASSUME NEW z \in Sizes, NEW s \in Seq(Byte), NEW t \in Seq(Byte), IsStream(z, s), IsStream(z, t),
           s # <<>> /\ t # <<>> => Follows(z, Last(s), t[1], 1)
    PROVE  IsStream(z, s \o t)
<1> DEFINE r == s \o t
<1>1. /\ Len(s) \in Nat /\ Len(t) \in Nat /\ Len(r) = Len(s) + Len(t)
      /\ \A i \in 1..Len(r) : r[i] = IF i <= Len(s) THEN s[i] ELSE t[i - Len(s)]
  BY LenProperties, ConcatProperties
<1>2. \A i \in 1..Len(r) : IF i <= Len(s) THEN i \in 1..Len(s) ELSE i - Len(s) \in 1..Len(t)
  BY <1>1
<1>3. \A i \in 1..Len(r) : IsByte(z, r[i])
  BY <1>1, <1>2 DEF IsStream
<1>4. ASSUME NEW i \in 1..Len(s), NEW j \in 1..Len(t)
      PROVE  Follows(z, s[i], t[j], Len(s) + j - i)
  <2>1. s # <<>> /\ t # <<>> /\ Len(s) \in 1..Len(s) /\ 1 \in 1..Len(t)
    BY <1>1, EmptySeq
  <2>2. IsByte(z, s[i]) /\ IsByte(z, s[Len(s)]) /\ IsByte(z, t[1]) /\ IsByte(z, t[j])
    BY <2>1 DEF IsStream
  <2>3. Follows(z, s[Len(s)], t[1], 1)
    BY <2>1 DEF Last
  <2>4. Follows(z, s[i], t[1], Len(s) - i + 1)
    <3>1. CASE i = Len(s)
      BY <2>3, <3>1
    <3>2. CASE i # Len(s)
      <4>1. i < Len(s) /\ Len(s) - i \in Nat
        BY <1>1, <3>2
      <4>2. Follows(z, s[i], s[Len(s)], Len(s) - i)
        BY <2>1, <4>1 DEF IsStream
      <4> QED
        BY <2>2, <2>3, <4>1, <4>2, FollowsTransitive
    <3> QED
      BY <3>1, <3>2
  <2>5. CASE j = 1
    BY <1>1, <2>4, <2>5
  <2>6. CASE j # 1
    <3>1. 1 < j /\ j - 1 \in Nat /\ Len(s) - i + 1 \in Nat /\ (Len(s) - i + 1) + (j - 1) = Len(s) + j - i
      BY <1>1, <2>6
    <3>2. Follows(z, t[1], t[j], j - 1)
      BY <2>1, <3>1 DEF IsStream
    <3>3. Follows(z, s[i], t[j], (Len(s) - i + 1) + (j - 1))
      BY <2>2, <2>4, <3>1, <3>2, FollowsTransitive
    <3> QED
      BY <3>1, <3>3
  <2> QED
    BY <2>5, <2>6
<1>5. ASSUME NEW i \in 1..Len(r), NEW j \in 1..Len(r), i < j
      PROVE  Follows(z, r[i], r[j], j - i)
  <2>1. CASE j <= Len(s)
    BY <1>1, <1>2, <1>5, <2>1 DEF IsStream
  <2>2. CASE i <= Len(s) /\ ~(j <= Len(s))
    <3>1. i \in 1..Len(s) /\ j - Len(s) \in 1..Len(t) /\ Len(s) + (j - Len(s)) - i = j - i
      BY <1>1, <1>2, <2>2
    <3> QED
      BY <1>1, <1>4, <2>2, <3>1
  <2>3. CASE ~(i <= Len(s))
    <3>1. /\ ~(j <= Len(s)) /\ i - Len(s) \in 1..Len(t) /\ j - Len(s) \in 1..Len(t)
          /\ (j - Len(s)) - (i - Len(s)) = j - i /\ i - Len(s) < j - Len(s)
      BY <1>1, <1>2, <1>5, <2>3
    <3> QED
      BY <1>1, <2>3, <3>1 DEF IsStream
  <2> QED
    BY <1>1, <2>1, <2>2, <2>3
<1> QED
  BY <1>3, <1>5 DEF IsStream

\* The bytes of a packet are a stream.
LEMMA BytesAreStream ==
    ASSUME NEW z \in Sizes, NEW p \in 1..Len(z), NEW k \in Nat \ {0}, NEW n \in Nat,
           k + n <= Serialized(z[p]) + 1
    PROVE  IsStream(z, Bytes(p, k, n))
<1>1. Len(Bytes(p, k, n)) = n /\ \A i \in 1..n : Bytes(p, k, n)[i] = <<p, k + i - 1>>
  BY DEF Bytes
<1>2. \A i \in 1..n : k + i - 1 \in 1..Serialized(z[p])
  BY SizesOf
<1>3. \A i, j \in 1..n : i < j => k + j - 1 = k + i - 1 + (j - i)
  OBVIOUS
<1>4. \A i \in 1..n : IsByte(z, Bytes(p, k, n)[i])
  <2>1. \A i \in 1..n : IsByte(z, <<p, k + i - 1>>)
    BY <1>2 DEF IsByte
  <2> QED
    BY <1>1, <2>1
<1>5. \A i, j \in 1..n : i < j => Follows(z, Bytes(p, k, n)[i], Bytes(p, k, n)[j], j - i)
  BY <1>1, <1>3 DEF Follows
<1> QED
  BY <1>1, <1>4, <1>5 DEF IsStream

\* Bytes that begin a packet are its bytes, as far as it goes.
LEMMA PacketInStream ==
    ASSUME NEW z \in Sizes, NEW s \in Seq(Byte), IsStream(z, s), s # <<>>, s[1][2] = 1,
           NEW i \in 1..Len(s), i <= Serialized(z[s[1][1]])
    PROVE  s[i] = <<s[1][1], i>>
<1>1. Len(s) \in Nat /\ 1 \in 1..Len(s) /\ s[1] \in Byte /\ s[i] \in Byte
  BY LenProperties, ElementOfSeq, EmptySeq
<1>2. IsByte(z, s[1]) /\ IsByte(z, s[i]) /\ Serialized(z[s[1][1]]) \in Nat
  BY <1>1, SizesOf DEF IsStream, IsByte
<1>3. s[i] = <<s[i][1], s[i][2]>> /\ s[i][1] \in Nat \ {0} /\ s[i][2] \in Nat \ {0} /\ s[1] = <<s[1][1], 1>>
  BY <1>1 DEF Byte
<1>4. CASE i = 1
  BY <1>3, <1>4
<1>5. CASE i # 1
  <2>1. 1 < i /\ Follows(z, s[1], s[i], i - 1)
    BY <1>1, <1>5 DEF IsStream
  <2> QED
    BY <1>2, <1>3, <2>1 DEF Follows
<1> QED
  BY <1>4, <1>5

\* Packets that are sent later change nothing.
LEMMA StreamOfMore ==
    ASSUME NEW z \in Sizes, NEW y \in Sizes, Len(z) <= Len(y), \A p \in 1..Len(z) : y[p] = z[p],
           NEW s \in Seq(Byte), IsStream(z, s)
    PROVE  IsStream(y, s)
<1>1. \A b : IsByte(z, b) => IsByte(y, b) /\ y[b[1]] = z[b[1]]
  BY LenProperties DEF IsByte, Sizes
<1> QED
  BY <1>1 DEF IsStream, Follows

-----------------------------------------------------------------------------
(* The steps *)

LEMMA LastByte ==
    ASSUME NEW z \in Sizes, NEW s \in Seq(Byte), IsStream(z, s), s # <<>>
    PROVE  /\ Len(s) \in 1..Len(s) /\ IsByte(z, Last(s)) /\ IsByte(z, s[1])
           /\ Last(s) \in Byte /\ s[1] \in Byte /\ Last(s) = s[Len(s)]
<1>1. Len(s) \in 1..Len(s) /\ 1 \in 1..Len(s)
  BY LenProperties, EmptySeq
<1> QED
  BY <1>1, ElementOfSeq DEF IsStream, Last

\* The first and the last byte of two streams that are joined.
LEMMA JoinedEnds ==
    ASSUME NEW s \in Seq(Byte), NEW t \in Seq(Byte), t # <<>>
    PROVE  /\ s \o t \in Seq(Byte) /\ s \o t # <<>> /\ Last(s \o t) = Last(t)
           /\ (s \o t)[1] = IF s # <<>> THEN s[1] ELSE t[1]
<1> DEFINE r == s \o t
<1>1. /\ r \in Seq(Byte) /\ Len(s) \in Nat /\ Len(t) \in Nat /\ Len(r) = Len(s) + Len(t)
      /\ \A i \in 1..Len(r) : r[i] = IF i <= Len(s) THEN s[i] ELSE t[i - Len(s)]
  BY LenProperties, ConcatProperties
<1>2. Len(t) # 0 /\ (s = <<>> <=> Len(s) = 0)
  BY EmptySeq
<1>3. 1 \in 1..Len(r) /\ Len(r) \in 1..Len(r) /\ Len(r) - Len(s) = Len(t) /\ ~(Len(r) <= Len(s))
  BY <1>1, <1>2
<1>4. r # <<>>
  BY <1>3, EmptySeq
<1>5. r[Len(r)] = t[Len(t)]
  BY <1>1, <1>3
<1>6. r[1] = IF s # <<>> THEN s[1] ELSE t[1]
  BY <1>1, <1>2, <1>3
<1> QED
  BY <1>1, <1>4, <1>5, <1>6 DEF Last

\* A piece of a packet that follows what was sent before.
LEMMA PieceKeeps ==
    ASSUME TypeOK, Unbroken, size' \in Sizes, Len(size) <= Len(size'),
           \A q \in 1..Len(size) : size'[q] = size[q],
           NEW t \in Thread, NEW p \in 1..Len(size'), NEW next \in 1..Serialized(size'[p]),
           SendPiece(t, p, size'[p], next), \A r \in Thread \ {t} : sending[r] = Idle,
           UNCHANGED <<buffer, events, received>>, up, up' = up,
           Pending \subseteq {<<p, next>>},
           \A a : IsByte(size, a) /\ Before(size, a, Pending) => Follows(size', a, <<p, next>>, 1),
           <<p, next>> \notin Pending => next = 1 /\ \A i \in 1..Len(received) : received[i] < p
    PROVE  /\ Segments' /\ Junctions' /\ Beginning'
           /\ \A r, v \in Thread : sending'[r] # Idle /\ sending'[v] # Idle => r = v
<1> DEFINE z == size
           y == size'
           n == y[p]
           b == <<p, next>>
           k == AtOnce(n, next)
<1>1. /\ z \in Sizes /\ wire \in Seq(Byte) /\ buffer \in Seq(Byte) /\ events \in Seq(Seq(Byte))
      /\ sending \in [Thread -> [packet: Nat, next: Nat]]
  BY DEF TypeOK, Byte, Sizes
<1>2. /\ n \in Nat \ {0} /\ p \in Nat \ {0} /\ next \in Nat \ {0} /\ Serialized(n) = n + 2
      /\ Left(n, next) \in 1..Serialized(n) /\ k \in 1..Left(n, next)
      /\ next + Left(n, next) = Serialized(n) + 1
  <2>1. n \in Nat \ {0} /\ p \in Nat \ {0} /\ Serialized(n) = n + 2
    BY SizesOf
  <2> QED
    BY <2>1, AtOnceBounds
<1>3. wire' = wire \o Bytes(p, next, k)
  <2>1. PICK m \in Taken(AtOnce(n, next)) : wire' = wire \o Bytes(p, next, m)
    BY DEF SendPiece
  <2>2. k <= Piece /\ Piece <= Payload /\ Piece \in Nat /\ Payload \in Nat
    BY <1>2, StreamAssumption DEF AtOnce
  <2>3. m = k
    BY <1>2, <2>1, <2>2 DEF Taken
  <2> QED
    BY <2>1, <2>3
<1>4. /\ Bytes(p, next, k) \in Seq(Byte) /\ IsStream(y, Bytes(p, next, k))
      /\ Len(Bytes(p, next, k)) = k /\ Bytes(p, next, k)[1] = b
      /\ Bytes(p, next, k)[k] = <<p, next + k - 1>>
  <2>1. k \in Nat \ {0} /\ next + k <= Serialized(n) + 1
    BY <1>2
  <2>2. Bytes(p, next, k) \in Seq(Byte)
    BY <1>2, <2>1, BytesOfPacket
  <2>3. IsStream(y, Bytes(p, next, k))
    BY <1>2, <2>1, BytesAreStream
  <2>4. Bytes(p, next, k) = [i \in 1..k |-> <<p, next + i - 1>>]
    BY DEF Bytes
  <2> QED
    BY <1>2, <2>1, <2>2, <2>3, <2>4
<1>5. /\ IsStream(y, wire) /\ IsStream(y, buffer)
      /\ \A i \in 1..Len(events) : IsStream(y, events[i]) /\ events[i] # <<>> /\ events[i] \in Seq(Byte)
  <2>1. \A i \in 1..Len(events) : events[i] \in Seq(Byte)
    BY <1>1, ElementOfSeq
  <2> QED
    BY <1>1, <2>1, StreamOfMore DEF Unbroken, Segments
<1>6. /\ IsStream(y, wire') /\ wire' # <<>> /\ wire' \in Seq(Byte)
      /\ wire'[1] = (IF wire # <<>> THEN wire[1] ELSE b) /\ Last(wire') = <<p, next + k - 1>>
  <2>1. wire # <<>> => Follows(y, Last(wire), b, 1)
    BY <1>1, LastByte DEF Unbroken, Segments, Junctions
  <2>2. IsStream(y, wire')
    BY <1>1, <1>3, <1>4, <1>5, <2>1, JoinedIsStream
  <2>3. Bytes(p, next, k) # <<>> /\ Last(Bytes(p, next, k)) = <<p, next + k - 1>>
    BY <1>2, <1>4, EmptySeq DEF Last
  <2>4. /\ wire' \in Seq(Byte) /\ wire' # <<>> /\ Last(wire') = Last(Bytes(p, next, k))
        /\ wire'[1] = IF wire # <<>> THEN wire[1] ELSE Bytes(p, next, k)[1]
    BY <1>1, <1>3, <1>4, <2>3, JoinedEnds
  <2> QED
    BY <1>4, <2>2, <2>3, <2>4
<1>7. /\ sending'[t] = IF next + k = Serialized(n) + 1 THEN Idle ELSE [packet |-> p, next |-> next + k]
      /\ \A r \in Thread \ {t} : sending'[r] = Idle
  <2>1. Left(n, next) = k <=> next + k = Serialized(n) + 1
    BY <1>2
  <2> QED
    BY <1>1, <2>1 DEF SendPiece, After
<1>8. Before(y, Last(wire'), Pending')
  <2>1. CASE next + k = Serialized(n) + 1
    <3>1. Pending' = {}
      BY <1>7, <2>1 DEF Pending
    <3>2. next + k - 1 = Serialized(y[p])
      BY <1>2, <2>1
    <3> QED
      BY <1>6, <3>1, <3>2 DEF Before
  <2>2. CASE next + k # Serialized(n) + 1
    <3>1. Pending' = {<<p, next + k>>}
      <4>1. sending'[t] # Idle /\ sending'[t].packet = p /\ sending'[t].next = next + k
        BY <1>2, <1>7, <2>2 DEF Idle
      <4>2. {r \in Thread : sending'[r] # Idle} = {t}
        BY <1>7, <4>1
      <4> QED
        BY <4>1, <4>2 DEF Pending
    <3>2. next + k = (next + k - 1) + 1
      BY <1>2
    <3> QED
      <4>1. Follows(y, <<p, next + k - 1>>, <<p, next + k>>, 1)
        BY <3>2 DEF Follows
      <4> QED
        BY <1>6, <3>1, <4>1 DEF Before
  <2> QED
    BY <2>1, <2>2
<1>9. BehindEvents' = {IF wire # <<>> THEN wire[1] ELSE b}
  BY <1>6 DEF BehindEvents
<1>10. \A a : IsByte(z, a) /\ Before(z, a, BehindEvents) => Before(y, a, BehindEvents')
  <2>1. \A a, c : IsByte(z, a) /\ Follows(z, a, c, 1) => Follows(y, a, c, 1)
    BY DEF IsByte, Follows
  <2> QED
    BY <1>9, <2>1 DEF BehindEvents, Before
<1>11. \A a : IsByte(z, a) /\ Before(z, a, BehindBuffer) => Before(y, a, BehindBuffer')
  <2>1. \A a, c : IsByte(z, a) /\ Follows(z, a, c, 1) => Follows(y, a, c, 1)
    BY DEF IsByte, Follows
  <2> QED
    BY <1>10, <2>1 DEF BehindBuffer, Before
<1>12. Segments'
  BY <1>5, <1>6 DEF Segments
<1>13. Junctions'
  <2>1. events # <<>> => IsByte(z, Last(Last(events)))
    <3>1. events # <<>> => Len(events) \in 1..Len(events)
      BY <1>1, LenProperties, EmptySeq
    <3>2. \A i \in 1..Len(events) : events[i] \in Seq(Byte)
      BY <1>1, ElementOfSeq
    <3> QED
      BY <1>1, <3>1, <3>2, LastByte DEF Unbroken, Segments, Last
  <2>2. buffer # <<>> => IsByte(z, Last(buffer))
    BY <1>1, LastByte DEF Unbroken, Segments
  <2>3. ASSUME NEW i \in 1..(Len(events) - 1)
        PROVE  Follows(y, Last(events[i]), events[i + 1][1], 1)
    <3>1. Len(events) \in Nat /\ i \in 1..Len(events) /\ events[i] \in Seq(Byte)
      <4>1. Len(events) \in Nat
        BY <1>1, LenProperties
      <4>2. i \in 1..Len(events)
        BY <4>1
      <4> QED
        BY <1>1, <4>1, <4>2, ElementOfSeq
    <3>2. IsByte(z, Last(events[i])) /\ Follows(z, Last(events[i]), events[i + 1][1], 1)
      BY <1>1, <3>1, LastByte DEF Unbroken, Segments, Junctions
    <3> QED
      BY <3>2 DEF IsByte, Follows
  <2>4. events # <<>> => Before(y, Last(Last(events)), BehindEvents')
    BY <1>10, <2>1 DEF Unbroken, Junctions
  <2>5. buffer # <<>> => Before(y, Last(buffer), BehindBuffer')
    BY <1>11, <2>2 DEF Unbroken, Junctions
  <2> QED
    BY <1>8, <2>3, <2>4, <2>5 DEF Junctions
<1>14. Beginning'
  <2>1. First' = First \/ (First = Pending /\ First' = {b})
    BY <1>9 DEF First, BehindBuffer, BehindEvents
  <2>2. CASE First' = First
    BY <2>2 DEF Beginning, Unbroken
  <2>3. CASE First = Pending /\ First' = {b}
    <3>1. CASE b \in Pending
      BY <2>3, <3>1 DEF Beginning, Unbroken
    <3>2. CASE b \notin Pending
      BY <2>3, <3>2 DEF Beginning
    <3> QED
      BY <3>1, <3>2
  <2> QED
    BY <2>1, <2>2, <2>3
<1> QED
  BY <1>7, <1>12, <1>13, <1>14

LEMMA SendKeeps ==
    ASSUME TypeOK, TypeOK', Unbroken, NEW t \in Thread, NEW n \in Size, Send(t, n),
           incidents' \subseteq {"Threw"}
    PROVE  Unbroken'
<1> DEFINE p == Len(size) + 1
<1>1. /\ size \in Sizes /\ size' \in Sizes /\ Len(size) \in Nat /\ Len(size') = p /\ size'[p] = n
      /\ \A q \in 1..Len(size) : size'[q] = size[q]
  <2>1. size \in Seq(Size) /\ size' = Append(size, n)
    BY DEF Send, TypeOK
  <2> QED
    BY <2>1, AppendProperties, LenProperties DEF Sizes
<1>2. n < Width /\ \A r \in Thread : sending[r] = Idle
  <2>1. (IF n >= Width THEN {"Large"} ELSE {}) \subseteq {"Threw"}
    BY DEF Send
  <2>2. (IF \E r \in Thread : sending[r] # Idle THEN {"Mixed"} ELSE {}) \subseteq {"Threw"}
    BY DEF Send
  <2>3. ~(n >= Width) /\ n \in Nat /\ Width \in Nat
    BY <2>1, StreamAssumption
  <2> QED
    BY <2>2, <2>3
<1>3. Pending = {}
  BY <1>2 DEF Pending
<1>4. p \in 1..Len(size') /\ 1 \in 1..Serialized(size'[p])
  BY <1>1, StreamAssumption DEF Serialized
<1>5. \A i \in 1..Len(received) : received[i] < p
  BY <1>1 DEF Unbroken, Increasing, Packet
<1>6. ASSUME NEW a, IsByte(size, a), Before(size, a, Pending)
      PROVE  Follows(size', a, <<p, 1>>, 1)
  <2>1. a[1] < p /\ a[2] = Serialized(size'[a[1]]) /\ Serialized(size'[a[1]]) \in Nat
    <3>1. a[1] \in 1..Len(size) /\ a[1] \in 1..Len(size')
      BY <1>1, <1>6 DEF IsByte
    <3> QED
      BY <1>1, <1>3, <1>6, <3>1, SizesOf DEF Before
  <2> QED
    BY <2>1 DEF Follows
<1>7. /\ SendPiece(t, p, size'[p], 1) /\ up /\ up' = up /\ UNCHANGED <<buffer, events, received>>
  BY <1>1 DEF Send, OnlySender
<1>8. /\ Segments' /\ Junctions' /\ Beginning'
      /\ \A r, v \in Thread : sending'[r] # Idle /\ sending'[v] # Idle => r = v
  <2>1. Len(size) <= Len(size')
    BY <1>1
  <2> QED
    BY <1>1, <1>2, <1>3, <1>4, <1>5, <1>6, <1>7, <2>1, PieceKeeps
<1>9. \A q \in 1..Len(size') : size'[q] < Width
  BY <1>1, <1>2 DEF Unbroken, Senders, Packet
<1>10. Increasing'
  <2>1. 1..Len(size) \subseteq 1..Len(size')
    BY <1>1
  <2> QED
    BY <1>7, <2>1 DEF Unbroken, Increasing, Packet
<1> QED
  BY <1>7, <1>8, <1>9, <1>10 DEF Unbroken, Senders, Packet

LEMMA SendMoreKeeps ==
    ASSUME TypeOK, TypeOK', Unbroken, NEW t \in Thread, SendMore(t)
    PROVE  Unbroken'
<1> DEFINE p == sending[t].packet
           next == sending[t].next
<1>1. /\ size \in Sizes /\ size' = size /\ sending[t] # Idle /\ p \in 1..Len(size)
      /\ next \in 1..Serialized(size[p]) /\ up /\ up' = up /\ UNCHANGED <<buffer, events, received>>
      /\ SendPiece(t, p, size[p], next)
  BY DEF TypeOK, SendMore, OnlySender, Packet, Sizes
<1>2. \A r \in Thread \ {t} : sending[r] = Idle
  BY <1>1 DEF Unbroken, Senders
<1>3. {r \in Thread : sending[r] # Idle} = {t}
  BY <1>1, <1>2
<1>4. Pending = {<<p, next>>}
  BY <1>3 DEF Pending
<1>5. \A a : Before(size, a, Pending) => Follows(size', a, <<p, next>>, 1)
  BY <1>1, <1>4 DEF Before
<1>6. /\ Segments' /\ Junctions' /\ Beginning'
      /\ \A r, v \in Thread : sending'[r] # Idle /\ sending'[v] # Idle => r = v
  <2>1. Len(size) <= Len(size') /\ \A q \in 1..Len(size) : size'[q] = size[q]
    BY <1>1, SizesOf
  <2> QED
    BY <1>1, <1>2, <1>4, <1>5, <2>1, PieceKeeps
<1> QED
  BY <1>1, <1>6 DEF Unbroken, Senders, Increasing, Packet

LEMMA SendThrowsKeeps ==
    ASSUME Unbroken, NEW t \in Thread, SendThrows(t)
    PROVE  FALSE
BY DEF Unbroken, Senders, SendThrows

LEMMA LinkLostKeeps ==
    ASSUME TypeOK, Unbroken, LinkLost, incidents' \subseteq {"Threw"}
    PROVE  Unbroken'
<1>1. /\ size \in Sizes /\ wire \in Seq(Byte) /\ buffer \in Seq(Byte) /\ events \in Seq(Seq(Byte))
      /\ UNCHANGED <<size, sending, events, buffer, received>>
  BY DEF TypeOK, Byte, Sizes, LinkLost, OnlyLink
<1>2. PICK n \in 0..Len(wire) :
         /\ wire' = SubSeq(wire, 1, n)
         /\ incidents' = incidents \cup
              IF (\A t \in Thread : sending[t] = Idle) /\ Whole(Latest(SubSeq(wire, 1, n)))
              THEN {} ELSE {"Cut"}
  BY DEF LinkLost
<1>3. /\ \A t \in Thread : sending[t] = Idle
      /\ Whole(Latest(wire'))
  BY <1>2
<1>4. Pending = {} /\ Pending' = {}
  BY <1>1, <1>3 DEF Pending
<1>5. /\ wire' \in Seq(Byte) /\ IsStream(size, wire') /\ Len(wire) \in Nat
      /\ wire' # <<>> => wire # <<>> /\ wire'[1] = wire[1]
  <2>1. Len(wire) \in Nat /\ n \in Nat /\ n <= Len(wire)
    BY <1>1, <1>2, LenProperties
  <2>2. wire' \in Seq(Byte) /\ IsStream(size, wire')
    BY <1>1, <1>2, <2>1, PartOfStream, PartIsStream DEF Unbroken, Segments
  <2>3. Len(wire') = n /\ \A i \in 1..n : wire'[i] = wire[i]
    BY <1>1, <1>2, <2>1
  <2>4. wire' # <<>> => n # 0
    BY <2>2, <2>3, EmptySeq
  <2>5. n # 0 => 1 \in 1..n /\ Len(wire) # 0
    BY <2>1
  <2> QED
    BY <2>1, <2>2, <2>3, <2>4, <2>5, EmptySeq
<1>6. Segments'
  BY <1>1, <1>5 DEF Unbroken, Segments
<1>7. \A s : Whole(s) /\ s # <<>> => Before(size, Last(s), {})
  BY DEF Whole, Before
<1>8. \A a : Before(size, a, BehindEvents) /\ (wire' = <<>> => a[2] = Serialized(size[a[1]]))
             => Before(size, a, BehindEvents')
  BY <1>4, <1>5 DEF Before, BehindEvents
<1>9. wire' = <<>> /\ events # <<>> => Last(Last(events))[2] = Serialized(size[Last(Last(events))[1]])
  <2>1. ASSUME events # <<>>
        PROVE  Last(events) # <<>>
    <3>1. Len(events) \in 1..Len(events)
      BY <1>1, <2>1, LenProperties, EmptySeq
    <3> QED
      BY <3>1 DEF Unbroken, Segments, Last
  <2> QED
    BY <1>3, <2>1 DEF Whole, Latest
<1>10. wire' = <<>> /\ events = <<>> /\ buffer # <<>> =>
          Last(buffer)[2] = Serialized(size[Last(buffer)[1]])
  BY <1>3 DEF Whole, Latest
<1>11. Junctions'
  <2>1. wire' # <<>> => Before(size, Last(wire'), {})
    BY <1>3, <1>7 DEF Latest
  <2>2. events # <<>> => Before(size, Last(Last(events)), BehindEvents')
    BY <1>8, <1>9 DEF Unbroken, Junctions
  <2>3. buffer # <<>> => Before(size, Last(buffer), BehindBuffer')
    <3>1. CASE events # <<>>
      BY <1>1, <3>1 DEF Unbroken, Junctions, BehindBuffer
    <3>2. CASE events = <<>>
      BY <1>1, <1>8, <1>10, <3>2 DEF Unbroken, Junctions, BehindBuffer
    <3> QED
      BY <3>1, <3>2
  <2> QED
    BY <1>1, <1>4, <2>1, <2>2, <2>3 DEF Unbroken, Junctions
<1>12. Beginning'
  <2>1. First' \subseteq First
    BY <1>1, <1>4, <1>5 DEF First, BehindBuffer, BehindEvents
  <2> QED
    BY <1>1, <2>1 DEF Unbroken, Beginning
<1> QED
  BY <1>1, <1>3, <1>6, <1>11, <1>12 DEF Unbroken, Senders, Increasing, Packet

LEMMA WorkerReadsKeeps ==
    ASSUME TypeOK, Unbroken, WorkerReads
    PROVE  Unbroken'
<1>1. /\ size \in Sizes /\ wire \in Seq(Byte) /\ buffer \in Seq(Byte) /\ events \in Seq(Seq(Byte))
      /\ UNCHANGED <<size, sending, up, buffer, received>> /\ wire # <<>>
  BY DEF TypeOK, Byte, Sizes, WorkerReads, OnlyReader
<1>2. PICK n \in 1..Slice : /\ n <= Len(wire) /\ events' = Append(events, SubSeq(wire, 1, n))
                            /\ wire' = SubSeq(wire, n + 1, Len(wire))
  BY DEF WorkerReads
<1> DEFINE s == SubSeq(wire, 1, n)
           m == Len(events)
<1>3. Len(wire) \in Nat /\ n \in Nat \ {0} /\ n <= Len(wire) /\ m \in Nat
  BY <1>1, <1>2, LenProperties, StreamAssumption
<1>4. /\ s \in Seq(Byte) /\ IsStream(size, s) /\ s # <<>> /\ s[1] = wire[1] /\ Last(s) = wire[n]
  <2>1. s \in Seq(Byte) /\ IsStream(size, s)
    BY <1>1, <1>3, PartOfStream, PartIsStream DEF Unbroken, Segments
  <2>2. Len(s) = n /\ \A i \in 1..n : s[i] = wire[i]
    BY <1>1, <1>3
  <2>3. s # <<>> /\ 1 \in 1..n /\ n \in 1..n
    BY <1>3, <2>1, <2>2, EmptySeq
  <2> QED
    BY <2>1, <2>2, <2>3 DEF Last
<1>5. /\ wire' \in Seq(Byte) /\ IsStream(size, wire')
      /\ IF n = Len(wire) THEN wire' = <<>>
         ELSE wire' # <<>> /\ wire'[1] = wire[n + 1] /\ Last(wire') = Last(wire)
  <2>1. wire' \in Seq(Byte) /\ IsStream(size, wire')
    BY <1>1, <1>2, <1>3, PartOfStream, PartIsStream DEF Unbroken, Segments
  <2>2. /\ Len(wire') = Len(wire) - n
        /\ \A i \in 1..(Len(wire) - n) : wire'[i] = wire[n + i]
    BY <1>1, <1>2, <1>3
  <2>3. n = Len(wire) => wire' = <<>>
    BY <1>3, <2>1, <2>2, EmptySeq
  <2>4. ASSUME n # Len(wire)
        PROVE  wire' # <<>> /\ wire'[1] = wire[n + 1] /\ Last(wire') = Last(wire)
    <3>1. 1 \in 1..(Len(wire) - n) /\ Len(wire') \in 1..(Len(wire) - n) /\ n + Len(wire') = Len(wire)
      BY <1>3, <2>2, <2>4
    <3>2. wire'[1] = wire[n + 1] /\ wire'[Len(wire')] = wire[Len(wire)]
      BY <2>2, <3>1
    <3>3. wire' # <<>>
      BY <3>1
    <3> QED
      BY <3>2, <3>3 DEF Last
  <2> QED
    BY <2>1, <2>3, <2>4
<1>6. /\ Len(events') = m + 1 /\ events'[m + 1] = s /\ events' # <<>> /\ Last(events') = s
      /\ \A i \in 1..m : events'[i] = events[i]
  <2>1. /\ Len(events') = m + 1 /\ events'[m + 1] = s /\ events' \in Seq(Seq(Byte))
        /\ \A i \in 1..m : events'[i] = events[i]
    BY <1>1, <1>2, <1>4, AppendProperties
  <2> QED
    BY <1>3, <2>1, EmptySeq DEF Last
<1>7. Segments'
  <2>1. \A i \in 1..(m + 1) : i \in 1..m \/ i = m + 1
    BY <1>3
  <2> QED
    BY <1>1, <1>4, <1>5, <1>6, <2>1 DEF Unbroken, Segments
<1>8. Pending' = Pending
  BY <1>1 DEF Pending
<1>9. Before(size, wire[n], BehindEvents')
  <2>1. CASE n = Len(wire)
    BY <1>1, <1>5, <1>8, <2>1 DEF Unbroken, Junctions, BehindEvents, Last
  <2>2. CASE n # Len(wire)
    <3>1. n \in 1..Len(wire) /\ n + 1 \in 1..Len(wire) /\ n < n + 1 /\ (n + 1) - n = 1
      BY <1>3, <2>2
    <3>2. Follows(size, wire[n], wire[n + 1], 1)
      BY <3>1 DEF Unbroken, Segments, IsStream
    <3> QED
      BY <1>5, <2>2, <3>2 DEF BehindEvents, Before
  <2> QED
    BY <2>1, <2>2
<1>10. BehindBuffer' = BehindBuffer
  <2>1. CASE events = <<>>
    <3>1. m + 1 = 1
      BY <2>1
    <3> QED
      BY <1>1, <1>4, <1>6, <2>1, <3>1 DEF BehindBuffer, BehindEvents
  <2>2. CASE events # <<>>
    <3>1. 1 \in 1..m
      BY <1>1, <1>3, <2>2, EmptySeq
    <3> QED
      BY <1>6, <2>2, <3>1 DEF BehindBuffer
  <2> QED
    BY <2>1, <2>2
<1>11. Junctions'
  <2>1. ASSUME NEW i \in 1..(Len(events') - 1)
        PROVE  Follows(size, Last(events'[i]), events'[i + 1][1], 1)
    <3>1. CASE i = m
      <4>1. events # <<>> /\ i \in 1..m
        BY <1>3, <1>6, <3>1, <2>1
      <4>2. Follows(size, Last(Last(events)), wire[1], 1)
        BY <1>1, <4>1 DEF Unbroken, Junctions, BehindEvents, Before
      <4> QED
        BY <1>4, <1>6, <3>1, <4>1, <4>2 DEF Last
    <3>2. CASE i # m
      <4>1. i \in 1..(m - 1) /\ i \in 1..m /\ i + 1 \in 1..m
        BY <1>3, <1>6, <2>1, <3>2
      <4> QED
        BY <1>6, <4>1 DEF Unbroken, Junctions
    <3> QED
      BY <3>1, <3>2
  <2>2. wire' # <<>> => Before(size, Last(wire'), Pending')
    BY <1>1, <1>5, <1>8 DEF Unbroken, Junctions
  <2>3. Before(size, Last(Last(events')), BehindEvents')
    BY <1>4, <1>6, <1>9
  <2>4. buffer # <<>> => Before(size, Last(buffer), BehindBuffer')
    BY <1>10 DEF Unbroken, Junctions
  <2> QED
    BY <1>1, <2>1, <2>2, <2>3, <2>4 DEF Junctions
<1>12. Beginning'
  BY <1>1, <1>10 DEF Unbroken, Beginning, First
<1> QED
  BY <1>1, <1>7, <1>11, <1>12 DEF Unbroken, Senders, Increasing, Packet

LEMMA OnDataReceivedKeeps ==
    ASSUME TypeOK, Unbroken, OnDataReceived
    PROVE  Unbroken'
<1>1. /\ size \in Sizes /\ buffer \in Seq(Byte) /\ events \in Seq(Seq(Byte)) /\ events # <<>>
      /\ UNCHANGED <<size, sending, up, wire, received>>
      /\ buffer' = buffer \o Head(events) /\ events' = Tail(events)
  BY DEF TypeOK, Byte, Sizes, OnDataReceived, OnlyReader
<1> DEFINE e == events[1]
           m == Len(events)
<1>2. /\ m \in Nat \ {0} /\ Head(events) = e /\ e \in Seq(Byte) /\ e # <<>> /\ IsStream(size, e)
      /\ Len(events') = m - 1 /\ \A i \in 1..(m - 1) : events'[i] = events[i + 1]
      /\ (m = 1 => events' = <<>>) /\ (m # 1 => events' # <<>>)
  <2>1. m \in Nat \ {0} /\ 1 \in 1..m
    BY <1>1, LenProperties, EmptySeq
  <2>2. /\ events' \in Seq(Seq(Byte)) /\ Len(events') = m - 1
        /\ \A i \in 1..(m - 1) : events'[i] = events[i + 1]
    BY <1>1, HeadTailProperties
  <2>3. (m = 1 => events' = <<>>) /\ (m # 1 => events' # <<>>)
    <3>1. m = 1 => Len(events') = 0
      BY <2>1, <2>2
    <3>2. m # 1 => Len(events') # 0
      BY <2>1, <2>2
    <3> QED
      BY <2>2, <3>1, <3>2, EmptySeq
  <2>4. e \in Seq(Byte) /\ e # <<>> /\ IsStream(size, e)
    BY <1>1, <2>1, ElementOfSeq DEF Unbroken, Segments
  <2>5. Head(events) = e
    BY <1>1
  <2> QED
    BY <2>1, <2>2, <2>3, <2>4, <2>5
<1>3. buffer # <<>> => Follows(size, Last(buffer), e[1], 1)
  BY <1>1 DEF Unbroken, Junctions, BehindBuffer, Before
<1>4. /\ buffer' \in Seq(Byte) /\ buffer' # <<>> /\ Last(buffer') = Last(e)
      /\ buffer'[1] = IF buffer # <<>> THEN buffer[1] ELSE e[1]
  <2>1. buffer' = buffer \o e
    BY <1>1, <1>2
  <2>2. buffer \in Seq(Byte) /\ e \in Seq(Byte) /\ e # <<>>
    BY <1>1, <1>2
  <2>3. /\ buffer \o e \in Seq(Byte) /\ buffer \o e # <<>> /\ Last(buffer \o e) = Last(e)
        /\ (buffer \o e)[1] = IF buffer # <<>> THEN buffer[1] ELSE e[1]
    BY <2>2, JoinedEnds
  <2> QED
    BY <2>1, <2>3
<1>5. Segments'
  <2>1. IsStream(size, buffer')
    BY <1>1, <1>2, <1>3, JoinedIsStream DEF Unbroken, Segments
  <2>2. \A i \in 1..(m - 1) : i + 1 \in 1..m
    BY <1>2
  <2> QED
    BY <1>1, <1>2, <2>1, <2>2 DEF Unbroken, Segments
<1>6. BehindEvents' = BehindEvents
  BY <1>1 DEF BehindEvents, Pending
<1>7. Before(size, Last(buffer'), BehindBuffer')
  <2>1. CASE m = 1
    <3>1. Last(events) = e /\ BehindBuffer' = BehindEvents
      BY <1>2, <1>6, <2>1 DEF BehindBuffer, Last
    <3> QED
      BY <1>1, <1>4, <3>1 DEF Unbroken, Junctions
  <2>2. CASE m # 1
    <3>1. 1 \in 1..(m - 1)
      BY <1>2, <2>2
    <3>2. BehindBuffer' = {events[2][1]} /\ Follows(size, Last(e), events[2][1], 1)
      BY <1>2, <2>2, <3>1 DEF Unbroken, Junctions, BehindBuffer
    <3> QED
      BY <1>4, <3>2 DEF Before
  <2> QED
    BY <2>1, <2>2
<1>8. Junctions'
  <2>1. events' # <<>> => Last(events') = Last(events)
    <3>1. m # 1 => m - 1 \in 1..(m - 1) /\ (m - 1) + 1 = m
      BY <1>2
    <3> QED
      BY <1>2, <3>1 DEF Last
  <2>2. ASSUME NEW i \in 1..(Len(events') - 1)
        PROVE  Follows(size, Last(events'[i]), events'[i + 1][1], 1)
    <3>1. i + 1 \in 1..(m - 1) /\ i \in 1..(m - 1)
      BY <1>2, <2>2
    <3> QED
      BY <1>2, <3>1 DEF Unbroken, Junctions
  <2>3. wire' # <<>> => Before(size, Last(wire'), Pending')
    BY <1>1 DEF Unbroken, Junctions, Pending
  <2> QED
    BY <1>1, <1>6, <1>7, <2>1, <2>2, <2>3 DEF Unbroken, Junctions
<1>9. Beginning'
  <2>1. First' = First
    BY <1>1, <1>4 DEF First, BehindBuffer
  <2> QED
    BY <1>1, <2>1 DEF Unbroken, Beginning
<1> QED
  BY <1>1, <1>5, <1>8, <1>9 DEF Unbroken, Senders, Increasing, Packet

\* What comes next after the buffer is a byte of a packet.
LEMMA BehindBufferBytes ==
    ASSUME TypeOK, Unbroken, NEW b \in BehindBuffer
    PROVE  IsByte(size, b)
<1>1. /\ size \in Sizes /\ wire \in Seq(Byte) /\ events \in Seq(Seq(Byte))
  BY DEF TypeOK, Byte, Sizes
<1>2. CASE events # <<>>
  <2>1. 1 \in 1..Len(events)
    BY <1>1, <1>2, LenProperties, EmptySeq
  <2>2. events[1] \in Seq(Byte) /\ IsStream(size, events[1]) /\ events[1] # <<>>
    BY <1>1, <2>1, ElementOfSeq DEF Unbroken, Segments
  <2> QED
    BY <1>1, <1>2, <2>2, LastByte DEF BehindBuffer
<1>3. CASE events = <<>> /\ wire # <<>>
  <2>1. IsByte(size, wire[1])
    BY <1>1, <1>3, LastByte DEF Unbroken, Segments
  <2> QED
    BY <1>3, <2>1 DEF BehindBuffer, BehindEvents
<1>4. CASE events = <<>> /\ wire = <<>>
  <2>1. PICK t \in Thread : sending[t] # Idle /\ b = <<sending[t].packet, sending[t].next>>
    BY <1>4 DEF BehindBuffer, BehindEvents, Pending
  <2> QED
    BY <2>1 DEF TypeOK, IsByte, Packet
<1> QED
  BY <1>2, <1>3, <1>4

\* What follows the last byte of a packet begins a later one.
LEMMA NextPacket ==
    ASSUME NEW z \in Sizes, NEW p \in 1..Len(z), NEW b, IsByte(z, b),
           Follows(z, <<p, Serialized(z[p])>>, b, 1)
    PROVE  b[2] = 1 /\ p < b[1]
<1>1. /\ b[1] \in Nat /\ b[2] \in Nat \ {0} /\ Serialized(z[b[1]]) \in Nat /\ b[2] <= Serialized(z[b[1]])
      /\ p \in Nat /\ Serialized(z[p]) \in Nat
  BY BytesOf, SizesOf
<1>2. CASE p = b[1] /\ b[2] = Serialized(z[p]) + 1
  BY <1>1, <1>2
<1>3. CASE p < b[1] /\ Serialized(z[p]) + 1 >= Serialized(z[p]) + b[2]
  BY <1>1, <1>3
<1> QED
  BY <1>2, <1>3 DEF Follows

LEMMA SmallModulo ==
    ASSUME NEW n \in Nat, NEW w \in Nat \ {0}, n < w
    PROVE  n % w = n
OBVIOUS

\* What the first two bytes of the buffer announce.
LEMMA AnnouncedSize ==
    TypeOK /\ Unbroken =>
        Announced = IF Len(buffer) < 2 THEN {} ELSE {size[buffer[1][1]]}
<1> SUFFICES ASSUME TypeOK, Unbroken, ~(Len(buffer) < 2)
             PROVE  Announced = {size[buffer[1][1]]}
  BY DEF Announced
<1> DEFINE q == buffer[1][1]
<1>1. size \in Sizes /\ buffer \in Seq(Byte) /\ IsStream(size, buffer) /\ Len(buffer) \in Nat
  BY LenProperties DEF TypeOK, Byte, Sizes, Unbroken, Segments
<1>2. buffer # <<>> /\ 1 \in 1..Len(buffer) /\ 2 \in 1..Len(buffer)
  BY <1>1, EmptySeq
<1>3. /\ buffer[1][2] = 1 /\ q \in 1..Len(size)
      /\ size[q] \in Nat \ {0} /\ Serialized(size[q]) = size[q] + 2
  <2>1. buffer[1] \in First
    BY <1>2 DEF First
  <2>2. q \in 1..Len(size)
    BY <1>1, <1>2 DEF IsStream, IsByte
  <2> QED
    BY <1>1, <2>1, <2>2, SizesOf DEF Unbroken, Beginning
<1>4. \A i \in 1..2 : buffer[i] = <<q, i>>
  <2>1. \A i \in 1..2 : i \in 1..Len(buffer) /\ i <= Serialized(size[q])
    BY <1>1, <1>3
  <2> QED
    BY <1>1, <1>2, <1>3, <2>1, PacketInStream
<1>5. SubSeq(buffer, 1, 2) = Bytes(q, 1, 2)
  <2>1. SubSeq(buffer, 1, 2) = [i \in 1..2 |-> buffer[i]]
    BY <1>1
  <2>2. Bytes(q, 1, 2) = [i \in 1..2 |-> <<q, i>>]
    BY DEF Bytes
  <2> QED
    BY <1>4, <2>1, <2>2
<1>6. size[q] < Width /\ Width \in Nat \ {0}
  BY <1>3, StreamAssumption DEF Unbroken, Senders, Packet
<1>7. size[q] % Width = size[q]
  BY <1>3, <1>6, SmallModulo
<1> QED
  BY <1>3, <1>5, <1>7 DEF Announced, Packet

LEMMA TakenKeeps ==
    ASSUME TypeOK, Unbroken, NEW n \in 0..(Width - 1), Takes(n),
           received' = Append(received, Taking(n)), buffer' = Remaining(n),
           UNCHANGED <<size, sending, up, wire, events>>
    PROVE  Unbroken'
<1> DEFINE q == buffer[1][1]
           l == Len(buffer)
           r == SubSeq(buffer, n + 3, l)
<1>1. size \in Sizes /\ buffer \in Seq(Byte) /\ IsStream(size, buffer) /\ l \in Nat /\ received \in Seq(Nat)
  BY LenProperties DEF TypeOK, Byte, Sizes, Unbroken, Segments
<1>2. l >= 2 /\ n = size[q] /\ l - 2 >= n
  BY <1>1, AnnouncedSize DEF Takes
<1>3. /\ buffer # <<>> /\ 1 \in 1..l /\ q \in 1..Len(size) /\ n \in Nat \ {0}
      /\ Serialized(size[q]) = n + 2 /\ buffer[1][2] = 1 /\ \A i \in 1..Len(received) : received[i] < q
  <2>1. buffer # <<>> /\ 1 \in 1..l
    BY <1>1, <1>2, EmptySeq
  <2>2. q \in 1..Len(size) /\ buffer[1] \in First
    BY <1>1, <2>1 DEF IsStream, IsByte, First
  <2> QED
    BY <1>1, <1>2, <2>1, <2>2, SizesOf DEF Unbroken, Beginning
<1>a. n \in Nat \ {0} /\ l \in Nat /\ n + 2 <= l
  BY <1>1, <1>2, <1>3
<1>4. \A i \in 1..(n + 2) : i \in 1..l /\ buffer[i] = <<q, i>>
  <2>1. \A i \in 1..(n + 2) : i \in 1..l /\ i <= Serialized(size[q])
    BY <1>1, <1>2, <1>3
  <2> QED
    BY <1>1, <1>3, <2>1, PacketInStream
<1>5. Taking(n) = q
  <2>1. SubSeq(buffer, 1, n + 2) = [i \in 1..(n + 2) |-> buffer[i]]
    BY <1>1, <1>2, <1>3
  <2>2. Bytes(q, 1, n + 2) = [i \in 1..(n + 2) |-> <<q, i>>]
    BY <1>3 DEF Bytes
  <2>3. SubSeq(buffer, 1, n + 2) = Bytes(q, 1, n + 2)
    BY <1>4, <2>1, <2>2
  <2> QED
    BY <1>2, <1>3, <2>3 DEF Taking, Packet
<1>6. /\ r \in Seq(Byte) /\ IsStream(size, r)
      /\ IF l = n + 2 THEN r = <<>>
         ELSE r # <<>> /\ r[1] = buffer[n + 3] /\ Last(r) = Last(buffer)
  <2>1. n + 3 \in Nat \ {0} /\ l - 2 \in Nat
    BY <1>a, <1>1
  <2>2. r \in Seq(Byte) /\ IsStream(size, r)
    BY <1>1, <2>1, PartOfStream, PartIsStream
  <2>3. Len(r) = l - (n + 2) /\ \A i \in 1..(l - (n + 2)) : r[i] = buffer[n + 2 + i]
    BY <1>a, <1>1
  <2>4. l = n + 2 => r = <<>>
    BY <1>1, <2>2, <2>3, EmptySeq
  <2>5. ASSUME l # n + 2
        PROVE  r # <<>> /\ r[1] = buffer[n + 3] /\ Last(r) = Last(buffer)
    <3>1. /\ 1 \in 1..(l - (n + 2)) /\ Len(r) \in 1..(l - (n + 2)) /\ n + 2 + Len(r) = l
          /\ n + 2 + 1 = n + 3
      <4>1. Len(r) = l - (n + 2)
        BY <2>3
      <4> HIDE DEF r, l
      <4> QED
        BY <1>a, <2>5, <4>1
    <3>2. r[1] = buffer[n + 3] /\ r[Len(r)] = buffer[l]
      BY <2>3, <3>1
    <3>3. r # <<>>
      BY <3>1
    <3> QED
      BY <3>2, <3>3 DEF Last
  <2> QED
    BY <2>2, <2>4, <2>5
<1>7. buffer' = r /\ BehindBuffer' = BehindBuffer
  BY DEF Remaining, BehindBuffer, BehindEvents, Pending
<1>8. ASSUME NEW b \in First'
      PROVE  b[2] = 1 /\ q < b[1]
  <2>1. CASE l = n + 2
    <3>1. b \in BehindBuffer /\ Last(buffer) = <<q, n + 2>>
      BY <1>3, <1>4, <1>6, <1>7, <1>8, <2>1 DEF First, Last
    <3>2. Follows(size, <<q, n + 2>>, b, 1)
      BY <1>3, <3>1 DEF Unbroken, Junctions, Before
    <3> QED
      BY <1>1, <1>3, <3>1, <3>2, BehindBufferBytes, NextPacket
  <2>2. CASE l # n + 2
    <3>1. b = buffer[n + 3]
      BY <1>6, <1>7, <1>8, <2>2 DEF First
    <3>2. n + 2 \in 1..l /\ n + 3 \in 1..l /\ n + 2 < n + 3 /\ (n + 3) - (n + 2) = 1 /\ n + 2 \in 1..(n + 2)
      BY <1>a, <2>2
    <3>3. IsByte(size, b) /\ Follows(size, <<q, n + 2>>, b, 1)
      BY <1>1, <1>4, <3>1, <3>2 DEF IsStream
    <3> QED
      BY <1>1, <1>3, <3>3, NextPacket
  <2> QED
    BY <2>1, <2>2
<1>9. /\ Len(received') = Len(received) + 1 /\ received'[Len(received) + 1] = q
      /\ \A i \in 1..Len(received) : received'[i] = received[i]
      /\ Len(received) \in Nat /\ q \in Nat
  <2>1. q \in Nat
    BY <1>1, <1>3, SizesOf
  <2> QED
    BY <1>1, <1>5, <2>1, AppendProperties, LenProperties
<1>10. Increasing'
  <2> SUFFICES ASSUME NEW i \in 1..Len(received')
               PROVE  received'[i] \in Packet /\ \A j \in 1..(i - 1) : received'[j] < received'[i]
    BY DEF Increasing, Packet
  <2>1. CASE i = Len(received) + 1
    <3>1. \A j \in 1..(i - 1) : j \in 1..Len(received)
      BY <1>9, <2>1
    <3> QED
      BY <1>3, <1>9, <2>1, <3>1 DEF Packet
  <2>2. CASE i # Len(received) + 1
    <3>1. i \in 1..Len(received) /\ \A j \in 1..(i - 1) : j \in 1..Len(received)
      BY <1>9, <2>2
    <3> QED
      BY <1>9, <3>1 DEF Unbroken, Increasing
  <2> QED
    BY <2>1, <2>2
<1>11. Beginning'
  <2>1. ASSUME NEW b \in First', NEW i \in 1..Len(received')
        PROVE  received'[i] < b[1]
    <3>1. b[1] \in Nat /\ q < b[1]
      <4>1. IsByte(size, b)
        <5>1. CASE l = n + 2
          BY <1>6, <1>7, <2>1, <5>1, BehindBufferBytes DEF First
        <5>2. CASE l # n + 2
          BY <1>1, <1>6, <1>7, <2>1, <5>2, LastByte DEF First
        <5> QED
          BY <5>1, <5>2
      <4> QED
        BY <1>1, <1>8, <4>1, BytesOf
    <3>2. received'[i] = q \/ (i \in 1..Len(received) /\ received'[i] = received[i])
      BY <1>9
    <3>3. i \in 1..Len(received) => received[i] \in Nat /\ received[i] < q
      BY <1>1, <1>3, ElementOfSeq
    <3> QED
      BY <1>9, <3>1, <3>2, <3>3
  <2> QED
    BY <1>8, <2>1 DEF Beginning
<1>12. Segments'
  BY <1>6, <1>7 DEF Unbroken, Segments
<1>13. Junctions'
  <2>1. BehindEvents' = BehindEvents /\ Pending' = Pending
    BY DEF BehindEvents, Pending
  <2>2. buffer' # <<>> => Before(size, Last(buffer'), BehindBuffer')
    BY <1>3, <1>6, <1>7 DEF Unbroken, Junctions
  <2> QED
    BY <2>1, <2>2 DEF Unbroken, Junctions
<1> QED
  BY <1>10, <1>11, <1>12, <1>13 DEF Unbroken, Senders, Packet

LEMMA UnbrokenStep ==
    ASSUME TypeOK, TypeOK', Unbroken, [Next]_vars, incidents' \subseteq {"Threw"}
    PROVE  Unbroken'
<1>1. ASSUME NEW t \in Thread, (\E n \in Size : Send(t, n)) \/ SendMore(t) \/ SendThrows(t)
      PROVE  Unbroken'
  BY <1>1, SendKeeps, SendMoreKeeps, SendThrowsKeeps
<1>2. CASE LinkLost
  BY <1>2, LinkLostKeeps
<1>3. CASE Reconnected
  <2>1. UNCHANGED <<size, sending, events, buffer, received, wire>> /\ up'
    BY <1>3 DEF Reconnected, OnlyLink
  <2> QED
    BY <2>1 DEF Unbroken, Segments, Junctions, Beginning, Senders, Increasing, First, BehindBuffer,
                BehindEvents, Pending, Packet
<1>4. CASE WorkerReads
  BY <1>4, WorkerReadsKeeps
<1>5. CASE OnDataReceived
  BY <1>5, OnDataReceivedKeeps
<1>6. CASE OnPacketReceived \/ OnPacketThrows
  BY <1>6, TakenKeeps DEF OnPacketReceived, OnPacketThrows, OnlyReader
<1>7. CASE MoreRequired \/ UNCHANGED vars
  <2>1. UNCHANGED <<size, sending, up, events, buffer, received, wire>>
    BY <1>7 DEF MoreRequired, OnlyReader, vars
  <2> QED
    BY <2>1 DEF Unbroken, Segments, Junctions, Beginning, Senders, Increasing, First, BehindBuffer,
                BehindEvents, Pending, Packet
<1> QED
  BY <1>1, <1>2, <1>3, <1>4, <1>5, <1>6, <1>7 DEF Next, EventThread

\* Incidents are never forgotten.
LEMMA IncidentsStay == [Next]_vars => incidents \subseteq incidents'
BY DEF Next, EventThread, Send, SendMore, SendThrows, LinkLost, Reconnected, WorkerReads, OnDataReceived,
       OnPacketReceived, OnPacketThrows, MoreRequired, OnlySender, OnlyLink, OnlyReader, vars

LEMMA NoneKeptStep ==
    ASSUME TypeOK, TypeOK', Unbroken, Unbroken', NoneKept, [Next]_vars, incidents = {}, incidents' = {}
    PROVE  NoneKept'
<1> DEFINE Announces == Announced = IF Len(buffer) < 2 THEN {} ELSE {size[buffer[1][1]]}
<1>1. Announces
  BY AnnouncedSize
<1>2. Announces'
  <2>1. (TypeOK /\ Unbroken)' => Announces'
    BY AnnouncedSize, PTL
  <2> QED
    BY <2>1
<1>3. /\ Len(buffer) \in Nat /\ Len(size) \in Nat
      /\ ~(Len(buffer) < 2) => buffer[1][1] \in Packet
  <2>1. /\ buffer \in Seq(Byte) /\ size \in Sizes
    BY DEF TypeOK, Byte, Sizes
  <2>2. Len(buffer) \in Nat /\ Len(size) \in Nat /\ (~(Len(buffer) < 2) => 1 \in 1..Len(buffer))
    BY <2>1, LenProperties DEF Sizes
  <2> QED
    BY <2>2 DEF Unbroken, Segments, IsStream, IsByte, Packet
<1>4. \A q \in Packet : size'[q] = size[q]
  <2>1. ASSUME NEW t \in Thread, NEW n \in Size, Send(t, n)
        PROVE  \A q \in Packet : size'[q] = size[q]
    BY <2>1, AppendProperties DEF Send, TypeOK, Packet
  <2>2. CASE ~(\E t \in Thread, n \in Size : Send(t, n))
    BY <2>2 DEF Next, EventThread, SendMore, SendThrows, LinkLost, Reconnected, WorkerReads,
                OnDataReceived, OnPacketReceived, OnPacketThrows, MoreRequired, OnlySender, OnlyLink,
                OnlyReader, vars
  <2> QED
    BY <2>1, <2>2
<1>5. CASE handling'
  BY <1>5 DEF NoneKept
<1>6. CASE buffer' = buffer /\ handling' = handling
  <2>1. Announced' = Announced
    BY <1>1, <1>2, <1>3, <1>4, <1>6
  <2> QED
    BY <1>6, <2>1 DEF NoneKept, Takes
<1>7. CASE MoreRequired
  <2>1. buffer' = buffer /\ Announced' = Announced
    BY <1>1, <1>2, <1>3, <1>4, <1>7 DEF MoreRequired
  <2>2. ASSUME NEW n \in 0..(Width - 1), Takes(n)
        PROVE  FALSE
    <3>1. Announced = {n} /\ Len(buffer) - 2 >= n /\ n \in Nat
      BY <1>1, <2>2, StreamAssumption DEF Takes
    <3>2. Len(buffer) - 2 < n
      BY <1>7, <3>1 DEF MoreRequired
    <3> QED
      BY <1>3, <3>1, <3>2
  <2> QED
    BY <2>1, <2>2 DEF NoneKept, Takes
<1>8. handling' \/ (buffer' = buffer /\ handling' = handling) \/ MoreRequired
  <2>1. CASE EventThread
    <3>1. ~OnPacketThrows
      BY DEF OnPacketThrows
    <3> QED
      BY <2>1, <3>1 DEF EventThread, OnDataReceived, OnPacketReceived
  <2>2. CASE ~EventThread
    BY <2>2 DEF Next, Send, SendMore, SendThrows, LinkLost, Reconnected, WorkerReads, OnlySender,
                OnlyLink, OnlyReader, vars
  <2> QED
    BY <2>1, <2>2
<1> QED
  BY <1>5, <1>6, <1>7, <1>8

LEMMA Invariant == Spec => []Inv
<1>1. Init => Inv
  <2> SUFFICES ASSUME Init
               PROVE  Inv
    OBVIOUS
  <2>1. /\ size = <<>> /\ wire = <<>> /\ events = <<>> /\ buffer = <<>> /\ received = <<>>
        /\ \A t \in Thread : sending[t] = Idle
    BY DEF Init
  <2>2. Pending = {} /\ First = {}
    BY <2>1 DEF Pending, First, BehindBuffer, BehindEvents
  <2>3. Unbroken
    BY <2>1, <2>2 DEF Init, Unbroken, Segments, Junctions, Beginning, Senders, Increasing, IsStream, Packet
  <2>4. NoneKept
    BY <2>1 DEF NoneKept, Takes, Announced
  <2> QED
    BY <2>3, <2>4, TypeInit DEF Inv
<1>2. Inv /\ [Next]_vars => Inv'
  <2> SUFFICES ASSUME Inv, [Next]_vars
               PROVE  Inv'
    OBVIOUS
  <2>1. TypeOK'
    BY TypeStep DEF Inv
  <2>2. incidents' \subseteq {"Threw"} => Unbroken'
    BY <2>1, IncidentsStay, UnbrokenStep DEF Inv
  <2>3. NoneKept'
    <3>1. CASE incidents' = {}
      BY <2>1, <2>2, <3>1, IncidentsStay, NoneKeptStep DEF Inv
    <3>2. CASE incidents' # {}
      BY <3>2 DEF NoneKept
    <3> QED
      BY <3>1, <3>2
  <2> QED
    BY <2>1, <2>2, <2>3 DEF Inv
<1> QED
  BY <1>1, <1>2, PTL DEF Spec

\* Every variable always holds values of its type: in particular Send, which may go on after
\* others have sent, never reads beyond its packet.
THEOREM TypeCorrect == Spec => []TypeOK
<1>1. Inv => TypeOK
  BY DEF Inv
<1> QED
  BY <1>1, Invariant, PTL

\* Whatever the sizes, pieces and slices, packets come out as they were sent, in order and
\* once each (serializer.h:8), also over connections that are lost between two packets.
THEOREM PacketsInOrder == Spec => []InOrder
<1>1. Inv => InOrder
  <2> SUFFICES ASSUME Inv, incidents \subseteq {"Threw"}, NEW i \in 1..Len(received)
               PROVE  received[i] # 0 /\ \A j \in 1..(i - 1) : received[j] < received[i]
    BY DEF InOrder
  <2>1. received[i] \in 1..Len(size) /\ \A j \in 1..(i - 1) : received[j] < received[i]
    BY DEF Inv, Unbroken, Increasing, Packet
  <2> QED
    BY <2>1
<1> QED
  BY <1>1, Invariant, PTL

\* Deserialize returns false only when the next packet has not yet arrived as a whole
\* (serializer.h:10): what OnDataReceived leaves in the buffer is not a packet.
THEOREM NoPacketKept == Spec => []NoneKept
<1>1. Inv => NoneKept
  BY DEF Inv
<1> QED
  BY <1>1, Invariant, PTL
=============================================================================
