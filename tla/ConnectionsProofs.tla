-------------------------- MODULE ConnectionsProofs --------------------------
(***************************************************************************)
(* That the registries of the server agree, that a handshake goes through  *)
(* its steps in order, and that nothing is used after it was deleted while *)
(* all clients stay, nor by the loop that deletes while all but one do:    *)
(* for any number of clients, and any interleaving of the three kinds of   *)
(* threads.  And what becomes of a packet that goes through several        *)
(* connections, for any number of them.                                    *)
(***************************************************************************)
EXTENDS Connections, SharedPackets, FiniteSetTheorems, SequenceTheorems, WellFoundedInduction, TLAPS

(***************************************************************************)
(* Registries and handshakes.                                              *)
(***************************************************************************)

SecretOf(c) == [from |-> c, what |-> "secret"]
PacketOf(c) == [from |-> c, what |-> "packet"]

\* The slots in use hold the connections that are alive, each in one of them; what is
\* left in the others was a connection once, and so is the one being accepted.
VectorInv ==
  /\ \A i \in 1 .. size : Live(slots[i])
  /\ \A i, j \in 1 .. size : slots[i] = slots[j] => i = j
  /\ \A c \in Client : Live(c) => \E i \in 1 .. size : slots[i] = c
  /\ \A i \in 1 .. Len(slots) : handshake[slots[i]] # "none"
  /\ accepting # Absent => handshake[accepting] # "none"

\* An entry of a client is of its own connection; nullptr is what a deletion has left.
MapsInv ==
  \A c \in Client :
    /\ secretToConnection[c] \in {c, Absent, Null}
    /\ secretToConnection[c] = c => handshake[c] # "none"
    /\ Null \in {secretToConnection[c], udpAddressToConnection[c]} => handshake[c] = "deleted"
    /\ udpAddressToConnection[c] = Absent => joined[c] = 0

\* Whoever was let in has sent its secret.
JoinInv ==
  \A c \in Client :
    /\ Ready(c) \/ c \in joining \/ c \in updates => SecretOf(c) \in udp
    /\ c \in joining => handshake[c] # "none"
    /\ SecretOf(c) \in udp \/ PacketOf(c) \in udp => secret[c] = "known"

\* Only clients of the server's build are told a secret, and only others of an error.
StreamInv ==
  \A c \in Client :
    /\ c \in Matching => \A i \in 1 .. Len(toClient[c]) : toClient[c][i] # "error"
    /\ c \notin Matching => secret[c] # "known" /\ \A i \in 1 .. Len(toClient[c]) : toClient[c][i] # "secret"
    /\ secret[c] = "garbage" => c \notin Matching
    /\ socket[c] = "closed" => handshake[c] = "none"
    /\ handshake[c] = "deleted" => c \notin Matching \/ socket[c] = "gone"

\* The walk of receive() has its end within the vector until something is deleted, and
\* if at most one client is lost, what it has yet to visit is alive.
LoopInv ==
  /\ walk # "none" => at # 0
  /\ walk = "receive" =>
       /\ (\A c \in Client : handshake[c] # "deleted") => last <= size
       /\ \A c \in Client : Lost \subseteq {c} => \A k \in at .. last : Live(slots[k])

\* What a deleted connection has been used for so far.
CrashNeedsLoss ==
  /\ crash \in UsesOfDeleted => Lost # {}
  /\ crash = "deleted connection visited" => \A c \in Client : Lost # {c}

IInv ==
  /\ TypeOK /\ VectorInv /\ MapsInv /\ AddressesReady /\ JoinsOnce
  /\ JoinInv /\ StreamInv /\ LoopInv /\ CrashNeedsLoss

-----------------------------------------------------------------------------
(* The vector. *)

\* Counting the slots of a connection is the same as finding one, and only one.
LEMMA Counted == TypeOK /\ VectorInv => VectorExact
<1> SUFFICES ASSUME TypeOK, VectorInv, NEW c \in Client
             PROVE  Cardinality({i \in 1 .. size : slots[i] = c}) = IF Live(c) THEN 1 ELSE 0
  BY DEF VectorExact
<1> DEFINE S == {i \in 1 .. size : slots[i] = c}
<1>1. CASE Live(c)
  <2>1. PICK i \in 1 .. size : slots[i] = c
    BY <1>1 DEF VectorInv
  <2>2. S = {i}
    BY <2>1 DEF VectorInv
  <2>3. Cardinality(S) = 1
    BY <2>2, FS_Singleton
  <2>4. QED
    BY <1>1, <2>3
<1>2. CASE ~Live(c)
  <2>1. S = {}
    BY <1>2 DEF VectorInv
  <2>2. Cardinality(S) = 0
    BY <2>1, FS_EmptySet
  <2>3. QED
    BY <1>2, <2>2
<1>3. QED
  BY <1>1, <1>2

\* The ranges of the vector and of its size.
LEMMA SlotTypes ==
  TypeOK => slots \in Seq(Client) /\ Len(slots) \in Nat /\ size \in Nat /\ size <= Len(slots)
<1> SUFFICES ASSUME TypeOK
             PROVE  slots \in Seq(Client) /\ Len(slots) \in Nat /\ size \in Nat /\ size <= Len(slots)
  OBVIOUS
<1>1. slots \in Seq(Client) /\ size \in 0 .. Len(slots)
  BY DEF TypeOK
<1>2. QED
  BY <1>1

\* A push_back puts the new connection behind the ones in use, over whatever was left there.
LEMMA Pushed ==
  ASSUME TypeOK, VectorInv, NEW c \in Client, AcceptPushes(c)
  PROVE  /\ slots' \in Seq(Client) /\ size' = size + 1 /\ size' <= Len(slots')
         /\ Len(slots) <= Len(slots')
         /\ slots'[size'] = c
         /\ \A i \in 1 .. size : slots'[i] = slots[i]
         /\ \A i \in 1 .. Len(slots') : slots'[i] = c \/ (i \in 1 .. Len(slots) /\ slots'[i] = slots[i])
<1> DEFINE front == SubSeq(slots, 1, size)
           back == SubSeq(slots, size + 2, Len(slots))
<1>1. slots \in Seq(Client) /\ Len(slots) \in Nat /\ size \in Nat /\ size <= Len(slots)
  BY SlotTypes
<1>2. /\ front \in Seq(Client) /\ Len(front) = size
      /\ \A i \in 1 .. size : front[i] = slots[i]
  BY <1>1
<1>3. /\ back \in Seq(Client)
      /\ Len(back) = IF size + 2 <= Len(slots) THEN Len(slots) - size - 1 ELSE 0
      /\ \A i \in 1 .. Len(back) : back[i] = slots[i + size + 1]
  BY <1>1
<1>4. slots' = front \o <<c>> \o back /\ size' = size + 1
  BY DEF AcceptPushes
<1> HIDE DEF front, back
<1>5. /\ slots' \in Seq(Client) /\ Len(slots') = size + 1 + Len(back)
      /\ \A i \in 1 .. Len(slots') : slots'[i] =
           IF i <= size THEN front[i] ELSE IF i = size + 1 THEN c ELSE back[i - (size + 1)]
  <2> DEFINE some == front \o <<c>>
  <2>1. <<c>> \in Seq(Client) /\ Len(<<c>>) = 1 /\ <<c>>[1] = c
    OBVIOUS
  <2>2. /\ some \in Seq(Client) /\ Len(some) = size + 1
        /\ \A i \in 1 .. size + 1 : some[i] = IF i <= size THEN front[i] ELSE c
    BY <1>1, <1>2, <2>1
  <2>3. slots' = some \o back
    BY <1>4
  <2> HIDE DEF some
  <2>4. Len(back) \in Nat
    BY <1>3
  <2>5. /\ slots' \in Seq(Client) /\ Len(slots') = Len(some) + Len(back)
        /\ \A i \in 1 .. Len(some) + Len(back) :
             slots'[i] = IF i <= Len(some) THEN some[i] ELSE back[i - Len(some)]
    BY <1>3, <2>2, <2>3, ConcatProperties
  <2>6. QED
    BY <1>1, <2>2, <2>4, <2>5
<1>6. \A i \in 1 .. Len(slots') : slots'[i] = c \/ (i \in 1 .. Len(slots) /\ slots'[i] = slots[i])
  <2> SUFFICES ASSUME NEW i \in 1 .. Len(slots')
               PROVE  slots'[i] = c \/ (i \in 1 .. Len(slots) /\ slots'[i] = slots[i])
    OBVIOUS
  <2>1. CASE i <= size
    BY <1>1, <1>2, <1>5, <2>1
  <2>2. CASE i > size + 1
    <3>1. Len(back) \in Nat /\ Len(slots') = size + 1 + Len(back)
      BY <1>1, <1>3, <1>5
    <3>2. PICK m \in Int : m = i - (size + 1)
      BY <1>1
    <3>3. m \in 1 .. Len(back) /\ m + size + 1 = i
      BY <1>1, <2>2, <3>1, <3>2
    <3>4. i \in 1 .. Len(slots)
      BY <1>1, <1>3, <3>3
    <3>5. slots'[i] = back[m]
      BY <1>1, <1>5, <2>2, <3>2
    <3>6. back[m] = slots[m + size + 1]
      BY <1>3, <3>3
    <3>7. QED
      BY <3>3, <3>4, <3>5, <3>6
  <2>3. QED
    BY <1>1, <1>5, <2>1, <2>2
<1>7. QED
  BY <1>1, <1>2, <1>3, <1>4, <1>5, <1>6

\* erase() takes a connection that is alive out of the slots in use.
LEMMA Erased ==
  ASSUME TypeOK, VectorInv, NEW c \in Client, Live(c), removeConnection(c)
  PROVE  \E k \in 1 .. size :
           /\ slots[k] = c /\ size' = size - 1
           /\ slots' \in Seq(Client) /\ Len(slots') = Len(slots)
           /\ \A i \in 1 .. Len(slots) :
                slots'[i] = IF k <= i /\ i < size THEN slots[i + 1] ELSE slots[i]
<1> DEFINE k == CHOOSE j \in 1 .. size : slots[j] = c
<1>1. k \in 1 .. size /\ slots[k] = c
  BY DEF VectorInv
<1>2. slots \in Seq(Client) /\ Len(slots) \in Nat /\ size \in Nat /\ size <= Len(slots)
  BY SlotTypes
<1>3. slots' = [i \in 1 .. Len(slots) |-> IF k <= i /\ i < size THEN slots[i + 1] ELSE slots[i]]
  <2>1. DOMAIN slots = 1 .. Len(slots)
    BY <1>2
  <2>2. QED
    BY <2>1 DEF removeConnection
<1> HIDE DEF k
<1>4. \A i \in 1 .. Len(slots) : (IF k <= i /\ i < size THEN slots[i + 1] ELSE slots[i]) \in Client
  BY <1>1, <1>2
<1>5. slots' \in Seq(Client) /\ Len(slots') = Len(slots)
  BY <1>2, <1>3, <1>4
<1>6. size' = size - 1
  BY DEF removeConnection
<1>7. QED
  BY <1>1, <1>3, <1>5, <1>6

-----------------------------------------------------------------------------
(* What the steps do, where a proof would have to look twice. *)

\* A walk is at a slot, and a visit of receive() is of something that was a connection once.
LEMMA Visited ==
  ASSUME IInv, walk # "none"
  PROVE  /\ at \in 1 .. last /\ last \in 1 .. Len(slots) /\ Len(slots) \in Nat
         /\ slots[at] \in Client /\ handshake[slots[at]] # "none"
         /\ Visit => \/ Live(slots[at]) /\ crash' \in {"none", "map moved"}
                     \/ /\ ~Live(slots[at]) /\ crash' = "deleted connection visited"
                        /\ UNCHANGED <<toServer, toClient, registries>>
<1>1. at \in 0 .. last /\ last \in 0 .. Len(slots) /\ at # 0 /\ Len(slots) \in Nat
  BY SlotTypes DEF IInv, TypeOK, LoopInv
<1>2. at \in 1 .. last /\ last \in 1 .. Len(slots) /\ at \in 1 .. Len(slots)
  BY <1>1
<1>3. slots[at] \in Client /\ handshake[slots[at]] # "none"
  BY <1>2, SlotTypes DEF IInv, VectorInv
<1>4. ASSUME Visit, Live(slots[at])
      PROVE  crash' \in {"none", "map moved"}
  <2>1. PICK c : c = slots[at] /\ (NothingToRead(c) \/ Checksum(c) \/ EndOfStream(c))
    BY <1>4 DEF Visit
  <2>2. crash' = crash \/ crash' \in MapUsed
    BY <2>1 DEF NothingToRead, Checksum, EndOfStream, Delete
  <2>3. QED
    BY <1>4, <2>2 DEF Visit, Up, MapUsed
<1>5. QED
  BY <1>1, <1>2, <1>3, <1>4 DEF Visit

\* Where a walk goes, it stays within the slots.
LEMMA WalkTypes ==
  ASSUME IInv, walk # "none", GoesOn \/ WalkEnds \/ StartsWalk("tick", size'),
         Len(slots') = Len(slots), size' \in 0 .. Len(slots)
  PROVE  /\ walk' \in {"none", "receive", "tick"}
         /\ at' \in 0 .. last' /\ last' \in 0 .. Len(slots')
         /\ walk' # "none" => at' # 0
         /\ walk' = "receive" => walk = "receive" /\ at' = at + 1 /\ last' = last /\ at < last
<1>1. at \in 1 .. last /\ last \in 1 .. Len(slots) /\ Len(slots) \in Nat
  BY Visited
<1>2. walk \in {"none", "receive", "tick"}
  BY DEF IInv, TypeOK
<1>3. CASE GoesOn
  BY <1>1, <1>2, <1>3 DEF GoesOn
<1>4. CASE WalkEnds
  BY <1>1, <1>4 DEF WalkEnds
<1>5. CASE StartsWalk("tick", size')
  BY <1>1, <1>5 DEF StartsWalk
<1>6. QED
  BY <1>3, <1>4, <1>5

\* A deletion, of whatever step: what it leaves of the registries.
LEMMA Deleted ==
  ASSUME TypeOK, VectorInv, NEW c \in Client, Live(c), Delete(c), accepting' = accepting
  PROVE  /\ slots' \in Seq(Client) /\ Len(slots') = Len(slots) /\ size' \in 0 .. Len(slots')
         /\ handshake' = [handshake EXCEPT ![c] = "deleted"]
         /\ secretToConnection' = [secretToConnection EXCEPT ![c] = Null]
         /\ udpAddressToConnection' =
              IF Ready(c) THEN [udpAddressToConnection EXCEPT ![c] = Null] ELSE udpAddressToConnection
         /\ VectorInv'
<1>1. /\ slots \in Seq(Client) /\ Len(slots) \in Nat /\ size \in Nat /\ size <= Len(slots)
      /\ accepting \in Client \cup {Absent}
  BY SlotTypes DEF TypeOK
<1>2. PICK k \in 1 .. size :
        /\ slots[k] = c /\ size' = size - 1
        /\ slots' \in Seq(Client) /\ Len(slots') = Len(slots)
        /\ \A i \in 1 .. Len(slots) :
             slots'[i] = IF k <= i /\ i < size THEN slots[i + 1] ELSE slots[i]
  BY Erased DEF Delete
<1>3. /\ handshake' = [handshake EXCEPT ![c] = "deleted"]
      /\ secretToConnection' = [secretToConnection EXCEPT ![c] = Null]
      /\ udpAddressToConnection' =
           IF Ready(c) THEN [udpAddressToConnection EXCEPT ![c] = Null] ELSE udpAddressToConnection
  BY DEF Delete, removeConnection
<1>4. \A d \in Client : handshake'[d] = IF d = c THEN "deleted" ELSE handshake[d]
  BY <1>3 DEF TypeOK
<1>5. \A i \in 1 .. size' : \E j \in 1 .. size :
        slots'[i] = slots[j] /\ j # k /\ j = IF k <= i THEN i + 1 ELSE i
  BY <1>1, <1>2
<1>6. \A j \in 1 .. size : j # k => \E i \in 1 .. size' : slots'[i] = slots[j]
  <2> SUFFICES ASSUME NEW j \in 1 .. size, j # k
               PROVE  \E i \in 1 .. size' : slots'[i] = slots[j]
    OBVIOUS
  <2>1. CASE j < k
    BY <1>1, <1>2, <2>1
  <2>2. CASE j > k
    <3>1. PICK i \in Nat : j = i + 1
      BY <1>1
    <3>2. i \in 1 .. size' /\ i \in 1 .. Len(slots) /\ k <= i /\ i < size
      BY <1>1, <1>2, <2>2, <3>1
    <3>3. QED
      BY <1>2, <3>1, <3>2
  <2>3. QED
    BY <1>1, <2>1, <2>2
<1>7. \A i \in 1 .. size' : handshake'[slots'[i]] \notin {"none", "deleted"}
  <2> SUFFICES ASSUME NEW i \in 1 .. size'
               PROVE  handshake'[slots'[i]] \notin {"none", "deleted"}
    OBVIOUS
  <2>1. PICK j \in 1 .. size : slots'[i] = slots[j] /\ j # k
    BY <1>5
  <2>2. slots[j] \in Client /\ slots[j] # c /\ Live(slots[j])
    BY <1>1, <1>2, <2>1 DEF VectorInv
  <2>3. QED
    BY <1>4, <2>1, <2>2 DEF Live
<1>8. \A i, j \in 1 .. size' : slots'[i] = slots'[j] => i = j
  <2> SUFFICES ASSUME NEW i \in 1 .. size', NEW j \in 1 .. size', slots'[i] = slots'[j]
               PROVE  i = j
    OBVIOUS
  <2>1. PICK m \in 1 .. size : slots'[i] = slots[m] /\ m = IF k <= i THEN i + 1 ELSE i
    BY <1>5
  <2>2. PICK n \in 1 .. size : slots'[j] = slots[n] /\ n = IF k <= j THEN j + 1 ELSE j
    BY <1>5
  <2>3. m = n
    BY <2>1, <2>2 DEF VectorInv
  <2>4. QED
    BY <1>1, <1>2, <2>1, <2>2, <2>3
<1>9. \A d \in Client : Live(d)' => \E i \in 1 .. size' : slots'[i] = d
  <2> SUFFICES ASSUME NEW d \in Client, Live(d)'
               PROVE  \E i \in 1 .. size' : slots'[i] = d
    OBVIOUS
  <2>1. d # c /\ Live(d)
    BY <1>4 DEF Live
  <2>2. PICK j \in 1 .. size : slots[j] = d
    BY <2>1 DEF VectorInv
  <2>3. QED
    BY <1>2, <1>6, <2>1, <2>2
<1>10. \A i \in 1 .. Len(slots') : handshake'[slots'[i]] # "none"
  <2> SUFFICES ASSUME NEW i \in 1 .. Len(slots')
               PROVE  handshake'[slots'[i]] # "none"
    OBVIOUS
  <2>1. PICK j \in 1 .. Len(slots) : slots'[i] = slots[j]
    BY <1>1, <1>2
  <2>2. slots[j] \in Client /\ handshake[slots[j]] # "none"
    BY <1>1, <2>1 DEF VectorInv
  <2>3. QED
    BY <1>4, <2>1, <2>2
<1>11. accepting' # Absent => handshake'[accepting'] # "none"
  BY <1>1, <1>4 DEF VectorInv
<1>12. VectorInv'
  BY <1>7, <1>8, <1>9, <1>10, <1>11 DEF VectorInv, Live
<1>13. size' \in 0 .. Len(slots')
  BY <1>1, <1>2
<1>14. QED
  BY <1>2, <1>3, <1>12, <1>13

-----------------------------------------------------------------------------
(* The parts of the invariant, step by step. *)

\* No connection is there at first.
LEMMA InitIInv == Init => IInv
<1> SUFFICES ASSUME Init PROVE IInv
  OBVIOUS
<1>1. TypeOK
  BY DEF Init, TypeOK, UsesOfDeleted
<1>2. VectorInv /\ MapsInv
  BY ConnectionAssumption DEF Init, VectorInv, MapsInv, Live
<1>3. AddressesReady /\ JoinsOnce
  BY ConnectionAssumption DEF Init, AddressesReady, JoinsOnce, Ready
<1>4. JoinInv /\ StreamInv /\ LoopInv /\ CrashNeedsLoss
  BY DEF Init, JoinInv, StreamInv, LoopInv, CrashNeedsLoss, UsesOfDeleted, Ready, SecretOf, PacketOf
<1>5. QED
  BY <1>1, <1>2, <1>3, <1>4 DEF IInv

\* The types of the client's side and the network, of the vector, and of the rest.
NetTypes ==
  /\ socket \in [Client -> {"closed", "open", "gone"}]
  /\ secret \in [Client -> {"none", "known", "garbage"}]
  /\ initialized \in [Client -> BOOLEAN]
  /\ toServer \in [Client -> {"nothing", "checksum"}]
  /\ toClient \in [Client -> Seq({"secret", "error", "joined"})]
  /\ udp \subseteq Datagram
  /\ updates \subseteq Client

VectorTypes ==
  /\ accepting \in Client \cup {Absent}
  /\ slots \in Seq(Client)
  /\ size \in 0 .. Len(slots)
  /\ walk \in {"none", "receive", "tick"}
  /\ at \in 0 .. last /\ last \in 0 .. Len(slots)

ServerTypes ==
  /\ handshake \in [Client -> {"none", "WAIT_FOR_CHECKSUM", "WAIT_FOR_SECRET",
                               "PACKET_READY", "deleted"}]
  /\ secretToConnection \in [Client -> Client \cup {Absent, Null}]
  /\ udpAddressToConnection \in [Client -> Client \cup {Absent, Null}]
  /\ joining \subseteq Client
  /\ joined \in [Client -> Nat]
  /\ crash \in {"none", "vector moved", "map moved", "connection shared"} \cup UsesOfDeleted

\* All of them hold after a step if each of these parts does.
LEMMA PartsNext == NetTypes' /\ VectorTypes' /\ ServerTypes' => TypeOK'
BY DEF TypeOK, NetTypes, VectorTypes, ServerTypes

\* What TCP delivers and what the server appends to it are messages.
LEMMA TypeStep ==
  ASSUME IInv, [Next]_vars
  PROVE  TypeOK'
<1> NetTypes /\ VectorTypes /\ ServerTypes
  BY DEF IInv, TypeOK, NetTypes, VectorTypes, ServerTypes
<1> USE DEF loop, registries, client
<1>1. ASSUME NEW c \in Client, Open(c) \/ Leave(c) \/ ClientReceivesTCP(c) \/ ClientReceivesUDP(c)
      PROVE  TypeOK'
  <2>1. VectorTypes' /\ ServerTypes'
    BY <1>1 DEF Open, Leave, ClientReceivesTCP, ClientReceivesUDP, VectorTypes, ServerTypes
  <2>2. CASE Open(c) \/ Leave(c)
    BY <2>1, <2>2, PartsNext DEF Open, Leave, NetTypes
  <2>3. CASE ClientReceivesTCP(c)
    <3>1. toClient[c] \in Seq({"secret", "error", "joined"}) /\ toClient[c] # <<>>
      BY <2>3 DEF ClientReceivesTCP, NetTypes
    <3>2. Tail(toClient[c]) \in Seq({"secret", "error", "joined"})
      BY <3>1
    <3>3. toClient' \in [Client -> Seq({"secret", "error", "joined"})]
      BY <2>3, <3>2 DEF ClientReceivesTCP, NetTypes
    <3>4. udp' \subseteq Datagram
      BY <2>3 DEF ClientReceivesTCP, NetTypes, Datagram
    <3>5. NetTypes'
      BY <2>3, <3>3, <3>4 DEF ClientReceivesTCP, NetTypes
    <3>6. QED
      BY <2>1, <3>5, PartsNext
  <2>4. CASE ClientReceivesUDP(c)
    <3>1. udp' \subseteq Datagram
      BY <2>4 DEF ClientReceivesUDP, NetTypes, Datagram
    <3>2. NetTypes'
      BY <2>4, <3>1 DEF ClientReceivesUDP, NetTypes
    <3>3. QED
      BY <2>1, <3>2, PartsNext
  <2>5. QED
    BY <1>1, <2>2, <2>3, <2>4
<1>2. ASSUME NEW c \in Client, AcceptPushes(c)
      PROVE  TypeOK'
  <2>1. NetTypes' /\ ServerTypes'
    BY <1>2 DEF AcceptPushes, NetTypes, ServerTypes, VectorPushed
  <2>2. /\ slots' \in Seq(Client) /\ size' = size + 1 /\ size' <= Len(slots')
        /\ Len(slots) <= Len(slots') /\ Len(slots') \in Nat /\ Len(slots) \in Nat /\ size \in Nat
    BY <1>2, Pushed, SlotTypes DEF IInv
  <2>3. VectorTypes'
    <3>1. UNCHANGED loop /\ accepting' = c
      BY <1>2 DEF AcceptPushes
    <3>2. last \in 0 .. Len(slots') /\ size' \in 0 .. Len(slots')
      BY <2>2 DEF VectorTypes
    <3>3. QED
      BY <2>2, <3>1, <3>2 DEF VectorTypes
  <2>4. QED
    BY <2>1, <2>3, PartsNext
<1>3. ASSUME NEW c \in Client, SendInitialData(c)
      PROVE  TypeOK'
  <2>1. NetTypes'
    BY <1>3 DEF SendInitialData, NetTypes
  <2>2. VectorTypes'
    BY <1>3 DEF SendInitialData, VectorTypes
  <2>3. ServerTypes'
    <3>1. /\ handshake' = handshake /\ secretToConnection' = secretToConnection
          /\ udpAddressToConnection' = udpAddressToConnection /\ joined' = joined
          /\ joining' \subseteq joining
      BY <1>3 DEF SendInitialData, registries
    <3>2. crash' \in {crash, "deleted connection sent to"}
      BY <1>3 DEF SendInitialData
    <3>3. QED
      BY <3>1, <3>2 DEF ServerTypes, UsesOfDeleted
  <2>4. QED
    BY <2>1, <2>2, <2>3, PartsNext
<1>4. CASE AcceptInserts
  <2>1. NetTypes'
    BY <1>4 DEF AcceptInserts, NetTypes
  <2>2. VectorTypes'
    BY <1>4 DEF AcceptInserts, VectorTypes
  <2>3. ServerTypes'
    <3>1. accepting \in Client
      BY <1>4 DEF AcceptInserts, VectorTypes
    <3>2. secretToConnection' \in [Client -> Client \cup {Absent, Null}]
      BY <1>4, <3>1 DEF AcceptInserts, ServerTypes
    <3>3. /\ handshake' = handshake /\ udpAddressToConnection' = udpAddressToConnection
          /\ joining' = joining /\ joined' = joined /\ crash' = crash
      BY <1>4 DEF AcceptInserts
    <3>4. QED
      BY <3>2, <3>3 DEF ServerTypes
  <2>4. QED
    BY <2>1, <2>2, <2>3, PartsNext
<1>5. ASSUME NEW d \in udp, ServerReceivesUDP(d)
      PROVE  TypeOK'
  <2>1. d.from \in Client
    BY DEF NetTypes, Datagram
  <2>2. VectorTypes'
    BY <1>5 DEF ServerReceivesUDP, VectorTypes
  <2>3. CASE Joins(d)
    <3>1. PICK c \in Client : c = secretToConnection[d.from] /\ toClient' = [toClient EXCEPT ![c] = Append(@, "joined")]
      BY <2>3 DEF Joins
    <3>2. Append(toClient[c], "joined") \in Seq({"secret", "error", "joined"})
      BY DEF NetTypes
    <3>3. NetTypes'
      BY <1>5, <3>1, <3>2 DEF ServerReceivesUDP, NetTypes
    <3>4. ServerTypes'
      <4>1. PICK n \in Nat : n = joined[c] + 1
        <5>1. joined[c] \in Nat
          BY DEF ServerTypes
        <5>2. QED
          BY <5>1
      <4>2. /\ joined' = [joined EXCEPT ![c] = n]
            /\ udpAddressToConnection' = [udpAddressToConnection EXCEPT ![d.from] = c]
            /\ handshake' = [handshake EXCEPT ![c] = "PACKET_READY"]
            /\ joining' = joining \cup {c}
            /\ UNCHANGED secretToConnection /\ crash' \in {"none", "map moved"}
        BY <1>5, <2>3, <3>1, <4>1 DEF ServerReceivesUDP, Joins, MapUsed
      <4>3. QED
        BY <2>1, <4>2 DEF ServerTypes
    <3>5. QED
      BY <2>2, <3>3, <3>4, PartsNext
  <2>4. CASE Discarded(d) \/ StaleSecret(d) \/ Served(d) \/ StaleAddress(d)
    <3>1. NetTypes'
      BY <1>5, <2>4 DEF ServerReceivesUDP, Discarded, StaleSecret, Served, StaleAddress, NetTypes
    <3>2. crash' \in {"none", "map moved", "connection shared"} \cup UsesOfDeleted
      BY <2>4 DEF Discarded, StaleSecret, Served, StaleAddress, MapUsed, ConnectionUsed, UsesOfDeleted
    <3>3. ServerTypes'
      <4>1. /\ UNCHANGED <<handshake, secretToConnection, joining, joined>>
            /\ \/ UNCHANGED udpAddressToConnection
               \/ udpAddressToConnection' = [udpAddressToConnection EXCEPT ![d.from] = secretToConnection[d.from]]
        BY <1>5, <2>4 DEF ServerReceivesUDP, Discarded, StaleSecret, Served, StaleAddress
      <4>2. udpAddressToConnection' \in [Client -> Client \cup {Absent, Null}]
        BY <2>1, <4>1 DEF ServerTypes
      <4>3. QED
        BY <3>2, <4>1, <4>2 DEF ServerTypes
    <3>4. QED
      BY <2>2, <3>1, <3>3, PartsNext
  <2>5. QED
    BY <1>5, <2>3, <2>4 DEF ServerReceivesUDP
<1>6. CASE StartSweep
  <2>1. size \in Nat /\ size > 0 /\ Len(slots) \in Nat /\ size <= Len(slots)
    BY <1>6, SlotTypes DEF StartSweep, StartsWalk, IInv
  <2>2. VectorTypes'
    BY <1>6, <2>1 DEF StartSweep, StartsWalk, VectorTypes
  <2>3. NetTypes' /\ ServerTypes'
    BY <1>6 DEF StartSweep, NetTypes, ServerTypes
  <2>4. QED
    BY <2>2, <2>3, PartsNext
<1>7. CASE Visit
  <2>1. PICK c \in Client :
           /\ handshake[c] # "none"
           /\ \/ /\ Live(c) /\ (NothingToRead(c) \/ Checksum(c) \/ EndOfStream(c))
                 /\ crash' \in {"none", "map moved"}
              \/ /\ ~Live(c) /\ crash' = "deleted connection visited"
                 /\ UNCHANGED <<toServer, toClient, registries>>
    BY <1>7, Visited DEF Visit
  <2>2. /\ UNCHANGED <<client, udp, updates, accepting, joining, joined>>
        /\ walk # "none"
        /\ GoesOn \/ WalkEnds \/ StartsWalk("tick", size')
    BY <1>7 DEF Visit
  <2>3. NetTypes'
    <3>1. \A m \in {"secret", "error"} :
            Append(toClient[c], m) \in Seq({"secret", "error", "joined"})
      BY DEF NetTypes
    <3>2. CASE Checksum(c)
      BY <2>2, <3>1, <3>2 DEF Checksum, NetTypes
    <3>3. CASE ~Checksum(c)
      BY <2>1, <2>2, <3>3 DEF NothingToRead, EndOfStream, NetTypes
    <3>4. QED
      BY <3>2, <3>3
  <2>4. CASE Live(c) /\ Delete(c)
    <3>1. /\ slots' \in Seq(Client) /\ Len(slots') = Len(slots) /\ size' \in 0 .. Len(slots')
          /\ handshake' = [handshake EXCEPT ![c] = "deleted"]
          /\ secretToConnection' = [secretToConnection EXCEPT ![c] = Null]
          /\ udpAddressToConnection' =
               IF Ready(c) THEN [udpAddressToConnection EXCEPT ![c] = Null] ELSE udpAddressToConnection
      BY <2>2, <2>4, Deleted DEF IInv
    <3>2. VectorTypes'
      BY <2>2, <3>1, WalkTypes DEF VectorTypes
    <3>3. ServerTypes'
      BY <2>1, <2>2, <2>4, <3>1 DEF ServerTypes
    <3>4. QED
      BY <2>3, <3>2, <3>3, PartsNext
  <2>5. CASE ~(Live(c) /\ Delete(c))
    <3>1. /\ UNCHANGED <<slots, size, secretToConnection, udpAddressToConnection>>
          /\ handshake' = handshake \/ handshake' = [handshake EXCEPT ![c] = "WAIT_FOR_SECRET"]
      BY <2>1, <2>5 DEF NothingToRead, Checksum, EndOfStream
    <3>2. crash' \in {"none", "map moved"} \cup UsesOfDeleted
      BY <2>1 DEF UsesOfDeleted
    <3>3. VectorTypes'
      BY <2>2, <3>1, WalkTypes DEF VectorTypes
    <3>4. ServerTypes'
      BY <2>2, <3>1, <3>2 DEF ServerTypes
    <3>5. QED
      BY <2>3, <3>3, <3>4, PartsNext
  <2>6. QED
    BY <2>4, <2>5
<1>8. CASE TickVisit
  <2>1. /\ UNCHANGED <<client, toServer, toClient, udp, accepting, registries, joining, joined>>
        /\ walk # "none"
        /\ GoesOn \/ WalkEnds
    BY <1>8 DEF TickVisit
  <2>2. updates' \subseteq updates \cup {slots[at]} /\ slots[at] \in Client
    BY <1>8, <2>1, Visited DEF TickVisit
  <2>3. crash' \in {"none", "connection shared"}
    BY <1>8 DEF TickVisit, ConnectionUsed
  <2>4. NetTypes' /\ ServerTypes'
    BY <2>1, <2>2, <2>3 DEF NetTypes, ServerTypes
  <2>5. VectorTypes'
    <3>1. size' \in 0 .. Len(slots) /\ Len(slots') = Len(slots)
      BY <2>1 DEF VectorTypes
    <3>2. QED
      BY <2>1, <3>1, WalkTypes DEF VectorTypes
  <2>6. QED
    BY <2>4, <2>5, PartsNext
<1>9. CASE UNCHANGED vars
  BY <1>9, PartsNext DEF vars, NetTypes, VectorTypes, ServerTypes
<1>10. QED
  BY <1>1, <1>2, <1>3, <1>4, <1>5, <1>6, <1>7, <1>8, <1>9 DEF Next

\* Where the vector stays, no connection comes or goes, and nothing more is being accepted,
\* the vector is as right as it was.
LEMMA VectorKept ==
  ASSUME TypeOK, VectorInv, slots' = slots, size' = size, accepting' \in {accepting, Absent},
         \A c \in Client : Live(c)' <=> Live(c),
         \A c \in Client : handshake'[c] = "none" <=> handshake[c] = "none"
  PROVE  VectorInv'
<1>1. slots \in Seq(Client) /\ size \in Nat /\ Len(slots) \in Nat /\ size <= Len(slots)
  BY SlotTypes
<1>2. accepting \in Client \cup {Absent}
  BY DEF TypeOK
<1>3. \A i \in 1 .. Len(slots) : slots[i] \in Client
  BY <1>1
<1>4. \A i \in 1 .. size : slots[i] \in Client
  BY <1>1
<1>5. \A i \in 1 .. size : Live(slots[i])'
  BY <1>4 DEF VectorInv, Live
<1>6. \A i \in 1 .. Len(slots) : handshake'[slots[i]] # "none"
  BY <1>3 DEF VectorInv
<1>7. accepting' # Absent => handshake'[accepting'] # "none"
  BY <1>2 DEF VectorInv
<1>8. QED
  BY <1>5, <1>6, <1>7 DEF VectorInv

\* Pushes and deletions keep the vector exact, in the middle of a walk too.
LEMMA VectorStep ==
  ASSUME IInv, [Next]_vars
  PROVE  VectorInv'
<1> USE DEF IInv, loop, registries, client
<1> handshake \in [Client -> {"none", "WAIT_FOR_CHECKSUM", "WAIT_FOR_SECRET", "PACKET_READY", "deleted"}]
  BY DEF TypeOK
<1>1. ASSUME NEW c \in Client, Open(c) \/ Leave(c) \/ ClientReceivesTCP(c) \/ ClientReceivesUDP(c) \/ SendInitialData(c)
      PROVE  VectorInv'
  <2>1. UNCHANGED <<slots, size, accepting, handshake>>
    BY <1>1 DEF Open, Leave, ClientReceivesTCP, ClientReceivesUDP, SendInitialData
  <2>2. QED
    BY <2>1, VectorKept DEF Live
<1>2. ASSUME NEW c \in Client, AcceptPushes(c)
      PROVE  VectorInv'
  <2>1. /\ slots' \in Seq(Client) /\ size' = size + 1 /\ size' <= Len(slots')
        /\ slots'[size'] = c
        /\ \A i \in 1 .. size : slots'[i] = slots[i]
        /\ \A i \in 1 .. Len(slots') : slots'[i] = c \/ (i \in 1 .. Len(slots) /\ slots'[i] = slots[i])
    BY <1>2, Pushed
  <2>2. /\ slots \in Seq(Client) /\ size \in Nat /\ size <= Len(slots) /\ Len(slots) \in Nat
        /\ Len(slots') \in Nat /\ 1 .. size' = 1 .. size \cup {size'} /\ size' \notin 1 .. size
    BY <2>1, SlotTypes
  <2>3. /\ handshake[c] = "none" /\ accepting' = c
        /\ \A d \in Client : handshake'[d] = IF d = c THEN "WAIT_FOR_CHECKSUM" ELSE handshake[d]
    BY <1>2 DEF AcceptPushes
  <2>4. \A i \in 1 .. size : slots[i] \in Client /\ slots[i] # c /\ Live(slots[i])
    BY <2>2, <2>3 DEF VectorInv, Live
  <2>5. \A i \in 1 .. size' : handshake'[slots'[i]] \notin {"none", "deleted"}
    BY <2>1, <2>2, <2>3, <2>4 DEF Live
  <2>6. \A i, j \in 1 .. size' : slots'[i] = slots'[j] => i = j
    BY <2>1, <2>2, <2>4 DEF VectorInv
  <2>7. \A d \in Client : Live(d)' => \E i \in 1 .. size' : slots'[i] = d
    BY <2>1, <2>2, <2>3 DEF VectorInv, Live
  <2>8. \A i \in 1 .. Len(slots') : handshake'[slots'[i]] # "none"
    <3> SUFFICES ASSUME NEW i \in 1 .. Len(slots')
                 PROVE  handshake'[slots'[i]] # "none"
      OBVIOUS
    <3>1. CASE slots'[i] = c
      BY <2>3, <3>1
    <3>2. ASSUME i \in 1 .. Len(slots), slots'[i] = slots[i]
          PROVE  handshake'[slots'[i]] # "none"
      <4>1. slots[i] \in Client /\ handshake[slots[i]] # "none"
        BY <2>2, <3>2 DEF VectorInv
      <4>2. QED
        BY <2>3, <3>2, <4>1
    <3>3. QED
      BY <2>1, <3>1, <3>2
  <2>9. accepting' # Absent => handshake'[accepting'] # "none"
    BY <2>3
  <2>10. QED
    BY <2>5, <2>6, <2>7, <2>8, <2>9 DEF VectorInv, Live
<1>3. CASE AcceptInserts
  <2>1. UNCHANGED <<slots, size, handshake>> /\ accepting' = Absent
    BY <1>3 DEF AcceptInserts
  <2>2. QED
    BY <2>1, VectorKept DEF Live
<1>4. ASSUME NEW d \in udp, ServerReceivesUDP(d)
      PROVE  VectorInv'
  <2>1. UNCHANGED <<slots, size, accepting>>
    BY <1>4 DEF ServerReceivesUDP
  <2>2. handshake' = handshake \/ \E c \in Client : Live(c) /\ handshake' = [handshake EXCEPT ![c] = "PACKET_READY"]
    BY <1>4 DEF ServerReceivesUDP, Discarded, Joins, StaleSecret, Served, StaleAddress
  <2>3. \A c \in Client : /\ Live(c)' <=> Live(c)
                          /\ handshake'[c] = "none" <=> handshake[c] = "none"
    BY <2>2 DEF Live
  <2>4. QED
    BY <2>1, <2>3, VectorKept
<1>5. CASE Visit
  <2>1. PICK c \in Client :
           \/ Live(c) /\ (NothingToRead(c) \/ Checksum(c) \/ EndOfStream(c))
           \/ UNCHANGED registries
    BY <1>5, Visited DEF Visit
  <2>2. accepting' = accepting
    BY <1>5 DEF Visit
  <2>3. CASE Live(c) /\ Delete(c)
    BY <2>2, <2>3, Deleted
  <2>4. CASE ~(Live(c) /\ Delete(c))
    <3>1. /\ UNCHANGED <<slots, size>>
          /\ handshake' = handshake \/ (Live(c) /\ handshake' = [handshake EXCEPT ![c] = "WAIT_FOR_SECRET"])
      BY <2>1, <2>4 DEF NothingToRead, Checksum, EndOfStream
    <3>2. \A d \in Client : /\ Live(d)' <=> Live(d)
                            /\ handshake'[d] = "none" <=> handshake[d] = "none"
      BY <3>1 DEF Live
    <3>3. QED
      BY <2>2, <3>1, <3>2, VectorKept
  <2>5. QED
    BY <2>3, <2>4
<1>6. CASE StartSweep \/ TickVisit \/ UNCHANGED vars
  <2>1. UNCHANGED <<slots, size, accepting, handshake>>
    BY <1>6 DEF StartSweep, TickVisit, vars
  <2>2. QED
    BY <2>1, VectorKept DEF Live
<1>7. QED
  BY <1>1, <1>2, <1>3, <1>4, <1>5, <1>6 DEF Next

\* An entry is made for a connection that sends its secret, and nullptr once it is deleted.
LEMMA MapsStep ==
  ASSUME IInv, [Next]_vars
  PROVE  MapsInv' /\ AddressesReady' /\ JoinsOnce'
<1> USE ConnectionAssumption DEF IInv, loop, registries, client
<1>1. /\ handshake \in [Client -> {"none", "WAIT_FOR_CHECKSUM", "WAIT_FOR_SECRET", "PACKET_READY", "deleted"}]
      /\ secretToConnection \in [Client -> Client \cup {Absent, Null}]
      /\ udpAddressToConnection \in [Client -> Client \cup {Absent, Null}]
      /\ joined \in [Client -> Nat]
      /\ \A d \in udp : d.from \in Client
  BY DEF TypeOK, Datagram
<1>2. ASSUME UNCHANGED <<secretToConnection, udpAddressToConnection, joined, handshake>>, Up' => Up
      PROVE  MapsInv' /\ AddressesReady' /\ JoinsOnce'
  BY <1>2 DEF MapsInv, AddressesReady, JoinsOnce, Ready
<1>3. ASSUME NEW c \in Client,
             Open(c) \/ Leave(c) \/ ClientReceivesTCP(c) \/ ClientReceivesUDP(c) \/ SendInitialData(c)
      PROVE  MapsInv' /\ AddressesReady' /\ JoinsOnce'
  BY <1>2, <1>3 DEF Open, Leave, ClientReceivesTCP, ClientReceivesUDP, SendInitialData, Up
<1>4. ASSUME NEW c \in Client, AcceptPushes(c)
      PROVE  MapsInv' /\ AddressesReady' /\ JoinsOnce'
  <2>1. /\ UNCHANGED <<secretToConnection, udpAddressToConnection, joined>> /\ Up
        /\ handshake[c] = "none" /\ handshake' = [handshake EXCEPT ![c] = "WAIT_FOR_CHECKSUM"]
    BY <1>4 DEF AcceptPushes
  <2>2. MapsInv' /\ JoinsOnce'
    BY <1>1, <2>1 DEF MapsInv, JoinsOnce
  <2>3. AddressesReady'
    BY <1>1, <2>1 DEF AddressesReady, Ready
  <2>4. QED
    BY <2>2, <2>3
<1>5. CASE AcceptInserts
  <2>1. PICK c \in Client : c = accepting
    BY <1>5 DEF AcceptInserts, TypeOK
  <2>2. /\ UNCHANGED <<udpAddressToConnection, joined, handshake, crash>>
        /\ secretToConnection' = [secretToConnection EXCEPT ![c] = c] \/ secretToConnection' = secretToConnection
        /\ handshake[c] # "none"
    BY <1>5, <2>1 DEF AcceptInserts, VectorInv
  <2>3. MapsInv' /\ AddressesReady' /\ JoinsOnce'
    BY <1>1, <2>2 DEF MapsInv, AddressesReady, JoinsOnce, Ready, Up
  <2>4. QED
    BY <2>3
<1>6. ASSUME NEW d \in udp, ServerReceivesUDP(d)
      PROVE  MapsInv' /\ AddressesReady' /\ JoinsOnce'
  <2>1. secretToConnection' = secretToConnection /\ Up /\ d.from \in Client
    BY <1>1, <1>6 DEF ServerReceivesUDP
  <2>2. CASE Discarded(d) \/ Served(d) \/ StaleAddress(d)
    BY <1>2, <2>1, <2>2 DEF Discarded, Served, StaleAddress
  <2>3. CASE Joins(d)
    <3>1. PICK c \in Client : c = d.from /\ secretToConnection[c] = c
      BY <2>1, <2>3 DEF Joins, MapsInv
    <3>2. PICK n \in Nat : n = joined[c]
      BY <1>1
    <3>3. /\ udpAddressToConnection[c] = Absent
          /\ udpAddressToConnection' = [udpAddressToConnection EXCEPT ![c] = c]
          /\ handshake' = [handshake EXCEPT ![c] = "PACKET_READY"]
          /\ joined' = [joined EXCEPT ![c] = n + 1] /\ Live(c)
      BY <2>3, <3>1, <3>2 DEF Joins, Addressed
    <3>4. n = 0
      BY <3>2, <3>3 DEF MapsInv
    <3>5. MapsInv'
      BY <1>1, <2>1, <3>1, <3>3 DEF MapsInv, Live
    <3>6. AddressesReady'
      BY <1>1, <2>1, <3>1, <3>3 DEF AddressesReady, Ready
    <3>7. JoinsOnce'
      BY <1>1, <3>3, <3>4 DEF JoinsOnce
    <3>8. QED
      BY <3>5, <3>6, <3>7
  <2>4. CASE StaleSecret(d)
    <3>1. PICK c \in Client : c = d.from
      BY <2>1
    <3>2. /\ secretToConnection[c] \in {c, Null}
          /\ udpAddressToConnection' = [udpAddressToConnection EXCEPT ![c] = secretToConnection[c]]
          /\ UNCHANGED <<handshake, joined>> /\ ~Up'
      BY <2>4, <3>1 DEF StaleSecret, MapsInv, Up
    <3>3. MapsInv'
      BY <1>1, <2>1, <3>2 DEF MapsInv
    <3>4. AddressesReady' /\ JoinsOnce'
      BY <3>2 DEF AddressesReady, JoinsOnce
    <3>5. QED
      BY <3>3, <3>4
  <2>5. QED
    BY <1>6, <2>2, <2>3, <2>4 DEF ServerReceivesUDP
<1>7. CASE Visit
  <2>1. PICK c \in Client :
          /\ handshake[c] # "none"
          /\ \/ Live(c) /\ (NothingToRead(c) \/ Checksum(c) \/ EndOfStream(c))
             \/ UNCHANGED registries
    BY <1>7, Visited DEF Visit
  <2>2. joined' = joined /\ accepting' = accepting /\ Up
    BY <1>7 DEF Visit
  <2>3. CASE Live(c) /\ Delete(c)
    <3>1. /\ handshake' = [handshake EXCEPT ![c] = "deleted"]
          /\ secretToConnection' = [secretToConnection EXCEPT ![c] = Null]
          /\ udpAddressToConnection' =
               IF Ready(c) THEN [udpAddressToConnection EXCEPT ![c] = Null] ELSE udpAddressToConnection
      BY <2>2, <2>3, Deleted
    <3>2. MapsInv' /\ JoinsOnce'
      BY <1>1, <2>2, <3>1 DEF MapsInv, JoinsOnce
    <3>3. AddressesReady'
      BY <1>1, <2>2, <3>1 DEF AddressesReady, Ready
    <3>4. QED
      BY <3>2, <3>3
  <2>4. CASE Live(c) /\ Checksum(c) /\ c \in Matching
    <3>1. /\ UNCHANGED <<secretToConnection, udpAddressToConnection>>
          /\ handshake[c] = "WAIT_FOR_CHECKSUM"
          /\ handshake' = [handshake EXCEPT ![c] = "WAIT_FOR_SECRET"]
      BY <2>4 DEF Checksum
    <3>2. MapsInv' /\ JoinsOnce'
      BY <1>1, <2>2, <3>1 DEF MapsInv, JoinsOnce
    <3>3. AddressesReady'
      BY <1>1, <2>2, <3>1 DEF AddressesReady, Ready
    <3>4. QED
      BY <3>2, <3>3
  <2>5. CASE UNCHANGED registries
    BY <1>2, <2>2, <2>5
  <2>6. QED
    BY <2>1, <2>3, <2>4, <2>5 DEF NothingToRead, Checksum, EndOfStream
<1>8. CASE StartSweep \/ TickVisit \/ UNCHANGED vars
  BY <1>2, <1>8 DEF StartSweep, TickVisit, vars, Up
<1>9. QED
  BY <1>3, <1>4, <1>5, <1>6, <1>7, <1>8 DEF Next

\* A client joins by the secret that it has sent, and has sent what it was told.
LEMMA JoinStep ==
  ASSUME IInv, [Next]_vars
  PROVE  JoinInv'
<1> USE DEF IInv, loop, registries, client, SecretOf, PacketOf
<1>1. /\ handshake \in [Client -> {"none", "WAIT_FOR_CHECKSUM", "WAIT_FOR_SECRET", "PACKET_READY", "deleted"}]
      /\ secret \in [Client -> {"none", "known", "garbage"}]
      /\ \A d \in udp : d.from \in Client /\ d = [from |-> d.from, what |-> d.what]
  <2>1. \A d \in Datagram : d.from \in Client /\ d = [from |-> d.from, what |-> d.what]
    BY DEF Datagram
  <2>2. udp \subseteq Datagram
    BY DEF TypeOK
  <2>3. QED
    BY <2>1, <2>2 DEF TypeOK
<1>2. ASSUME UNCHANGED <<handshake, joining, updates, udp, secret>>
      PROVE  JoinInv'
  BY <1>2 DEF JoinInv, Ready
<1>3. ASSUME NEW c \in Client, Open(c) \/ Leave(c)
      PROVE  JoinInv'
  BY <1>2, <1>3 DEF Open, Leave
<1>4. ASSUME NEW c \in Client, ClientReceivesTCP(c)
      PROVE  JoinInv'
  <2>1. UNCHANGED <<handshake, joining, updates>> /\ udp \subseteq udp'
    BY <1>4 DEF ClientReceivesTCP
  <2>2. toClient[c] # <<>> /\ toClient[c] \in Seq({"secret", "error", "joined"})
    BY <1>4 DEF ClientReceivesTCP, TypeOK
  <2>3. Head(toClient[c]) = toClient[c][1] /\ 1 \in 1 .. Len(toClient[c])
    BY <2>2
  <2>4. CASE udp' = udp /\ secret' = secret
    BY <1>2, <2>1, <2>4
  <2>5. CASE Head(toClient[c]) = "secret"
    <3>1. secret' = [secret EXCEPT ![c] = "known"] /\ udp' = udp \cup {SecretOf(c)}
      BY <1>4, <2>5 DEF ClientReceivesTCP
    <3>2. \A d \in Client : SecretOf(d) \in udp' \/ PacketOf(d) \in udp' => secret'[d] = "known"
      BY <1>1, <3>1 DEF JoinInv
    <3>3. QED
      BY <2>1, <3>2 DEF JoinInv, Ready
  <2>6. CASE Head(toClient[c]) = "error"
    <3>1. secret' = [secret EXCEPT ![c] = "garbage"] /\ udp' = udp
      BY <1>4, <2>6 DEF ClientReceivesTCP
    <3>2. c \notin Matching
      BY <2>3, <2>6 DEF StreamInv
    <3>3. secret[c] # "known"
      BY <3>2 DEF StreamInv
    <3>4. \A d \in Client : secret[d] = "known" => secret'[d] = "known"
      BY <1>1, <3>1, <3>3
    <3>5. QED
      BY <2>1, <3>1, <3>4 DEF JoinInv, Ready
  <2>7. QED
    BY <1>4, <2>4, <2>5, <2>6 DEF ClientReceivesTCP
<1>5. ASSUME NEW c \in Client, ClientReceivesUDP(c)
      PROVE  JoinInv'
  <2>1. UNCHANGED <<handshake, joining, updates, secret>> /\ udp' = udp \cup {PacketOf(c)} /\ c \in updates
    BY <1>5 DEF ClientReceivesUDP
  <2>2. \A d \in Client : SecretOf(d) \in udp' <=> SecretOf(d) \in udp
    BY <2>1
  <2>3. \A d \in Client : PacketOf(d) \in udp' => d = c \/ PacketOf(d) \in udp
    BY <2>1
  <2>4. secret[c] = "known"
    BY <2>1 DEF JoinInv
  <2>5. QED
    BY <2>1, <2>2, <2>3, <2>4 DEF JoinInv, Ready
<1>6. ASSUME NEW c \in Client, AcceptPushes(c)
      PROVE  JoinInv'
  <2>1. UNCHANGED <<joining, updates, secret, udp>> /\ handshake' = [handshake EXCEPT ![c] = "WAIT_FOR_CHECKSUM"]
    BY <1>6 DEF AcceptPushes
  <2>2. QED
    BY <1>1, <2>1 DEF JoinInv, Ready
<1>7. ASSUME NEW c \in Client, SendInitialData(c)
      PROVE  JoinInv'
  <2>1. /\ UNCHANGED <<handshake, secret, udp>> /\ joining' \subseteq joining /\ c \in joining
        /\ updates' \subseteq updates \cup {c}
    BY <1>7 DEF SendInitialData
  <2>2. QED
    BY <2>1 DEF JoinInv, Ready
<1>8. ASSUME NEW d \in udp, ServerReceivesUDP(d)
      PROVE  JoinInv'
  <2>1. UNCHANGED <<updates, secret, udp>> /\ d.from \in Client
    BY <1>1, <1>8 DEF ServerReceivesUDP
  <2>2. CASE Joins(d)
    <3>1. PICK c \in Client : c = d.from /\ secretToConnection[c] = c
      BY <2>1, <2>2, ConnectionAssumption DEF Joins, MapsInv
    <3>2. handshake' = [handshake EXCEPT ![c] = "PACKET_READY"] /\ joining' = joining \cup {c} /\ d.what = "secret"
      BY <2>2, <3>1 DEF Joins
    <3>3. SecretOf(c) \in udp
      BY <1>1, <3>1, <3>2
    <3>4. QED
      BY <1>1, <2>1, <3>2, <3>3 DEF JoinInv, Ready
  <2>3. CASE ~Joins(d)
    <3>1. UNCHANGED <<handshake, joining>>
      BY <1>8, <2>3 DEF ServerReceivesUDP, Discarded, StaleSecret, Served, StaleAddress
    <3>2. QED
      BY <1>2, <2>1, <3>1
  <2>4. QED
    BY <2>2, <2>3
<1>9. CASE Visit
  <2>1. PICK c \in Client :
          /\ handshake[c] # "none"
          /\ \/ Live(c) /\ (NothingToRead(c) \/ Checksum(c) \/ EndOfStream(c))
             \/ UNCHANGED registries
    BY <1>9, Visited DEF Visit
  <2>2. UNCHANGED <<joining, updates, secret, udp>>
    BY <1>9 DEF Visit
  <2>3. handshake' = handshake \/ (\E h \in {"deleted", "WAIT_FOR_SECRET"} : handshake' = [handshake EXCEPT ![c] = h])
    BY <2>1 DEF NothingToRead, Checksum, EndOfStream, Delete
  <2>4. QED
    BY <1>1, <2>2, <2>3 DEF JoinInv, Ready
<1>10. CASE TickVisit
  <2>1. /\ UNCHANGED <<handshake, joining, secret, udp>>
        /\ updates' \subseteq updates \cup {c \in Client : Ready(c)}
    BY <1>10, Visited DEF TickVisit
  <2>2. QED
    BY <2>1 DEF JoinInv, Ready
<1>11. CASE AcceptInserts \/ StartSweep \/ UNCHANGED vars
  BY <1>2, <1>11 DEF AcceptInserts, StartSweep, vars
<1>12. QED
  BY <1>3, <1>4, <1>5, <1>6, <1>7, <1>8, <1>9, <1>10, <1>11 DEF Next

\* What a client of the server's build reads by TCP is never an error, what another reads
\* never a secret; and only the others, and those that are gone, are deleted.
LEMMA StreamStep ==
  ASSUME IInv, [Next]_vars
  PROVE  StreamInv'
<1> USE DEF IInv, loop, registries, client
<1> DEFINE Messages == {"secret", "error", "joined"}
<1>1. /\ handshake \in [Client -> {"none", "WAIT_FOR_CHECKSUM", "WAIT_FOR_SECRET", "PACKET_READY", "deleted"}]
      /\ secret \in [Client -> {"none", "known", "garbage"}]
      /\ socket \in [Client -> {"closed", "open", "gone"}]
      /\ toClient \in [Client -> Seq(Messages)]
  BY DEF TypeOK
<1>2. ASSUME UNCHANGED <<handshake, socket, toClient, secret>>
      PROVE  StreamInv'
  BY <1>2 DEF StreamInv
<1>3. ASSUME NEW c \in Client, Open(c) \/ Leave(c)
      PROVE  StreamInv'
  <2>1. UNCHANGED <<handshake, toClient, secret>>
    BY <1>3 DEF Open, Leave
  <2>2. \/ socket[c] = "closed" /\ socket' = [socket EXCEPT ![c] = "open"]
        \/ socket[c] = "open" /\ socket' = [socket EXCEPT ![c] = "gone"]
    BY <1>3 DEF Open, Leave
  <2>3. QED
    BY <1>1, <2>1, <2>2 DEF StreamInv
<1>4. ASSUME NEW c \in Client, NEW m \in Messages, toClient' = [toClient EXCEPT ![c] = Append(@, m)],
             m = "error" => c \notin Matching, m = "secret" => c \in Matching
      PROVE  \A d \in Client :
               /\ d \in Matching => \A i \in 1 .. Len(toClient'[d]) : toClient'[d][i] # "error"
               /\ d \notin Matching => \A i \in 1 .. Len(toClient'[d]) : toClient'[d][i] # "secret"
  <2> SUFFICES ASSUME NEW d \in Client
               PROVE  /\ d \in Matching => \A i \in 1 .. Len(toClient'[d]) : toClient'[d][i] # "error"
                      /\ d \notin Matching => \A i \in 1 .. Len(toClient'[d]) : toClient'[d][i] # "secret"
    OBVIOUS
  <2>1. CASE d = c
    <3>1. toClient[c] \in Seq(Messages) /\ toClient'[c] = Append(toClient[c], m)
      BY <1>1, <1>4
    <3>2. \A i \in 1 .. Len(toClient'[c]) :
            \/ toClient'[c][i] = m
            \/ i \in 1 .. Len(toClient[c]) /\ toClient'[c][i] = toClient[c][i]
      BY <3>1
    <3>3. QED
      BY <1>4, <2>1, <3>2 DEF StreamInv
  <2>2. CASE d # c
    BY <1>1, <1>4, <2>2 DEF StreamInv
  <2>3. QED
    BY <2>1, <2>2
<1>5. ASSUME NEW c \in Client, ClientReceivesTCP(c)
      PROVE  StreamInv'
  <2>1. UNCHANGED <<handshake, socket>> /\ toClient' = [toClient EXCEPT ![c] = Tail(@)] /\ toClient[c] # <<>>
    BY <1>5 DEF ClientReceivesTCP
  <2>2. toClient[c] \in Seq(Messages)
    BY <1>1
  <2>3. /\ Head(toClient[c]) = toClient[c][1] /\ 1 \in 1 .. Len(toClient[c])
        /\ \A i \in 1 .. Len(Tail(toClient[c])) :
             i + 1 \in 1 .. Len(toClient[c]) /\ Tail(toClient[c])[i] = toClient[c][i + 1]
    BY <2>1, <2>2
  <2>4. \A d \in Client : toClient'[d] = IF d = c THEN Tail(toClient[c]) ELSE toClient[d]
    BY <1>1, <2>1
  <2>5. \A d \in Client :
          /\ d \in Matching => \A i \in 1 .. Len(toClient'[d]) : toClient'[d][i] # "error"
          /\ d \notin Matching => \A i \in 1 .. Len(toClient'[d]) : toClient'[d][i] # "secret"
    <3> SUFFICES ASSUME NEW d \in Client
                 PROVE  /\ d \in Matching => \A i \in 1 .. Len(toClient'[d]) : toClient'[d][i] # "error"
                        /\ d \notin Matching => \A i \in 1 .. Len(toClient'[d]) : toClient'[d][i] # "secret"
      OBVIOUS
    <3>1. CASE d = c
      <4>1. PICK q : q = toClient[c] /\ toClient'[d] = Tail(q)
        BY <2>4, <3>1
      <4>2. /\ c \in Matching => \A i \in 1 .. Len(q) : q[i] # "error"
            /\ c \notin Matching => \A i \in 1 .. Len(q) : q[i] # "secret"
        BY <4>1 DEF StreamInv
      <4>3. \A i \in 1 .. Len(Tail(q)) : i + 1 \in 1 .. Len(q) /\ Tail(q)[i] = q[i + 1]
        BY <2>3, <4>1
      <4>4. QED
        BY <3>1, <4>1, <4>2, <4>3
    <3>2. CASE d # c
      BY <2>4, <3>2 DEF StreamInv
    <3>3. QED
      BY <3>1, <3>2
  <2>6. \/ secret' = secret
        \/ c \in Matching /\ secret' = [secret EXCEPT ![c] = "known"]
        \/ c \notin Matching /\ secret' = [secret EXCEPT ![c] = "garbage"]
    BY <1>5, <2>3 DEF ClientReceivesTCP, StreamInv
  <2>7. QED
    BY <1>1, <2>1, <2>5, <2>6 DEF StreamInv
<1>6. ASSUME NEW c \in Client, ClientReceivesUDP(c) \/ SendInitialData(c)
      PROVE  StreamInv'
  BY <1>2, <1>6 DEF ClientReceivesUDP, SendInitialData
<1>7. ASSUME NEW c \in Client, AcceptPushes(c)
      PROVE  StreamInv'
  <2>1. /\ UNCHANGED <<socket, toClient, secret>> /\ socket[c] # "closed"
        /\ handshake' = [handshake EXCEPT ![c] = "WAIT_FOR_CHECKSUM"]
    BY <1>7 DEF AcceptPushes
  <2>2. QED
    BY <1>1, <2>1 DEF StreamInv
<1>8. ASSUME NEW d \in udp, ServerReceivesUDP(d)
      PROVE  StreamInv'
  <2>1. UNCHANGED <<socket, secret>>
    BY <1>8 DEF ServerReceivesUDP
  <2>2. CASE Joins(d)
    <3>1. PICK c \in Client :
            /\ handshake' = [handshake EXCEPT ![c] = "PACKET_READY"]
            /\ toClient' = [toClient EXCEPT ![c] = Append(@, "joined")] /\ Live(c)
      BY <2>2 DEF Joins
    <3>2. \A e \in Client :
            /\ e \in Matching => \A i \in 1 .. Len(toClient'[e]) : toClient'[e][i] # "error"
            /\ e \notin Matching => \A i \in 1 .. Len(toClient'[e]) : toClient'[e][i] # "secret"
      BY <1>4, <3>1
    <3>3. QED
      BY <1>1, <2>1, <3>1, <3>2 DEF StreamInv, Live
  <2>3. CASE ~Joins(d)
    <3>1. UNCHANGED <<handshake, toClient>>
      BY <1>8, <2>3 DEF ServerReceivesUDP, Discarded, StaleSecret, Served, StaleAddress
    <3>2. QED
      BY <1>2, <2>1, <3>1
  <2>4. QED
    BY <2>2, <2>3
<1>9. CASE Visit
  <2>1. PICK c \in Client :
          \/ Live(c) /\ (NothingToRead(c) \/ Checksum(c) \/ EndOfStream(c))
          \/ UNCHANGED registries /\ toClient' = toClient
    BY <1>9, Visited DEF Visit
  <2>2. UNCHANGED <<socket, secret>>
    BY <1>9 DEF Visit
  <2>3. CASE Live(c) /\ Checksum(c)
    <3>1. PICK m \in {"secret", "error"} : toClient' = [toClient EXCEPT ![c] = Append(@, m)]
            /\ \/ m = "secret" /\ c \in Matching /\ handshake' = [handshake EXCEPT ![c] = "WAIT_FOR_SECRET"]
               \/ m = "error" /\ c \notin Matching /\ handshake' = [handshake EXCEPT ![c] = "deleted"]
      BY <2>3 DEF Checksum, Delete
    <3>2. \A e \in Client :
            /\ e \in Matching => \A i \in 1 .. Len(toClient'[e]) : toClient'[e][i] # "error"
            /\ e \notin Matching => \A i \in 1 .. Len(toClient'[e]) : toClient'[e][i] # "secret"
      BY <1>4, <3>1
    <3>3. QED
      BY <1>1, <2>2, <2>3, <3>1, <3>2 DEF StreamInv, Live
  <2>4. CASE Live(c) /\ EndOfStream(c)
    <3>1. toClient' = toClient /\ socket[c] = "gone" /\ handshake' = [handshake EXCEPT ![c] = "deleted"]
      BY <2>4 DEF EndOfStream, Delete
    <3>2. QED
      BY <1>1, <2>2, <3>1 DEF StreamInv
  <2>5. CASE UNCHANGED registries /\ toClient' = toClient
    BY <1>2, <2>2, <2>5
  <2>6. QED
    BY <2>1, <2>3, <2>4, <2>5 DEF NothingToRead
<1>10. CASE AcceptInserts \/ StartSweep \/ TickVisit \/ UNCHANGED vars
  BY <1>2, <1>10 DEF AcceptInserts, StartSweep, TickVisit, vars
<1>11. QED
  BY <1>3, <1>5, <1>6, <1>7, <1>8, <1>9, <1>10 DEF Next

\* A client that is lost stays lost, and who is deleted is lost.
LEMMA LostStays ==
  ASSUME IInv, [Next]_vars
  PROVE  /\ Lost \subseteq Lost'
         /\ \A c \in Client : handshake[c] = "deleted" => c \in Lost
<1>1. ASSUME socket' # socket
      PROVE  \E c \in Client : Open(c) \/ Leave(c)
  <2> USE DEF client
  <2>1. ASSUME NEW c \in Client, ClientReceivesTCP(c) \/ ClientReceivesUDP(c)
        PROVE  socket' = socket
    BY <2>1 DEF ClientReceivesTCP, ClientReceivesUDP
  <2>2. ASSUME NEW c \in Client, AcceptPushes(c) \/ SendInitialData(c)
        PROVE  socket' = socket
    BY <2>2 DEF AcceptPushes, SendInitialData
  <2>3. ASSUME NEW d \in udp, ServerReceivesUDP(d)
        PROVE  socket' = socket
    BY <2>3 DEF ServerReceivesUDP
  <2>4. CASE AcceptInserts \/ StartSweep \/ Visit \/ TickVisit
    <3>1. socket' = socket
      BY <2>4 DEF AcceptInserts, StartSweep, Visit, TickVisit
    <3>2. QED
      BY <1>1, <3>1
  <2>5. CASE UNCHANGED vars
    BY <1>1, <2>5 DEF vars
  <2>6. QED
    BY <1>1, <2>1, <2>2, <2>3, <2>4, <2>5 DEF Next
<1>2. socket \in [Client -> {"closed", "open", "gone"}]
  BY DEF IInv, TypeOK
<1>3. Lost \subseteq Lost'
  <2>1. CASE socket' = socket
    BY <2>1 DEF Lost
  <2>2. CASE socket' # socket
    <3>1. PICK c \in Client : Open(c) \/ Leave(c)
      BY <1>1, <2>2
    <3>2. \/ socket[c] = "closed" /\ socket' = [socket EXCEPT ![c] = "open"]
          \/ socket[c] = "open" /\ socket' = [socket EXCEPT ![c] = "gone"]
      BY <3>1 DEF Open, Leave
    <3>3. QED
      BY <1>2, <3>2 DEF Lost
  <2>3. QED
    BY <2>1, <2>2
<1>4. \A c \in Client : handshake[c] = "deleted" => c \in Lost
  BY <1>2 DEF Lost, IInv, StreamInv
<1>5. QED
  BY <1>3, <1>4

\* Where the vector stays, no connection comes or goes, and the walk goes on or stays,
\* what it has yet to visit is what it was.
LEMMA LoopKept ==
  ASSUME IInv, [Next]_vars, UNCHANGED <<slots, size>>,
         \A c \in Client : handshake'[c] \in {"none", "deleted"} <=> handshake[c] \in {"none", "deleted"},
         \A c \in Client : handshake'[c] = "deleted" <=> handshake[c] = "deleted",
         walk' # "none" => at' # 0,
         walk' = "receive" => walk = "receive" /\ at' \in {at, at + 1} /\ last' = last
  PROVE  LoopInv'
<1>1. ASSUME walk' = "receive", \A c \in Client : handshake'[c] # "deleted"
      PROVE  last' <= size'
  BY <1>1 DEF IInv, LoopInv
<1>2. ASSUME walk' = "receive", NEW c \in Client, Lost' \subseteq {c}, NEW k \in at' .. last'
      PROVE  Live(slots[k])'
  <2>1. /\ at \in 0 .. last /\ last \in 0 .. Len(slots) /\ Len(slots) \in Nat /\ at # 0
        /\ walk = "receive" /\ at' \in {at, at + 1} /\ last' = last
    BY <1>2, SlotTypes DEF IInv, TypeOK, LoopInv
  <2>2. k \in at .. last /\ k \in 1 .. Len(slots)
    BY <1>2, <2>1
  <2>3. Lost \subseteq {c}
    BY <1>2, LostStays
  <2>4. Live(slots[k]) /\ slots[k] \in Client
    BY <1>2, <2>2, <2>3, SlotTypes DEF IInv, LoopInv
  <2>5. handshake'[slots[k]] \notin {"none", "deleted"}
    BY <2>4 DEF Live
  <2>6. QED
    BY <2>5 DEF Live
<1>3. QED
  BY <1>1, <1>2 DEF LoopInv

\* One that is alive comes to the loop's end, or behind it; and the first deletion of a
\* walk moves only those that are alive to where it has yet to go.
LEMMA LoopStep ==
  ASSUME IInv, [Next]_vars
  PROVE  LoopInv'
<1> USE DEF loop, registries, client
<1>1. /\ handshake \in [Client -> {"none", "WAIT_FOR_CHECKSUM", "WAIT_FOR_SECRET", "PACKET_READY", "deleted"}]
      /\ slots \in Seq(Client) /\ Len(slots) \in Nat /\ size \in Nat /\ size <= Len(slots)
      /\ last \in 0 .. Len(slots) /\ at \in 0 .. last
      /\ walk # "none" => at # 0
  BY SlotTypes DEF IInv, TypeOK, LoopInv
<1>2. ASSUME UNCHANGED <<slots, size, handshake, walk, at, last>>
      PROVE  LoopInv'
  BY <1>1, <1>2, LoopKept
<1>3. ASSUME NEW c \in Client, Open(c) \/ Leave(c) \/ ClientReceivesTCP(c) \/ ClientReceivesUDP(c) \/ SendInitialData(c)
      PROVE  LoopInv'
  BY <1>2, <1>3 DEF Open, Leave, ClientReceivesTCP, ClientReceivesUDP, SendInitialData
<1>4. CASE AcceptInserts \/ UNCHANGED vars
  BY <1>2, <1>4 DEF AcceptInserts, vars
<1>5. ASSUME NEW c \in Client, AcceptPushes(c)
      PROVE  LoopInv'
  <2>1. /\ slots' \in Seq(Client) /\ size' = size + 1 /\ size' <= Len(slots')
        /\ \A i \in 1 .. Len(slots') : slots'[i] = c \/ (i \in 1 .. Len(slots) /\ slots'[i] = slots[i])
        /\ Len(slots) <= Len(slots')
    BY <1>5, Pushed DEF IInv
  <2>2. /\ UNCHANGED <<walk, at, last>>
        /\ handshake[c] = "none" /\ \A d \in Client : handshake'[d] = IF d = c THEN "WAIT_FOR_CHECKSUM" ELSE handshake[d]
    BY <1>1, <1>5 DEF AcceptPushes
  <2>3. ASSUME walk = "receive", \A d \in Client : handshake'[d] # "deleted"
        PROVE  last <= size'
    <3>1. last <= size
      BY <2>2, <2>3 DEF IInv, LoopInv
    <3>2. QED
      BY <1>1, <2>1, <3>1
  <2>4. ASSUME walk = "receive", NEW d \in Client, Lost' \subseteq {d}, NEW k \in at .. last
        PROVE  Live(slots[k])'
    <3>1. k \in 1 .. Len(slots) /\ k \in 1 .. Len(slots')
      BY <1>1, <2>1, <2>4
    <3>2. Live(slots[k]) /\ slots[k] \in Client
      BY <1>1, <2>4, <3>1, LostStays DEF IInv, LoopInv
    <3>3. slots'[k] = c \/ slots'[k] = slots[k]
      BY <2>1, <3>1
    <3>4. QED
      BY <2>2, <3>2, <3>3 DEF Live
  <2>5. QED
    BY <1>1, <2>2, <2>3, <2>4 DEF LoopInv
<1>6. ASSUME NEW d \in udp, ServerReceivesUDP(d)
      PROVE  LoopInv'
  BY <1>6 DEF ServerReceivesUDP, LoopInv
<1>7. CASE StartSweep
  <2>1. UNCHANGED <<slots, size, handshake>> /\ walk' = "receive" /\ at' = 1 /\ last' = size
    BY <1>7 DEF StartSweep, StartsWalk
  <2>2. \A k \in 1 .. size : Live(slots[k]) /\ slots[k] \in Client
    BY <1>1 DEF IInv, VectorInv
  <2>3. \A k \in 1 .. size : Live(slots[k])'
    BY <2>1, <2>2 DEF Live
  <2>4. size' <= size
    BY <1>1, <2>1
  <2>5. QED
    BY <1>1, <2>1, <2>3 DEF LoopInv
<1>8. CASE TickVisit
  <2>1. UNCHANGED <<slots, size, handshake>> /\ walk = "tick" /\ (GoesOn \/ WalkEnds)
    BY <1>8 DEF TickVisit
  <2>2. /\ walk' # "none" => at' # 0
        /\ walk' # "receive"
    BY <1>1, <2>1 DEF GoesOn, WalkEnds
  <2>3. QED
    BY <2>1, <2>2 DEF LoopInv
<1>9. CASE Visit
  <2>1. /\ walk = "receive"
        /\ GoesOn \/ WalkEnds \/ StartsWalk("tick", size')
        /\ at \in 1 .. last /\ slots[at] \in Client
    BY <1>9, Visited DEF Visit
  <2>2. PICK c \in Client :
          /\ c = slots[at]
          /\ \/ Live(c) /\ (NothingToRead(c) \/ Checksum(c) \/ EndOfStream(c))
             \/ UNCHANGED registries
    BY <1>9, <2>1 DEF Visit
  <2>3. CASE Live(c) /\ Delete(c)
    <3>1. PICK m \in 1 .. size :
            /\ slots[m] = c /\ size' = size - 1
            /\ slots' \in Seq(Client) /\ Len(slots') = Len(slots)
            /\ \A i \in 1 .. Len(slots) :
                 slots'[i] = IF m <= i /\ i < size THEN slots[i + 1] ELSE slots[i]
      BY <2>3, Erased DEF Delete, IInv
    <3>2. \A d \in Client : handshake'[d] = IF d = c THEN "deleted" ELSE handshake[d]
      BY <1>1, <2>3 DEF Delete
    <3>3. /\ walk' # "none" => at' # 0
          /\ walk' = "receive" => at' = at + 1 /\ last' = last
      <4>1. size' \in 0 .. Len(slots)
        BY <1>1, <3>1
      <4>2. QED
        BY <2>1, <3>1, <4>1, WalkTypes
    <3>4. ASSUME walk' = "receive", NEW d \in Client, Lost' \subseteq {d}, NEW k \in at' .. last'
          PROVE  Live(slots[k])'
      <4>1. c \in Lost'
        <5>1. c \notin Matching \/ socket[c] = "gone"
          <6>1. handshake'[c] = "deleted" /\ handshake[c] # "deleted"
            BY <2>3, <3>2 DEF Live
          <6>2. QED
            BY <1>1, <2>2, <6>1 DEF NothingToRead, Checksum, EndOfStream
        <5>2. socket' = socket /\ socket[c] # "closed"
          BY <1>9, <2>3 DEF Visit, IInv, StreamInv, Live
        <5>3. socket[c] \in {"open", "gone"}
          BY <5>2 DEF IInv, TypeOK
        <5>4. QED
          BY <5>1, <5>2, <5>3 DEF Lost
      <4>2. \A e \in Client : handshake[e] # "deleted"
        BY <2>3, <3>4, <4>1, LostStays DEF Live
      <4>3. last <= size
        BY <2>1, <4>2 DEF IInv, LoopInv
      <4>4. at = m
        BY <1>1, <2>1, <2>2, <3>1, <4>3 DEF IInv, VectorInv
      <4>5. k \in 1 .. size /\ k > m /\ k \in 1 .. Len(slots)
        BY <1>1, <2>1, <3>3, <3>4, <4>3, <4>4
      <4>6. PICK j \in 1 .. size : slots'[k] = slots[j] /\ j # m
        <5>1. CASE k < size
          <6>1. PICK j \in Nat : j = k + 1
            BY <1>1, <4>5
          <6>2. j \in 1 .. size /\ j # m /\ slots'[k] = slots[j]
            BY <1>1, <3>1, <4>5, <5>1, <6>1
          <6>3. QED
            BY <6>2
        <5>2. CASE k = size
          BY <1>1, <3>1, <4>5, <5>2
        <5>3. QED
          BY <1>1, <4>5, <5>1, <5>2
      <4>7. slots[j] # c /\ Live(slots[j]) /\ slots[j] \in Client
        BY <1>1, <3>1, <4>6 DEF IInv, VectorInv
      <4>8. QED
        BY <3>2, <4>6, <4>7 DEF Live
    <3>5. handshake'[c] = "deleted"
      BY <3>2
    <3>6. QED
      BY <3>3, <3>4, <3>5 DEF LoopInv
  <2>4. CASE ~(Live(c) /\ Delete(c))
    <3>1. /\ UNCHANGED <<slots, size>>
          /\ handshake' = handshake \/ (Live(c) /\ handshake' = [handshake EXCEPT ![c] = "WAIT_FOR_SECRET"])
      BY <2>2, <2>4 DEF NothingToRead, Checksum, EndOfStream
    <3>2. \A d \in Client :
            /\ handshake'[d] \in {"none", "deleted"} <=> handshake[d] \in {"none", "deleted"}
            /\ handshake'[d] = "deleted" <=> handshake[d] = "deleted"
      BY <1>1, <3>1 DEF Live
    <3>3. /\ walk' # "none" => at' # 0
          /\ walk' = "receive" => at' = at + 1 /\ last' = last
      <4>1. size' \in 0 .. Len(slots) /\ Len(slots') = Len(slots)
        BY <1>1, <3>1
      <4>2. QED
        BY <2>1, <4>1, WalkTypes
    <3>4. QED
      BY <2>1, <3>1, <3>2, <3>3, LoopKept
  <2>5. QED
    BY <2>3, <2>4
<1>10. QED
  BY <1>3, <1>4, <1>5, <1>6, <1>7, <1>8, <1>9 DEF Next

\* What is used after it was deleted, was deleted for a client that is lost; and the walk
\* visits only what is alive as long as one is, at most.
LEMMA FreedStep ==
  ASSUME IInv, [Next]_vars
  PROVE  CrashNeedsLoss'
<1> USE DEF loop, registries, client
<1>1. handshake \in [Client -> {"none", "WAIT_FOR_CHECKSUM", "WAIT_FOR_SECRET", "PACKET_READY", "deleted"}]
  BY DEF IInv, TypeOK
<1>2. ASSUME crash' \in {"none", "vector moved", "map moved", "connection shared"}
      PROVE  CrashNeedsLoss'
  BY <1>2 DEF CrashNeedsLoss, UsesOfDeleted
<1>3. ASSUME NEW c \in Client, handshake[c] = "deleted", crash' # "deleted connection visited"
      PROVE  CrashNeedsLoss'
  BY <1>3, LostStays DEF CrashNeedsLoss
<1>4. ASSUME NEW c \in Client, Open(c) \/ Leave(c) \/ ClientReceivesTCP(c) \/ ClientReceivesUDP(c)
      PROVE  CrashNeedsLoss'
  BY <1>2, <1>4 DEF Open, Leave, ClientReceivesTCP, ClientReceivesUDP, Up
<1>5. ASSUME NEW c \in Client, AcceptPushes(c)
      PROVE  CrashNeedsLoss'
  BY <1>2, <1>5 DEF AcceptPushes, VectorPushed
<1>6. CASE AcceptInserts \/ StartSweep \/ TickVisit
  BY <1>2, <1>6 DEF AcceptInserts, StartSweep, TickVisit, ConnectionUsed, Up
<1>7. ASSUME NEW c \in Client, SendInitialData(c)
      PROVE  CrashNeedsLoss'
  <2>1. crash' = "none" \/ (~Live(c) /\ crash' = "deleted connection sent to")
    BY <1>7 DEF SendInitialData, Up
  <2>2. handshake[c] # "none"
    BY <1>7 DEF SendInitialData, IInv, JoinInv
  <2>3. QED
    BY <1>2, <1>3, <2>1, <2>2 DEF Live
<1>8. ASSUME NEW d \in udp, ServerReceivesUDP(d)
      PROVE  CrashNeedsLoss'
  <2>1. d.from \in Client /\ crash = "none"
    BY <1>8 DEF IInv, TypeOK, Datagram, ServerReceivesUDP, Up
  <2>2. CASE StaleSecret(d)
    <3>1. crash' = "secret of a deleted connection"
      BY <2>2 DEF StaleSecret
    <3>2. handshake[d.from] = "deleted"
      BY <1>1, <2>1, <2>2 DEF StaleSecret, IInv, MapsInv, Live
    <3>3. QED
      BY <1>3, <2>1, <3>1, <3>2
  <2>3. CASE StaleAddress(d)
    <3>1. crash' = "packet of a deleted connection" /\ udpAddressToConnection[d.from] = Null
      BY <2>3 DEF StaleAddress
    <3>2. handshake[d.from] = "deleted"
      BY <2>1, <3>1 DEF IInv, MapsInv
    <3>3. QED
      BY <1>3, <2>1, <3>1, <3>2
  <2>4. CASE Discarded(d) \/ Joins(d) \/ Served(d)
    BY <1>2, <2>4 DEF Discarded, Joins, Served, MapUsed, ConnectionUsed
  <2>5. QED
    BY <1>8, <2>2, <2>3, <2>4 DEF ServerReceivesUDP
<1>9. CASE Visit
  <2>1. walk = "receive" /\ socket' = socket
    BY <1>9 DEF Visit
  <2>2. /\ at \in 1 .. last /\ last \in 1 .. Len(slots) /\ Len(slots) \in Nat
        /\ slots[at] \in Client /\ handshake[slots[at]] # "none"
        /\ crash' \in {"none", "map moved"} \/ ~Live(slots[at])
    BY <1>9, <2>1, Visited
  <2>3. CASE crash' \in {"none", "map moved"}
    BY <1>2, <2>3
  <2>4. CASE ~Live(slots[at])
    <3>1. slots[at] \in Lost
      BY <1>1, <2>2, <2>4, LostStays DEF Live
    <3>2. at \in 1 .. last /\ last \in 1 .. Len(slots) /\ Len(slots) \in Nat
      BY <2>2
    <3>3. at \in at .. last
      BY <3>2
    <3>4. \A c \in Client : Lost # {c}
      BY <2>1, <2>4, <3>3 DEF IInv, LoopInv
    <3>5. Lost' = Lost
      BY <2>1 DEF Lost
    <3>6. QED
      BY <3>1, <3>4, <3>5 DEF CrashNeedsLoss
  <2>5. QED
    BY <2>2, <2>3, <2>4
<1>10. CASE UNCHANGED vars
  <2>1. UNCHANGED <<socket, crash>>
    BY <1>10 DEF vars
  <2>2. QED
    BY <2>1 DEF IInv, CrashNeedsLoss, Lost
<1>11. QED
  BY <1>4, <1>5, <1>6, <1>7, <1>8, <1>9, <1>10 DEF Next

-----------------------------------------------------------------------------
(* The theorems. *)

\* Every step keeps all of it.
LEMMA NextIInv == IInv /\ [Next]_vars => IInv'
BY TypeStep, VectorStep, MapsStep, JoinStep, StreamStep, LoopStep, FreedStep DEF IInv

(* The invariant of the server holds throughout.                           *)
LEMMA SpecIInv == Spec => []IInv
BY InitIInv, NextIInv, PTL DEF Spec

\* The vector holds the connections that are alive, each once, and the maps agree with the
\* handshakes, in the middle of the loop that erases and between the two steps of the
\* thread that accepts, for any number of clients.
THEOREM RegistriesAlwaysAgree == Spec => []RegistriesAgree
<1>1. IInv => RegistriesAgree
  BY Counted DEF IInv, RegistriesAgree
<1>2. QED
  BY <1>1, SpecIInv, PTL

\* Each client is let in once, reads no packet before it has its numbers, and is served,
\* and kept while it stays, exactly if it is of the server's build.
THEOREM HandshakesInOrder == Spec => []HandshakeInOrder
<1>1. IInv => HandshakeInOrder
  <2> SUFFICES ASSUME IInv PROVE HandshakeInOrder
    OBVIOUS
  <2>1. NumbersFirst
    BY DEF IInv, JoinInv, NumbersFirst, PacketOf
  <2>2. OnlyMatchingServed
    BY DEF IInv, JoinInv, StreamInv, OnlyMatchingServed
  <2>3. QED
    BY <2>1, <2>2 DEF IInv, HandshakeInOrder
<1>2. QED
  BY <1>1, SpecIInv, PTL

\* As long as no client leaves and none is turned away, nothing that was deleted is used,
\* however late or often a datagram is read; and the walk of receive(), which deletes from
\* the vector that it walks, comes upon a deleted connection only if two clients are lost.
THEOREM NothingFreedIsUsed == Spec => []FreedNeedsLoss
<1>1. IInv => FreedNeedsLoss
  <2> SUFFICES ASSUME IInv PROVE FreedNeedsLoss
    OBVIOUS
  <2>1. ASSUME accepting # Absent, ~Live(accepting)
        PROVE  Lost # {}
    <3>1. accepting \in Client /\ handshake[accepting] = "deleted"
      BY <2>1 DEF IInv, TypeOK, VectorInv, Live
    <3>2. socket[accepting] \in {"closed", "open", "gone"}
      BY <3>1 DEF IInv, TypeOK
    <3>3. accepting \in Lost
      BY <3>1, <3>2 DEF IInv, StreamInv, Lost
    <3>4. QED
      BY <3>3
  <2>2. QED
    BY <2>1 DEF IInv, CrashNeedsLoss, FreedNeedsLoss
<1>2. QED
  BY <1>1, SpecIInv, PTL

(***************************************************************************)
(* Packets that several connections share.                                 *)
(*                                                                         *)
(* The last connection a packet went through has its number in the header. *)
(* The walk of an acknowledgement is a recursive function; what holds      *)
(* after each number of it (WalkKeeps, Left) is shown by a least           *)
(* counterexample.  If the numbers of the connections are apart, a number  *)
(* that a walk comes to was written by the connection that walks           *)
(* (NumberTells), so it finds its own packets, one each, and no others.    *)
(***************************************************************************)

Packet == [sequence : Nat, to : SUBSET Connections, deleted : BOOLEAN]

\* Every list is of packets, and every client has read what was sent to it.
SharedTypeInv ==
  /\ start \in [Connections -> Nat]
  /\ lastSequenceSent \in [Connections -> Nat]
  /\ lastHighestAckReceived \in [Connections -> Nat]
  /\ answered \in [Connections -> Nat]
  /\ packets \in Seq(Packet) /\ Len(packets) <= MaxPackets
  /\ head \in [Connections -> SUBSET (1 .. Len(packets))]
  /\ DOMAIN received = Connections
  /\ \A c \in Connections : received[c] \in Seq(start[c] + 1 .. lastSequenceSent[c])
  /\ usedDeleted \in BOOLEAN

\* A connection has numbered no more packets than there are, from its own start.
NumbersInv ==
  \A c \in Connections :
    /\ start[c] <= lastHighestAckReceived[c] /\ lastHighestAckReceived[c] <= answered[c]
    /\ answered[c] <= lastSequenceSent[c] /\ lastSequenceSent[c] <= start[c] + Len(packets)

\* A packet has the number of the last connection it went through, which numbers in order,
\* and is in lists of these connections only.
PacketsInv ==
  /\ \A p \in 1 .. Len(packets) :
       /\ Max(packets[p].to) \in packets[p].to
       /\ packets[p].sequence > start[Max(packets[p].to)]
       /\ packets[p].sequence <= lastSequenceSent[Max(packets[p].to)]
  /\ \A p, q \in 1 .. Len(packets) :
       p < q /\ Max(packets[p].to) = Max(packets[q].to) => packets[p].sequence < packets[q].sequence
  /\ \A c \in Connections : \A p \in head[c] : c \in packets[p].to

SharedInv == SharedTypeInv /\ NumbersInv /\ PacketsInv /\ LastConnectionDecides

-----------------------------------------------------------------------------
(* Numbers. *)

\* The bounds are numbers, and so are the connections.
LEMMA Bounds ==
  /\ NumConnections \in Nat /\ MaxPackets \in Nat /\ 1 \in Connections
  /\ Connections \subseteq Nat /\ Connections = 1 .. NumConnections
  /\ Starts \subseteq [Connections -> Nat]
BY SharedAssumption DEF Connections

\* A set of numbers has a least one.
LEMMA Least ==
  ASSUME NEW S \in SUBSET Nat, S # {}
  PROVE  \E n \in S : \A m \in S : n <= m
<1> DEFINE R == {ss \in Nat \X Nat : ss[1] < ss[2]}
<1>1. R = OpToRel(<, Nat)
  BY DEF OpToRel
<1>2. IsWellFoundedOn(R, Nat)
  BY <1>1, NatLessThanWellFounded
<1> HIDE DEF R
<1>3. PICK n \in S : \A m \in S : <<m, n>> \notin R
  BY <1>2, WFMin
<1>4. ASSUME NEW m \in S PROVE n <= m
  <2>1. m \in Nat /\ n \in Nat /\ <<m, n>> \notin R
    BY <1>3
  <2>2. m < n => <<m, n>> \in R
    BY <2>1 DEF R
  <2>3. QED
    BY <2>1, <2>2
<1>5. QED
  BY <1>4

\* A set of numbers up to n has a greatest one.
LEMMA MaxIs ==
  ASSUME NEW n \in Nat, NEW S \in SUBSET (1 .. n), S # {}
  PROVE  Max(S) \in S /\ \A m \in S : Max(S) >= m
<1> DEFINE T == {n - m : m \in S}
<1>1. T \in SUBSET Nat /\ T # {}
  OBVIOUS
<1> HIDE DEF T
<1>2. PICK t \in T : \A u \in T : t <= u
  BY <1>1, Least
<1>3. PICK x \in S : t = n - x
  BY DEF T
<1>4. ASSUME NEW y \in S PROVE x >= y
  <2>1. n - y \in T /\ x \in 1 .. n /\ y \in 1 .. n
    BY DEF T
  <2>2. n - x <= n - y
    BY <1>2, <1>3, <2>1
  <2>3. QED
    BY <2>1, <2>2
<1>5. \E z \in S : \A y \in S : z >= y
  BY <1>4
<1>6. QED
  BY <1>5 DEF Max

\* Two connections make more than one.
LEMMA TwoAreMore ==
  ASSUME NEW to \in SUBSET Connections, NEW c \in to, NEW d \in to, c # d
  PROVE  Cardinality(to) > 1
<1>1. IsFiniteSet(Connections)
  BY Bounds, FS_Interval
<1>2. IsFiniteSet(to) /\ IsFiniteSet(to \ {c})
  BY <1>1, FS_Subset
<1>3. Cardinality(to) = Cardinality(to \ {c}) + 1 /\ Cardinality(to \ {c}) \in Nat
  BY <1>2, FS_RemoveElement, FS_CardinalityType
<1>4. to \ {c} # {}
  OBVIOUS
<1>5. Cardinality(to \ {c}) # 0
  BY <1>2, <1>4, FS_EmptySet
<1>6. QED
  BY <1>3, <1>5

-----------------------------------------------------------------------------
(* The walk. *)

\* While a list is walked up to number i: what is left of it, and what was deleted since it
\* began, from the packets whose numbers are acknowledged.
WalkKeeps(s, list, from, i, got) ==
  /\ s.list \subseteq list
  /\ \A p \in s.list : p \in s.deleted => packets[p].deleted
  /\ \A p \in s.deleted :
       \/ p \in DOMAIN packets /\ packets[p].deleted
       \/ /\ p \in list /\ packets[p].sequence \in got
          /\ packets[p].sequence > from /\ packets[p].sequence <= i
  /\ s.fault \in BOOLEAN

\* One number more.
LEMMA UnlinkedKeeps ==
  ASSUME SharedTypeInv, NEW list \in SUBSET (1 .. Len(packets)), NEW from \in Nat, NEW i \in Nat,
         from < i, NEW got, NEW s, WalkKeeps(s, list, from, i - 1, got)
  PROVE  WalkKeeps(Unlinked(s, i, i \in got), list, from, i, got)
<1>1. ASSUME NEW p \in list PROVE packets[p].sequence \in Nat
  <2>1. packets \in Seq(Packet) /\ p \in 1 .. Len(packets)
    BY DEF SharedTypeInv
  <2>2. packets[p] \in Packet
    BY <2>1, ElementOfSeq
  <2>3. QED
    BY <2>2 DEF Packet
<1>5. i - 1 \in Nat /\ from <= i - 1
  OBVIOUS
<1>2. CASE s.list = {}
  <2>1. Unlinked(s, i, i \in got) = s
    BY <1>2 DEF Unlinked
  <2>2. ASSUME NEW p \in list, packets[p].sequence <= i - 1 PROVE packets[p].sequence <= i
    BY <1>1, <2>2
  <2>3. QED
    BY <2>1, <2>2 DEF WalkKeeps
<1>3. CASE s.list # {}
  <2> DEFINE r == Unlinked(s, i, i \in got)
             first == {p \in {Max(s.list)} : packets[p].sequence = i}
             rest == s.list \ first
             others == {p \in rest : \E q \in rest : q > p}
             match == {p \in others : packets[p].sequence = i}
             later == {p \in match : \A q \in match : p >= q}
             seen == {Max(s.list)} \cup {p \in others : \A m \in later : p >= m}
  <2>1. r = [list |-> rest \ later,
             deleted |-> IF i \in got THEN s.deleted \cup first \cup later ELSE s.deleted,
             fault |-> s.fault \/ seen \cap s.deleted # {}]
    BY <1>3 DEF Unlinked
  <2>2. Max(s.list) \in s.list
    <3>1. s.list \in SUBSET (1 .. Len(packets)) /\ Len(packets) \in Nat
      BY LenProperties DEF WalkKeeps, SharedTypeInv
    <3>2. QED
      BY <1>3, <3>1, MaxIs
  <2>3. /\ first \subseteq s.list /\ later \subseteq s.list
        /\ \A p \in first \cup later : packets[p].sequence = i
    BY <2>2
  <2> HIDE DEF first, later, others, match, seen, r
  <2>4. r.list = rest \ later /\ r.fault = (s.fault \/ seen \cap s.deleted # {})
        /\ r.deleted = IF i \in got THEN s.deleted \cup first \cup later ELSE s.deleted
    BY <2>1
  <2>5. r.list \subseteq list /\ \A p \in r.list : p \in r.deleted => packets[p].deleted
    BY <2>3, <2>4 DEF WalkKeeps
  <2>6. \A p \in r.deleted :
          \/ p \in DOMAIN packets /\ packets[p].deleted
          \/ /\ p \in list /\ packets[p].sequence \in got
             /\ packets[p].sequence > from /\ packets[p].sequence <= i
    <3>1. \A p \in list : packets[p].sequence <= i - 1 => packets[p].sequence <= i
      BY <1>1
    <3>2. ASSUME NEW p \in s.deleted
          PROVE  \/ p \in DOMAIN packets /\ packets[p].deleted
                 \/ /\ p \in list /\ packets[p].sequence \in got
                    /\ packets[p].sequence > from /\ packets[p].sequence <= i
      BY <3>1 DEF WalkKeeps
    <3>3. ASSUME NEW p \in first \cup later
          PROVE  p \in list /\ packets[p].sequence = i /\ i > from /\ i <= i
      BY <2>3 DEF WalkKeeps
    <3>4. QED
      BY <2>4, <3>2, <3>3
  <2>7. r.fault \in BOOLEAN
    BY <2>4
  <2>8. QED
    BY <2>5, <2>6, <2>7 DEF WalkKeeps, r
<1>4. QED
  BY <1>2, <1>3

\* If no two packets of the list have number i, the one that has it goes: the second node,
\* which is not looked at when the first does not go, is the first.
LEMMA UnlinkedForgets ==
  ASSUME NEW n \in Nat, NEW s, NEW i, NEW acked, s.list \in SUBSET (1 .. n),
         \A p, q \in s.list : packets[p].sequence = i /\ packets[q].sequence = i => p = q
  PROVE  Unlinked(s, i, acked).list = {p \in s.list : packets[p].sequence # i}
<1>1. CASE s.list = {}
  BY <1>1 DEF Unlinked
<1>2. CASE s.list # {}
  <2> DEFINE first == {p \in {Max(s.list)} : packets[p].sequence = i}
             rest == s.list \ first
             others == {p \in rest : \E q \in rest : q > p}
             match == {p \in others : packets[p].sequence = i}
             later == {p \in match : \A q \in match : p >= q}
  <2>1. Unlinked(s, i, acked).list = rest \ later
    BY <1>2 DEF Unlinked
  <2>2. Max(s.list) \in s.list /\ \A m \in s.list : Max(s.list) >= m
    BY <1>2, MaxIs
  <2>3. \A p \in s.list : p \in Nat
    OBVIOUS
  <2>4. ASSUME NEW p \in s.list, packets[p].sequence = i
        PROVE  p \in first \cup later
    <3>1. CASE p = Max(s.list)
      BY <2>4, <3>1
    <3>2. CASE p # Max(s.list)
      <4>1. packets[Max(s.list)].sequence # i
        BY <2>2, <2>4, <3>2
      <4>2. first = {}
        BY <4>1
      <4>3. p \in others
        BY <2>2, <2>3, <3>2, <4>2
      <4>4. p \in match /\ \A q \in match : q = p
        BY <2>4, <4>3
      <4>5. QED
        BY <2>3, <4>4
    <3>3. QED
      BY <3>1, <3>2
  <2>5. \A p \in first \cup later : packets[p].sequence = i
    OBVIOUS
  <2>6. QED
    BY <2>1, <2>4, <2>5
<1>3. QED
  BY <1>1, <1>2

\* f records the walk over the numbers from `from' to m.
Walks(f, from, m, before, got) ==
  f = [i \in from .. m |-> IF i = from THEN before ELSE Unlinked(f[i - 1], i, i \in got)]

\* There is such a record for every m: the equation in Walked defines a function.
LEMMA WalkExists ==
  ASSUME NEW from \in Nat, NEW before, NEW got, NEW m \in Nat
  PROVE  \E f : Walks(f, from, from + m, before, got)
<1> DEFINE S == {n \in Nat : ~\E f : Walks(f, from, from + n, before, got)}
<1>1. SUFFICES ASSUME S # {} PROVE FALSE
  OBVIOUS
<1>2. PICK n \in S : \A k \in S : n <= k
  BY <1>1, Least
<1>3. CASE n = 0
  <2> DEFINE f == [i \in from .. from |-> before]
  <2>1. f = [i \in from .. from |-> IF i = from THEN before ELSE Unlinked(f[i - 1], i, i \in got)]
    OBVIOUS
  <2>2. Walks(f, from, from, before, got)
    BY <2>1 DEF Walks
  <2>3. from + n = from
    BY <1>3
  <2>4. QED
    BY <2>2, <2>3
<1>4. CASE n # 0
  <2>1. n - 1 \in Nat /\ n - 1 \notin S /\ n \in Nat
    BY <1>2, <1>4
  <2> DEFINE k == from + (n - 1)
             m1 == from + n
  <2>2. PICK f : Walks(f, from, k, before, got)
    BY <2>1
  <2>3. k \in Nat /\ m1 \in Nat /\ m1 = k + 1 /\ from <= k /\ k = m1 - 1
    BY <2>1
  <2> HIDE DEF k, m1
  <2>4. \A i \in from .. k : f[i] = IF i = from THEN before ELSE Unlinked(f[i - 1], i, i \in got)
    BY <2>2 DEF Walks
  <2> DEFINE h == [i \in from .. m1 |-> IF i <= k THEN f[i] ELSE Unlinked(f[k], i, i \in got)]
  <2>5. ASSUME NEW i \in from .. m1
        PROVE  h[i] = IF i = from THEN before ELSE Unlinked(h[i - 1], i, i \in got)
    <3>1. CASE i = from
      BY <2>3, <2>4, <3>1
    <3>2. CASE i # from /\ i <= k
      <4>1. i - 1 \in from .. m1 /\ i - 1 <= k /\ i \in from .. k
        BY <2>3, <3>2
      <4>2. h[i] = f[i] /\ h[i - 1] = f[i - 1]
        BY <3>2, <4>1
      <4>3. QED
        BY <2>4, <3>2, <4>1, <4>2
    <3>3. CASE i = m1
      <4>1. i - 1 = k /\ k \in from .. m1 /\ ~(i <= k) /\ k <= k /\ i # from
        BY <2>3, <3>3
      <4>2. h[i] = Unlinked(f[k], i, i \in got) /\ h[k] = f[k]
        BY <4>1
      <4>3. QED
        BY <4>1, <4>2
    <3>4. QED
      BY <2>3, <3>1, <3>2, <3>3
  <2>6. h = [i \in from .. m1 |-> h[i]]
    OBVIOUS
  <2> HIDE DEF h
  <2>7. h = [i \in from .. m1 |-> IF i = from THEN before ELSE Unlinked(h[i - 1], i, i \in got)]
    BY <2>5, <2>6
  <2>8. Walks(h, from, m1, before, got)
    BY <2>7 DEF Walks
  <2>9. QED
    BY <2>8 DEF m1
<1>5. QED
  BY <1>3, <1>4

\* What a walk begins with.
Before(c) == [list |-> head[c], fault |-> FALSE, deleted |-> {p \in DOMAIN packets : packets[p].deleted}]

\* So what is left after the walk is the last of such a record.
LEMMA WalkedIs ==
  ASSUME NEW c, NEW got, NEW highest \in Nat,
         lastHighestAckReceived[c] \in Nat, lastHighestAckReceived[c] < highest
  PROVE  \E f : /\ Walks(f, lastHighestAckReceived[c], highest, Before(c), got)
                /\ Walked(c, highest, got) = f[highest]
<1> DEFINE from == lastHighestAckReceived[c]
           f == CHOOSE f : f = [i \in from .. highest |->
                  IF i = from THEN Before(c) ELSE Unlinked(f[i - 1], i, i \in got)]
<1>1. Walked(c, highest, got) = f[highest]
  BY DEF Walked, Before
<1>2. highest - from \in Nat /\ from + (highest - from) = highest
  OBVIOUS
<1>3. PICK h : Walks(h, from, highest, Before(c), got)
  BY <1>2, WalkExists
<1>4. Walks(f, from, highest, Before(c), got)
  BY <1>3 DEF Walks
<1>5. QED
  BY <1>1, <1>4

\* No two packets of a list have one of the numbers that are walked over.
Alone(list, from, m) ==
  \A p, q \in list : packets[p].sequence = packets[q].sequence /\ packets[p].sequence > from
                     /\ packets[p].sequence <= m => p = q

\* What a list has lost when the walk has come to number i.
Left(list, from, i) == {p \in list : ~(packets[p].sequence > from /\ packets[p].sequence <= i)}

\* One number more, of such a list.
LEMMA UnlinkedLeft ==
  ASSUME SharedTypeInv, NEW list \in SUBSET (1 .. Len(packets)), NEW from \in Nat, NEW m \in Nat,
         NEW i \in Nat, from < i, i <= m, Alone(list, from, m),
         NEW s, NEW acked, s.list = Left(list, from, i - 1)
  PROVE  Unlinked(s, i, acked).list = Left(list, from, i)
<1>1. Len(packets) \in Nat /\ packets \in Seq(Packet)
  BY LenProperties DEF SharedTypeInv
<1>2. ASSUME NEW p \in list PROVE packets[p].sequence \in Nat
  <2>1. packets[p] \in Packet
    BY <1>1, ElementOfSeq
  <2>2. QED
    BY <2>1 DEF Packet
<1>3. s.list \in SUBSET (1 .. Len(packets)) /\ s.list \subseteq list
  BY DEF Left
<1>4. ASSUME NEW p \in s.list, NEW q \in s.list,
             packets[p].sequence = i, packets[q].sequence = i
      PROVE  p = q
  BY <1>3, <1>4 DEF Alone
<1>5. Unlinked(s, i, acked).list = {p \in s.list : packets[p].sequence # i}
  BY <1>1, <1>3, <1>4, UnlinkedForgets
<1>6. ASSUME NEW p \in list
      PROVE  (packets[p].sequence > from /\ packets[p].sequence <= i)
               <=> (packets[p].sequence > from /\ packets[p].sequence <= i - 1) \/ packets[p].sequence = i
  BY <1>2
<1>7. QED
  BY <1>5, <1>6 DEF Left

\* The walk to its end.
LEMMA WalkedKeeps ==
  ASSUME SharedTypeInv, NEW c \in Connections, NEW got, NEW highest \in Nat
  PROVE  LET s == Walked(c, highest, got)
             from == lastHighestAckReceived[c]
         IN /\ WalkKeeps(s, head[c], from, highest, got)
            /\ Alone(head[c], from, highest) => s.list = Left(head[c], from, highest)
<1> DEFINE from == lastHighestAckReceived[c]
           list == head[c]
           Good(r, i) == /\ WalkKeeps(r, list, from, i, got)
                         /\ Alone(list, from, highest) => r.list = Left(list, from, i)
<1>1. from \in Nat /\ list \in SUBSET (1 .. Len(packets)) /\ packets \in Seq(Packet)
  BY DEF SharedTypeInv
<1>2. ASSUME NEW p \in list PROVE packets[p].sequence \in Nat
  <2>1. packets[p] \in Packet
    BY <1>1, ElementOfSeq
  <2>2. QED
    BY <2>1 DEF Packet
<1>3. ASSUME NEW i \in Nat, i <= from PROVE Good(Before(c), i)
  <2>1. WalkKeeps(Before(c), list, from, i, got)
    BY DEF WalkKeeps, Before
  <2>2. ASSUME NEW p \in list PROVE ~(packets[p].sequence > from /\ packets[p].sequence <= i)
    BY <1>1, <1>2, <1>3
  <2>3. Before(c).list = Left(list, from, i)
    BY <2>2 DEF Before, Left
  <2>4. QED
    BY <2>1, <2>3
<1>4. CASE highest <= from
  <2>1. Walked(c, highest, got) = Before(c)
    BY <1>4 DEF Walked, Before
  <2>2. QED
    BY <1>3, <1>4, <2>1
<1>5. CASE from < highest
  <2>1. PICK f : Walks(f, from, highest, Before(c), got) /\ Walked(c, highest, got) = f[highest]
    BY <1>1, <1>5, WalkedIs
  <2>2. \A i \in from .. highest : f[i] = IF i = from THEN Before(c) ELSE Unlinked(f[i - 1], i, i \in got)
    BY <2>1 DEF Walks
  <2> HIDE DEF Good
  <2> DEFINE S == {i \in from .. highest : ~Good(f[i], i)}
  <2>3. S = {}
    <3>1. SUFFICES ASSUME S # {} PROVE FALSE
      OBVIOUS
    <3>2. PICK i \in S : \A k \in S : i <= k
      <4>1. S \in SUBSET Nat
        BY <1>1
      <4> HIDE DEF S
      <4>2. QED
        BY <3>1, <4>1, Least
    <3>3. i \in from .. highest /\ i \in Nat /\ ~Good(f[i], i)
      BY <1>1, <3>2
    <3>4. CASE i = from
      <4>1. f[i] = Before(c)
        BY <2>2, <3>3, <3>4
      <4>2. QED
        BY <1>1, <1>3, <3>3, <3>4, <4>1
    <3>5. CASE i # from
      <4>1. i - 1 \in from .. highest /\ from < i /\ i <= highest /\ i - 1 < i
        BY <1>1, <3>3, <3>5
      <4>2. ~(i <= i - 1)
        BY <3>3
      <4>3. Good(f[i - 1], i - 1)
        BY <3>2, <4>1, <4>2
      <4>4. f[i] = Unlinked(f[i - 1], i, i \in got)
        BY <2>2, <3>3, <3>5
      <4>5. WalkKeeps(f[i], list, from, i, got)
        BY <1>1, <3>3, <4>1, <4>3, <4>4, UnlinkedKeeps DEF Good
      <4>6. Alone(list, from, highest) => f[i].list = Left(list, from, i)
        <5>1. SUFFICES ASSUME Alone(list, from, highest)
                       PROVE  Unlinked(f[i - 1], i, i \in got).list = Left(list, from, i)
          BY <4>4
        <5>2. f[i - 1].list = Left(list, from, i - 1)
          BY <4>3, <5>1 DEF Good
        <5> DEFINE r == f[i - 1]
        <5>3. r.list = Left(list, from, i - 1)
          BY <5>2
        <5> HIDE DEF r
        <5>4. \A acked : Unlinked(r, i, acked).list = Left(list, from, i)
          BY <1>1, <3>3, <4>1, <5>1, <5>3, UnlinkedLeft
        <5>5. QED
          BY <5>4 DEF r
      <4>7. QED
        BY <3>3, <4>5, <4>6 DEF Good
    <3>6. QED
      BY <3>4, <3>5
  <2>4. highest \in from .. highest
    BY <1>1, <1>5
  <2>5. Good(f[highest], highest)
    BY <2>3, <2>4
  <2>6. QED
    BY <2>1, <2>5 DEF Good
<1>6. QED
  BY <1>1, <1>4, <1>5

-----------------------------------------------------------------------------
(* The steps. *)

\* What is known of one packet.
LEMMA OfPacket ==
  ASSUME SharedTypeInv, NEW p \in 1 .. Len(packets)
  PROVE  /\ packets[p] \in Packet /\ packets[p].sequence \in Nat
         /\ packets[p].to \subseteq Connections /\ packets[p].deleted \in BOOLEAN
<1>1. packets[p] \in Packet
  BY ElementOfSeq DEF SharedTypeInv
<1>2. QED
  BY <1>1 DEF Packet

\* This packet is in the list of c, of which number a has been acknowledged.
Awaits(packet, c, a) == c \in packet.to /\ (c = Max(packet.to) => packet.sequence > a)

ListsAre ==
  \A c \in Connections : \A p \in 1 .. Len(packets) :
    p \in head[c] <=> Awaits(packets[p], c, answered[c])

\* The same, packet for packet.
LEMMA ListsPacketwise ==
  ASSUME NEW n, NEW ps, DOMAIN ps = 1 .. n, NEW list \in SUBSET (1 .. n), NEW c, NEW a
  PROVE  list = {p \in DOMAIN ps :
                   /\ c \in ps[p].to
                   /\ c = Max(ps[p].to) => ps[p].sequence > a}
           <=> \A p \in 1 .. n : p \in list <=> Awaits(ps[p], c, a)
<1>1. \A p \in 1 .. n :
        Awaits(ps[p], c, a) <=> c \in ps[p].to /\ (c = Max(ps[p].to) => ps[p].sequence > a)
  BY DEF Awaits
<1>2. {p \in DOMAIN ps : c \in ps[p].to /\ (c = Max(ps[p].to) => ps[p].sequence > a)}
        = {p \in 1 .. n : Awaits(ps[p], c, a)}
  BY <1>1, Zenon
<1>3. list = {p \in 1 .. n : Awaits(ps[p], c, a)}
        <=> \A p \in 1 .. n : p \in list <=> Awaits(ps[p], c, a)
  <2> DEFINE P(p) == Awaits(ps[p], c, a)
  <2> HIDE DEF P
  <2>1. list = {p \in 1 .. n : P(p)} <=> \A p \in 1 .. n : p \in list <=> P(p)
    OBVIOUS
  <2>2. QED
    BY <2>1 DEF P
<1>4. QED
  BY <1>2, <1>3

\* Before a step, and after it.
LEMMA Lists ==
  /\ SharedTypeInv => (OnlyTheLastForgets <=> (Apart /\ ~usedDeleted => ListsAre))
  /\ SharedTypeInv' => (OnlyTheLastForgets' <=> (Apart' /\ ~usedDeleted' => ListsAre'))
<1>1. ASSUME SharedTypeInv PROVE OnlyTheLastForgets <=> (Apart /\ ~usedDeleted => ListsAre)
  <2>1. DOMAIN packets = 1 .. Len(packets) /\ \A c \in Connections : head[c] \in SUBSET (1 .. Len(packets))
    BY <1>1, LenProperties DEF SharedTypeInv
  <2>2. \A c \in Connections :
          head[c] = {p \in DOMAIN packets :
                       /\ c \in packets[p].to
                       /\ c = Max(packets[p].to) => packets[p].sequence > answered[c]}
            <=> \A p \in 1 .. Len(packets) : p \in head[c] <=> Awaits(packets[p], c, answered[c])
    BY <2>1, ListsPacketwise
  <2>3. QED
    BY <2>2, Zenon DEF OnlyTheLastForgets, ListsAre
<1>2. ASSUME SharedTypeInv' PROVE OnlyTheLastForgets' <=> (Apart' /\ ~usedDeleted' => ListsAre')
  <2>1. /\ DOMAIN packets' = 1 .. Len(packets')
        /\ \A c \in Connections : head'[c] \in SUBSET (1 .. Len(packets'))
    BY <1>2, LenProperties DEF SharedTypeInv
  <2>2. \A c \in Connections :
          head'[c] = {p \in DOMAIN packets' :
                       /\ c \in packets'[p].to
                       /\ c = Max(packets'[p].to) => packets'[p].sequence > answered'[c]}
            <=> \A p \in 1 .. Len(packets') : p \in head'[c] <=> Awaits(packets'[p], c, answered'[c])
    BY <2>1, ListsPacketwise
  <2>3. QED
    BY <2>2, Zenon DEF OnlyTheLastForgets, ListsAre
<1>3. QED
  BY <1>1, <1>2

\* At first nothing has been sent.
LEMMA InitShared == SharedInit => SharedInv
<1> SUFFICES ASSUME SharedInit PROVE SharedInv
  OBVIOUS
<1> USE DEF SharedInit
<1>1. start \in [Connections -> Nat]
  BY Bounds
<1>2. packets \in Seq(Packet) /\ Len(packets) = 0 /\ DOMAIN packets = {} /\ 1 .. Len(packets) = {}
  BY EmptySeq
<1>3. SharedTypeInv
  <2>1. \A c \in Connections : received[c] \in Seq(start[c] + 1 .. lastSequenceSent[c])
    BY EmptySeq
  <2>2. head \in [Connections -> SUBSET (1 .. Len(packets))] /\ DOMAIN received = Connections
    OBVIOUS
  <2>3. Len(packets) <= MaxPackets
    BY <1>2, Bounds
  <2>4. lastSequenceSent \in [Connections -> Nat] /\ lastHighestAckReceived \in [Connections -> Nat]
        /\ answered \in [Connections -> Nat] /\ usedDeleted \in BOOLEAN
    BY <1>1
  <2>5. packets \in Seq(Packet)
    BY <1>2
  <2>6. QED
    BY <1>1, <2>1, <2>2, <2>3, <2>4, <2>5 DEF SharedTypeInv
<1>4. NumbersInv
  BY <1>1, <1>2 DEF NumbersInv
<1>5. PacketsInv
  BY <1>2 DEF PacketsInv
<1>6. LastConnectionDecides
  BY <1>2 DEF LastConnectionDecides, DeletedOnlyIfShared, DeletedByTheLast, OnlyTheLastForgets
<1>7. QED
  BY <1>3, <1>4, <1>5, <1>6 DEF SharedInv

\* One Packet goes through some of the connections.
LEMMA SentKeeps ==
  ASSUME SharedInv, NEW to \in SUBSET Connections, to # {}, Sent(to)
  PROVE  SharedInv'
<1> DEFINE n == Len(packets) + 1
           writer == Max(to)
           new == [sequence |-> lastSequenceSent[writer] + 1, to |-> to, deleted |-> FALSE]
<1>1. SharedTypeInv /\ NumbersInv /\ PacketsInv /\ LastConnectionDecides
  BY DEF SharedInv
<1>2. writer \in to /\ writer \in Connections
  BY Bounds, MaxIs
<1>3. /\ start' = start /\ lastHighestAckReceived' = lastHighestAckReceived /\ answered' = answered
      /\ received' = received /\ usedDeleted' = usedDeleted /\ ~usedDeleted
      /\ lastSequenceSent' = [c \in Connections |-> lastSequenceSent[c] + IF c \in to THEN 1 ELSE 0]
      /\ packets' = Append(packets, new)
      /\ head' = [c \in Connections |-> IF c \in to THEN head[c] \cup {n} ELSE head[c]]
      /\ Len(packets) < MaxPackets
  BY DEF Sent
<1>4. new \in Packet /\ new.to = to /\ new.sequence = lastSequenceSent[writer] + 1 /\ new.deleted = FALSE
  <2>1. lastSequenceSent[writer] + 1 \in Nat
    BY <1>1, <1>2 DEF SharedTypeInv
  <2>2. QED
    BY <2>1 DEF Packet
<1> HIDE DEF new, writer
<1>5. packets \in Seq(Packet) /\ Len(packets) \in Nat /\ n \in Nat /\ DOMAIN packets = 1 .. Len(packets)
  BY <1>1, LenProperties DEF SharedTypeInv
<1>6. /\ packets' \in Seq(Packet) /\ Len(packets') = n /\ packets'[n] = new
      /\ \A p \in 1 .. Len(packets) : packets'[p] = packets[p]
      /\ DOMAIN packets' = 1 .. n
  BY <1>3, <1>4, <1>5, AppendProperties, LenProperties
<1>7. /\ 1 .. n = (1 .. Len(packets)) \cup {n} /\ n \notin 1 .. Len(packets)
      /\ \A p \in 1 .. Len(packets) : p < n
  BY <1>5
<1>8. ASSUME NEW c \in Connections
      PROVE  /\ lastSequenceSent[c] \in Nat /\ lastSequenceSent'[c] \in Nat
             /\ lastSequenceSent[c] <= lastSequenceSent'[c]
             /\ lastSequenceSent'[c] <= lastSequenceSent[c] + 1
             /\ c \in to => lastSequenceSent'[c] = lastSequenceSent[c] + 1
  BY <1>1, <1>3 DEF SharedTypeInv
<1>9. SharedTypeInv'
  <2>1. ASSUME NEW c \in Connections PROVE received'[c] \in Seq(start'[c] + 1 .. lastSequenceSent'[c])
    <3>1. start[c] + 1 .. lastSequenceSent[c] \subseteq start[c] + 1 .. lastSequenceSent'[c]
      <4>1. start[c] \in Nat /\ lastSequenceSent[c] <= lastSequenceSent'[c]
            /\ lastSequenceSent[c] \in Nat /\ lastSequenceSent'[c] \in Nat
        BY <1>1, <1>8 DEF SharedTypeInv
      <4>2. QED
        BY <4>1
    <3>2. received[c] \in Seq(start[c] + 1 .. lastSequenceSent[c])
      BY <1>1 DEF SharedTypeInv
    <3>3. received[c] \in Seq(start[c] + 1 .. lastSequenceSent'[c])
      BY <3>1, <3>2, SeqMonotonic
    <3>4. received' = received /\ start' = start
      BY <1>3
    <3>5. QED
      BY <3>3, <3>4
  <2>2. lastSequenceSent' \in [Connections -> Nat]
    BY <1>3, <1>8
  <2>3. head' \in [Connections -> SUBSET (1 .. n)]
    BY <1>1, <1>3, <1>7 DEF SharedTypeInv
  <2>4. n <= MaxPackets
    BY <1>3, <1>5, Bounds
  <2>5. QED
    BY <1>1, <1>3, <1>6, <2>1, <2>2, <2>3, <2>4 DEF SharedTypeInv
<1>10. NumbersInv'
  <2> SUFFICES ASSUME NEW c \in Connections
               PROVE  /\ start[c] <= lastHighestAckReceived[c] /\ lastHighestAckReceived[c] <= answered[c]
                      /\ answered[c] <= lastSequenceSent'[c] /\ lastSequenceSent'[c] <= start[c] + n
    BY <1>3, <1>6 DEF NumbersInv
  <2>1. /\ start[c] \in Nat /\ lastHighestAckReceived[c] \in Nat /\ answered[c] \in Nat
        /\ start[c] <= lastHighestAckReceived[c] /\ lastHighestAckReceived[c] <= answered[c]
        /\ answered[c] <= lastSequenceSent[c] /\ lastSequenceSent[c] <= start[c] + Len(packets)
    BY <1>1 DEF SharedTypeInv, NumbersInv
  <2>2. QED
    BY <1>5, <1>8, <2>1
<1>11. PacketsInv'
  <2>1. ASSUME NEW p \in 1 .. n
        PROVE  /\ Max(packets'[p].to) \in packets'[p].to
               /\ packets'[p].sequence > start[Max(packets'[p].to)]
               /\ packets'[p].sequence <= lastSequenceSent'[Max(packets'[p].to)]
    <3>1. CASE p = n
      <4>1. /\ Max(packets'[p].to) = writer /\ packets'[p].to = to
            /\ packets'[p].sequence = lastSequenceSent[writer] + 1
        BY <1>4, <1>6, <3>1 DEF writer
      <4>2. start[writer] \in Nat /\ start[writer] <= lastSequenceSent[writer]
        BY <1>1, <1>2 DEF SharedTypeInv, NumbersInv
      <4>3. QED
        BY <1>2, <1>8, <4>1, <4>2
    <3>2. CASE p \in 1 .. Len(packets)
      <4> DEFINE m == Max(packets[p].to)
      <4>1. /\ m \in packets[p].to /\ packets[p].sequence > start[m]
            /\ packets[p].sequence <= lastSequenceSent[m]
        BY <1>1, <3>2 DEF PacketsInv
      <4>2. m \in Connections /\ packets[p].sequence \in Nat
        BY <1>1, <3>2, <4>1, OfPacket
      <4>3. packets[p].sequence <= lastSequenceSent'[m]
        BY <1>8, <4>1, <4>2
      <4>4. QED
        BY <1>6, <3>2, <4>1, <4>3
    <3>3. QED
      BY <1>7, <3>1, <3>2
  <2>2. ASSUME NEW p \in 1 .. n, NEW q \in 1 .. n, p < q, Max(packets'[p].to) = Max(packets'[q].to)
        PROVE  packets'[p].sequence < packets'[q].sequence
    <3>1. p \in 1 .. Len(packets) /\ packets'[p] = packets[p]
      BY <1>5, <1>6, <2>2
    <3>2. CASE q = n
      <4>1. Max(packets[p].to) = writer /\ packets'[q].sequence = lastSequenceSent[writer] + 1
        BY <1>4, <1>6, <2>2, <3>1, <3>2 DEF writer
      <4>2. packets[p].sequence <= lastSequenceSent[writer] /\ packets[p].sequence \in Nat
        BY <1>1, <3>1, <4>1, OfPacket DEF PacketsInv
      <4>3. QED
        BY <1>2, <1>8, <3>1, <4>1, <4>2
    <3>3. CASE q \in 1 .. Len(packets)
      BY <1>1, <1>6, <2>2, <3>1, <3>3 DEF PacketsInv
    <3>4. QED
      BY <1>7, <3>2, <3>3
  <2>3. ASSUME NEW c \in Connections, NEW p \in head'[c] PROVE c \in packets'[p].to
    <3>1. CASE p \in head[c]
      <4>1. p \in 1 .. Len(packets)
        BY <1>1, <3>1 DEF SharedTypeInv
      <4>2. QED
        BY <1>1, <1>6, <3>1, <4>1 DEF PacketsInv
    <3>2. CASE p \notin head[c]
      <4>1. c \in to /\ p = n
        BY <1>3, <2>3, <3>2
      <4>2. QED
        BY <1>4, <1>6, <4>1
    <3>3. QED
      BY <3>1, <3>2
  <2>4. QED
    BY <1>3, <1>6, <2>1, <2>2, <2>3 DEF PacketsInv
<1>12. DeletedOnlyIfShared'
  <2> SUFFICES ASSUME NEW c \in Connections, NEW p \in head'[c], packets'[p].deleted
               PROVE  Cardinality(packets'[p].to) > 1
    BY DEF DeletedOnlyIfShared
  <2>1. p # n
    BY <1>4, <1>6
  <2>2. p \in head[c]
    BY <1>3, <2>1
  <2>3. packets'[p] = packets[p]
    BY <1>1, <1>6, <2>2 DEF SharedTypeInv
  <2>4. QED
    BY <1>1, <2>2, <2>3 DEF LastConnectionDecides, DeletedOnlyIfShared
<1>13. DeletedByTheLast'
  <2>1. Apart' = Apart
    BY <1>3 DEF Apart
  <2> SUFFICES ASSUME Apart, NEW p \in 1 .. n, packets'[p].deleted
               PROVE  \E k \in DOMAIN received[Max(packets'[p].to)] :
                        received[Max(packets'[p].to)][k] = packets'[p].sequence
    BY <1>3, <1>6, <2>1 DEF DeletedByTheLast
  <2>2. p \in DOMAIN packets /\ packets'[p] = packets[p]
    BY <1>4, <1>5, <1>6, <1>7
  <2>3. QED
    BY <1>1, <2>2 DEF LastConnectionDecides, DeletedByTheLast
<1>14. OnlyTheLastForgets'
  <2>1. Apart' = Apart
    BY <1>3 DEF Apart
  <2>2. SUFFICES ASSUME Apart, NEW c \in Connections, NEW p \in 1 .. n
               PROVE  p \in head'[c] <=> Awaits(packets'[p], c, answered[c])
    BY <1>3, <1>6, <1>9, <2>1, Lists DEF ListsAre
  <2>3. \A q \in 1 .. Len(packets) : q \in head[c] <=> Awaits(packets[q], c, answered[c])
    BY <1>1, <1>3, <2>2, Lists DEF LastConnectionDecides, ListsAre
  <2>4. head'[c] = IF c \in to THEN head[c] \cup {n} ELSE head[c]
    BY <1>3
  <2>5. CASE p = n
    <3>1. c = writer => new.sequence > answered[c]
      <4>1. answered[c] \in Nat /\ answered[c] <= lastSequenceSent[c]
        BY <1>1 DEF SharedTypeInv, NumbersInv
      <4>2. QED
        BY <1>4, <1>8, <4>1
    <3>2. packets'[p] = new /\ Max(new.to) = writer /\ new.to = to
      BY <1>4, <1>6, <2>5 DEF writer
    <3>3. Awaits(new, c, answered[c]) <=> c \in to
      BY <3>1, <3>2 DEF Awaits
    <3>4. n \notin head[c]
      BY <1>1, <1>7 DEF SharedTypeInv
    <3>5. QED
      BY <2>4, <2>5, <3>2, <3>3, <3>4
  <2>6. CASE p \in 1 .. Len(packets)
    <3>1. p # n /\ packets'[p] = packets[p]
      BY <1>6, <1>7, <2>6
    <3>2. QED
      BY <2>3, <2>4, <2>6, <3>1
  <2>7. QED
    BY <1>7, <2>5, <2>6
<1>15. QED
  BY <1>9, <1>10, <1>11, <1>12, <1>13, <1>14 DEF SharedInv, LastConnectionDecides

\* A client reads what was sent to it.
LEMMA ReadsKeeps ==
  ASSUME SharedInv, NEW c \in Connections, NEW n \in start[c] + 1 .. lastSequenceSent[c], ClientReads(c, n)
  PROVE  SharedInv'
<1>1. SharedTypeInv /\ NumbersInv /\ PacketsInv /\ LastConnectionDecides
  BY DEF SharedInv
<1>2. /\ UNCHANGED <<lastSequenceSent, lastHighestAckReceived, packets, head, usedDeleted, start, answered>>
      /\ received' = [received EXCEPT ![c] = Append(received[c], n)]
  BY DEF ClientReads
<1>3. DOMAIN received' = Connections
      /\ \A d \in Connections : received'[d] = IF d = c THEN Append(received[c], n) ELSE received[d]
  BY <1>1, <1>2 DEF SharedTypeInv
<1>4. received[c] \in Seq(start[c] + 1 .. lastSequenceSent[c])
  BY <1>1 DEF SharedTypeInv
<1>5. received'[c] \in Seq(start[c] + 1 .. lastSequenceSent[c])
      /\ \A k \in DOMAIN received[c] : k \in DOMAIN received'[c] /\ received'[c][k] = received[c][k]
  <2>1. /\ Append(received[c], n) \in Seq(start[c] + 1 .. lastSequenceSent[c])
        /\ Len(Append(received[c], n)) = Len(received[c]) + 1
        /\ \A k \in 1 .. Len(received[c]) : Append(received[c], n)[k] = received[c][k]
    BY <1>4, AppendProperties
  <2>2. /\ DOMAIN received[c] = 1 .. Len(received[c]) /\ Len(received[c]) \in Nat
        /\ DOMAIN Append(received[c], n) = 1 .. Len(Append(received[c], n))
    BY <1>4, <2>1, LenProperties
  <2>3. 1 .. Len(received[c]) \subseteq 1 .. Len(received[c]) + 1
    BY <2>2
  <2>4. received'[c] = Append(received[c], n)
    BY <1>3
  <2>5. QED
    BY <2>1, <2>2, <2>3, <2>4
<1>6. SharedTypeInv'
  BY <1>1, <1>2, <1>3, <1>5 DEF SharedTypeInv
<1>7. NumbersInv' /\ PacketsInv' /\ DeletedOnlyIfShared' /\ OnlyTheLastForgets'
  BY <1>1, <1>2 DEF NumbersInv, PacketsInv, LastConnectionDecides, DeletedOnlyIfShared,
                    OnlyTheLastForgets, Apart
<1>8. DeletedByTheLast'
  <2> SUFFICES ASSUME Apart, NEW p \in DOMAIN packets, packets[p].deleted
               PROVE  \E k \in DOMAIN received'[Max(packets[p].to)] :
                        received'[Max(packets[p].to)][k] = packets[p].sequence
    BY <1>2 DEF DeletedByTheLast, Apart
  <2> DEFINE writer == Max(packets[p].to)
  <2>1. PICK k \in DOMAIN received[writer] : received[writer][k] = packets[p].sequence
    BY <1>1 DEF LastConnectionDecides, DeletedByTheLast
  <2>2. writer \in Connections
    <3>1. p \in 1 .. Len(packets)
      BY <1>1, LenProperties DEF SharedTypeInv
    <3>2. QED
      BY <1>1, <3>1, OfPacket DEF PacketsInv
  <2>3. QED
    BY <1>3, <1>5, <2>1, <2>2
<1>9. QED
  BY <1>6, <1>7, <1>8 DEF SharedInv, LastConnectionDecides

\* If the numbers of the connections are apart, one that the walk of c comes to was written
\* by c.
LEMMA NumberTells ==
  ASSUME SharedInv, Apart, NEW c \in Connections, NEW p \in 1 .. Len(packets), NEW from \in Nat, NEW m \in Nat,
         start[c] <= from, m <= lastSequenceSent[c],
         packets[p].sequence > from, packets[p].sequence <= m
  PROVE  Max(packets[p].to) = c
<1> DEFINE writer == Max(packets[p].to)
<1>1. writer \in Connections /\ packets[p].sequence > start[writer] /\ packets[p].sequence <= lastSequenceSent[writer]
  BY OfPacket DEF SharedInv, PacketsInv
<1>2. packets[p].sequence \in Nat
  BY OfPacket DEF SharedInv
<1>3. Len(packets) \in Nat /\ Len(packets) <= MaxPackets /\ MaxPackets \in Nat
  BY Bounds, LenProperties DEF SharedInv, SharedTypeInv
<1>4. \A d \in Connections : /\ start[d] \in Nat /\ lastSequenceSent[d] \in Nat
                             /\ lastSequenceSent[d] <= start[d] + Len(packets)
  BY DEF SharedInv, SharedTypeInv, NumbersInv
<1> HIDE DEF writer
<1>5. ASSUME writer # c PROVE FALSE
  <2>1. start[c] + MaxPackets < start[writer] \/ start[writer] + MaxPackets < start[c]
    BY <1>1, <1>5 DEF Apart
  <2>2. packets[p].sequence <= start[c] + MaxPackets /\ packets[p].sequence > start[c]
    BY <1>2, <1>3, <1>4
  <2>3. packets[p].sequence <= start[writer] + MaxPackets /\ packets[p].sequence > start[writer]
    BY <1>1, <1>2, <1>3, <1>4
  <2>4. QED
    BY <1>1, <1>2, <1>3, <1>4, <2>1, <2>2, <2>3
<1>6. QED
  BY <1>5 DEF writer

\* An acknowledgement arrives.
LEMMA ReceivesKeeps ==
  ASSUME SharedInv, NEW c \in Connections, NEW k \in DOMAIN received[c], ServerReceives(c, k)
  PROVE  SharedInv'
<1> DEFINE highest == received[c][k]
           got == {received[c][j] : j \in {l \in 1 .. k : received[c][l] <= highest}}
           w == Walked(c, highest, got)
           from == lastHighestAckReceived[c]
<1>1. SharedTypeInv /\ NumbersInv /\ PacketsInv /\ LastConnectionDecides
  BY DEF SharedInv
<1>2. /\ UNCHANGED <<lastSequenceSent, received, start>> /\ ~usedDeleted
      /\ head' = [head EXCEPT ![c] = w.list]
      /\ packets' = [p \in DOMAIN packets |-> [packets[p] EXCEPT !.deleted = p \in w.deleted]]
      /\ usedDeleted' = w.fault
      /\ lastHighestAckReceived' = [lastHighestAckReceived EXCEPT ![c] = highest]
      /\ answered' = [answered EXCEPT ![c] = Max({answered[c], highest})]
  BY DEF ServerReceives
<1>3. received[c] \in Seq(start[c] + 1 .. lastSequenceSent[c])
      /\ DOMAIN received[c] = 1 .. Len(received[c]) /\ Len(received[c]) \in Nat
  BY <1>1, LenProperties DEF SharedTypeInv
<1>4. highest \in start[c] + 1 .. lastSequenceSent[c] /\ start[c] \in Nat
      /\ lastSequenceSent[c] \in Nat /\ from \in Nat /\ answered[c] \in Nat
  BY <1>1, <1>3, ElementOfSeq DEF SharedTypeInv
<1>5. highest \in Nat /\ highest > start[c] /\ highest <= lastSequenceSent[c]
      /\ start[c] <= from /\ from <= answered[c]
  BY <1>1, <1>4 DEF NumbersInv
<1>6. \A m \in got : \E j \in DOMAIN received[c] : received[c][j] = m
  <2>1. 1 .. k \subseteq DOMAIN received[c]
    BY <1>3
  <2>2. QED
    BY <2>1
<1> HIDE DEF highest, got
<1>7. /\ WalkKeeps(w, head[c], from, highest, got)
      /\ Alone(head[c], from, highest) => w.list = Left(head[c], from, highest)
  BY <1>1, <1>5, WalkedKeeps
<1> HIDE DEF w, from
<1>8. packets \in Seq(Packet) /\ DOMAIN packets = 1 .. Len(packets) /\ Len(packets) \in Nat
  BY <1>1, LenProperties DEF SharedTypeInv
<1>9. ASSUME NEW p \in 1 .. Len(packets)
      PROVE  /\ packets'[p] \in Packet /\ packets'[p].sequence = packets[p].sequence
             /\ packets'[p].to = packets[p].to /\ packets'[p].deleted = (p \in w.deleted)
  <2>1. packets[p] \in Packet
    BY <1>1, OfPacket
  <2>2. PICK b \in BOOLEAN : b = (p \in w.deleted)
    <3>1. CASE p \in w.deleted
      <4>1. TRUE = (p \in w.deleted)
        BY <3>1
      <4>2. QED
        BY <4>1
    <3>2. CASE p \notin w.deleted
      <4>1. FALSE = (p \in w.deleted)
        BY <3>2
      <4>2. QED
        BY <4>1
    <3>3. QED
      BY <3>1, <3>2
  <2>3. packets'[p] = [packets[p] EXCEPT !.deleted = p \in w.deleted]
    BY <1>2, <1>8
  <2>4. packets'[p] = [packets[p] EXCEPT !.deleted = b]
    BY <2>2, <2>3
  <2>5. /\ packets'[p] \in Packet /\ packets'[p].sequence = packets[p].sequence
        /\ packets'[p].to = packets[p].to /\ packets'[p].deleted = b
    BY <2>1, <2>4 DEF Packet
  <2>6. QED
    BY <2>2, <2>5
<1>10. packets' \in Seq(Packet) /\ Len(packets') = Len(packets) /\ DOMAIN packets' = 1 .. Len(packets)
  <2>1. DOMAIN packets' = 1 .. Len(packets) /\ packets' = [p \in 1 .. Len(packets) |-> packets'[p]]
    BY <1>2, <1>8
  <2>2. packets' \in [1 .. Len(packets) -> Packet]
    BY <1>9, <2>1
  <2>3. packets' \in Seq(Packet)
    BY <1>8, <2>2
  <2>4. 1 .. Len(packets') = 1 .. Len(packets) /\ Len(packets') \in Nat
    BY <2>1, <2>3, LenProperties
  <2>5. QED
    BY <1>8, <2>1, <2>3, <2>4
<1>11. w.list \subseteq head[c] /\ \A d \in Connections : head'[d] = IF d = c THEN w.list ELSE head[d]
  BY <1>1, <1>2, <1>7 DEF SharedTypeInv, WalkKeeps
<1>12. \A d \in Connections : head'[d] \subseteq head[d] /\ head[d] \subseteq 1 .. Len(packets)
  BY <1>1, <1>11 DEF SharedTypeInv
<1>13. /\ answered'[c] \in Nat /\ answered[c] <= answered'[c] /\ highest <= answered'[c]
       /\ answered'[c] <= lastSequenceSent[c]
       /\ answered'[c] = IF answered[c] <= highest THEN highest ELSE answered[c]
  <2>1. answered'[c] = Max({answered[c], highest})
    BY <1>1, <1>2 DEF SharedTypeInv
  <2>2. {answered[c], highest} \in SUBSET Nat /\ {answered[c], highest} # {}
    BY <1>4, <1>5
  <2>3. answered[c] <= lastSequenceSent[c]
    BY <1>1 DEF NumbersInv
  <2>4. /\ Max({answered[c], highest}) \in {answered[c], highest}
        /\ Max({answered[c], highest}) >= answered[c] /\ Max({answered[c], highest}) >= highest
    <3>1. \E x \in {answered[c], highest} : \A y \in {answered[c], highest} : x >= y
      BY <1>4, <1>5
    <3>2. QED
      BY <3>1 DEF Max
  <2>5. QED
    BY <1>4, <1>5, <2>1, <2>3, <2>4
<1>14. \A d \in Connections : d # c => answered'[d] = answered[d]
  BY <1>1, <1>2 DEF SharedTypeInv
<1>15. SharedTypeInv'
  <2>1. head' \in [Connections -> SUBSET (1 .. Len(packets))]
    BY <1>1, <1>2, <1>12 DEF SharedTypeInv
  <2>2. /\ lastHighestAckReceived' \in [Connections -> Nat] /\ answered' \in [Connections -> Nat]
    BY <1>1, <1>2, <1>5, <1>13, <1>14 DEF SharedTypeInv
  <2>3. usedDeleted' \in BOOLEAN
    BY <1>2, <1>7 DEF WalkKeeps
  <2>4. QED
    BY <1>1, <1>2, <1>10, <2>1, <2>2, <2>3 DEF SharedTypeInv
<1>16. NumbersInv'
  <2> SUFFICES ASSUME NEW d \in Connections
               PROVE  /\ start[d] <= lastHighestAckReceived'[d] /\ lastHighestAckReceived'[d] <= answered'[d]
                      /\ answered'[d] <= lastSequenceSent[d] /\ lastSequenceSent[d] <= start[d] + Len(packets)
    BY <1>2, <1>10 DEF NumbersInv
  <2>1. lastHighestAckReceived'[d] = IF d = c THEN highest ELSE lastHighestAckReceived[d]
    BY <1>1, <1>2 DEF SharedTypeInv
  <2>2. lastSequenceSent[d] <= start[d] + Len(packets)
    BY <1>1 DEF NumbersInv
  <2>3. CASE d = c
    BY <1>4, <1>5, <1>13, <2>1, <2>2, <2>3
  <2>4. CASE d # c
    BY <1>1, <1>14, <2>1, <2>4 DEF NumbersInv
  <2>5. QED
    BY <2>3, <2>4
<1>17. PacketsInv'
  <2>1. \A p \in 1 .. Len(packets) : packets'[p].sequence = packets[p].sequence /\ packets'[p].to = packets[p].to
    BY <1>9
  <2>2. \A d \in Connections : \A p \in head'[d] : d \in packets'[p].to
    BY <1>1, <1>12, <2>1 DEF PacketsInv
  <2>3. QED
    BY <1>1, <1>2, <1>10, <2>1, <2>2 DEF PacketsInv
<1>18. DeletedOnlyIfShared'
  <2> SUFFICES ASSUME NEW d \in Connections, NEW p \in head'[d], packets'[p].deleted
               PROVE  Cardinality(packets'[p].to) > 1
    BY DEF DeletedOnlyIfShared
  <2>1. p \in head[d] /\ p \in 1 .. Len(packets) /\ p \in w.deleted /\ packets'[p].to = packets[p].to
    BY <1>9, <1>12
  <2>2. CASE packets[p].deleted
    BY <1>1, <2>1, <2>2 DEF LastConnectionDecides, DeletedOnlyIfShared
  <2>3. CASE ~packets[p].deleted
    <3>1. p \in head[c]
      BY <1>7, <2>1, <2>3 DEF WalkKeeps
    <3>2. p \notin w.list
      BY <1>7, <2>1, <2>3 DEF WalkKeeps
    <3>3. c \in packets[p].to /\ d \in packets[p].to /\ c # d
      BY <1>1, <1>11, <2>1, <3>1, <3>2 DEF PacketsInv
    <3>4. packets[p].to \in SUBSET Connections
      BY <1>1, <2>1, OfPacket
    <3>5. QED
      BY <2>1, <3>3, <3>4, TwoAreMore
  <2>4. QED
    BY <2>2, <2>3
<1>19. DeletedByTheLast'
  <2>1. Apart' = Apart
    BY <1>2 DEF Apart
  <2> SUFFICES ASSUME Apart, NEW p \in 1 .. Len(packets), packets'[p].deleted
               PROVE  \E j \in DOMAIN received'[Max(packets'[p].to)] :
                        received'[Max(packets'[p].to)][j] = packets'[p].sequence
    BY <1>10, <2>1 DEF DeletedByTheLast
  <2>2. /\ p \in w.deleted /\ packets'[p].to = packets[p].to
        /\ packets'[p].sequence = packets[p].sequence /\ received' = received
    BY <1>2, <1>9
  <2>3. CASE packets[p].deleted
    BY <1>1, <1>8, <2>2, <2>3 DEF LastConnectionDecides, DeletedByTheLast
  <2>4. CASE ~packets[p].deleted
    <3>1. packets[p].sequence \in got /\ packets[p].sequence > from /\ packets[p].sequence <= highest
      BY <1>7, <2>2, <2>4 DEF WalkKeeps
    <3>2. Max(packets[p].to) = c
      BY <1>4, <1>5, <3>1, NumberTells
    <3>3. QED
      BY <1>6, <2>2, <3>1, <3>2
  <2>5. QED
    BY <2>3, <2>4
<1>20. OnlyTheLastForgets'
  <2>1. Apart' = Apart
    BY <1>2 DEF Apart
  <2>2. SUFFICES ASSUME Apart PROVE ListsAre'
    BY <1>15, <2>1, Lists
  <2>3. \A d \in Connections : \A p \in 1 .. Len(packets) :
          p \in head[d] <=> Awaits(packets[p], d, answered[d])
    BY <1>1, <1>2, <2>2, Lists DEF LastConnectionDecides, ListsAre
  <2>4. Alone(head[c], from, highest)
    <3> SUFFICES ASSUME NEW p \in head[c], NEW q \in head[c], packets[p].sequence = packets[q].sequence,
                        packets[p].sequence > from, packets[p].sequence <= highest
                 PROVE  p = q
      BY DEF Alone
    <3>1. p \in 1 .. Len(packets) /\ q \in 1 .. Len(packets)
      BY <1>12
    <3>2. Max(packets[p].to) = c /\ Max(packets[q].to) = c
      BY <1>4, <1>5, <2>2, <3>1, NumberTells
    <3>3. packets[p].sequence \in Nat /\ packets[q].sequence \in Nat
      BY <1>1, <3>1, OfPacket
    <3>4. ~(p < q) /\ ~(q < p)
      BY <1>1, <3>1, <3>2, <3>3 DEF PacketsInv
    <3>5. QED
      BY <1>8, <3>1, <3>4
  <2>5. w.list = Left(head[c], from, highest)
    BY <1>7, <2>4
  <2>6. ASSUME NEW d \in Connections, NEW p \in 1 .. Len(packets)
        PROVE  p \in head'[d] <=> Awaits(packets'[p], d, answered'[d])
    <3>1. packets'[p].sequence = packets[p].sequence /\ packets'[p].to = packets[p].to
      BY <1>9
    <3>2. CASE d # c
      <4>1. head'[d] = head[d] /\ answered'[d] = answered[d]
        BY <1>11, <1>14, <3>2
      <4>2. QED
        BY <2>3, <3>1, <4>1 DEF Awaits
    <3>3. CASE d = c
      <4>1. p \in head'[c] <=> p \in head[c] /\ ~(packets[p].sequence > from /\ packets[p].sequence <= highest)
        BY <1>11, <2>5 DEF Left
      <4>2. packets[p].sequence \in Nat
        BY <1>1, OfPacket
      <4>3. CASE Max(packets[p].to) = c
        <5>1. packets[p].sequence > answered'[c]
                <=> packets[p].sequence > answered[c] /\ ~(packets[p].sequence > from /\ packets[p].sequence <= highest)
          BY <1>4, <1>5, <1>13, <4>2
        <5>2. QED
          BY <2>3, <3>1, <3>3, <4>1, <4>3, <5>1 DEF Awaits
      <4>4. CASE Max(packets[p].to) # c
        <5>1. ~(packets[p].sequence > from /\ packets[p].sequence <= highest)
          BY <1>4, <1>5, <2>2, <4>4, NumberTells
        <5>2. QED
          BY <2>3, <3>1, <3>3, <4>1, <4>4, <5>1 DEF Awaits
      <4>5. QED
        BY <4>3, <4>4
    <3>4. QED
      BY <3>2, <3>3
  <2>7. QED
    BY <1>10, <2>6 DEF ListsAre
<1>21. QED
  BY <1>15, <1>16, <1>17, <1>18, <1>19, <1>20 DEF SharedInv, LastConnectionDecides

-----------------------------------------------------------------------------
(* The invariant, and what follows. *)

\* Every step keeps it.
LEMMA NextShared == SharedInv /\ [SharedNext]_sharedVars => SharedInv'
<1> SUFFICES ASSUME SharedInv, [SharedNext]_sharedVars PROVE SharedInv'
  OBVIOUS
<1>1. CASE TickSends
  <2>1. Connections # {}
    BY Bounds
  <2>2. QED
    BY <1>1, <2>1, SentKeeps DEF TickSends
<1>2. ASSUME NEW c \in Connections, InitialData(c) PROVE SharedInv'
  BY <1>2, SentKeeps DEF InitialData
<1>3. ASSUME NEW c \in Connections, NEW n \in start[c] + 1 .. lastSequenceSent[c], ClientReads(c, n)
      PROVE  SharedInv'
  BY <1>3, ReadsKeeps
<1>4. ASSUME NEW c \in Connections, NEW k \in DOMAIN received[c], ServerReceives(c, k) PROVE SharedInv'
  BY <1>4, ReceivesKeeps
<1>5. CASE UNCHANGED sharedVars
  BY <1>5 DEF sharedVars, SharedInv, SharedTypeInv, NumbersInv, PacketsInv, LastConnectionDecides,
              DeletedOnlyIfShared, DeletedByTheLast, OnlyTheLastForgets, Apart
<1>6. QED
  BY <1>1, <1>2, <1>3, <1>4, <1>5 DEF SharedNext

\* Of all the connections that a packet went through, the last decides what becomes of it,
\* for any number of connections and packets, and however the acknowledgements come.
THEOREM LastAlwaysDecides == SharedSpec => []LastConnectionDecides
<1>1. SharedInv => LastConnectionDecides
  BY DEF SharedInv
<1>2. QED
  BY <1>1, InitShared, NextShared, PTL DEF SharedSpec
=============================================================================
