---------------------------- MODULE Connections ----------------------------
(***************************************************************************)
(* How clients join and leave a server.  Three kinds of threads of the     *)
(* server share its registries without a lock: the one that accepts        *)
(* sockets, the engine's loop (receive() and tick()), and one for the      *)
(* initial data of each client that has joined.                            *)
(*                                                                         *)
(* A client opens a TCP connection and sends the checksum of its build; it *)
(* gets a secret and its first sequence numbers, sends the secret once by  *)
(* UDP, so that the server learns its address, and is told by TCP that it  *)
(* has joined.  TCP keeps the order of messages.  UDP loses, repeats and   *)
(* delays them: a datagram once sent stays in udp or updates, and may be   *)
(* read at any time, again, or never.                                      *)
(*                                                                         *)
(* What one thread does to a registry, or a connection, takes a while, and *)
(* another may come upon it half done.  Such a thing is under way between  *)
(* two steps here: the insert of a secret as long as `accepting' says,     *)
(* initial data as long as `joining' does, and a walk over the vector as   *)
(* long as `walk' does.  A step of another thread that needs the same data *)
(* meanwhile either is early or late enough, or it crashes the server.     *)
(*                                                                         *)
(* A client stands for its connection, its secret and its address as well. *)
(***************************************************************************)
EXTENDS Integers, Sequences, FiniteSets

CONSTANTS
  Client,    \* each opens one connection
  Matching,  \* the clients whose checksum is the server's
  Absent,    \* no entry in a map
  Null       \* an entry that is nullptr

ASSUME ConnectionAssumption ==
  /\ Matching \subseteq Client
  /\ Absent \notin Client /\ Null \notin Client /\ Absent # Null

VARIABLES
  (* the client: its sockets, what it knows, and Client::initialized *)
  socket,        \* "closed", "open", or "gone" with its process
  secret,        \* "none", "known", or "garbage" read from an error message
  initialized,
  (* the streams of TCP, and the datagrams ever sent to either side *)
  toServer, toClient,
  udp,           \* from clients to the server
  updates,       \* the clients that the server has sent one
  (* the server *)
  accepting,     \* the connection that acceptServer() has yet to give its secret
  slots, size,   \* the memory of the vector `connections', and its size
  walk,          \* the loop over slots: of receive(), of tick(), or "none"
  at, last,      \* where it is, and the end that it fixed before
  handshake,
  secretToConnection,
  udpAddressToConnection,
  joining,       \* connections whose thread sendInitialData has yet to run
  joined,        \* how many such threads were ever started
  crash          \* the undefined behaviour after which nothing is known of it

client == <<socket, secret, initialized>>
loop == <<walk, at, last>>
registries == <<slots, size, handshake, secretToConnection, udpAddressToConnection>>
vars == <<client, toServer, toClient, udp, updates, accepting, loop, registries,
          joining, joined, crash>>

Up == crash = "none"
(* isInitialized() is true exactly of these. *)
Ready(c) == handshake[c] = "PACKET_READY"
Live(c) == handshake[c] \notin {"none", "deleted"}

(* An engine's access to secretToConnection, while a secret is inserted.   *)
MapUsed == {"none"} \cup (IF accepting # Absent THEN {"map moved"} ELSE {})
(* Its access to the lists and numbers of a connection, while the thread   *)
(* of the initial data may be in its sendPacket().                         *)
ConnectionUsed(c) == {"none"} \cup (IF c \in joining THEN {"connection shared"} ELSE {})
(* A push_back while the vector is walked moves the elements, or has room. *)
(* (A loop over no elements is no step of its own.)                        *)
VectorPushed == {"none"} \cup (IF at # 0 \/ size = 0 THEN {"vector moved"} ELSE {})

Datagram == [from : Client, what : {"secret", "packet"}]

Init ==
  /\ socket = [c \in Client |-> "closed"]
  /\ secret = [c \in Client |-> "none"]
  /\ initialized = [c \in Client |-> FALSE]
  /\ toServer = [c \in Client |-> "nothing"]
  /\ toClient = [c \in Client |-> <<>>]
  /\ udp = {}
  /\ updates = {}
  /\ accepting = Absent
  /\ slots = <<>> /\ size = 0
  /\ walk = "none" /\ at = 0 /\ last = 0
  /\ handshake = [c \in Client |-> "none"]
  /\ secretToConnection = [c \in Client |-> Absent]
  /\ udpAddressToConnection = [c \in Client |-> Absent]
  /\ joining = {}
  /\ joined = [c \in Client |-> 0]
  /\ crash = "none"

-----------------------------------------------------------------------------
(* The client, for as long as there is a server. *)

(* Client::open sends the checksum right away. *)
Open(c) ==
  /\ Up /\ socket[c] = "closed"
  /\ socket' = [socket EXCEPT ![c] = "open"]
  /\ toServer' = [toServer EXCEPT ![c] = "checksum"]
  /\ UNCHANGED <<secret, initialized, toClient, udp, updates, accepting, loop,
                 registries, joining, joined, crash>>

(* Client::close does nothing: sockets close when the process ends. *)
Leave(c) ==
  /\ Up /\ socket[c] = "open"
  /\ socket' = [socket EXCEPT ![c] = "gone"]
  /\ UNCHANGED <<secret, initialized, toServer, toClient, udp, updates, accepting,
                 loop, registries, joining, joined, crash>>

(* Client::receiveTCP reads the secret and, with it, the request to send it *)
(* by UDP; then that it has joined.  It takes an error message, which has   *)
(* the length of a secret and two numbers, for these.                       *)
ClientReceivesTCP(c) ==
  /\ Up /\ socket[c] = "open" /\ ~initialized[c] /\ toClient[c] # <<>>
  /\ toClient' = [toClient EXCEPT ![c] = Tail(@)]
  /\ \/ /\ Head(toClient[c]) = "secret"
        /\ secret' = [secret EXCEPT ![c] = "known"]
        /\ udp' = udp \cup {[from |-> c, what |-> "secret"]}
        /\ UNCHANGED initialized
     \/ /\ Head(toClient[c]) = "error"
        /\ secret' = [secret EXCEPT ![c] = "garbage"]
        /\ UNCHANGED <<initialized, udp>>
     \/ /\ Head(toClient[c]) = "joined"
        /\ initialized' = [initialized EXCEPT ![c] = TRUE]
        /\ UNCHANGED <<secret, udp>>
  /\ UNCHANGED <<socket, toServer, updates, accepting, loop, registries, joining,
                 joined, crash>>

(* Client::receiveUDP answers what it reads with a packet. *)
ClientReceivesUDP(c) ==
  /\ Up /\ socket[c] = "open" /\ c \in updates
  /\ udp' = udp \cup {[from |-> c, what |-> "packet"]}
  /\ UNCHANGED <<client, toServer, toClient, updates, accepting, loop, registries,
                 joining, joined, crash>>

-----------------------------------------------------------------------------
(* acceptServer(), a thread of its own, in two steps: the loop may come in  *)
(* between, and between the beginning and the end of the second.            *)

AcceptPushes(c) ==
  /\ Up /\ accepting = Absent
  /\ socket[c] # "closed" /\ handshake[c] = "none"
  /\ accepting' = c
  /\ slots' = SubSeq(slots, 1, size) \o <<c>> \o SubSeq(slots, size + 2, Len(slots))
  /\ size' = size + 1
  /\ handshake' = [handshake EXCEPT ![c] = "WAIT_FOR_CHECKSUM"]
  /\ crash' \in VectorPushed
  /\ UNCHANGED <<client, toServer, toClient, udp, updates, loop,
                 secretToConnection, udpAddressToConnection, joining, joined>>

(* The insert is done.  If the connection was deleted in the meantime, its  *)
(* secret is read from memory that was freed: what it was, or something     *)
(* else.                                                                    *)
AcceptInserts ==
  /\ Up /\ accepting # Absent
  /\ accepting' = Absent
  /\ \/ secretToConnection' = [secretToConnection EXCEPT ![accepting] = accepting]
     \/ ~Live(accepting) /\ UNCHANGED secretToConnection
  /\ UNCHANGED <<client, toServer, toClient, udp, updates, loop, slots, size,
                 handshake, udpAddressToConnection, joining, joined, crash>>

-----------------------------------------------------------------------------
(* The engine's loop. *)

(* Mutant: pop_back() for erase(). *)
removeConnection_PopsBack(c) ==
  /\ size' = size - 1
  /\ udpAddressToConnection' =
       IF Ready(c) THEN [udpAddressToConnection EXCEPT ![c] = Null]
       ELSE udpAddressToConnection
  /\ secretToConnection' = [secretToConnection EXCEPT ![c] = Null]
  /\ UNCHANGED slots

(* vector::erase moves the elements behind c forward by one; the last slot  *)
(* keeps what it holds.                                                     *)
removeConnection(c) ==
  LET i == CHOOSE k \in 1 .. size : slots[k] = c IN
  /\ slots' = [k \in DOMAIN slots |->
                 IF i <= k /\ k < size THEN slots[k + 1] ELSE slots[k]]
  /\ size' = size - 1
  /\ udpAddressToConnection' =
       IF Ready(c) THEN [udpAddressToConnection EXCEPT ![c] = Null]
       ELSE udpAddressToConnection
  /\ secretToConnection' = [secretToConnection EXCEPT ![c] = Null]

(* `delete this', which looks for the secret to forget it. *)
Delete(c) ==
  /\ removeConnection(c)
  /\ crash' \in MapUsed
  /\ handshake' = [handshake EXCEPT ![c] = "deleted"]

(* Connection::receiveTCP.  The client sends nothing but its checksum. *)
NothingToRead(c) ==
  /\ toServer[c] = "nothing" /\ socket[c] # "gone"
  /\ UNCHANGED <<toServer, toClient, registries, crash>>

Checksum(c) ==
  /\ toServer[c] = "checksum" /\ handshake[c] = "WAIT_FOR_CHECKSUM"
  /\ toServer' = [toServer EXCEPT ![c] = "nothing"]
  /\ \/ /\ c \in Matching
        /\ toClient' = [toClient EXCEPT ![c] = Append(@, "secret")]
        /\ handshake' = [handshake EXCEPT ![c] = "WAIT_FOR_SECRET"]
        /\ UNCHANGED <<slots, size, secretToConnection, udpAddressToConnection, crash>>
     \/ /\ c \notin Matching
        /\ toClient' = [toClient EXCEPT ![c] = Append(@, "error")]
        /\ Delete(c)

(* Mutant: EAGAIN is taken for the end of the stream. *)
EndOfStream_OnAgain(c) ==
  /\ toServer[c] = "nothing"
  /\ Delete(c)
  /\ UNCHANGED <<toServer, toClient>>

EndOfStream(c) ==
  /\ toServer[c] = "nothing" /\ socket[c] = "gone"
  /\ Delete(c)
  /\ UNCHANGED <<toServer, toClient>>

(* The loop `for(x: connections)' of receive() or tick(), if there are any. *)
StartsWalk(which, end) == end > 0 /\ walk' = which /\ at' = 1 /\ last' = end

GoesOn == at < last /\ at' = at + 1 /\ UNCHANGED <<walk, last>>

WalkEnds == at = last /\ walk' = "none" /\ at' = 0 /\ last' = 0

(* receive() has read what came by UDP. *)
StartSweep ==
  /\ Up /\ walk = "none"
  /\ StartsWalk("receive", size)
  /\ UNCHANGED <<client, toServer, toClient, udp, updates, accepting, registries,
                 joining, joined, crash>>

(* One turn of receive()'s loop over connections.  After the last, tick()  *)
(* sends to the connections there are if an object has changed.            *)
Visit ==
  /\ Up /\ walk = "receive"
  /\ LET c == slots[at] IN
     \/ Live(c) /\ (NothingToRead(c) \/ Checksum(c) \/ EndOfStream(c))
     \/ /\ ~Live(c)
        /\ crash' = "deleted connection visited"
        /\ UNCHANGED <<toServer, toClient, registries>>
  /\ \/ GoesOn
     \/ WalkEnds
     \/ at = last /\ StartsWalk("tick", size')
  /\ UNCHANGED <<client, udp, updates, accepting, joining, joined>>

(* One turn of its loop, a sendPacket().  Where a connection that has not  *)
(* joined would have its address there is nothing yet, and nothing arrives.*)
TickVisit ==
  /\ Up /\ walk = "tick"
  /\ GoesOn \/ WalkEnds
  /\ updates' = updates \cup {c \in {slots[at]} : Ready(c)}
  /\ crash' \in ConnectionUsed(slots[at])
  /\ UNCHANGED <<client, toServer, toClient, udp, accepting, registries, joining, joined>>

(* Mutant: a secret that was heard before is not redundant. *)
Addressed_NotBySecrets(d) == udpAddressToConnection[d.from] # Absent /\ d.what = "packet"

(* The sender's address has an entry. *)
Addressed(d) == udpAddressToConnection[d.from] # Absent

(* A datagram that comes from anywhere else should hold a secret. *)
Discarded(d) ==
  /\ ~Addressed(d)
  /\ d.what # "secret" \/ secretToConnection[d.from] = Absent
  /\ crash' \in MapUsed
  /\ UNCHANGED <<udpAddressToConnection, handshake, toClient, joining, joined>>

(* Mutant: initializeUDP() does not tell the client. *)
Joins_Untold(d) ==
  LET c == secretToConnection[d.from] IN
  /\ ~Addressed(d) /\ d.what = "secret"
  /\ c \in Client /\ Live(c)
  /\ udpAddressToConnection' = [udpAddressToConnection EXCEPT ![d.from] = c]
  /\ handshake' = [handshake EXCEPT ![c] = "PACKET_READY"]
  /\ joining' = joining \cup {c}
  /\ joined' = [joined EXCEPT ![c] = @ + 1]
  /\ crash' \in MapUsed
  /\ UNCHANGED toClient

(* initializeUDP(), and a thread for the initial data. *)
Joins(d) ==
  LET c == secretToConnection[d.from] IN
  /\ ~Addressed(d) /\ d.what = "secret"
  /\ c \in Client /\ Live(c)
  /\ udpAddressToConnection' = [udpAddressToConnection EXCEPT ![d.from] = c]
  /\ handshake' = [handshake EXCEPT ![c] = "PACKET_READY"]
  /\ toClient' = [toClient EXCEPT ![c] = Append(@, "joined")]
  /\ joining' = joining \cup {c}
  /\ joined' = [joined EXCEPT ![c] = @ + 1]
  /\ crash' \in MapUsed

(* The entry is nullptr, or was inserted for a connection already deleted. *)
StaleSecret(d) ==
  LET c == secretToConnection[d.from] IN
  /\ ~Addressed(d) /\ d.what = "secret"
  /\ c # Absent /\ c \notin {k \in Client : Live(k)}
  /\ udpAddressToConnection' = [udpAddressToConnection EXCEPT ![d.from] = c]
  /\ crash' = "secret of a deleted connection"
  /\ UNCHANGED <<handshake, toClient, joining, joined>>

(* A redundant secret is passed over, a packet read.  What the engine does *)
(* with it is the subject of PacketHandler.                                *)
Served(d) ==
  /\ Addressed(d)
  /\ \/ d.what = "secret" /\ crash' = "none"
     \/ /\ d.what = "packet" /\ udpAddressToConnection[d.from] # Null
        /\ crash' \in ConnectionUsed(udpAddressToConnection[d.from])
  /\ UNCHANGED <<udpAddressToConnection, handshake, toClient, joining, joined>>

StaleAddress(d) ==
  /\ Addressed(d)
  /\ d.what = "packet" /\ udpAddressToConnection[d.from] = Null
  /\ crash' = "packet of a deleted connection"
  /\ UNCHANGED <<udpAddressToConnection, handshake, toClient, joining, joined>>

(* receive() reads what has come by UDP before it walks the connections.   *)
ServerReceivesUDP(d) ==
  /\ Up /\ walk = "none" /\ d \in udp
  /\ Discarded(d) \/ Joins(d) \/ StaleSecret(d) \/ Served(d) \/ StaleAddress(d)
  /\ UNCHANGED <<client, toServer, udp, updates, accepting, loop, slots, size,
                 secretToConnection>>

(* The thread of sendInitialData holds a pointer to its connection; it is  *)
(* done.                                                                   *)
SendInitialData(c) ==
  /\ Up /\ c \in joining
  /\ joining' = joining \ {c}
  /\ \/ /\ Live(c)
        /\ updates' = updates \cup {c}
        /\ UNCHANGED crash
     \/ /\ ~Live(c)
        /\ crash' = "deleted connection sent to"
        /\ UNCHANGED updates
  /\ UNCHANGED <<client, toServer, toClient, udp, accepting, loop, registries, joined>>

Next ==
  \/ \E c \in Client : Open(c) \/ Leave(c) \/ ClientReceivesTCP(c) \/ ClientReceivesUDP(c)
  \/ \E c \in Client : AcceptPushes(c) \/ SendInitialData(c)
  \/ AcceptInserts
  \/ \E d \in udp : ServerReceivesUDP(d)
  \/ StartSweep \/ Visit \/ TickVisit

Spec == Init /\ [][Next]_vars

(* The engine calls receive() and tick() again and again, and each time it *)
(* reads the datagrams first; a secret that has been sent is not lost.     *)
Fairness ==
  /\ WF_vars(StartSweep \/ Visit \/ TickVisit)
  /\ \A c \in Client : WF_vars(ClientReceivesTCP(c))
  /\ \A c \in Client : SF_vars(ServerReceivesUDP([from |-> c, what |-> "secret"]))

FairSpec == Spec /\ Fairness

-----------------------------------------------------------------------------
(* What a connection that was deleted is good for. *)
UsesOfDeleted == {"deleted connection visited", "deleted connection sent to",
                  "secret of a deleted connection", "packet of a deleted connection"}

TypeOK ==
  /\ socket \in [Client -> {"closed", "open", "gone"}]
  /\ secret \in [Client -> {"none", "known", "garbage"}]
  /\ initialized \in [Client -> BOOLEAN]
  /\ toServer \in [Client -> {"nothing", "checksum"}]
  /\ toClient \in [Client -> Seq({"secret", "error", "joined"})]
  /\ udp \subseteq Datagram
  /\ updates \subseteq Client
  /\ accepting \in Client \cup {Absent}
  /\ slots \in Seq(Client)
  /\ size \in 0 .. Len(slots)
  /\ walk \in {"none", "receive", "tick"}
  /\ at \in 0 .. last /\ last \in 0 .. Len(slots)
  /\ handshake \in [Client -> {"none", "WAIT_FOR_CHECKSUM", "WAIT_FOR_SECRET",
                               "PACKET_READY", "deleted"}]
  /\ secretToConnection \in [Client -> Client \cup {Absent, Null}]
  /\ udpAddressToConnection \in [Client -> Client \cup {Absent, Null}]
  /\ joining \subseteq Client
  /\ joined \in [Client -> Nat]
  /\ crash \in {"none", "vector moved", "map moved", "connection shared"} \cup UsesOfDeleted

(* The vector holds every connection that is alive, once, and no other,    *)
(* also while the loop that erases from it goes on.                        *)
VectorExact ==
  \A c \in Client :
    Cardinality({i \in 1 .. size : slots[i] = c}) = IF Live(c) THEN 1 ELSE 0

(* "something really wrong, close the connection": receiveUDP() is called  *)
(* for the connections that have joined, from their address, and no other. *)
AddressesReady ==
  Up => \A c \in Client :
    /\ udpAddressToConnection[c] \in {c, Absent, Null}
    /\ udpAddressToConnection[c] = c <=> Ready(c)

(* The three registries agree: the vector with the connections that are    *)
(* alive, the maps with their handshakes, also in the middle of the loop   *)
(* that erases and while the accepting thread is between its two steps.    *)
RegistriesAgree == TypeOK /\ VectorExact /\ AddressesReady

(* However often its secret arrives, a client gets its initial data once.  *)
JoinsOnce == \A c \in Client : joined[c] <= 1

(* Datagrams may overtake what was sent by TCP; still, no client reads one *)
(* before it has the numbers to check it against.                          *)
NumbersFirst ==
  \A c \in Client : [from |-> c, what |-> "packet"] \in udp => secret[c] = "known"

(* The server serves the clients of its own build, keeps them as long as   *)
(* they stay, and lets no other get past the checksum.                     *)
OnlyMatchingServed ==
  \A c \in Client :
    /\ c \notin Matching => c \notin updates /\ secret[c] # "known"
    /\ c \in Matching /\ socket[c] = "open" => handshake[c] # "deleted"

(* A handshake goes through its steps in order, once, and for the right    *)
(* clients, however TCP, UDP and the threads interleave.                   *)
HandshakeInOrder == JoinsOnce /\ NumbersFirst /\ OnlyMatchingServed

(* The clients that were there and are not, or are not welcome. *)
Lost == {c \in Client : socket[c] = "gone" \/ (socket[c] = "open" /\ c \notin Matching)}

(* Nothing uses a connection after it was deleted as long as all clients   *)
(* stay and are of the server's build, whatever comes late or twice, nor   *)
(* has the accepting thread yet to read the secret of one; and the loop    *)
(* that erases from the vector it walks comes upon a deleted one only when *)
(* two clients are lost: a single one it survives, pushes in the middle of *)
(* it included.                                                            *)
FreedNeedsLoss ==
  /\ crash \in UsesOfDeleted => Lost # {}
  /\ accepting # Absent /\ ~Live(accepting) => Lost # {}
  /\ crash = "deleted connection visited" => \A c \in Client : Lost # {c}

(* A client whose secret was registered before it could use it joins, or   *)
(* leaves.  (If the accepting thread falls behind, the secret is discarded *)
(* and the client, which sends it once, waits for ever.)                   *)
HandshakeEnds ==
  \A c \in Matching :
    (socket[c] = "open" /\ secret[c] = "none" /\ secretToConnection[c] = c)
      ~> (initialized[c] \/ socket[c] = "gone" \/ ~Up)

=============================================================================
