---------------------------- MODULE Replication ----------------------------
(***************************************************************************)
(* How the objects of the server reach its clients.  Every object has an   *)
(* update mask with a bit per property: a setter sets the bit, tick() packs *)
(* what the bits name into one Packet, clears them, and sends that Packet  *)
(* through every connection.  A client that joins is sent everything, by a *)
(* thread of its own (sendInitialData) that packs the objects one by one   *)
(* while the loop goes on.                                                 *)
(*                                                                         *)
(* Server and clients have made the same objects, with the same ids, before *)
(* they meet (main.cc).  A value is the number of the change that brought  *)
(* it, 0 before the first.  How connections come and go is Connections, how *)
(* datagrams are numbered and acknowledged is PacketHandler, and how one   *)
(* Packet fares in the lists of many connections is SharedPackets.         *)
(***************************************************************************)
EXTENDS Naturals, Sequences, FiniteSetsExt, Functions

CONSTANTS
  Clients,      \* the clients and their connections
  NumObjects,   \* objects, in the order of remoteObjects
  NumProps,     \* properties of an object, in the order of the mask
  Refused,      \* the changes whose value a client's setter throws at
  Unmarked,     \* properties that also change without their bit (addHealth)
  MaxChanges,   \* bound: changes of a property
  MaxPackets,   \* bound: packets sent
  MaxReads,     \* bound: datagrams that a client reads
  MaxKills      \* bound: objects that die, at the server and at the clients

Objects == 1 .. NumObjects
Props   == 1 .. NumProps

ASSUME ReplicationAssumption ==
  /\ NumObjects \in Nat /\ NumProps \in Nat
  /\ MaxChanges \in Nat /\ MaxPackets \in Nat /\ MaxReads \in Nat /\ MaxKills \in Nat
  /\ Refused \subseteq 1 .. MaxChanges
  /\ Unmarked \subseteq Props

CREATE == "REMOTE_OBJECT_CREATE"
UPDATE == "REMOTE_OBJECT_UPDATE"

VARIABLES
  \* @type: the server's objects
  alive,               \* the objects in remoteObjects
  value,
  updateMask,          \* the set of the bits that are 1
  \* @type: the server's connections
  thread,              \* per connection, the thread of its initial data
  packets,             \* how many packets have been sent
  \* @type: UDP, where everything may be lost, repeated and reordered
  net,                 \* per client, the datagrams sent to it
  \* @type: the clients
  copy,                \* what each knows of each object
  idToRemoteObject,    \* the ids whose entry is the object of that id
  strays,              \* the ids for which an object was made under another id
  read,                \* the datagrams that each has read, as a sequence
  own,                 \* <<client, object, property>> that the client has changed itself
                       \* since it was last sent a value of it
  \* history, for the properties
  changes,
  missed,              \* who has missed the newest change of what, to a race
  dropped,             \* each client has dropped the rest of a packet
  crash                \* undefined behaviour has happened: the model stops

objects == <<alive, value, updateMask>>
client  == <<copy, idToRemoteObject, strays, read, own, dropped>>
vars    == <<objects, thread, packets, net, client, changes, missed, crash>>

Init ==
  /\ alive = Objects
  /\ value = [o \in Objects |-> [p \in Props |-> 0]]
  /\ updateMask = [o \in Objects |-> {}]
  /\ thread = [c \in Clients |-> [pc |-> "none", at |-> 0, packed |-> <<>>]]
  /\ packets = 0
  /\ net = [c \in Clients |-> <<>>]
  /\ copy = [c \in Clients |-> value]
  /\ idToRemoteObject = [c \in Clients |-> Objects]
  /\ strays = [c \in Clients |-> {}]
  /\ read = [c \in Clients |-> <<>>]
  /\ own = {}
  /\ changes = 0
  /\ missed = {}
  /\ dropped = [c \in Clients |-> FALSE]
  /\ crash = "none"

-----------------------------------------------------------------------------
(* The server's objects. *)

\* The client's initial data hold object o, or hold it already and were sent.
Served(c, o) ==
  \/ thread[c].pc = "done"
  \/ thread[c].pc # "none" /\ o <= thread[c].at

\* A setter, which ends with writeUpdateMask().
Set(o, p) ==
  /\ crash = "none" /\ o \in alive
  /\ changes < MaxChanges
  /\ value' = [value EXCEPT ![o][p] = changes + 1]
  /\ updateMask' = [updateMask EXCEPT ![o] = @ \cup {p}]
  /\ changes' = changes + 1
  /\ missed' = missed \ {<<c, o, p>> : c \in Clients}
  /\ UNCHANGED <<alive, thread, packets, net, client, crash>>

\* addHealth() and addMaxHealth(), which write no mask.
AddUnmarked(o, p) ==
  /\ crash = "none" /\ o \in alive
  /\ changes < MaxChanges
  /\ value' = [value EXCEPT ![o][p] = changes + 1]
  /\ changes' = changes + 1
  /\ missed' = missed \cup {<<c, o, p>> : c \in {d \in Clients : Served(d, o)}}
  /\ UNCHANGED <<alive, updateMask, thread, packets, net, client, crash>>

Kills ==
  Cardinality(Objects \ alive)
  + Cardinality({co \in Clients \X Objects : co[2] \notin idToRemoteObject[co[1]]})

\* The range-for of a thread is not done with the vector that o leaves, or o is the
\* object it is packing.
Walking(c, o) ==
  /\ thread[c].pc \in {"walk", "zero"} /\ thread[c].at > 0
  /\ \/ \E q \in alive : q > thread[c].at
     \/ thread[c].pc = "zero" /\ thread[c].at = o

\* The destructor, and removeRemoteObject(): no client is told.
Kill(o) ==
  /\ crash = "none" /\ o \in alive
  /\ Kills < MaxKills
  /\ alive' = alive \ {o}
  /\ crash' = IF \E c \in Clients : Walking(c, o) THEN "walk" ELSE "none"
  /\ UNCHANGED <<value, updateMask, thread, packets, net, client, changes, missed>>

-----------------------------------------------------------------------------
(* Sending. *)

ready(c) == thread[c].pc # "none"

\* One Packet is sent through the connections of to.  A connection that has no address
\* yet sends it nowhere.
Sent(to, type, chunks) ==
  /\ packets < MaxPackets
  /\ packets' = packets + 1
  /\ net' = [c \in Clients |->
               IF c \in to /\ ready(c)
               THEN Append(net[c], [type |-> type, chunks |-> chunks])
               ELSE net[c]]

Updated == {o \in alive : updateMask[o] # {}}

pack(o) == [p \in updateMask[o] |-> value[o][p]]

\* Mutant: the loop ends after one object.
Packed_One == [o \in {Min(Updated)} |-> pack(o)]

Packed == [o \in Updated |-> pack(o)]

\* Network::tick.
Tick ==
  /\ crash = "none"
  /\ Updated # {}
  /\ Sent(Clients, UPDATE, Packed)
  /\ updateMask' = [o \in Objects |-> IF o \in Updated THEN {} ELSE updateMask[o]]
  /\ missed' = missed \cup
       {cop \in Clients \X Updated \X Props :
          /\ cop[3] \in updateMask[cop[2]]
          /\ thread[cop[1]].pc \in {"walk", "zero"} /\ Served(cop[1], cop[2])}
  /\ UNCHANGED <<alive, value, thread, client, changes, crash>>

\* A client's secret has come: initializeUDP(), and the thread begins.
Join(c) ==
  /\ crash = "none" /\ thread[c].pc = "none"
  /\ thread' = [thread EXCEPT ![c].pc = "walk"]
  /\ UNCHANGED <<objects, packets, net, client, changes, missed, crash>>

Left(c) == {o \in alive : o > thread[c].at}

\* sendInitialData packs an object: it writes every property ...
InitialWrites(c) ==
  /\ crash = "none" /\ thread[c].pc = "walk"
  /\ Left(c) # {}
  /\ LET o == Min(Left(c)) IN
     thread' = [thread EXCEPT ![c] =
       [pc |-> "zero", at |-> o,
        packed |-> [q \in DOMAIN @.packed \cup {o} |->
                      IF q = o THEN value[o] ELSE @.packed[q]]]]
  /\ UNCHANGED <<objects, packets, net, client, changes, missed, crash>>

\* ... and then clears the mask, what was set in between included.
InitialZeroes(c) ==
  /\ crash = "none" /\ thread[c].pc = "zero"
  /\ LET o == thread[c].at IN
     /\ updateMask' = [updateMask EXCEPT ![o] = {}]
     /\ missed' = missed \cup
          {<<d, o, p>> : d \in {e \in Clients \ {c} : Served(e, o)}, p \in updateMask[o]}
          \cup {<<c, o, p>> : p \in {q \in updateMask[o] : thread[c].packed[o][q] # value[o][q]}}
  /\ thread' = [thread EXCEPT ![c].pc = "walk"]
  /\ UNCHANGED <<alive, value, packets, net, client, changes, crash>>

InitialSends(c) ==
  /\ crash = "none" /\ thread[c].pc = "walk"
  /\ Left(c) = {}
  /\ Sent({c}, CREATE, thread[c].packed)
  /\ thread' = [thread EXCEPT ![c] = [pc |-> "done", at |-> @.at, packed |-> <<>>]]
  /\ UNCHANGED <<objects, client, changes, missed, crash>>

-----------------------------------------------------------------------------
(* The clients. *)

\* unpack() stops at the first value that a setter throws at.
Accepted(fields) ==
  {p \in DOMAIN fields : \A q \in DOMAIN fields : q <= p => fields[q] \notin Refused}

\* A chunk that cannot be handled: a setter throws, or there is no object to update.
Throws(c, d, o) ==
  \/ Accepted(d.chunks[o]) # DOMAIN d.chunks[o]
  \/ d.type = UPDATE /\ o \notin idToRemoteObject[c]

\* Mutant: a packet that cannot be handled to its end is not handled at all.
Reached_AllOrNone(c, d) ==
  {o \in DOMAIN d.chunks : \A q \in DOMAIN d.chunks : ~Throws(c, d, q)}

\* The chunks that handlePacket() comes to: those behind one that throws are dropped.
Reached(c, d) == {o \in DOMAIN d.chunks : \A q \in DOMAIN d.chunks : q < o => ~Throws(c, d, q)}

\* The properties of its object o that c takes from d.
Taken(c, d, o) ==
  IF o \in Reached(c, d) \cap idToRemoteObject[c] THEN Accepted(d.chunks[o]) ELSE {}

\* Client::receiveUDP and handlePacket().  A datagram that is older than one read
\* before is handled like any other.
ClientReceives(c, n) ==
  LET d == net[c][n] IN
  /\ crash = "none"
  /\ copy' = [copy EXCEPT ![c] = [o \in Objects |->
       [p \in Props |-> IF p \in Taken(c, d, o) THEN d.chunks[o][p] ELSE @[o][p]]]]
  /\ strays' = [strays EXCEPT ![c] =
       IF d.type = CREATE THEN @ \cup (Reached(c, d) \ idToRemoteObject[c]) ELSE @]
  /\ Len(read[c]) < MaxReads
  /\ read' = [read EXCEPT ![c] = Append(@, n)]
  /\ own' = {cop \in own : ~(cop[1] = c /\ cop[3] \in Taken(c, d, cop[2]))}
  /\ dropped' = [dropped EXCEPT ![c] = @ \/ \E o \in DOMAIN d.chunks : Throws(c, d, o)]
  /\ UNCHANGED <<objects, thread, packets, net, idToRemoteObject, changes, missed, crash>>

\* The scripts and the input run at the client as at the server, and no call asks which
\* of the two it is at: a move, a shot or a setter changes the client's own object.  The
\* bit that a setter sets there is never read, since only a server ticks.
ClientSets(c, o, p) ==
  /\ crash = "none"
  /\ o \in idToRemoteObject[c]
  /\ changes < MaxChanges
  /\ copy' = [copy EXCEPT ![c][o][p] = changes + 1]
  /\ own' = own \cup {<<c, o, p>>}
  /\ changes' = changes + 1
  /\ UNCHANGED <<objects, thread, packets, net, idToRemoteObject, strays, read, dropped,
                 missed, crash>>

\* Its unit may die there, too.
ClientKills(c, o) ==
  /\ crash = "none"
  /\ o \in idToRemoteObject[c]
  /\ Kills < MaxKills
  /\ idToRemoteObject' = [idToRemoteObject EXCEPT ![c] = @ \ {o}]
  /\ UNCHANGED <<objects, thread, packets, net, copy, strays, read, own,
                 dropped, changes, missed, crash>>

Next ==
  \/ \E o \in Objects, p \in Props : Set(o, p)
  \/ \E o \in Objects, p \in Unmarked : AddUnmarked(o, p)
  \/ \E o \in Objects : Kill(o)
  \/ Tick
  \/ \E c \in Clients : Join(c)
  \/ \E c \in Clients : InitialWrites(c)
  \/ \E c \in Clients : InitialZeroes(c)
  \/ \E c \in Clients : InitialSends(c)
  \/ \E c \in Clients : \E n \in DOMAIN net[c] : ClientReceives(c, n)
  \/ \E c \in Clients, o \in Objects, p \in Props : ClientSets(c, o, p)
  \/ \E c \in Clients, o \in Objects : ClientKills(c, o)

Spec == Init /\ [][Next]_vars
-----------------------------------------------------------------------------
(* Properties. *)

\* Every variable has a value of its kind.
Fields   == UNION {[ps -> 0 .. MaxChanges] : ps \in SUBSET Props}
Chunks   == UNION {[os -> Fields] : os \in SUBSET Objects}
TypeOK ==
  /\ alive \subseteq Objects
  /\ packets \in 0 .. MaxPackets
  /\ value \in [Objects -> [Props -> 0 .. changes]]
  /\ updateMask \in [Objects -> SUBSET Props]
  /\ \A c \in Clients :
       /\ thread[c].pc \in {"none", "walk", "zero", "done"}
       /\ thread[c].at \in Objects \cup {0}
       /\ thread[c].packed \in Chunks
       /\ Len(net[c]) <= packets
       /\ \A n \in DOMAIN net[c] : net[c][n].type \in {CREATE, UPDATE} /\ net[c][n].chunks \in Chunks
       /\ read[c] \in Seq(DOMAIN net[c])
  /\ copy \in [Clients -> [Objects -> [Props -> 0 .. changes]]]
  /\ changes \in 0 .. MaxChanges
  /\ missed \subseteq Clients \X Objects \X Props
  /\ own \subseteq Clients \X Objects \X Props
  /\ crash \in {"none", "walk"}

\* A client has read all that was sent to it, its initial data included, in order.
ReadAll(c) == thread[c].pc = "done" /\ read[c] = [n \in DOMAIN net[c] |-> n]

\* It has the newest value of every property of o whose bit is clear, unless it missed that
\* value to one of three races: a bit cleared by the initial data of another client, a
\* bit set between the packing and the clearing of its own, or an update that its
\* initial data, packed before and sent after it, took back; or unless the change
\* was one that sets no bit; or unless it has itself changed what it was sent.
Newest(c, o) ==
  \A p \in Props \ updateMask[o] :
    <<c, o, p>> \notin missed \cup own => copy[c][o][p] = value[o][p]

\* A client that has read everything and dropped nothing is up to date.
UpToDate ==
  \A c \in Clients :
    ReadAll(c) /\ ~dropped[c] => \A o \in alive \cap idToRemoteObject[c] : Newest(c, o)

\* The masks, the chunks on their way and the copies are of the server's objects, and
\* the copies are the newest values but for the three races.
CopiesConsistent == TypeOK /\ UpToDate

\* Nothing up to o gives c a reason to throw: it has all those objects, and was sent no
\* value of them that it refuses.
Front(c, o) ==
  /\ \A q \in Objects : q <= o => q \in idToRemoteObject[c]
  /\ \A n \in DOMAIN net[c] : \A q \in DOMAIN net[c][n].chunks : q <= o =>
       \A p \in DOMAIN net[c][n].chunks[q] : net[c][n].chunks[q][p] \notin Refused

\* A chunk that throws costs a client what is behind it, packet after packet, and no more:
\* the objects in front of the first that it has lost, or that was sent a value it
\* refuses, stay up to date through all the packets that it drops the rest of.
DropsSpareTheFront ==
  \A c \in Clients :
    ReadAll(c) => \A o \in alive \cap idToRemoteObject[c] : Front(c, o) => Newest(c, o)
=============================================================================
