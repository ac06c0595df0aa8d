--------------------------- MODULE SharedPackets ---------------------------
(***************************************************************************)
(* The lists of sent packets of a server with several connections.         *)
(* Network::tick() sends one Packet through all of them: each connection   *)
(* writes its own number into the header before it sends it, and each adds *)
(* the same Packet to its list.  PacketHandler is one connection whose     *)
(* packets are its own; there the list is what has not been answered.      *)
(* Numbers do not wrap here, and an acknowledgement names what was read.   *)
(***************************************************************************)
EXTENDS Naturals, Sequences, FiniteSets, FiniteSetsExt

CONSTANTS
  NumConnections,  \* in the order of the vector
  Starts,          \* the numbers that the connections may start from
  MaxPackets,      \* bound: packets sent
  MaxReads         \* bound: datagrams each client reads

Connections == 1 .. NumConnections

ASSUME SharedAssumption ==
  /\ NumConnections \in Nat \ {0}   \* without any, tick() sends nothing
  /\ MaxPackets \in Nat /\ MaxReads \in Nat
  /\ Starts \subseteq [Connections -> Nat]

VARIABLES
  lastSequenceSent,
  lastHighestAckReceived,
  packets,      \* every Packet sent: the number in its header now, the connections
                \* it went through, whether it has been deleted
  head,         \* per connection, the list of sent packets: newest first
  received,     \* per client, the numbers it has read, in order
  usedDeleted,  \* a packet that was deleted has been used: the model stops
  start,        \* history: the numbers that the connections started from
  answered      \* history: the highest number acknowledged to each

sharedVars == <<lastSequenceSent, lastHighestAckReceived, packets, head, received,
                usedDeleted, start, answered>>

SharedInit ==
  /\ start \in Starts
  /\ lastSequenceSent = start
  /\ lastHighestAckReceived = start
  /\ packets = <<>>
  /\ head = [c \in Connections |-> {}]
  /\ received = [c \in Connections |-> <<>>]
  /\ usedDeleted = FALSE
  /\ answered = start

\* Connection::sendPacket, of one Packet through each of the connections of to.
Sent(to) ==
  /\ ~usedDeleted
  /\ Len(packets) < MaxPackets
  /\ lastSequenceSent' = [c \in Connections |-> lastSequenceSent[c] + IF c \in to THEN 1 ELSE 0]
  /\ packets' = Append(packets, [sequence |-> lastSequenceSent[Max(to)] + 1,
                                 to |-> to, deleted |-> FALSE])
  /\ head' = [c \in Connections |->
                IF c \in to THEN head[c] \cup {Len(packets) + 1} ELSE head[c]]
  /\ UNCHANGED <<lastHighestAckReceived, received, usedDeleted, start, answered>>

\* Network::tick.
TickSends == Sent(Connections)

\* sendInitialData.
InitialData(c) == Sent({c})

\* The client of c reads a datagram, in any order, and will acknowledge it.
ClientReads(c, n) ==
  /\ ~usedDeleted
  /\ Len(received[c]) < MaxReads
  /\ received' = [received EXCEPT ![c] = Append(@, n)]
  /\ UNCHANGED <<lastSequenceSent, lastHighestAckReceived, packets, head, usedDeleted, start, answered>>

-----------------------------------------------------------------------------
(* The lists. *)

\* Mutant: a packet that was dropped is deleted as well.
Unlinked_DropDeletes(s, i, acked) ==
  LET gone == {p \in s.list : packets[p].sequence = i} IN
  [list |-> s.list \ gone, deleted |-> s.deleted \cup gone,
   fault |-> s.fault \/ s.list \cap s.deleted # {}]

\* deleteNodeFromList(i) and deleteNodeAndPacketFromList(i): the first node is looked
\* at and goes if it matches; then the others behind what is now the first, up to one
\* that matches.
Unlinked(s, i, acked) ==
  IF s.list = {} THEN s
  ELSE
    LET first  == {p \in {Max(s.list)} : packets[p].sequence = i}
        rest   == s.list \ first
        others == {p \in rest : \E q \in rest : q > p}
        match  == {p \in others : packets[p].sequence = i}
        later  == {p \in match : \A q \in match : p >= q}
        seen   == {Max(s.list)} \cup {p \in others : \A m \in later : p >= m}
    IN [list    |-> rest \ later,
        deleted |-> IF acked THEN s.deleted \cup first \cup later ELSE s.deleted,
        fault   |-> s.fault \/ seen \cap s.deleted # {}]

\* The loop of readPacket() over the numbers up to highest.
Walked(c, highest, got) ==
  LET from == lastHighestAckReceived[c]
      before == [list |-> head[c], fault |-> FALSE,
                 deleted |-> {p \in DOMAIN packets : packets[p].deleted}]
      after[i \in from .. highest] ==
        IF i = from THEN before ELSE Unlinked(after[i - 1], i, i \in got)
  IN IF highest <= from THEN before ELSE after[highest]

\* Connection::receiveUDP, of what the client sent after its kth datagram: the number
\* of that one, and a mask of those at and below it.
ServerReceives(c, k) ==
  LET highest == received[c][k]
      got     == {received[c][j] : j \in {l \in 1 .. k : received[c][l] <= highest}}
      walked  == Walked(c, highest, got)
  IN
  /\ ~usedDeleted
  /\ head' = [head EXCEPT ![c] = walked.list]
  /\ packets' = [p \in DOMAIN packets |-> [packets[p] EXCEPT !.deleted = p \in walked.deleted]]
  /\ usedDeleted' = walked.fault
  /\ lastHighestAckReceived' = [lastHighestAckReceived EXCEPT ![c] = highest]
  /\ answered' = [answered EXCEPT ![c] = Max({@, highest})]
  /\ UNCHANGED <<lastSequenceSent, received, start>>

SharedNext ==
  \/ TickSends
  \/ \E c \in Connections : InitialData(c)
  \/ \E c \in Connections : \E n \in start[c] + 1 .. lastSequenceSent[c] : ClientReads(c, n)
  \/ \E c \in Connections : \E k \in DOMAIN received[c] : ServerReceives(c, k)

SharedSpec == SharedInit /\ [][SharedNext]_sharedVars

-----------------------------------------------------------------------------
(* Properties. *)

\* The numbers of two connections are apart, as two numbers drawn at random out of
\* 2^32 nearly always are.
Apart ==
  \A c, d \in Connections : c # d =>
    start[c] + MaxPackets < start[d] \/ start[d] + MaxPackets < start[c]

\* A packet is used after it was deleted, or is in a list when it is, only if it went
\* through more than one connection, however their numbers lie.
DeletedOnlyIfShared ==
  \A c \in Connections : \A p \in head[c] :
    packets[p].deleted => Cardinality(packets[p].to) > 1

\* A packet is deleted, for all connections, when the last of those it went through is
\* told that its own client has read it: whether the others' have is not asked.
DeletedByTheLast ==
  Apart => \A p \in DOMAIN packets :
    packets[p].deleted =>
      \E k \in DOMAIN received[Max(packets[p].to)] :
        received[Max(packets[p].to)][k] = packets[p].sequence

\* A list is the packets that no acknowledgement has reached, for the connection that
\* wrote its number into them last.  The other connections never find them: a packet
\* of tick() stays in the lists of all but the last connection for ever.
OnlyTheLastForgets ==
  Apart /\ ~usedDeleted => \A c \in Connections :
    head[c] = {p \in DOMAIN packets :
                 /\ c \in packets[p].to
                 /\ c = Max(packets[p].to) => packets[p].sequence > answered[c]}

\* Of all the connections that a packet went through, the last decides what becomes of
\* it: its list alone ever forgets the packet, and its client's answer deletes it for
\* all of them; a packet of one connection is never used after that.
LastConnectionDecides == DeletedOnlyIfShared /\ DeletedByTheLast /\ OnlyTheLastForgets
=============================================================================
