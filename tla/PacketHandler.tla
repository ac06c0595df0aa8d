--------------------------- MODULE PacketHandler ---------------------------
(***************************************************************************)
(* The two ends of an established connection, the server's                 *)
(* network::Connection and the client's network::Client, both of which are *)
(* PacketHandlers: they number the datagrams they send, acknowledge the    *)
(* ones they receive with a highest number and a bit mask below it, and    *)
(* keep the packets they have sent until the other end has answered them.  *)
(* UDP lies between them: net[e] holds every datagram ever sent to e, and  *)
(* e may read any of them, in any order, more than once or never.          *)
(***************************************************************************)
EXTENDS Integers

CONSTANTS
  SeqMod,    \* numbers are unsigned int: 2^32
  MaskBits,  \* bits of ackMask, a uint64_t: 64, which divides 2^32
  IntBits,   \* bits of the int that `1 << checkBit' shifts: 32
  Starts,    \* the numbers randomInt() may give a new connection
  MaxSent    \* bound: the datagrams that each end sends

End == {"server", "client"}
other(e) == IF e = "server" THEN "client" ELSE "server"

ASSUME PacketAssumption ==
  /\ SeqMod \in Nat /\ MaskBits \in Nat /\ IntBits \in Nat
  /\ 1 < IntBits /\ IntBits <= MaskBits
  /\ MaxSent \in [End -> Nat]
  /\ \A e \in End : MaskBits + MaxSent[e] <= SeqMod
  /\ Starts \subseteq 0 .. SeqMod - 1

VARIABLES
  lastSequenceSent,
  lastSequenceReceived,
  lastHighestAckReceived,
  ackMask,     \* the set of the bits that are 1
  head,        \* the numbers of the packets in the list of sent packets
  stuck,       \* the loop of readPacket() never ends
  net,
  start,       \* history: the number that each end started from
  got,         \* history: the numbers that each end has read
  answered,    \* history: the newest of its own numbers each end saw acknowledged
  orderly      \* history: each datagram read was the newest, by less than MaskBits

vars == <<lastSequenceSent, lastSequenceReceived, lastHighestAckReceived,
          ackMask, head, stuck, net, start, got, answered, orderly>>

Bits == 0 .. MaskBits - 1
Sequence == 0 .. SeqMod - 1
Datagram == [seq : Sequence, ack : Sequence, mask : SUBSET Bits]

(* Unsigned subtraction: how far a lies behind b. *)
Behind(a, b) == (b - a) % SeqMod

(* mask << n; the processor takes the count modulo the width. *)
ShiftLeft(mask, n) == {b \in Bits : b - (n % MaskBits) \in mask}

(* Mutant: off by one. *)
OneShifted_NextBit(n) == {(n + 1) % MaskBits}

(* The bits of 1 << n, an int that is extended to 64 bits with its sign. *)
OneShifted(n) ==
  IF n % IntBits = IntBits - 1 THEN IntBits - 1 .. MaskBits - 1 ELSE {n % IntBits}

-----------------------------------------------------------------------------
(* The server draws both numbers at random and hands them over in the      *)
(* handshake, where each becomes the other's of the client.                *)
Init ==
  /\ start \in [End -> Starts]
  /\ lastSequenceSent = start
  /\ lastSequenceReceived = [e \in End |-> start[other(e)]]
  /\ lastHighestAckReceived = start
  /\ ackMask = [e \in End |-> {}]
  /\ head = [e \in End |-> {}]
  /\ stuck = [e \in End |-> FALSE]
  /\ net = [e \in End |-> {}]
  /\ got = [e \in End |-> {}]
  /\ answered = start
  /\ orderly = [e \in End |-> TRUE]

(* Connection::sendPacket and Client::sendPacket: list is what the list of *)
(* sent packets is before it.                                              *)
sendPacket(e, ack, mask, list) ==
  LET seq == (lastSequenceSent[e] + 1) % SeqMod IN
  /\ Behind(start[e], lastSequenceSent[e]) < MaxSent[e]   \* bound
  /\ lastSequenceSent' = [lastSequenceSent EXCEPT ![e] = seq]
  /\ net' = [net EXCEPT ![other(e)] = @ \cup {[seq |-> seq, ack |-> ack, mask |-> mask]}]
  /\ head' = [head EXCEPT ![e] = {seq} \cup list]

(* Mutant: `<' for `<='. *)
Walked_OneShort(e, d) ==
  LET from == IF lastHighestAckReceived[e] = 0 THEN d.ack - 1
              ELSE lastHighestAckReceived[e] IN
  (from + 1) % SeqMod .. d.ack - 1

(* The numbers that the loop of readPacket() walks through: from the one   *)
(* after lastHighestAckReceived to the highest acknowledged.               *)
Walked(e, d) ==
  LET from == IF lastHighestAckReceived[e] = 0 THEN d.ack - 1
              ELSE lastHighestAckReceived[e] IN
  (from + 1) % SeqMod .. d.ack

(* The loop's verdict on number i: ackPacket() if so, resendPacket() if not. *)
Acked(d, i) ==
  /\ d.ack - i < MaskBits
  /\ OneShifted(d.ack - i) \cap d.mask # {}

(* ackPacket() and resendPacket() both take the node out of the list. *)
Kept(e, d) == head[e] \ Walked(e, d)

(* Mutant: the mask is not shifted. *)
newMask_Unshifted(e, d) == ackMask[e] \cup {0}

newMask(e, d) ==
  ShiftLeft(ackMask[e], Behind(lastSequenceReceived[e], d.seq)) \cup {0}

(* `i <= receivedHighestSequenceAck' always holds for the largest number. *)
Endless(d) == d.ack = SeqMod - 1

readPacket(e, d) ==
  /\ d \in net[e] /\ ~stuck[e] /\ ~Endless(d)
  /\ ackMask' = [ackMask EXCEPT ![e] = newMask(e, d)]
  /\ lastHighestAckReceived' = [lastHighestAckReceived EXCEPT ![e] = d.ack]
  /\ lastSequenceReceived' = [lastSequenceReceived EXCEPT ![e] = d.seq]
  /\ got' = [got EXCEPT ![e] = @ \cup {d.seq}]
  /\ orderly' = [orderly EXCEPT
       ![e] = @ /\ Behind(lastSequenceReceived[e], d.seq) < MaskBits]
  /\ answered' = [answered EXCEPT
       ![e] = IF Behind(start[e], @) < Behind(start[e], d.ack) THEN d.ack ELSE @]
  /\ UNCHANGED <<stuck, start>>

(* Network::tick: an update for every connection. *)
Tick ==
  /\ ~stuck["server"]
  /\ sendPacket("server", lastSequenceReceived["server"], ackMask["server"], head["server"])
  /\ UNCHANGED <<lastSequenceReceived, lastHighestAckReceived, ackMask, stuck, start,
                 got, answered, orderly>>

(* Connection::receiveUDP. *)
ServerReceives(d) ==
  /\ readPacket("server", d)
  /\ head' = [head EXCEPT !["server"] = Kept("server", d)]
  /\ UNCHANGED <<lastSequenceSent, net>>

(* Client::receiveUDP, which answers every datagram. *)
ClientReceives(d) ==
  /\ readPacket("client", d)
  /\ sendPacket("client", d.seq, newMask("client", d), Kept("client", d))

(* The end that reads the acknowledgement of the largest number never      *)
(* comes back from readPacket(): the loop goes through all numbers, again  *)
(* and again, and takes every packet out of the list.                      *)
NeverReturns(e, d) ==
  /\ d \in net[e] /\ ~stuck[e] /\ Endless(d)
  /\ ackMask' = [ackMask EXCEPT ![e] = newMask(e, d)]
  /\ head' = [head EXCEPT ![e] = {}]
  /\ stuck' = [stuck EXCEPT ![e] = TRUE]
  /\ answered' = [answered EXCEPT
       ![e] = IF Behind(start[e], @) < Behind(start[e], d.ack) THEN d.ack ELSE @]
  /\ UNCHANGED <<lastSequenceSent, lastSequenceReceived, lastHighestAckReceived,
                 net, start, got, orderly>>

Next ==
  \/ Tick
  \/ \E d \in net["server"] : ServerReceives(d)
  \/ \E d \in net["client"] : ClientReceives(d)
  \/ \E e \in End : \E d \in net[e] : NeverReturns(e, d)

Spec == Init /\ [][Next]_vars

-----------------------------------------------------------------------------
TypeOK ==
  /\ start \in [End -> Sequence]
  /\ lastSequenceSent \in [End -> Sequence]
  /\ lastSequenceReceived \in [End -> Sequence]
  /\ lastHighestAckReceived \in [End -> Sequence]
  /\ ackMask \in [End -> SUBSET Bits]
  /\ head \in [End -> SUBSET Sequence]
  /\ stuck \in [End -> BOOLEAN]
  /\ net \in [End -> SUBSET Datagram]
  /\ got \in [End -> SUBSET Sequence]
  /\ answered \in [End -> Sequence]
  /\ orderly \in [End -> BOOLEAN]

(* How many datagrams had been sent when e sent number n. *)
Nth(e, n) == Behind(start[e], n)

(* Neither end is ever told of a number that it has not sent: numbers and  *)
(* acknowledgements agree from the handshake on, whatever the network does. *)
AcksAreOfSentPackets ==
  \A e \in End :
    /\ Nth(e, lastSequenceReceived[other(e)]) <= Nth(e, lastSequenceSent[e])
    /\ \A d \in net[e] : Nth(e, d.ack) <= Nth(e, lastSequenceSent[e])

(* "ack mask is a mask of the messages the client has successfully         *)
(* received": true of the mask an end keeps and of every mask it sent, bit *)
(* by bit, as long as it reads datagrams in the order they were sent and   *)
(* fewer than MaskBits in a row are lost, across the wrap of the numbers.  *)
MaskOf(e, top) == {b \in Bits : (top - b) % SeqMod \in got[e]}

MasksTrueInOrder ==
  \A e \in End : orderly[e] =>
    /\ ~stuck[e] => ackMask[e] = MaskOf(e, lastSequenceReceived[e])
    /\ \A d \in net[other(e)] : d.mask = MaskOf(e, d.ack)

(* When the other end reads in order and the walk is shorter than an int   *)
(* is wide, a packet is taken for acknowledged exactly when the other end  *)
(* has read it, and taken for dropped exactly when it has not.             *)
VerdictsRight ==
  \A e \in End : orderly[other(e)] =>
    \A d \in net[e] : \A i \in Walked(e, d) :
      d.ack - i < IntBits - 1 => (Acked(d, i) <=> i \in got[other(e)])

(* The list of sent packets holds exactly those that no acknowledgement    *)
(* has reached, also when acknowledgements arrive late, twice or in        *)
(* another order; as long as the numbers have not wrapped.                 *)
ListIsTheUnanswered ==
  \A e \in End : 0 < start[e] /\ start[e] <= lastSequenceSent[e] =>
    head[e] = answered[e] + 1 .. lastSequenceSent[e]

=============================================================================
