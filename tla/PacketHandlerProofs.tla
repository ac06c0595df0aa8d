------------------------ MODULE PacketHandlerProofs ------------------------
(***************************************************************************)
(* Two PacketHandlers keep their promises for every width of the numbers   *)
(* and of the mask, and for any number of datagrams as long as the mask    *)
(* and the datagrams of one end fit into the numbers together.             *)
(***************************************************************************)
EXTENDS PacketHandler, TLAPS

-----------------------------------------------------------------------------
(* The inductive invariant.  All distances are from the number that an end *)
(* started with, so that a wrap of the numbers does not show.              *)

(* What is on its way to the other end was sent, and nothing else. *)
SentInv ==
  \A e \in End :
    /\ Nth(e, lastSequenceSent[e]) <= MaxSent[e]
    /\ \A d \in net[other(e)] :
         1 <= Nth(e, d.seq) /\ Nth(e, d.seq) <= Nth(e, lastSequenceSent[e])

(* What was read was sent; the newest of it is what readPacket() remembers. *)
GotInv ==
  \A e \in End :
    /\ lastSequenceReceived[e] = start[other(e)] \/ lastSequenceReceived[e] \in got[e]
    /\ \A n \in got[e] : 1 <= Nth(other(e), n)
    /\ orderly[e] =>
         /\ \A n \in got[e] : Nth(other(e), n) <= Nth(other(e), lastSequenceReceived[e])
         /\ \A d \in net[other(e)] :
              Nth(other(e), d.ack) <= Nth(other(e), lastSequenceReceived[e])

(* The walk of the next readPacket() starts where an answer has been. *)
AnsweredInv ==
  \A e \in End :
    /\ Nth(e, lastHighestAckReceived[e]) <= Nth(e, answered[e])
    /\ Nth(e, answered[e]) <= Nth(e, lastSequenceSent[e])
    /\ lastHighestAckReceived[e] = SeqMod - 1 => start[e] = SeqMod - 1

Inv ==
  /\ TypeOK
  /\ AcksAreOfSentPackets
  /\ SentInv
  /\ GotInv
  /\ AnsweredInv
  /\ MasksTrueInOrder
  /\ ListIsTheUnanswered

-----------------------------------------------------------------------------
LEMMA Sizes ==
  /\ SeqMod \in Nat /\ MaskBits \in Nat /\ IntBits \in Nat
  /\ 1 < IntBits /\ IntBits <= MaskBits /\ MaskBits <= SeqMod
  /\ \A e \in End : MaxSent[e] \in Nat /\ MaskBits + MaxSent[e] <= SeqMod
<1>1. "server" \in End
  BY DEF End
<1>2. MaskBits + MaxSent["server"] <= SeqMod /\ MaxSent["server"] \in Nat
  BY <1>1, PacketAssumption
<1>3. QED BY <1>2, PacketAssumption

(* Within one turn of the numbers, the remainder is a case distinction. *)
LEMMA Modulo ==
  ASSUME NEW x \in Int, -SeqMod <= x, x < SeqMod
  PROVE  x % SeqMod = IF 0 <= x THEN x ELSE x + SeqMod
<1>1. SeqMod \in Nat /\ 0 < SeqMod
  BY Sizes
<1>2. QED BY <1>1

LEMMA BehindIs ==
  ASSUME NEW a \in Sequence, NEW b \in Sequence
  PROVE  /\ Behind(a, b) = IF a <= b THEN b - a ELSE b - a + SeqMod
         /\ Behind(a, b) \in Sequence
<1>1. a \in Int /\ b \in Int /\ SeqMod \in Int /\ -SeqMod <= b - a /\ b - a < SeqMod
  BY Sizes DEF Sequence
<1>2. (b - a) % SeqMod = IF 0 <= b - a THEN b - a ELSE b - a + SeqMod
  BY <1>1, Modulo
<1>3. QED BY <1>1, <1>2 DEF Behind, Sequence

(* The number after n. *)
LEMMA Successor ==
  ASSUME NEW n \in Sequence
  PROVE  /\ (n + 1) % SeqMod = IF n + 1 = SeqMod THEN 0 ELSE n + 1
         /\ (n + 1) % SeqMod \in Sequence
<1>1. n \in Int /\ SeqMod \in Nat /\ 0 < SeqMod /\ 0 <= n /\ n < SeqMod
  BY Sizes DEF Sequence
<1>2. CASE n + 1 = SeqMod
  <2>1. (n + 1) % SeqMod = 0
    BY <1>1, <1>2
  <2>2. QED BY <1>1, <1>2, <2>1 DEF Sequence
<1>3. CASE n + 1 # SeqMod
  <2>1. (n + 1) % SeqMod = n + 1
    BY <1>1, <1>3, Modulo
  <2>2. QED BY <1>1, <1>3, <2>1 DEF Sequence
<1>4. QED BY <1>2, <1>3

(* The number b before n, which bit b of a mask below n stands for. *)
LEMMA BitNumber ==
  ASSUME NEW n \in Sequence, NEW b \in Bits
  PROVE  /\ (n - b) % SeqMod = IF b <= n THEN n - b ELSE n - b + SeqMod
         /\ (n - b) % SeqMod \in Sequence
<1>1. /\ n \in Int /\ b \in Int /\ SeqMod \in Int
      /\ 0 <= n /\ n < SeqMod /\ 0 <= b /\ b < SeqMod
  BY Sizes DEF Sequence, Bits
<1>2. (n - b) % SeqMod = IF 0 <= n - b THEN n - b ELSE n - b + SeqMod
  BY <1>1, Modulo
<1>3. QED BY <1>1, <1>2 DEF Sequence

LEMMA Others ==
  \A e \in End : other(e) \in End /\ other(other(e)) = e /\ other(e) # e
BY DEF End, other

-----------------------------------------------------------------------------
(* What a step does to one end, whatever the action. *)

Sends(e) ==
  /\ ~stuck'[e]
  /\ Nth(e, lastSequenceSent[e]) < MaxSent[e]
  /\ lastSequenceSent'[e] = (lastSequenceSent[e] + 1) % SeqMod
  /\ net'[other(e)] = net[other(e)] \cup
       {[seq |-> lastSequenceSent'[e], ack |-> lastSequenceReceived'[e], mask |-> ackMask'[e]]}

Silent(e) ==
  /\ lastSequenceSent'[e] = lastSequenceSent[e]
  /\ net'[other(e)] = net[other(e)]

Reads(e, d) ==
  /\ d \in net[e] /\ d.ack # SeqMod - 1
  /\ ackMask'[e] = newMask(e, d)
  /\ lastHighestAckReceived'[e] = d.ack
  /\ lastSequenceReceived'[e] = d.seq
  /\ got'[e] = got[e] \cup {d.seq}
  /\ orderly'[e] = (orderly[e] /\ Behind(lastSequenceReceived[e], d.seq) < MaskBits)
  /\ answered'[e] = IF Nth(e, answered[e]) < Nth(e, d.ack) THEN d.ack ELSE answered[e]
  /\ ~stuck[e] /\ ~stuck'[e]

Unread(e) ==
  /\ lastHighestAckReceived'[e] = lastHighestAckReceived[e]
  /\ lastSequenceReceived'[e] = lastSequenceReceived[e]
  /\ got'[e] = got[e]
  /\ orderly'[e] = orderly[e]

Idle(e) ==
  /\ Unread(e)
  /\ answered'[e] = answered[e]
  /\ stuck'[e] = stuck[e] /\ ackMask'[e] = ackMask[e]

Hangs(e, d) ==
  /\ d \in net[e] /\ d.ack = SeqMod - 1
  /\ Unread(e)
  /\ answered'[e] = IF Nth(e, answered[e]) < Nth(e, d.ack) THEN d.ack ELSE answered[e]
  /\ stuck'[e]

(* list is what the list of sent packets is before anything is sent. *)
Effect(e, list) ==
  /\ \/ Idle(e) /\ list = head[e]
     \/ \E d \in net[e] : Reads(e, d) /\ list = Kept(e, d)
     \/ \E d \in net[e] : Hangs(e, d) /\ list = {}
  /\ \/ Silent(e) /\ head'[e] = list
     \/ Sends(e) /\ head'[e] = {lastSequenceSent'[e]} \cup list

LEMMA DatagramFields ==
  ASSUME TypeOK, NEW e \in End, NEW d \in net[e]
  PROVE  d.seq \in Sequence /\ d.ack \in Sequence /\ d.mask \in SUBSET Bits
BY DEF TypeOK, Datagram

LEMMA MaskInBits ==
  ASSUME NEW e, NEW d
  PROVE  newMask(e, d) \in SUBSET Bits
<1>1. 0 \in Bits
  BY Sizes DEF Bits
<1>2. QED BY <1>1 DEF newMask, ShiftLeft

LEMMA StepEffect ==
  ASSUME TypeOK, [Next]_vars
  PROVE  /\ start' = start
         /\ \A e \in End : \E list \in SUBSET head[e] : Effect(e, list)
<1> USE DEF TypeOK, Nth
<1>1. CASE Tick
  <2> USE <1>1 DEF Tick, sendPacket
  <2>1. start' = start
    OBVIOUS
  <2>2. ASSUME NEW e \in End PROVE Idle(e)
    BY DEF Idle, Unread
  <2>3. Sends("server") /\ head'["server"] = {lastSequenceSent'["server"]} \cup head["server"]
    BY DEF Sends, End, other
  <2>4. Silent("client") /\ head'["client"] = head["client"]
    BY DEF Silent, End, other
  <2>5. QED BY <2>1, <2>2, <2>3, <2>4 DEF Effect, End
<1>2. ASSUME NEW d \in net["server"], ServerReceives(d)
      PROVE  start' = start /\ \A e \in End : \E list \in SUBSET head[e] : Effect(e, list)
  <2> USE <1>2 DEF ServerReceives, readPacket
  <2>1. start' = start
    OBVIOUS
  <2>2. Reads("server", d)
    BY DEF Reads, End, Endless
  <2>3. Idle("client")
    BY DEF Idle, Unread, End
  <2>4. Silent("client") /\ Silent("server")
    BY DEF Silent, End, other
  <2>5. head'["client"] = head["client"] /\ head'["server"] = Kept("server", d)
    BY DEF End
  <2>6. Effect("client", head["client"]) /\ Effect("server", Kept("server", d))
    BY <2>2, <2>3, <2>4, <2>5 DEF Effect
  <2>7. QED BY <2>1, <2>6 DEF End, Kept
<1>3. ASSUME NEW d \in net["client"], ClientReceives(d)
      PROVE  start' = start /\ \A e \in End : \E list \in SUBSET head[e] : Effect(e, list)
  <2> USE <1>3 DEF ClientReceives, readPacket, sendPacket
  <2>1. start' = start
    OBVIOUS
  <2>2. Reads("client", d)
    BY DEF Reads, End, Endless
  <2>3. Idle("server")
    BY DEF Idle, Unread, End
  <2>4. Silent("server") /\ head'["server"] = head["server"]
    BY DEF Silent, End, other
  <2>5. /\ Sends("client")
        /\ head'["client"] = {lastSequenceSent'["client"]} \cup Kept("client", d)
    BY <2>2 DEF Sends, Reads, End, other
  <2>6. Effect("server", head["server"]) /\ Effect("client", Kept("client", d))
    BY <2>2, <2>3, <2>4, <2>5 DEF Effect
  <2>7. QED BY <2>1, <2>6 DEF End, Kept
<1>4. ASSUME NEW e \in End, NEW d \in net[e], NeverReturns(e, d)
      PROVE  start' = start /\ \A f \in End : \E list \in SUBSET head[f] : Effect(f, list)
  <2> USE <1>4 DEF NeverReturns
  <2>1. start' = start
    OBVIOUS
  <2>2. ASSUME NEW f \in End PROVE Silent(f) /\ Unread(f)
    BY Others DEF Silent, Unread
  <2>3. ASSUME NEW f \in End, f # e PROVE Idle(f) /\ head'[f] = head[f]
    BY <2>2, <2>3 DEF Idle
  <2>4. Hangs(e, d) /\ head'[e] = {}
    <3>1. d.ack = SeqMod - 1
      BY DEF Endless
    <3>2. QED BY <2>2, <3>1 DEF Hangs, Nth
  <2>5. ASSUME NEW f \in End, f # e PROVE Effect(f, head[f])
    BY <2>2, <2>3, <2>5 DEF Effect
  <2>6. Effect(e, {})
    BY <2>2, <2>4 DEF Effect
  <2>7. QED BY <2>1, <2>5, <2>6
<1>5. CASE UNCHANGED vars
  <2> USE <1>5 DEF vars
  <2>1. start' = start
    OBVIOUS
  <2>2. ASSUME NEW f \in End PROVE Idle(f) /\ Silent(f) /\ head'[f] = head[f]
    BY DEF Idle, Unread, Silent
  <2>3. QED BY <2>1, <2>2 DEF Effect
<1>6. QED BY <1>1, <1>2, <1>3, <1>4, <1>5 DEF Next

LEMMA StepType ==
  ASSUME TypeOK, [Next]_vars
  PROVE  TypeOK'
<1>1. ASSUME NEW e \in End, NEW ack \in Sequence, NEW mask \in SUBSET Bits,
             NEW list \in SUBSET Sequence, sendPacket(e, ack, mask, list)
      PROVE  /\ lastSequenceSent' \in [End -> Sequence]
             /\ net' \in [End -> SUBSET Datagram]
             /\ head' \in [End -> SUBSET Sequence]
  <2>1. (lastSequenceSent[e] + 1) % SeqMod \in Sequence
    BY Successor DEF TypeOK
  <2>2. QED BY <1>1, <2>1, Others DEF sendPacket, TypeOK, Datagram
<1>2. ASSUME NEW e \in End, NEW d, readPacket(e, d)
      PROVE  /\ start' \in [End -> Sequence]
             /\ ackMask' \in [End -> SUBSET Bits]
             /\ lastHighestAckReceived' \in [End -> Sequence]
             /\ lastSequenceReceived' \in [End -> Sequence]
             /\ got' \in [End -> SUBSET Sequence]
             /\ orderly' \in [End -> BOOLEAN]
             /\ answered' \in [End -> Sequence]
             /\ stuck' \in [End -> BOOLEAN]
  <2> USE <1>2 DEF readPacket, TypeOK
  <2>1. d.seq \in Sequence /\ d.ack \in Sequence
    BY DatagramFields
  <2>2. ackMask' \in [End -> SUBSET Bits]
    BY MaskInBits
  <2>3. /\ start' \in [End -> Sequence]
        /\ lastHighestAckReceived' \in [End -> Sequence]
        /\ lastSequenceReceived' \in [End -> Sequence]
        /\ stuck' \in [End -> BOOLEAN]
    BY <2>1
  <2>4. got' \in [End -> SUBSET Sequence]
    BY <2>1
  <2>5. orderly' \in [End -> BOOLEAN]
    OBVIOUS
  <2>6. answered' \in [End -> Sequence]
    BY <2>1
  <2>7. QED BY <2>2, <2>3, <2>4, <2>5, <2>6
<1>3. "server" \in End /\ "client" \in End
  BY DEF End
<1>4. CASE Tick
  <2>1. /\ lastSequenceSent' \in [End -> Sequence]
        /\ net' \in [End -> SUBSET Datagram]
        /\ head' \in [End -> SUBSET Sequence]
    <3>1. /\ lastSequenceReceived["server"] \in Sequence
          /\ ackMask["server"] \in SUBSET Bits
          /\ head["server"] \in SUBSET Sequence
      BY <1>3 DEF TypeOK
    <3>2. QED BY <1>1, <1>3, <1>4, <3>1 DEF Tick
  <2>2. QED BY <1>4, <2>1 DEF Tick, TypeOK
<1>5. ASSUME NEW d \in net["server"], ServerReceives(d) PROVE TypeOK'
  <2>1. head' \in [End -> SUBSET Sequence]
    BY <1>5, <1>3 DEF ServerReceives, Kept, TypeOK
  <2>2. QED BY <1>2, <1>3, <1>5, <2>1 DEF ServerReceives, TypeOK
<1>6. ASSUME NEW d \in net["client"], ClientReceives(d) PROVE TypeOK'
  <2>1. /\ d.seq \in Sequence
        /\ newMask("client", d) \in SUBSET Bits
        /\ Kept("client", d) \in SUBSET Sequence
    BY <1>3, DatagramFields, MaskInBits DEF Kept, TypeOK
  <2>2. QED BY <1>1, <1>2, <1>3, <1>6, <2>1 DEF ClientReceives, TypeOK
<1>7. ASSUME NEW e \in End, NEW d \in net[e], NeverReturns(e, d) PROVE TypeOK'
  <2>1. ackMask' \in [End -> SUBSET Bits]
    BY <1>7, MaskInBits DEF NeverReturns, TypeOK
  <2>2. d.ack \in Sequence
    BY DatagramFields
  <2>3. answered' \in [End -> Sequence] /\ head' \in [End -> SUBSET Sequence]
    BY <1>7, <2>2 DEF NeverReturns, TypeOK
  <2>4. QED BY <1>7, <2>1, <2>3 DEF NeverReturns, TypeOK
<1>8. CASE UNCHANGED vars
  BY <1>8 DEF vars, TypeOK
<1>9. QED BY <1>4, <1>5, <1>6, <1>7, <1>8 DEF Next

-----------------------------------------------------------------------------
(* Distances from the start. *)

LEMMA NthIs ==
  ASSUME TypeOK, NEW e \in End, NEW n \in Sequence
  PROVE  /\ Nth(e, n) = IF start[e] <= n THEN n - start[e] ELSE n - start[e] + SeqMod
         /\ Nth(e, n) \in Int /\ 0 <= Nth(e, n) /\ Nth(e, n) < SeqMod
         /\ n \in Int /\ 0 <= n /\ n < SeqMod
         /\ start[e] \in Int /\ 0 <= start[e] /\ start[e] < SeqMod
         /\ SeqMod \in Int
<1>1. start[e] \in Sequence
  BY DEF TypeOK
<1>2. /\ Nth(e, n) = IF start[e] <= n THEN n - start[e] ELSE n - start[e] + SeqMod
      /\ Nth(e, n) \in Sequence
  BY <1>1, BehindIs DEF Nth
<1>3. QED BY <1>1, <1>2, Sizes DEF Sequence

LEMMA NthInjective ==
  ASSUME TypeOK, NEW e \in End, NEW m \in Sequence, NEW n \in Sequence,
         Nth(e, m) = Nth(e, n)
  PROVE  m = n
<1>1. QED BY NthIs

LEMMA NthStart ==
  ASSUME TypeOK, NEW e \in End
  PROVE  start[e] \in Sequence /\ Nth(e, start[e]) = 0
<1>1. start[e] \in Sequence
  BY DEF TypeOK
<1>2. QED BY <1>1, NthIs

LEMMA NthSuccessor ==
  ASSUME TypeOK, NEW e \in End, NEW n \in Sequence, Nth(e, n) < MaxSent[e]
  PROVE  Nth(e, (n + 1) % SeqMod) = Nth(e, n) + 1
<1>1. MaxSent[e] \in Nat /\ MaskBits \in Nat /\ 1 < MaskBits /\ MaskBits + MaxSent[e] <= SeqMod
  BY Sizes
<1> DEFINE next == (n + 1) % SeqMod
<1>2. next \in Sequence /\ next = IF n + 1 = SeqMod THEN 0 ELSE n + 1
  BY Successor
<1> HIDE DEF next
<1>3. Nth(e, next) = Nth(e, n) + 1
  BY <1>1, <1>2, NthIs
<1>4. QED BY <1>3 DEF next

(* A gap of fewer than MaskBits is a step forward, not one back. *)
LEMMA NthBehind ==
  ASSUME TypeOK, NEW e \in End, NEW m \in Sequence, NEW n \in Sequence,
         Nth(e, m) <= MaxSent[e], Nth(e, n) <= MaxSent[e], Behind(m, n) < MaskBits
  PROVE  Nth(e, n) = Nth(e, m) + Behind(m, n)
<1>1. MaxSent[e] \in Nat /\ MaskBits \in Nat /\ MaskBits + MaxSent[e] <= SeqMod
  BY Sizes
<1>2. QED BY <1>1, BehindIs, NthIs

(* Below a number that was sent lie the numbers sent before it, and below  *)
(* these numbers that nobody will send.                                    *)
LEMMA NthBit ==
  ASSUME TypeOK, NEW e \in End, NEW n \in Sequence, NEW b \in Bits
  PROVE  /\ (n - b) % SeqMod \in Sequence
         /\ b \in Int /\ 0 <= b /\ b < MaskBits
         /\ Nth(e, (n - b) % SeqMod) =
              IF b <= Nth(e, n) THEN Nth(e, n) - b ELSE Nth(e, n) - b + SeqMod
<1>1. /\ b \in Int /\ 0 <= b /\ b < MaskBits
      /\ MaskBits \in Int /\ MaskBits <= SeqMod
  BY Sizes DEF Bits
<1> DEFINE below == (n - b) % SeqMod
<1>2. below \in Sequence /\ below = IF b <= n THEN n - b ELSE n - b + SeqMod
  BY BitNumber
<1> HIDE DEF below
<1>3. Nth(e, below) = IF b <= Nth(e, n) THEN Nth(e, n) - b ELSE Nth(e, n) - b + SeqMod
  BY <1>1, <1>2, NthIs
<1>4. QED BY <1>1, <1>2, <1>3 DEF below

-----------------------------------------------------------------------------
LEMMA InitInv == Init => Inv
<1> SUFFICES ASSUME Init PROVE Inv
  OBVIOUS
<1>1. TypeOK
  BY Others, PacketAssumption DEF Init, TypeOK, Sequence
<1>2. \A e \in End : Nth(e, start[e]) = 0 /\ 0 <= MaxSent[e]
  BY <1>1, NthStart, Sizes
<1>3. \A e \in End : start[e] \in Int
  BY <1>1 DEF TypeOK, Sequence
<1> USE Others, <1>2 DEF Init
<1>4. AcksAreOfSentPackets
  BY DEF AcksAreOfSentPackets
<1>5. SentInv
  BY DEF SentInv
<1>6. GotInv
  BY DEF GotInv
<1>7. AnsweredInv
  BY DEF AnsweredInv
<1>8. MasksTrueInOrder
  BY DEF MasksTrueInOrder, MaskOf
<1>9. ListIsTheUnanswered
  BY <1>3 DEF ListIsTheUnanswered
<1>10. QED BY <1>1, <1>4, <1>5, <1>6, <1>7, <1>8, <1>9 DEF Inv

(* What every step below may use of the other end. *)
LEMMA StepEnds ==
  ASSUME Inv, [Next]_vars, NEW e \in End
  PROVE  /\ other(e) \in End /\ other(other(e)) = e
         /\ \A n : Nth(e, n)' = Nth(e, n')
         /\ TypeOK /\ TypeOK'
         /\ \E list \in SUBSET head[e] : Effect(e, list)
<1>1. TypeOK
  BY DEF Inv
<1>2. start' = start
  BY <1>1, StepEffect
<1>3. QED BY <1>1, <1>2, Others, StepEffect, StepType DEF Nth

LEMMA StepSent ==
  ASSUME Inv, [Next]_vars
  PROVE  SentInv'
<1> SUFFICES ASSUME NEW e \in End
    PROVE  /\ Nth(e, lastSequenceSent'[e]) <= MaxSent[e]
           /\ \A d \in net'[other(e)] :
                /\ 1 <= Nth(e, d.seq)
                /\ Nth(e, d.seq) <= Nth(e, lastSequenceSent'[e])
  BY StepEnds DEF SentInv
<1>1. PICK list \in SUBSET head[e] : Effect(e, list)
  BY StepEnds
<1>2. /\ Nth(e, lastSequenceSent[e]) <= MaxSent[e]
      /\ \A d \in net[other(e)] :
           1 <= Nth(e, d.seq) /\ Nth(e, d.seq) <= Nth(e, lastSequenceSent[e])
  BY DEF Inv, SentInv
<1>3. /\ lastSequenceSent[e] \in Sequence /\ MaxSent[e] \in Nat
      /\ TypeOK
      /\ \A d \in net[other(e)] : d.seq \in Sequence
      /\ \A n \in Sequence : Nth(e, n) \in Int
      /\ 0 <= Nth(e, lastSequenceSent[e])
  BY StepEnds, Sizes, NthIs, DatagramFields DEF TypeOK
<1>4. CASE Silent(e)
  BY <1>2, <1>4 DEF Silent
<1>5. CASE Sends(e)
  <2>1. Nth(e, lastSequenceSent'[e]) = Nth(e, lastSequenceSent[e]) + 1
    BY <1>3, <1>5, NthSuccessor DEF Sends
  <2>2. Nth(e, lastSequenceSent[e]) < MaxSent[e]
    BY <1>5 DEF Sends
  <2>3. ASSUME NEW d \in net'[other(e)]
        PROVE  1 <= Nth(e, d.seq) /\ Nth(e, d.seq) <= Nth(e, lastSequenceSent'[e])
    <3>1. CASE d \in net[other(e)]
      BY <1>2, <1>3, <2>1, <3>1
    <3>2. CASE d \notin net[other(e)]
      <4>1. d.seq = lastSequenceSent'[e]
        BY <1>5, <3>2 DEF Sends
      <4>2. QED BY <1>3, <2>1, <4>1
    <3>3. QED BY <3>1, <3>2
  <2>4. QED BY <1>3, <2>1, <2>2, <2>3
<1>6. QED BY <1>1, <1>4, <1>5 DEF Effect

(* How far e had sent when a step began, it still has after it. *)
LEMMA SentGrows ==
  ASSUME Inv, [Next]_vars, NEW e \in End
  PROVE  /\ Nth(e, lastSequenceSent[e]) <= Nth(e, lastSequenceSent'[e])
         /\ Nth(e, lastSequenceSent[e]) \in Int
         /\ Nth(e, lastSequenceSent'[e]) \in Int
<1>1. PICK list \in SUBSET head[e] : Effect(e, list)
  BY StepEnds
<1>2. TypeOK /\ lastSequenceSent[e] \in Sequence /\ lastSequenceSent'[e] \in Sequence
  BY StepEnds DEF TypeOK
<1>3. /\ Nth(e, lastSequenceSent[e]) \in Int
      /\ Nth(e, lastSequenceSent'[e]) \in Int
  BY <1>2, NthIs
<1>4. CASE Silent(e)
  BY <1>3, <1>4 DEF Silent
<1>5. CASE Sends(e)
  <2>1. Nth(e, lastSequenceSent'[e]) = Nth(e, lastSequenceSent[e]) + 1
    BY <1>2, <1>5, NthSuccessor DEF Sends
  <2>2. QED BY <1>3, <2>1
<1>6. QED BY <1>1, <1>4, <1>5 DEF Effect

LEMMA StepAcks ==
  ASSUME Inv, [Next]_vars
  PROVE  AcksAreOfSentPackets'
<1> SUFFICES ASSUME NEW e \in End
    PROVE  /\ Nth(e, lastSequenceReceived'[other(e)]) <= Nth(e, lastSequenceSent'[e])
           /\ \A d \in net'[e] : Nth(e, d.ack) <= Nth(e, lastSequenceSent'[e])
  BY StepEnds DEF AcksAreOfSentPackets
<1> DEFINE o == other(e)
           sent == Nth(e, lastSequenceSent[e])
           sentNext == Nth(e, lastSequenceSent'[e])
<1>1. o \in End /\ other(o) = e
  BY Others
<1>2. PICK list \in SUBSET head[o] : Effect(o, list)
  BY <1>1, StepEnds
<1>3. sent <= sentNext /\ sent \in Int /\ sentNext \in Int
  BY SentGrows
<1>4. /\ Nth(e, lastSequenceReceived[o]) <= sent
      /\ \A d \in net[e] : Nth(e, d.ack) <= sent
      /\ \A d \in net[o] : Nth(e, d.seq) <= sent
  BY DEF Inv, AcksAreOfSentPackets, SentInv
<1>5. /\ TypeOK
      /\ lastSequenceReceived[o] \in Sequence /\ lastSequenceReceived'[o] \in Sequence
      /\ \A d \in net[e] : d.ack \in Sequence
      /\ \A n \in Sequence : Nth(e, n) \in Int
  BY <1>1, StepEnds, NthIs, DatagramFields DEF TypeOK
<1>6. Nth(e, lastSequenceReceived'[o]) <= sent
  BY <1>2, <1>4 DEF Effect, Idle, Reads, Hangs, Unread
<1>7. ASSUME NEW d \in net'[e] PROVE Nth(e, d.ack) <= sent
  <2>1. CASE Silent(o)
    BY <1>1, <1>4, <2>1 DEF Silent
  <2>2. CASE Sends(o)
    <3>1. CASE d \in net[e]
      BY <1>4, <3>1
    <3>2. CASE d \notin net[e]
      <4>1. d.ack = lastSequenceReceived'[o]
        BY <1>1, <2>2, <3>2 DEF Sends
      <4>2. QED BY <1>6, <4>1
    <3>3. QED BY <3>1, <3>2
  <2>3. QED BY <1>2, <2>1, <2>2 DEF Effect
<1> HIDE DEF sent, sentNext
<1>8. /\ Nth(e, lastSequenceReceived'[o]) \in Int
      /\ \A d \in net'[e] : Nth(e, d.ack) \in Int
  BY <1>5, StepEnds, DatagramFields DEF TypeOK, Datagram
<1>9. Nth(e, lastSequenceReceived'[o]) <= sentNext
  BY <1>3, <1>6, <1>8
<1>10. \A d \in net'[e] : Nth(e, d.ack) <= sentNext
  BY <1>3, <1>7, <1>8
<1>11. QED BY <1>9, <1>10 DEF sentNext

LEMMA StepAnswered ==
  ASSUME Inv, [Next]_vars
  PROVE  AnsweredInv'
<1> SUFFICES ASSUME NEW e \in End
    PROVE  /\ Nth(e, lastHighestAckReceived'[e]) <= Nth(e, answered'[e])
           /\ Nth(e, answered'[e]) <= Nth(e, lastSequenceSent'[e])
           /\ lastHighestAckReceived'[e] = SeqMod - 1 => start[e] = SeqMod - 1
  <2>1. start' = start
    BY StepEffect DEF Inv
  <2>2. QED BY <2>1, StepEnds DEF AnsweredInv
<1>1. PICK list \in SUBSET head[e] : Effect(e, list)
  BY StepEnds
<1>2. /\ Nth(e, lastSequenceSent[e]) <= Nth(e, lastSequenceSent'[e])
      /\ Nth(e, lastSequenceSent[e]) \in Int
      /\ Nth(e, lastSequenceSent'[e]) \in Int
  BY SentGrows
<1>3. /\ Nth(e, lastHighestAckReceived[e]) <= Nth(e, answered[e])
      /\ Nth(e, answered[e]) <= Nth(e, lastSequenceSent[e])
      /\ \A d \in net[e] : Nth(e, d.ack) <= Nth(e, lastSequenceSent[e])
      /\ lastHighestAckReceived[e] = SeqMod - 1 => start[e] = SeqMod - 1
  BY DEF Inv, AnsweredInv, AcksAreOfSentPackets
<1>4. /\ TypeOK
      /\ answered[e] \in Sequence
      /\ lastHighestAckReceived[e] \in Sequence
      /\ \A d \in net[e] : d.ack \in Sequence
      /\ \A n \in Sequence : Nth(e, n) \in Int
  BY StepEnds, NthIs, DatagramFields DEF TypeOK
<1>5. CASE Idle(e)
  BY <1>2, <1>3, <1>4, <1>5 DEF Idle, Unread
<1>6. ASSUME NEW d \in net[e], Reads(e, d)
      PROVE  /\ Nth(e, lastHighestAckReceived'[e]) <= Nth(e, answered'[e])
             /\ Nth(e, answered'[e]) <= Nth(e, lastSequenceSent'[e])
             /\ lastHighestAckReceived'[e] # SeqMod - 1
  <2>1. /\ lastHighestAckReceived'[e] = d.ack /\ d.ack # SeqMod - 1
        /\ answered'[e] = IF Nth(e, answered[e]) < Nth(e, d.ack) THEN d.ack ELSE answered[e]
    BY <1>6 DEF Reads
  <2>2. Nth(e, d.ack) \in Int /\ Nth(e, answered[e]) \in Int
    BY <1>4
  <2>3. QED BY <1>2, <1>3, <2>1, <2>2
<1>7. ASSUME NEW d \in net[e], Hangs(e, d)
      PROVE  /\ Nth(e, lastHighestAckReceived'[e]) <= Nth(e, answered'[e])
             /\ Nth(e, answered'[e]) <= Nth(e, lastSequenceSent'[e])
             /\ lastHighestAckReceived'[e] = lastHighestAckReceived[e]
  <2>1. /\ lastHighestAckReceived'[e] = lastHighestAckReceived[e]
        /\ answered'[e] = IF Nth(e, answered[e]) < Nth(e, d.ack) THEN d.ack ELSE answered[e]
    BY <1>7 DEF Hangs, Unread
  <2>2. Nth(e, d.ack) \in Int /\ Nth(e, answered[e]) \in Int /\ Nth(e, lastHighestAckReceived[e]) \in Int
    BY <1>4
  <2>3. QED BY <1>2, <1>3, <2>1, <2>2
<1>8. QED BY <1>1, <1>3, <1>5, <1>6, <1>7 DEF Effect

(* A datagram that keeps the reader in order is not older than the newest  *)
(* one it has read.                                                        *)
LEMMA InOrder ==
  ASSUME Inv, NEW e \in End, NEW d \in net[e], orderly[e],
         Behind(lastSequenceReceived[e], d.seq) < MaskBits
  PROVE  /\ Nth(other(e), d.seq) =
              Nth(other(e), lastSequenceReceived[e]) + Behind(lastSequenceReceived[e], d.seq)
         /\ Behind(lastSequenceReceived[e], d.seq) \in Int
         /\ 0 <= Behind(lastSequenceReceived[e], d.seq)
         /\ Nth(other(e), lastSequenceReceived[e]) \in Int
         /\ Nth(other(e), d.seq) \in Int
         /\ Nth(other(e), d.seq) <= MaxSent[other(e)]
         /\ d.seq \in Sequence /\ lastSequenceReceived[e] \in Sequence
<1> DEFINE o == other(e)
           lsr == lastSequenceReceived[e]
<1>1. o \in End /\ other(o) = e
  BY Others
<1>2. TypeOK
  BY DEF Inv
<1>3. lsr \in Sequence /\ d.seq \in Sequence
  BY <1>2, DatagramFields DEF TypeOK
<1>4. /\ Nth(o, lsr) <= Nth(o, lastSequenceSent[o])
      /\ Nth(o, d.seq) <= Nth(o, lastSequenceSent[o])
      /\ Nth(o, lastSequenceSent[o]) <= MaxSent[o]
  BY <1>1 DEF Inv, AcksAreOfSentPackets, SentInv
<1>5. /\ Nth(o, lastSequenceSent[o]) \in Int /\ MaxSent[o] \in Int
      /\ Nth(o, lsr) \in Int /\ Nth(o, d.seq) \in Int
      /\ Behind(lsr, d.seq) \in Int /\ 0 <= Behind(lsr, d.seq)
  <2>1. lastSequenceSent[o] \in Sequence
    BY <1>1, <1>2 DEF TypeOK
  <2>2. Behind(lsr, d.seq) \in Sequence
    BY <1>3, BehindIs
  <2>3. QED BY <1>1, <1>2, <1>3, <2>1, <2>2, NthIs, Sizes DEF Sequence
<1>6. Nth(o, lsr) <= MaxSent[o] /\ Nth(o, d.seq) <= MaxSent[o]
  BY <1>4, <1>5
<1>7. Nth(o, d.seq) = Nth(o, lsr) + Behind(lsr, d.seq)
  BY <1>1, <1>2, <1>3, <1>6, NthBehind
<1>8. QED BY <1>3, <1>5, <1>6, <1>7

LEMMA StepGot ==
  ASSUME Inv, [Next]_vars
  PROVE  GotInv'
<1> SUFFICES ASSUME NEW e \in End PROVE
      /\ lastSequenceReceived'[e] = start[other(e)] \/ lastSequenceReceived'[e] \in got'[e]
      /\ \A n \in got'[e] : 1 <= Nth(other(e), n)
      /\ orderly'[e] =>
           /\ \A n \in got'[e] : Nth(other(e), n) <= Nth(other(e), lastSequenceReceived'[e])
           /\ \A d \in net'[other(e)] :
                Nth(other(e), d.ack) <= Nth(other(e), lastSequenceReceived'[e])
  <2>1. start' = start
    BY StepEffect DEF Inv
  <2>2. \A e \in End : other(e) \in End
    BY Others
  <2>3. QED BY <2>1, <2>2, StepEnds DEF GotInv
<1> DEFINE o == other(e)
           lsr == lastSequenceReceived[e]
           top == Nth(o, lastSequenceReceived'[e])
<1>1. o \in End /\ other(o) = e /\ TypeOK /\ TypeOK'
  BY Others, StepEnds
<1>2. PICK list \in SUBSET head[e] : Effect(e, list)
  BY StepEnds
<1>3. /\ lsr = start[o] \/ lsr \in got[e]
      /\ \A n \in got[e] : 1 <= Nth(o, n)
      /\ orderly[e] =>
           /\ \A n \in got[e] : Nth(o, n) <= Nth(o, lsr)
           /\ \A d \in net[o] : Nth(o, d.ack) <= Nth(o, lsr)
  BY DEF Inv, GotInv
<1>4. /\ \A n \in Sequence : Nth(o, n) \in Int
      /\ got[e] \in SUBSET Sequence
      /\ \A d \in net[o] : d.ack \in Sequence
      /\ lastSequenceReceived'[e] \in Sequence
  BY <1>1, NthIs, DatagramFields DEF TypeOK
<1> DEFINE Read ==
      /\ lastSequenceReceived'[e] = start[o] \/ lastSequenceReceived'[e] \in got'[e]
      /\ \A n \in got'[e] : 1 <= Nth(o, n)
      /\ orderly'[e] => /\ \A n \in got'[e] : Nth(o, n) <= top
                        /\ \A d \in net[o] : Nth(o, d.ack) <= top
<1>5. Read
  <2>1. CASE Unread(e)
    BY <1>3, <2>1 DEF Unread
  <2>2. ASSUME NEW d \in net[e], Reads(e, d) PROVE Read
    <3>1. /\ lastSequenceReceived'[e] = d.seq
          /\ got'[e] = got[e] \cup {d.seq}
          /\ orderly'[e] = (orderly[e] /\ Behind(lsr, d.seq) < MaskBits)
      BY <2>2 DEF Reads
    <3>2. 1 <= Nth(o, d.seq)
      BY <1>1 DEF Inv, SentInv
    <3>3. top = Nth(o, d.seq) /\ top \in Int
      BY <1>4, <3>1
    <3>4. ASSUME orderly'[e] PROVE Nth(o, lsr) <= top /\ Nth(o, lsr) \in Int /\ orderly[e]
      <4>1. orderly[e] /\ Behind(lsr, d.seq) < MaskBits
        BY <3>1, <3>4
      <4>2. /\ Nth(o, d.seq) = Nth(o, lsr) + Behind(lsr, d.seq)
            /\ 0 <= Behind(lsr, d.seq) /\ Behind(lsr, d.seq) \in Int /\ Nth(o, lsr) \in Int
        BY <4>1, InOrder
      <4>3. QED BY <3>3, <4>1, <4>2
    <3> HIDE DEF top
    <3>5. ASSUME orderly'[e], NEW n \in got'[e] PROVE Nth(o, n) <= top
      BY <1>3, <1>4, <3>3, <3>1, <3>4, <3>5
    <3>6. ASSUME orderly'[e], NEW d2 \in net[o] PROVE Nth(o, d2.ack) <= top
      BY <1>3, <1>4, <3>4, <3>3, <3>6
    <3>7. QED BY <1>3, <3>1, <3>2, <3>5, <3>6
  <2>3. QED BY <1>2, <2>1, <2>2 DEF Effect, Idle, Hangs
<1>6. ASSUME orderly'[e], NEW d \in net'[o] PROVE Nth(o, d.ack) <= top
  <2>1. CASE d \in net[o]
    BY <1>5, <1>6, <2>1
  <2>2. CASE d \notin net[o]
    <3>1. d.ack = lastSequenceReceived'[e]
      BY <1>2, <2>2 DEF Effect, Silent, Sends
    <3>2. QED BY <1>4, <3>1
  <2>3. QED BY <2>1, <2>2
<1>7. QED BY <1>5, <1>6

(* A number at most as new as the newest one read does not become a number *)
(* that was read when a later datagram is.                                 *)
LEMMA OldMasksStay ==
  ASSUME Inv, NEW e \in End, NEW d \in net[e], orderly[e],
         Behind(lastSequenceReceived[e], d.seq) < MaskBits,
         NEW top \in Sequence,
         Nth(other(e), top) <= Nth(other(e), lastSequenceReceived[e]),
         NEW b \in Bits, (top - b) % SeqMod = d.seq
  PROVE  d.seq \in got[e]
<1> DEFINE o == other(e)
           lsr == lastSequenceReceived[e]
           gap == Behind(lsr, d.seq)
<1>1. o \in End /\ other(o) = e /\ TypeOK
  BY Others DEF Inv
<1>2. /\ Nth(o, d.seq) = Nth(o, lsr) + gap /\ 0 <= gap /\ gap \in Int
      /\ Nth(o, lsr) \in Int /\ Nth(o, d.seq) <= MaxSent[o]
      /\ d.seq \in Sequence /\ lsr \in Sequence
  BY InOrder
<1>3. /\ b \in Int /\ 0 <= b /\ b < MaskBits
      /\ Nth(o, d.seq) = IF b <= Nth(o, top) THEN Nth(o, top) - b
                         ELSE Nth(o, top) - b + SeqMod
  BY <1>1, NthBit
<1>4. MaskBits + MaxSent[o] <= SeqMod /\ MaskBits \in Int /\ MaxSent[o] \in Int /\ SeqMod \in Int
  BY <1>1, Sizes
<1>5. Nth(o, top) \in Int /\ 0 <= Nth(o, top)
  BY <1>1, NthIs
<1> HIDE DEF gap
<1>6. Nth(o, d.seq) = Nth(o, lsr)
  BY <1>2, <1>3, <1>4, <1>5
<1>7. d.seq = lsr
  BY <1>1, <1>2, <1>6, NthInjective
<1>8. 1 <= Nth(o, d.seq)
  BY <1>1 DEF Inv, SentInv
<1>9. lsr # start[o]
  BY <1>1, <1>6, <1>8, NthStart
<1>10. QED BY <1>7, <1>9 DEF Inv, GotInv

(* The shifted mask is true of the numbers below the one that was read.    *)
LEMMA NewMaskTrue ==
  ASSUME Inv, NEW e \in End, NEW d \in net[e], orderly[e], ~stuck[e],
         Behind(lastSequenceReceived[e], d.seq) < MaskBits
  PROVE  newMask(e, d) = {b \in Bits : (d.seq - b) % SeqMod \in got[e] \cup {d.seq}}
<1> DEFINE o == other(e)
           lsr == lastSequenceReceived[e]
           gap == Behind(lsr, d.seq)
           at(b) == (d.seq - b) % SeqMod
<1>1. o \in End /\ other(o) = e /\ TypeOK
  BY Others DEF Inv
<1>2. /\ Nth(o, d.seq) = Nth(o, lsr) + gap /\ 0 <= gap /\ gap \in Int
      /\ Nth(o, lsr) \in Int /\ Nth(o, d.seq) \in Int
      /\ d.seq \in Sequence /\ lsr \in Sequence
  BY InOrder
<1>3. 0 <= Nth(o, lsr)
  BY <1>1, <1>2, NthIs
<1>4. MaskBits \in Int /\ SeqMod \in Int /\ MaskBits <= SeqMod /\ 1 < MaskBits
  BY Sizes
<1>5. gap % MaskBits = gap
  BY <1>2, <1>4
<1>6. ackMask[e] = {b \in Bits : (lsr - b) % SeqMod \in got[e]}
  BY DEF Inv, MasksTrueInOrder, MaskOf
<1>7. \A n \in got[e] : Nth(o, n) <= Nth(o, lsr)
  BY DEF Inv, GotInv
<1> HIDE DEF gap
<1>8. newMask(e, d) = {b \in Bits : b - gap \in ackMask[e]} \cup {0}
  BY <1>5 DEF newMask, ShiftLeft, gap
<1>9. 0 \in Bits
  BY <1>4 DEF Bits
<1>10. ASSUME NEW b \in Bits
       PROVE  b \in newMask(e, d) <=> at(b) \in got[e] \cup {d.seq}
  <2>1. /\ b \in Int /\ 0 <= b /\ b < MaskBits /\ at(b) \in Sequence
        /\ Nth(o, at(b)) = IF b <= Nth(o, d.seq) THEN Nth(o, d.seq) - b
                           ELSE Nth(o, d.seq) - b + SeqMod
    BY <1>1, <1>2, NthBit
  <2> HIDE DEF at
  <2>2. CASE b = 0
    <3>1. Nth(o, at(b)) = Nth(o, d.seq)
      BY <1>2, <1>3, <2>1, <2>2
    <3>2. at(b) = d.seq
      BY <1>1, <1>2, <2>1, <3>1, NthInjective
    <3>3. QED BY <1>8, <2>2, <3>2
  <2>3. CASE b # 0
    <3>1. Nth(o, at(b)) # Nth(o, d.seq)
      BY <1>2, <1>4, <2>1, <2>3
    <3>2. at(b) # d.seq
      BY <3>1
    <3>3. CASE gap <= b
      <4> DEFINE old == (lsr - (b - gap)) % SeqMod
      <4>1. b - gap \in Bits
        BY <1>2, <1>4, <2>1, <3>3 DEF Bits
      <4>2. /\ old \in Sequence
            /\ Nth(o, old) = IF b - gap <= Nth(o, lsr) THEN Nth(o, lsr) - (b - gap)
                             ELSE Nth(o, lsr) - (b - gap) + SeqMod
        BY <1>1, <1>2, <4>1, NthBit
      <4>3. b - gap \in ackMask[e] <=> old \in got[e]
        BY <1>6, <4>1
      <4> HIDE DEF old
      <4>4. Nth(o, old) = Nth(o, at(b))
        BY <1>2, <1>4, <2>1, <4>2
      <4>5. old = at(b)
        BY <1>1, <2>1, <4>2, <4>4, NthInjective
      <4>6. QED BY <1>8, <2>3, <3>2, <4>3, <4>5
    <3>4. CASE ~(gap <= b)
      <4>1. b - gap \notin Bits
        BY <1>2, <1>4, <2>1, <3>4 DEF Bits
      <4>2. b \notin newMask(e, d)
        BY <1>6, <1>8, <2>3, <4>1
      <4>3. Nth(o, at(b)) = Nth(o, d.seq) - b
        BY <1>2, <1>3, <1>4, <2>1, <3>4
      <4>4. ~(Nth(o, at(b)) <= Nth(o, lsr))
        BY <1>2, <2>1, <3>4, <4>3
      <4>5. at(b) \notin got[e]
        BY <1>7, <4>4
      <4>6. QED BY <3>2, <4>2, <4>5
    <3>5. QED BY <3>3, <3>4
  <2>4. QED BY <2>2, <2>3
<1>11. newMask(e, d) \subseteq Bits
  BY <1>8, <1>9
<1>12. QED BY <1>10, <1>11

LEMMA StepMasks ==
  ASSUME Inv, [Next]_vars
  PROVE  MasksTrueInOrder'
<1> DEFINE maskNext(e, top) == {b \in Bits : (top - b) % SeqMod \in got'[e]}
<1> SUFFICES ASSUME NEW e \in End, orderly'[e]
    PROVE  /\ ~stuck'[e] => ackMask'[e] = maskNext(e, lastSequenceReceived'[e])
           /\ \A d \in net'[other(e)] : d.mask = maskNext(e, d.ack)
  BY DEF MasksTrueInOrder, MaskOf
<1> DEFINE o == other(e)
           lsr == lastSequenceReceived[e]
<1>1. o \in End /\ other(o) = e /\ TypeOK
  BY Others DEF Inv
<1>2. PICK list \in SUBSET head[e] : Effect(e, list)
  BY StepEnds
<1>3. orderly[e] =>
        /\ ~stuck[e] => ackMask[e] = {b \in Bits : (lsr - b) % SeqMod \in got[e]}
        /\ \A d \in net[o] : d.mask = {b \in Bits : (d.ack - b) % SeqMod \in got[e]}
  BY DEF Inv, MasksTrueInOrder, MaskOf
<1> DEFINE MaskTrue == ~stuck'[e] => ackMask'[e] = maskNext(e, lastSequenceReceived'[e])
           SentTrue == \A d \in net[o] : d.mask = maskNext(e, d.ack)
<1>4. MaskTrue /\ SentTrue
  <2>1. CASE Unread(e) /\ (stuck'[e] \/ (stuck'[e] = stuck[e] /\ ackMask'[e] = ackMask[e]))
    <3>1. /\ orderly[e] /\ got'[e] = got[e] /\ lastSequenceReceived'[e] = lsr
          /\ ~stuck'[e] => ~stuck[e] /\ ackMask'[e] = ackMask[e]
      BY <2>1 DEF Unread
    <3>2. QED BY <1>3, <3>1
  <2>2. ASSUME NEW d \in net[e], Reads(e, d) PROVE MaskTrue /\ SentTrue
    <3>1. /\ orderly[e] /\ Behind(lsr, d.seq) < MaskBits
          /\ got'[e] = got[e] \cup {d.seq} /\ lastSequenceReceived'[e] = d.seq
          /\ ackMask'[e] = newMask(e, d) /\ ~stuck[e]
      BY <2>2 DEF Reads
    <3>2. MaskTrue
      BY <3>1, NewMaskTrue
    <3>3. ASSUME NEW d2 \in net[o] PROVE d2.mask = maskNext(e, d2.ack)
      <4>1. d2.ack \in Sequence /\ Nth(o, d2.ack) <= Nth(o, lsr)
        BY <1>1, <3>1, DatagramFields DEF Inv, GotInv
      <4>2. ASSUME NEW b \in Bits, (d2.ack - b) % SeqMod = d.seq
            PROVE  d.seq \in got[e]
        BY <3>1, <4>1, <4>2, OldMasksStay
      <4>3. QED BY <1>3, <3>1, <4>2
    <3>4. QED BY <3>2, <3>3
  <2>3. QED BY <1>2, <2>1, <2>2 DEF Effect, Idle, Hangs
<1> HIDE DEF maskNext
<1>5. ASSUME NEW d \in net'[o] PROVE d.mask = maskNext(e, d.ack)
  <2>1. CASE d \in net[o]
    BY <1>4, <2>1
  <2>2. CASE d \notin net[o]
    <3>1. /\ ~stuck'[e]
          /\ d = [seq |-> lastSequenceSent'[e], ack |-> lastSequenceReceived'[e],
                  mask |-> ackMask'[e]]
      BY <1>2, <2>2 DEF Effect, Silent, Sends
    <3>2. QED BY <1>4, <3>1
  <2>3. QED BY <2>1, <2>2
<1>6. QED BY <1>4, <1>5

LEMMA StepList ==
  ASSUME Inv, [Next]_vars
  PROVE  ListIsTheUnanswered'
<1> SUFFICES ASSUME NEW e \in End, 0 < start[e], start[e] <= lastSequenceSent'[e]
    PROVE  head'[e] = answered'[e] + 1 .. lastSequenceSent'[e]
  BY StepEffect DEF ListIsTheUnanswered, Inv
<1> DEFINE from == start[e]
           sent == lastSequenceSent[e]
           walked == lastHighestAckReceived[e]
           ans == answered[e]
<1>1. PICK list \in SUBSET head[e] : Effect(e, list)
  BY StepEnds
<1>2. /\ TypeOK
      /\ sent \in Sequence /\ walked \in Sequence /\ ans \in Sequence
      /\ \A d \in net[e] : d.ack \in Sequence
  BY DatagramFields DEF TypeOK, Inv
<1>3. /\ MaxSent[e] \in Int /\ MaskBits \in Int /\ 1 < MaskBits
      /\ MaskBits + MaxSent[e] <= SeqMod
  BY Sizes
<1>4. /\ Nth(e, sent) <= MaxSent[e]
      /\ Nth(e, walked) <= Nth(e, ans)
      /\ Nth(e, ans) <= Nth(e, sent)
      /\ walked = SeqMod - 1 => from = SeqMod - 1
      /\ \A d \in net[e] : Nth(e, d.ack) <= Nth(e, sent)
  BY DEF Inv, SentInv, AnsweredInv, AcksAreOfSentPackets
(* The numbers have not wrapped, so order is the order of sending. *)
<1>5. from <= sent
  <2>1. CASE Silent(e)
    BY <2>1 DEF Silent
  <2>2. CASE Sends(e)
    <3>1. lastSequenceSent'[e] = IF sent + 1 = SeqMod THEN 0 ELSE sent + 1
      BY <1>2, <2>2, Successor DEF Sends
    <3>2. QED BY <1>2, <1>3, <1>4, <3>1, NthIs
  <2>3. QED BY <1>1, <2>1, <2>2 DEF Effect
<1>6. /\ from \in Int /\ sent \in Int /\ walked \in Int /\ ans \in Int /\ SeqMod \in Int
      /\ from <= walked /\ walked <= ans /\ ans <= sent /\ sent < SeqMod
  BY <1>2, <1>3, <1>4, <1>5, NthIs
<1>7. \A d \in net[e] : d.ack \in Int /\ from <= d.ack /\ d.ack <= sent
  BY <1>2, <1>3, <1>4, <1>5, NthIs
<1>8. head[e] = ans + 1 .. sent
  BY <1>5 DEF Inv, ListIsTheUnanswered
<1>9. /\ list = answered'[e] + 1 .. sent
      /\ answered'[e] \in Int /\ answered'[e] <= sent
  <2>1. CASE Idle(e) /\ list = head[e]
    BY <1>6, <1>8, <2>1 DEF Idle
  <2>2. ASSUME NEW d \in net[e], Reads(e, d), list = Kept(e, d)
        PROVE  /\ list = answered'[e] + 1 .. sent
               /\ answered'[e] \in Int /\ answered'[e] <= sent
    <3>1. d.ack # SeqMod - 1
      BY <2>2 DEF Reads
    <3>2. walked # SeqMod - 1
      BY <1>4, <1>6, <1>7, <3>1
    <3>3. Walked(e, d) = walked + 1 .. d.ack
      <4>1. walked # 0
        BY <1>6
      <4>2. (walked + 1) % SeqMod = walked + 1
        BY <1>2, <1>6, <3>2, Successor
      <4>3. QED BY <4>1, <4>2 DEF Walked
    <3>4. answered'[e] = IF ans < d.ack THEN d.ack ELSE ans
      <4>1. Nth(e, ans) < Nth(e, d.ack) <=> ans < d.ack
        BY <1>2, <1>6, <1>7, NthIs
      <4>2. QED BY <2>2, <4>1 DEF Reads
    <3>5. list = (ans + 1 .. sent) \ (walked + 1 .. d.ack)
      BY <1>8, <2>2, <3>3 DEF Kept
    <3>6. CASE ans < d.ack
      BY <1>6, <1>7, <3>4, <3>5, <3>6
    <3>7. CASE ~(ans < d.ack)
      BY <1>6, <1>7, <3>4, <3>5, <3>7
    <3>8. QED BY <3>6, <3>7
  <2>3. ASSUME NEW d \in net[e], Hangs(e, d), list = {}
        PROVE  /\ list = answered'[e] + 1 .. sent
               /\ answered'[e] \in Int /\ answered'[e] <= sent
    <3>1. d.ack = SeqMod - 1 /\ sent = d.ack
      BY <1>6, <1>7, <2>3 DEF Hangs
    <3>2. answered'[e] = IF ans < d.ack THEN d.ack ELSE ans
      <4>1. Nth(e, ans) < Nth(e, d.ack) <=> ans < d.ack
        BY <1>2, <1>6, <1>7, NthIs
      <4>2. QED BY <2>3, <4>1 DEF Hangs
    <3>3. answered'[e] = sent
      BY <1>6, <1>7, <3>1, <3>2
    <3>4. QED BY <1>6, <2>3, <3>3
  <2>4. QED BY <1>1, <2>1, <2>2, <2>3 DEF Effect
<1>10. CASE Silent(e) /\ head'[e] = list
  BY <1>9, <1>10 DEF Silent
<1>11. CASE Sends(e) /\ head'[e] = {lastSequenceSent'[e]} \cup list
  <2>1. lastSequenceSent'[e] = sent + 1
    BY <1>2, <1>6, <1>11, Successor DEF Sends
  <2>2. QED BY <1>6, <1>9, <1>11, <2>1
<1>12. QED BY <1>1, <1>10, <1>11 DEF Effect

-----------------------------------------------------------------------------
LEMMA Inductive == Spec => []Inv
<1>1. Inv /\ [Next]_vars => Inv'
  <2>1. SUFFICES ASSUME Inv, [Next]_vars PROVE Inv'
    OBVIOUS
  <2>2. TypeOK'
    BY <2>1, StepType DEF Inv
  <2>3. QED
    BY <2>1, <2>2, StepSent, StepAcks, StepGot, StepAnswered, StepMasks, StepList DEF Inv
<1>2. QED BY InitInv, <1>1, PTL DEF Spec

(* Every number stays within its width, whatever UDP does with datagrams.  *)
THEOREM TypeCorrect == Spec => []TypeOK
<1>1. Inv => TypeOK
  BY DEF Inv
<1>2. QED BY Inductive, <1>1, PTL

(* lastSequenceReceived and every acknowledgement on its way name packets  *)
(* that the other end has sent.                                            *)
THEOREM AcksOfSentPackets == Spec => []AcksAreOfSentPackets
<1>1. Inv => AcksAreOfSentPackets
  BY DEF Inv
<1>2. QED BY Inductive, <1>1, PTL

(* The ackMask of an end that has read in order tells, for every one of    *)
(* its bits, whether that number was read; so do the masks it has sent.    *)
THEOREM MasksAlwaysTrueInOrder == Spec => []MasksTrueInOrder
<1>1. Inv => MasksTrueInOrder
  BY DEF Inv
<1>2. QED BY Inductive, <1>1, PTL

(* No packet is left in the list once a later one was answered, and none   *)
(* is taken out before.                                                    *)
THEOREM ListAlwaysTheUnanswered == Spec => []ListIsTheUnanswered
<1>1. Inv => ListIsTheUnanswered
  BY DEF Inv
<1>2. QED BY Inductive, <1>1, PTL

(* readPacket() takes a packet for acknowledged if and only if the other   *)
(* end has read it: its mask is true, and `1 << checkBit' finds the bit.   *)
THEOREM VerdictsAlwaysRight == Spec => []VerdictsRight
<1>1. Inv => VerdictsRight
  <2> SUFFICES ASSUME Inv, NEW e \in End, orderly[other(e)], NEW d \in net[e],
                      NEW i \in Walked(e, d), d.ack - i < IntBits - 1
      PROVE  Acked(d, i) <=> i \in got[other(e)]
    BY DEF VerdictsRight
  <2> DEFINE bit == d.ack - i
  <2>1. /\ TypeOK /\ d.ack \in Sequence /\ d.mask \in SUBSET Bits
        /\ lastHighestAckReceived[e] \in Sequence
    BY DatagramFields DEF Inv, TypeOK
  <2>2. /\ SeqMod \in Int /\ MaskBits \in Int /\ IntBits \in Int /\ 1 < IntBits
        /\ IntBits <= MaskBits /\ MaskBits <= SeqMod
    BY Sizes
  <2>3. i \in Int /\ 0 <= i /\ i <= d.ack /\ d.ack \in Int /\ d.ack < SeqMod
    <3>1. PICK low \in Sequence : Walked(e, d) = low .. d.ack
      <4>1. CASE lastHighestAckReceived[e] = 0
        <5>1. (d.ack - 1 + 1) % SeqMod = d.ack
          BY <2>1, <2>2 DEF Sequence
        <5>2. QED BY <2>1, <4>1, <5>1 DEF Walked
      <4>2. CASE lastHighestAckReceived[e] # 0
        BY <2>1, <4>2, Successor DEF Walked
      <4>3. QED BY <4>1, <4>2
    <3>2. QED BY <2>1, <2>2, <3>1 DEF Sequence
  <2>4. bit \in Bits /\ bit \in Int /\ 0 <= bit /\ bit < IntBits - 1
    BY <2>2, <2>3 DEF Bits
  <2>5. OneShifted(bit) = {bit}
    <3>1. bit % IntBits = bit
      BY <2>2, <2>4
    <3>2. QED BY <2>2, <2>4, <3>1 DEF OneShifted
  <2>6. (d.ack - bit) % SeqMod = i
    <3>1. d.ack - bit = i
      BY <2>3
    <3>2. i % SeqMod = i
      BY <2>2, <2>3
    <3>3. QED BY <3>1, <3>2
  <2>7. d.mask = {b \in Bits : (d.ack - b) % SeqMod \in got[other(e)]}
    <3>1. other(e) \in End /\ other(other(e)) = e
      BY Others
    <3>2. QED BY <3>1 DEF Inv, MasksTrueInOrder, MaskOf
  <2>8. bit \in d.mask <=> i \in got[other(e)]
    BY <2>4, <2>6, <2>7
  <2>9. Acked(d, i) <=> bit \in d.mask
    BY <2>2, <2>4, <2>5 DEF Acked
  <2>10. QED BY <2>8, <2>9
<1>2. QED BY Inductive, <1>1, PTL
=============================================================================
