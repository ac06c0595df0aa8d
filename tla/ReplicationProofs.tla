--------------------------- MODULE ReplicationProofs ---------------------------
(***************************************************************************)
(* Why a client that reads everything in order ends up with the newest     *)
(* values, but for the three races and its own changes, and which objects  *)
(* that holds for when it has dropped parts of packets.  The argument goes *)
(* through the datagrams: the last one for a client that has a value of a  *)
(* property has the newest (SentInv), and what the client holds is what it *)
(* has read last (CopyInv).                                                *)
(***************************************************************************)
EXTENDS Replication, SequenceTheorems, WellFoundedInduction, TLAPS

(***************************************************************************)
(* The inductive invariant.                                                *)
(***************************************************************************)

Threads   == [pc : {"none", "walk", "zero", "done"}, at : Objects \cup {0}, packed : Chunks]
Datagrams == [type : {CREATE, UPDATE}, chunks : Chunks]

\* These fields are of changes that have been.
Past(ch, n) == \A o \in DOMAIN ch : \A p \in DOMAIN ch[o] : ch[o][p] <= n

\* Every part of the server, of UDP and of the clients is of its kind.
ServerInv ==
  /\ alive \subseteq Objects /\ changes \in 0 .. MaxChanges
  /\ value \in [Objects -> [Props -> 0 .. changes]]
  /\ updateMask \in [Objects -> SUBSET Props]
  /\ missed \subseteq Clients \X Objects \X Props
  /\ crash \in {"none", "walk"}
  /\ thread \in [Clients -> Threads]
  /\ \A c \in Clients : /\ Past(thread[c].packed, changes)
                        /\ thread[c].pc = "none" => thread[c].at = 0
                        /\ thread[c].pc = "zero" => thread[c].at # 0

NetInv ==
  /\ packets \in 0 .. MaxPackets
  /\ net \in [Clients -> Seq(Datagrams)]
  /\ \A c \in Clients : Len(net[c]) <= packets
  /\ \A c \in Clients : \A n \in 1 .. Len(net[c]) : Past(net[c][n].chunks, changes)

ClientInv ==
  /\ copy \in [Clients -> [Objects -> [Props -> 0 .. changes]]]
  /\ idToRemoteObject \in [Clients -> SUBSET Objects]
  /\ DOMAIN read = Clients /\ \A c \in Clients : read[c] \in Seq(1 .. Len(net[c]))
  /\ dropped \in [Clients -> BOOLEAN]
  /\ own \subseteq Clients \X Objects \X Props

\* A datagram has a value of property p of object o.
Has(d, o, p) == o \in DOMAIN d.chunks /\ p \in DOMAIN d.chunks[o]

\* Of the first k datagrams, the last with this property says v; or none has it.
Last(sent, k, o, p, v) ==
  \/ v = 0 /\ \A n \in 1 .. k : ~Has(sent[n], o, p)
  \/ \E n \in 1 .. k :
       /\ Has(sent[n], o, p) /\ sent[n].chunks[o][p] = v
       /\ \A m \in n + 1 .. k : ~Has(sent[m], o, p)

\* What the server owes c of object o: nothing of a bit that is set, or of a value missed.
Owed(c, o) == {p \in Props \ updateMask[o] : <<c, o, p>> \notin missed}

\* The initial data have every object that the thread has come to, as it is now.
WalkInv ==
  \A c \in Clients : thread[c].pc \in {"walk", "zero"} =>
    \A o \in alive : o <= thread[c].at =>
      /\ o \in DOMAIN thread[c].packed /\ DOMAIN thread[c].packed[o] = Props
      /\ \A p \in Owed(c, o) : thread[c].packed[o][p] = value[o][p]

\* The last that was sent to c is the newest.
SentInv ==
  \A c \in Clients : thread[c].pc = "done" =>
    \A o \in alive : \A p \in Owed(c, o) : Last(net[c], Len(net[c]), o, p, value[o][p])

\* A client holds what it has read last, as long as it reads in order, of the objects
\* whose chunks have all been handled, but for what it has changed itself.
InOrder(c) == \A n \in 1 .. Len(read[c]) : read[c][n] = n
Spared(c, o) == ~dropped[c] \/ Front(c, o)
CopyInv ==
  \A c \in Clients : InOrder(c) =>
    /\ Len(read[c]) <= Len(net[c])
    /\ \A o \in idToRemoteObject[c], p \in Props :
         Spared(c, o) /\ <<c, o, p>> \notin own => Last(net[c], Len(read[c]), o, p, copy[c][o][p])

IInv == ServerInv /\ NetInv /\ ClientInv /\ WalkInv /\ SentInv /\ CopyInv

-----------------------------------------------------------------------------
(* Numbers and fields. *)

\* The bounds are numbers, and objects and properties are numbered from 1.
LEMMA Numbers ==
  /\ NumObjects \in Nat /\ NumProps \in Nat /\ MaxChanges \in Nat /\ MaxPackets \in Nat
  /\ Objects \subseteq Nat \ {0} /\ Props \subseteq Nat \ {0} /\ Unmarked \subseteq Props
BY ReplicationAssumption DEF Objects, Props

\* The first of a set of numbers is one of them, and none is before it.
LEMMA MinIs ==
  ASSUME NEW S \in SUBSET Nat, S # {}
  PROVE  Min(S) \in S /\ \A m \in S : Min(S) <= m
<1> DEFINE R == {ss \in Nat \X Nat : ss[1] < ss[2]}
<1>1. R = OpToRel(<, Nat)
  BY DEF OpToRel
<1>2. IsWellFoundedOn(R, Nat)
  BY <1>1, NatLessThanWellFounded
<1> HIDE DEF R
<1>3. PICK n \in S : \A m \in S : <<m, n>> \notin R
  BY <1>2, WFMin
<1>4. ASSUME NEW m \in S PROVE n <= m
  <2>1. m \in Nat /\ n \in Nat /\ <<m, n>> \notin R
    BY <1>3
  <2>2. m < n => <<m, n>> \in R
    BY <2>1 DEF R
  <2>3. QED
    BY <2>1, <2>2
<1>5. \E x \in S : \A y \in S : x <= y
  BY <1>4
<1>6. QED
  BY <1>5 DEF Min

\* What there is in the fields of objects.
LEMMA OfChunks ==
  ASSUME NEW ch \in Chunks
  PROVE  /\ ch = [o \in DOMAIN ch |-> ch[o]] /\ DOMAIN ch \subseteq Objects
         /\ \A o \in DOMAIN ch :
              /\ ch[o] \in Fields /\ DOMAIN ch[o] \subseteq Props
              /\ \A p \in DOMAIN ch[o] : ch[o][p] \in 0 .. MaxChanges
<1>1. PICK os \in SUBSET Objects : ch \in [os -> Fields]
  BY DEF Chunks
<1>2. ASSUME NEW o \in DOMAIN ch
      PROVE  /\ ch[o] \in Fields /\ DOMAIN ch[o] \subseteq Props
             /\ \A p \in DOMAIN ch[o] : ch[o][p] \in 0 .. MaxChanges
  <2>1. ch[o] \in Fields
    BY <1>1
  <2>2. PICK ps \in SUBSET Props : ch[o] \in [ps -> 0 .. MaxChanges]
    BY <2>1 DEF Fields
  <2>3. QED
    BY <2>1, <2>2
<1>3. QED
  BY <1>1, <1>2

\* Some of the properties of an object, as it is now, are fields.
LEMMA FieldsAre ==
  ASSUME ServerInv, NEW o \in Objects, NEW ps \in SUBSET Props
  PROVE  /\ [p \in ps |-> value[o][p]] \in Fields
         /\ \A p \in ps : value[o][p] <= changes /\ value[o][p] \in Nat
<1>1. \A p \in ps : value[o][p] \in 0 .. changes /\ changes \in 0 .. MaxChanges
  BY DEF ServerInv
<1>2. \A p \in ps : value[o][p] \in 0 .. MaxChanges /\ value[o][p] <= changes /\ value[o][p] \in Nat
  BY <1>1, Numbers
<1>3. [p \in ps |-> value[o][p]] \in [ps -> 0 .. MaxChanges]
  BY <1>2
<1>4. QED
  BY <1>2, <1>3 DEF Fields

\* Values that have been stay.
LEMMA PastStays ==
  ASSUME NEW ch \in Chunks, NEW m \in Nat, NEW n \in Nat, m <= n, Past(ch, m)
  PROVE  Past(ch, n)
<1>1. \A o \in DOMAIN ch : \A p \in DOMAIN ch[o] : ch[o][p] \in 0 .. MaxChanges /\ ch[o][p] <= m
  BY OfChunks DEF Past
<1>2. \A o \in DOMAIN ch : \A p \in DOMAIN ch[o] : ch[o][p] <= n
  BY <1>1, Numbers
<1>3. QED
  BY <1>2 DEF Past

-----------------------------------------------------------------------------
(* The last of some datagrams. *)

\* More datagrams behind the first k change nothing of them.
LEMMA LastKept ==
  ASSUME NEW T, NEW sent \in Seq(T), NEW d \in T, NEW k \in 0 .. Len(sent),
         NEW o, NEW p, NEW v, Last(sent, k, o, p, v)
  PROVE  Last(Append(sent, d), k, o, p, v)
<1>1. \A n \in 1 .. k : Append(sent, d)[n] = sent[n]
  OBVIOUS
<1>2. CASE v = 0 /\ \A n \in 1 .. k : ~Has(sent[n], o, p)
  BY <1>1, <1>2 DEF Last
<1>3. ASSUME NEW n \in 1 .. k, Has(sent[n], o, p), sent[n].chunks[o][p] = v,
             \A m \in n + 1 .. k : ~Has(sent[m], o, p)
      PROVE  Last(Append(sent, d), k, o, p, v)
  <2>1. \A m \in n + 1 .. k : m \in 1 .. k
    OBVIOUS
  <2>2. QED
    BY <1>1, <1>3, <2>1 DEF Last
<1>4. QED
  BY <1>2, <1>3 DEF Last

\* One more that has the property says what it is, and one that does not leaves it.
LEMMA LastNext ==
  ASSUME NEW T, NEW sent \in Seq(T), NEW k \in Nat, k + 1 <= Len(sent),
         NEW o, NEW p, NEW v,
         Has(sent[k + 1], o, p) => sent[k + 1].chunks[o][p] = v,
         ~Has(sent[k + 1], o, p) => Last(sent, k, o, p, v)
  PROVE  Last(sent, k + 1, o, p, v)
<1>1. CASE Has(sent[k + 1], o, p)
  <2>1. k + 1 \in 1 .. k + 1 /\ \A m \in (k + 1) + 1 .. k + 1 : FALSE
    OBVIOUS
  <2>2. QED
    BY <1>1, <2>1 DEF Last
<1>2. CASE ~Has(sent[k + 1], o, p)
  <2>1. \A n \in 1 .. k + 1 : n \in 1 .. k \/ n = k + 1
    OBVIOUS
  <2>2. CASE v = 0 /\ \A n \in 1 .. k : ~Has(sent[n], o, p)
    BY <1>2, <2>1, <2>2 DEF Last
  <2>3. ASSUME NEW n \in 1 .. k, Has(sent[n], o, p), sent[n].chunks[o][p] = v,
               \A m \in n + 1 .. k : ~Has(sent[m], o, p)
        PROVE  Last(sent, k + 1, o, p, v)
    <3>1. n \in 1 .. k + 1 /\ \A m \in n + 1 .. k + 1 : m \in n + 1 .. k \/ m = k + 1
      OBVIOUS
    <3>2. QED
      BY <1>2, <2>3, <3>1 DEF Last
  <2>4. QED
    BY <1>2, <2>2, <2>3 DEF Last
<1>3. QED
  BY <1>1, <1>2

\* What is sent last is the last, or leaves what was.
LEMMA LastAppended ==
  ASSUME NEW T, NEW sent \in Seq(T), NEW d \in T, NEW o, NEW p, NEW v,
         Has(d, o, p) => d.chunks[o][p] = v,
         ~Has(d, o, p) => Last(sent, Len(sent), o, p, v)
  PROVE  Last(Append(sent, d), Len(Append(sent, d)), o, p, v)
<1> DEFINE next == Append(sent, d)
           k == Len(sent)
<1>1. next \in Seq(T) /\ k \in Nat /\ Len(next) = k + 1 /\ next[k + 1] = d /\ k \in 0 .. k
  BY AppendProperties, LenProperties
<1>2. Last(sent, k, o, p, v) => Last(next, k, o, p, v)
  BY <1>1, LastKept
<1> HIDE DEF next, k
<1>3. /\ Has(next[k + 1], o, p) => next[k + 1].chunks[o][p] = v
      /\ ~Has(next[k + 1], o, p) => Last(next, k, o, p, v)
      /\ k + 1 <= Len(next)
  BY <1>1, <1>2 DEF k
<1>4. Last(next, k + 1, o, p, v)
  BY <1>1, <1>3, LastNext
<1>5. QED
  BY <1>1, <1>4 DEF next

-----------------------------------------------------------------------------
(* What the actions have in common. *)

\* Nothing packed.
LEMMA NoChunks == <<>> \in Chunks /\ \A n : Past(<<>>, n)
<1>1. <<>> \in [1 .. Len(<<>>) -> Fields] /\ DOMAIN <<>> = 1 .. Len(<<>>) /\ Len(<<>>) = 0
  BY EmptySeq, LenProperties
<1>2. 1 .. 0 = {} /\ {} \in SUBSET Objects
  OBVIOUS
<1>3. QED
  BY <1>1, <1>2 DEF Chunks, Past

\* Initially nothing has been changed or sent.
LEMMA InitIInv == Init => IInv
<1> SUFFICES ASSUME Init PROVE IInv
  OBVIOUS
<1> USE DEF Init
<1>1. <<>> \in Chunks /\ \A n : Past(<<>>, n)
  BY NoChunks
<1>2. \A c \in Clients : thread[c] \in Threads /\ Past(thread[c].packed, changes)
  BY <1>1 DEF Threads
<1>3. ServerInv
  BY <1>2, Numbers DEF ServerInv
<1>4. NetInv
  BY Numbers DEF NetInv
<1>5. ClientInv
  BY DEF ClientInv
<1>6. WalkInv /\ SentInv
  BY DEF WalkInv, SentInv
<1>7. \A c \in Clients, o \in Objects, p \in Props : copy[c][o][p] = 0 /\ Len(read[c]) = 0 /\ Len(net[c]) = 0
  OBVIOUS
<1>8. CopyInv
  BY <1>7 DEF CopyInv, Last
<1>9. QED
  BY <1>3, <1>4, <1>5, <1>6, <1>8 DEF IInv

\* What a client is sent, it is sent behind the rest.
Grows ==
  \A c \in Clients : \/ net'[c] = net[c]
                     \/ \E d \in Datagrams : net'[c] = Append(net[c], d)

\* What is in front of all that a client throws at becomes less, never more.
LEMMA FrontShrinks ==
  ASSUME NEW c, NEW o, idToRemoteObject'[c] \subseteq idToRemoteObject[c],
         net[c] \in Seq(Datagrams), net'[c] \in Seq(Datagrams), Len(net[c]) <= Len(net'[c]),
         \A n \in 1 .. Len(net[c]) : net'[c][n] = net[c][n]
  PROVE  Front(c, o)' => Front(c, o)
<1>1. /\ DOMAIN net[c] = 1 .. Len(net[c]) /\ DOMAIN net'[c] = 1 .. Len(net'[c])
      /\ Len(net[c]) \in Nat /\ Len(net'[c]) \in Nat
  BY LenProperties
<1>2. \A n \in DOMAIN net[c] : n \in DOMAIN net'[c] /\ net'[c][n] = net[c][n]
  BY <1>1
<1>3. QED
  BY <1>2 DEF Front

\* While the server is at work, what clients hold stays what they have read.
LEMMA ClientsWait ==
  ASSUME IInv, UNCHANGED client, Grows, changes' \in Nat, changes <= changes'
  PROVE  ClientInv' /\ CopyInv'
<1> USE DEF IInv, client
<1>1. ASSUME NEW c \in Clients
      PROVE  /\ net[c] \in Seq(Datagrams) /\ Len(net[c]) \in Nat /\ Len(net[c]) <= Len(net'[c])
             /\ Len(net'[c]) \in Nat /\ net'[c] \in Seq(Datagrams)
             /\ \A n \in 1 .. Len(net[c]) : net'[c][n] = net[c][n]
  <2>1. net[c] \in Seq(Datagrams)
    BY DEF NetInv
  <2>2. CASE net'[c] = net[c]
    BY <2>1, <2>2
  <2>3. ASSUME NEW d \in Datagrams, net'[c] = Append(net[c], d)
        PROVE  /\ Len(net[c]) \in Nat /\ Len(net[c]) <= Len(net'[c]) /\ Len(net'[c]) \in Nat
               /\ \A n \in 1 .. Len(net[c]) : net'[c][n] = net[c][n]
    BY <2>1, <2>3
  <2>4. QED
    BY <2>1, <2>2, <2>3 DEF Grows
<1>2. ClientInv'
  <2>1. \A n \in 0 .. changes : n \in 0 .. changes'
    BY DEF ServerInv
  <2>2. copy \in [Clients -> [Objects -> [Props -> 0 .. changes']]]
    BY <2>1 DEF ClientInv
  <2>3. ASSUME NEW c \in Clients PROVE read[c] \in Seq(1 .. Len(net'[c]))
    <3>1. read[c] \in Seq(1 .. Len(net[c]))
      BY DEF ClientInv
    <3>2. \A n \in 1 .. Len(net[c]) : n \in 1 .. Len(net'[c])
      BY <1>1
    <3>3. QED
      BY <3>1, <3>2, SeqMonotonic
  <2>4. QED
    BY <2>2, <2>3 DEF ClientInv
<1>3. CopyInv'
  <2> SUFFICES ASSUME NEW c \in Clients, InOrder(c)'
               PROVE  /\ Len(read[c]) <= Len(net'[c])
                      /\ \A o \in idToRemoteObject[c], p \in Props :
                           Spared(c, o)' /\ <<c, o, p>> \notin own =>
                             Last(net'[c], Len(read[c]), o, p, copy[c][o][p])
    BY DEF CopyInv
  <2>1. InOrder(c)
    BY DEF InOrder
  <2>2. Len(read[c]) \in Nat
    BY DEF ClientInv
  <2>3. /\ Len(read[c]) <= Len(net[c])
        /\ \A o \in idToRemoteObject[c], p \in Props :
             Spared(c, o) /\ <<c, o, p>> \notin own =>
               Last(net[c], Len(read[c]), o, p, copy[c][o][p])
    BY <2>1 DEF CopyInv
  <2>4. Len(read[c]) \in 0 .. Len(net[c]) /\ Len(read[c]) <= Len(net'[c])
    BY <1>1, <2>2, <2>3
  <2>5. ASSUME NEW o \in idToRemoteObject[c], NEW p \in Props, Spared(c, o)', <<c, o, p>> \notin own
        PROVE  Last(net'[c], Len(read[c]), o, p, copy[c][o][p])
    <3>1. Front(c, o)' => Front(c, o)
      BY <1>1, FrontShrinks
    <3>2. Last(net[c], Len(read[c]), o, p, copy[c][o][p])
      BY <2>3, <2>5, <3>1 DEF Spared
    <3>3. CASE net'[c] = net[c]
      BY <3>2, <3>3
    <3>4. ASSUME NEW d \in Datagrams, net'[c] = Append(net[c], d)
          PROVE  Last(net'[c], Len(read[c]), o, p, copy[c][o][p])
      BY <1>1, <2>4, <3>2, <3>4, LastKept
    <3>5. QED
      BY <3>3, <3>4 DEF Grows
  <2>6. QED
    BY <2>4, <2>5
<1>4. QED
  BY <1>2, <1>3

\* What was sent stays of changes that have been.
LEMMA NetStays ==
  ASSUME IInv, UNCHANGED <<net, packets>>, changes' \in Nat, changes <= changes'
  PROVE  NetInv' /\ Grows
<1>1. ASSUME NEW c \in Clients, NEW n \in 1 .. Len(net[c])
      PROVE  Past(net[c][n].chunks, changes')
  <2>1. net[c] \in Seq(Datagrams) /\ Past(net[c][n].chunks, changes)
    BY DEF IInv, NetInv
  <2>2. net[c][n] \in Datagrams
    BY <2>1, ElementOfSeq
  <2>3. net[c][n].chunks \in Chunks
    BY <2>2 DEF Datagrams
  <2>4. changes \in Nat
    BY Numbers DEF IInv, ServerInv
  <2>5. QED
    BY <2>1, <2>3, <2>4, PastStays
<1>2. QED
  BY <1>1 DEF IInv, NetInv, Grows

\* What is sent is put behind the rest.
LEMMA SentIs ==
  ASSUME IInv, NEW to, NEW type \in {CREATE, UPDATE}, NEW chunks \in Chunks,
         Past(chunks, changes), Sent(to, type, chunks), changes' = changes
  PROVE  /\ NetInv' /\ Grows
         /\ [type |-> type, chunks |-> chunks] \in Datagrams
         /\ \A c \in Clients :
              net'[c] = IF c \in to /\ ready(c)
                        THEN Append(net[c], [type |-> type, chunks |-> chunks]) ELSE net[c]
<1> DEFINE d == [type |-> type, chunks |-> chunks]
<1>1. d \in Datagrams /\ d.chunks = chunks
  BY DEF Datagrams
<1> HIDE DEF d
<1>2. \A c \in Clients : net'[c] = IF c \in to /\ ready(c) THEN Append(net[c], d) ELSE net[c]
  BY DEF Sent, d
<1>3. packets' \in 0 .. MaxPackets /\ packets' = packets + 1 /\ packets \in Nat
  BY Numbers DEF Sent, IInv, NetInv
<1>4. ASSUME NEW c \in Clients
      PROVE  /\ net'[c] \in Seq(Datagrams) /\ Len(net'[c]) <= packets'
             /\ \A n \in 1 .. Len(net'[c]) : Past(net'[c][n].chunks, changes)
  <2>1. /\ net[c] \in Seq(Datagrams) /\ Len(net[c]) <= packets
        /\ \A n \in 1 .. Len(net[c]) : Past(net[c][n].chunks, changes)
    BY DEF IInv, NetInv
  <2>2. CASE net'[c] = Append(net[c], d)
    <3>1. /\ net'[c] \in Seq(Datagrams) /\ Len(net'[c]) = Len(net[c]) + 1 /\ Len(net[c]) \in Nat
          /\ \A n \in 1 .. Len(net[c]) : net'[c][n] = net[c][n]
          /\ net'[c][Len(net[c]) + 1] = d
      BY <1>1, <2>1, <2>2
    <3>2. \A n \in 1 .. Len(net'[c]) : n \in 1 .. Len(net[c]) \/ n = Len(net[c]) + 1
      BY <3>1
    <3>3. \A n \in 1 .. Len(net'[c]) : Past(net'[c][n].chunks, changes)
      BY <1>1, <2>1, <3>1, <3>2
    <3>4. QED
      BY <1>3, <2>1, <3>1, <3>3
  <2>3. CASE net'[c] = net[c]
    <3>1. Len(net[c]) \in Nat
      BY <2>1
    <3>2. QED
      BY <1>3, <2>1, <2>3, <3>1
  <2>4. QED
    BY <1>2, <2>2, <2>3
<1>5. net' = [c \in Clients |-> net'[c]]
  BY DEF Sent
<1>6. NetInv'
  BY <1>3, <1>4, <1>5 DEF NetInv
<1>7. Grows
  BY <1>1, <1>2 DEF Grows
<1>8. QED
  BY <1>1, <1>2, <1>6, <1>7 DEF d

\* A step that sends nothing and owes those that were served nothing new.
LEMMA NothingOwed ==
  ASSUME IInv, alive' \subseteq alive, thread' = thread, net' = net,
         \A c \in Clients, o \in alive' : Served(c, o) =>
           \A p \in Owed(c, o)' : p \in Owed(c, o) /\ value'[o][p] = value[o][p]
  PROVE  WalkInv' /\ SentInv'
<1>1. ASSUME NEW c \in Clients, thread[c].pc \in {"walk", "zero"}, NEW o \in alive', o <= thread[c].at
      PROVE  /\ o \in DOMAIN thread[c].packed /\ DOMAIN thread[c].packed[o] = Props
             /\ \A p \in Owed(c, o)' : thread[c].packed[o][p] = value'[o][p]
  <2>1. Served(c, o) /\ o \in alive
    BY <1>1 DEF Served
  <2>2. QED
    BY <1>1, <2>1 DEF IInv, WalkInv
<1>2. WalkInv'
  BY <1>1 DEF WalkInv
<1>3. ASSUME NEW c \in Clients, thread[c].pc = "done", NEW o \in alive', NEW p \in Owed(c, o)'
      PROVE  Last(net[c], Len(net[c]), o, p, value'[o][p])
  <2>1. Served(c, o) /\ o \in alive
    BY <1>3 DEF Served
  <2>2. p \in Owed(c, o) /\ value'[o][p] = value[o][p]
    BY <2>1
  <2>3. Last(net[c], Len(net[c]), o, p, value[o][p])
    BY <1>3, <2>1, <2>2 DEF IInv, SentInv
  <2>4. QED
    BY <2>2, <2>3
<1>4. SentInv'
  BY <1>3 DEF SentInv
<1>5. QED
  BY <1>2, <1>4

-----------------------------------------------------------------------------
(* The server's objects. *)

\* A value that is set is not owed before it is sent.
LEMMA SetKeeps ==
  ASSUME IInv, NEW o \in Objects, NEW p \in Props, Set(o, p)
  PROVE  IInv'
<1> USE DEF Set
<1>1. changes \in Nat /\ changes' \in 0 .. MaxChanges /\ changes' \in Nat /\ changes <= changes'
      /\ changes' = changes + 1
  BY Numbers DEF IInv, ServerInv
<1>2. /\ \A u \in Objects, q \in Props :
           value'[u][q] = IF u = o /\ q = p THEN changes + 1 ELSE value[u][q]
      /\ \A u \in Objects : updateMask'[u] = IF u = o THEN updateMask[u] \cup {p} ELSE updateMask[u]
      /\ updateMask' \in [Objects -> SUBSET Props]
  BY DEF IInv, ServerInv
<1>3. value' \in [Objects -> [Props -> 0 .. changes']]
  <2>1. \A u \in Objects, q \in Props : value[u][q] \in 0 .. changes
    BY DEF IInv, ServerInv
  <2>2. \A n \in 0 .. changes : n \in 0 .. changes'
    BY <1>1
  <2>3. changes + 1 \in 0 .. changes'
    BY <1>1
  <2>4. \A u \in Objects, q \in Props : value'[u][q] \in 0 .. changes'
    BY <1>2, <2>1, <2>2, <2>3
  <2>5. value \in [Objects -> [Props -> 0 .. changes]]
    BY DEF IInv, ServerInv
  <2>6. value' = [u \in Objects |-> value'[u]]
    BY <2>5
  <2>7. \A u \in Objects : value'[u] = [q \in Props |-> value'[u][q]]
    BY <2>5
  <2>8. QED
    BY <2>4, <2>6, <2>7
<1>4. \A c \in Clients : Past(thread[c].packed, changes')
  BY <1>1, PastStays DEF IInv, ServerInv, Threads
<1>5. ServerInv'
  BY <1>1, <1>2, <1>3, <1>4 DEF IInv, ServerInv
<1>6. NetInv' /\ Grows
  BY <1>1, NetStays
<1>7. ClientInv' /\ CopyInv'
  BY <1>1, <1>6, ClientsWait
<1>8. ASSUME NEW c \in Clients, NEW u \in alive, NEW q \in Owed(c, u)'
      PROVE  q \in Owed(c, u) /\ value'[u][q] = value[u][q]
  <2>1. u \in Objects /\ q \in Props /\ q \notin updateMask'[u] /\ <<c, u, q>> \notin missed'
    BY DEF Owed, IInv, ServerInv
  <2>2. ~(u = o /\ q = p) /\ q \notin updateMask[u]
    BY <1>2, <2>1
  <2>3. \A d \in Clients : <<c, u, q>> # <<d, o, p>>
    BY <2>2
  <2>4. <<c, u, q>> \notin missed
    BY <2>1, <2>3
  <2>5. QED
    BY <1>2, <2>1, <2>2, <2>4 DEF Owed
<1>9. WalkInv' /\ SentInv'
  BY <1>8, NothingOwed
<1>10. QED
  BY <1>5, <1>6, <1>7, <1>9 DEF IInv

\* A value that is changed without its bit is missed by all that were served.
LEMMA AddKeeps ==
  ASSUME IInv, NEW o \in Objects, NEW p \in Props, AddUnmarked(o, p)
  PROVE  IInv'
<1> USE DEF AddUnmarked
<1>1. changes \in Nat /\ changes' \in 0 .. MaxChanges /\ changes' \in Nat /\ changes <= changes'
      /\ changes' = changes + 1
  BY Numbers DEF IInv, ServerInv
<1>2. \A u \in Objects, q \in Props :
        value'[u][q] = IF u = o /\ q = p THEN changes + 1 ELSE value[u][q]
  BY DEF IInv, ServerInv
<1>3. value' \in [Objects -> [Props -> 0 .. changes']]
  <2>1. \A u \in Objects, q \in Props : value[u][q] \in 0 .. changes
    BY DEF IInv, ServerInv
  <2>2. \A n \in 0 .. changes : n \in 0 .. changes'
    BY <1>1
  <2>3. changes + 1 \in 0 .. changes'
    BY <1>1
  <2>4. \A u \in Objects, q \in Props : value'[u][q] \in 0 .. changes'
    BY <1>2, <2>1, <2>2, <2>3
  <2>5. value \in [Objects -> [Props -> 0 .. changes]]
    BY DEF IInv, ServerInv
  <2>6. value' = [u \in Objects |-> value'[u]]
    BY <2>5
  <2>7. \A u \in Objects : value'[u] = [q \in Props |-> value'[u][q]]
    BY <2>5
  <2>8. QED
    BY <2>4, <2>6, <2>7
<1>4. \A c \in Clients : Past(thread[c].packed, changes')
  BY <1>1, PastStays DEF IInv, ServerInv, Threads
<1>5. ServerInv'
  BY <1>1, <1>3, <1>4 DEF IInv, ServerInv
<1>6. NetInv' /\ Grows
  BY <1>1, NetStays
<1>7. ClientInv' /\ CopyInv'
  BY <1>1, <1>6, ClientsWait
<1>8. ASSUME NEW c \in Clients, NEW u \in alive, Served(c, u), NEW q \in Owed(c, u)'
      PROVE  q \in Owed(c, u) /\ value'[u][q] = value[u][q]
  <2>1. u \in Objects /\ q \in Props /\ q \notin updateMask[u] /\ <<c, u, q>> \notin missed'
    BY DEF Owed, IInv, ServerInv
  <2>2. ~(u = o /\ q = p) /\ <<c, u, q>> \notin missed
    BY <1>8, <2>1
  <2>3. QED
    BY <1>2, <2>1, <2>2 DEF Owed
<1>9. WalkInv' /\ SentInv'
  BY <1>8, NothingOwed
<1>10. QED
  BY <1>5, <1>6, <1>7, <1>9 DEF IInv

\* Of an object that dies nothing is owed.
LEMMA KillKeeps ==
  ASSUME IInv, NEW o \in Objects, Kill(o)
  PROVE  IInv'
<1> USE DEF Kill
<1>1. changes' \in Nat /\ changes' = changes /\ changes <= changes'
  BY Numbers DEF IInv, ServerInv
<1>2. ServerInv'
  BY DEF IInv, ServerInv
<1>3. NetInv' /\ Grows
  BY <1>1, NetStays
<1>4. ClientInv' /\ CopyInv'
  BY <1>1, <1>3, ClientsWait
<1>5. \A c \in Clients, u \in alive' : \A q \in Owed(c, u)' : q \in Owed(c, u) /\ value'[u][q] = value[u][q]
  BY DEF Owed
<1>6. WalkInv' /\ SentInv'
  BY <1>5, NothingOwed
<1>7. QED
  BY <1>2, <1>3, <1>4, <1>6 DEF IInv

-----------------------------------------------------------------------------
(* Sending. *)

\* The loop sends what the bits name to everybody, and what it sends before the initial
\* data, which were packed before, is missed.
LEMMA TickKeeps ==
  ASSUME IInv, Tick
  PROVE  IInv'
<1> USE DEF Tick
<1>1. /\ changes' = changes /\ changes' \in Nat /\ changes <= changes' /\ alive' = alive
      /\ value' = value /\ thread' = thread /\ UNCHANGED client
  BY Numbers DEF IInv, ServerInv
<1>2. Updated \in SUBSET Objects /\ Updated = {o \in alive : updateMask[o] # {}} /\ alive \subseteq Objects
  BY DEF Updated, IInv, ServerInv
<1>3. \A o \in Updated : updateMask[o] \in SUBSET Props
  BY <1>2 DEF IInv, ServerInv
<1>4. Packed \in Chunks /\ Past(Packed, changes)
  <2>1. \A o \in Updated : /\ pack(o) \in Fields
                           /\ \A p \in updateMask[o] : value[o][p] <= changes
    BY <1>2, <1>3, FieldsAre DEF pack, IInv
  <2>2. Packed \in [Updated -> Fields]
    BY <2>1 DEF Packed
  <2>3. Packed \in Chunks
    BY <1>2, <2>2 DEF Chunks
  <2>4. Past(Packed, changes)
    BY <2>1 DEF Past, Packed, pack
  <2>5. QED
    BY <2>3, <2>4
<1> DEFINE d == [type |-> UPDATE, chunks |-> Packed]
<1>5. /\ NetInv' /\ Grows /\ d \in Datagrams
      /\ \A c \in Clients : net'[c] = IF c \in Clients /\ ready(c) THEN Append(net[c], d) ELSE net[c]
  BY <1>1, <1>4, SentIs
<1>6. ClientInv' /\ CopyInv'
  BY <1>1, <1>5, ClientsWait
<1>7. /\ \A o \in Objects : updateMask'[o] = IF o \in Updated THEN {} ELSE updateMask[o]
      /\ updateMask' \in [Objects -> SUBSET Props]
  BY DEF IInv, ServerInv
<1>8. missed \subseteq missed' /\ missed' \subseteq Clients \X Objects \X Props
  BY <1>2 DEF IInv, ServerInv
<1>9. ServerInv'
  BY <1>1, <1>7, <1>8 DEF IInv, ServerInv
<1>10. ASSUME NEW c \in Clients, NEW o \in alive, NEW p \in Owed(c, o)'
       PROVE  /\ p \in Props /\ o \in Objects /\ <<c, o, p>> \notin missed'
              /\ p \in updateMask[o] => o \in Updated
              /\ p \notin updateMask[o] => p \in Owed(c, o)
  BY <1>2, <1>7, <1>8 DEF Owed
<1>11. WalkInv'
  <2> SUFFICES ASSUME NEW c \in Clients, thread[c].pc \in {"walk", "zero"},
                      NEW o \in alive, o <= thread[c].at
               PROVE  /\ o \in DOMAIN thread[c].packed /\ DOMAIN thread[c].packed[o] = Props
                      /\ \A p \in Owed(c, o)' : thread[c].packed[o][p] = value[o][p]
    BY <1>1 DEF WalkInv
  <2>1. ASSUME NEW p \in Owed(c, o)' PROVE p \in Owed(c, o)
    <3>1. Served(c, o)
      BY DEF Served
    <3>2. ASSUME p \in updateMask[o] PROVE FALSE
      <4>1. o \in Updated /\ p \in Props /\ <<c, o, p>> \notin missed'
        BY <1>10, <3>2
      <4>2. <<c, o, p>> \in Clients \X Updated \X Props
        BY <4>1
      <4>3. QED
        BY <3>1, <3>2, <4>1, <4>2
    <3>3. QED
      BY <1>10, <3>2
  <2>2. QED
    BY <2>1 DEF IInv, WalkInv
<1>12. SentInv'
  <2> SUFFICES ASSUME NEW c \in Clients, thread[c].pc = "done", NEW o \in alive,
                      NEW p \in Owed(c, o)'
               PROVE  Last(net'[c], Len(net'[c]), o, p, value[o][p])
    BY <1>1 DEF SentInv
  <2>1. net[c] \in Seq(Datagrams) /\ net'[c] = Append(net[c], d)
    BY <1>5 DEF IInv, NetInv, ready
  <2>2. Has(d, o, p) <=> o \in Updated /\ p \in updateMask[o]
    BY DEF Has, Packed, pack
  <2>3. CASE p \in updateMask[o]
    <3>1. Has(d, o, p) /\ d.chunks[o][p] = value[o][p]
      BY <1>10, <2>2, <2>3 DEF Packed, pack
    <3>2. QED
      BY <1>5, <2>1, <3>1, LastAppended
  <2>4. CASE p \notin updateMask[o]
    <3>1. ~Has(d, o, p) /\ p \in Owed(c, o)
      BY <1>10, <2>2, <2>4
    <3>2. Last(net[c], Len(net[c]), o, p, value[o][p])
      BY <3>1 DEF IInv, SentInv
    <3>3. QED
      BY <1>5, <2>1, <3>1, <3>2, LastAppended
  <2>5. QED
    BY <2>3, <2>4
<1>13. QED
  BY <1>5, <1>6, <1>9, <1>11, <1>12 DEF IInv

\* A thread that begins has come to no object yet.
LEMMA JoinKeeps ==
  ASSUME IInv, NEW c \in Clients, Join(c)
  PROVE  IInv'
<1> USE DEF Join, objects
<1>1. changes' \in Nat /\ changes <= changes' /\ UNCHANGED client
  BY Numbers DEF IInv, ServerInv
<1>2. /\ \A d \in Clients : d # c => thread'[d] = thread[d]
      /\ thread'[c].pc = "walk" /\ thread'[c].at = 0 /\ thread'[c].packed = thread[c].packed
      /\ thread' \in [Clients -> Threads]
  BY DEF IInv, ServerInv, Threads
<1>3. ServerInv'
  BY <1>2 DEF IInv, ServerInv
<1>4. NetInv' /\ Grows
  BY <1>1, NetStays
<1>5. ClientInv' /\ CopyInv'
  BY <1>1, <1>4, ClientsWait
<1>6. \A d \in Clients, o \in Objects : Owed(d, o)' = Owed(d, o)
  BY DEF Owed
<1>7. WalkInv'
  <2> SUFFICES ASSUME NEW d \in Clients, thread'[d].pc \in {"walk", "zero"},
                      NEW o \in alive, o <= thread'[d].at
               PROVE  /\ o \in DOMAIN thread'[d].packed /\ DOMAIN thread'[d].packed[o] = Props
                      /\ \A p \in Owed(d, o)' : thread'[d].packed[o][p] = value[o][p]
    BY DEF WalkInv
  <2>1. o \in Objects /\ ~(o <= 0)
    BY Numbers DEF IInv, ServerInv
  <2>2. d # c
    BY <1>2, <2>1
  <2>3. QED
    BY <1>2, <1>6, <2>1, <2>2 DEF IInv, WalkInv
<1>8. SentInv'
  <2> SUFFICES ASSUME NEW d \in Clients, thread'[d].pc = "done", NEW o \in alive,
                      NEW p \in Owed(d, o)'
               PROVE  Last(net[d], Len(net[d]), o, p, value[o][p])
    BY DEF SentInv
  <2>1. d # c /\ o \in Objects
    BY <1>2 DEF IInv, ServerInv
  <2>2. QED
    BY <1>2, <1>6, <2>1 DEF IInv, SentInv
<1>9. QED
  BY <1>3, <1>4, <1>5, <1>7, <1>8 DEF IInv

\* The next object is packed as it is, and no other lies between it and the last.
LEMMA WritesKeeps ==
  ASSUME IInv, NEW c \in Clients, InitialWrites(c)
  PROVE  IInv'
<1> USE DEF InitialWrites, objects
<1> DEFINE o == Min(Left(c))
           old == thread[c].packed
<1>1. changes' \in Nat /\ changes <= changes' /\ UNCHANGED client /\ changes' = changes
  BY Numbers DEF IInv, ServerInv
<1>2. /\ thread[c].at \in Nat /\ alive \subseteq Objects
      /\ old \in Chunks /\ Past(old, changes)
  <2>1. thread[c] \in Threads /\ alive \subseteq Objects /\ Past(old, changes)
    BY DEF IInv, ServerInv
  <2>2. thread[c].at \in Objects \cup {0} /\ old \in Chunks
    BY <2>1 DEF Threads
  <2>3. QED
    BY <2>1, <2>2, Numbers
<1>3. o \in alive /\ o > thread[c].at /\ \A u \in alive : u > thread[c].at => o <= u
  <2>1. Left(c) \in SUBSET Nat /\ Left(c) # {}
    BY <1>2, Numbers DEF Left
  <2>2. o \in Left(c) /\ \A u \in Left(c) : o <= u
    BY <2>1, MinIs
  <2>3. QED
    BY <2>2 DEF Left
<1>4. o \in Objects /\ o \in Nat
  BY <1>2, <1>3, Numbers
<1>5. /\ \A d \in Clients : d # c => thread'[d] = thread[d]
      /\ thread'[c] = [pc |-> "zero", at |-> o,
                       packed |-> [q \in DOMAIN old \cup {o} |-> IF q = o THEN value[o] ELSE old[q]]]
      /\ thread' = [d \in Clients |-> thread'[d]]
  BY DEF IInv, ServerInv
<1>0. /\ alive' = alive /\ value' = value /\ updateMask' = updateMask /\ missed' = missed
      /\ net' = net /\ packets' = packets /\ crash' = crash /\ thread[c].pc = "walk"
  OBVIOUS
<1> HIDE DEF o, old, InitialWrites
<1>6. /\ thread'[c].pc = "zero" /\ thread'[c].at = o
      /\ DOMAIN thread'[c].packed = DOMAIN old \cup {o}
      /\ \A q \in DOMAIN old \cup {o} : thread'[c].packed[q] = IF q = o THEN value[o] ELSE old[q]
  BY <1>5
<1>7. /\ value[o] \in Fields /\ DOMAIN value[o] = Props
      /\ \A p \in Props : value[o][p] <= changes
  <2>1. value[o] = [p \in Props |-> value[o][p]]
    BY <1>4 DEF IInv, ServerInv
  <2>2. Props \in SUBSET Props
    OBVIOUS
  <2>3. QED
    BY <1>4, <2>1, <2>2, FieldsAre DEF IInv
<1>8. thread'[c].packed \in Chunks /\ Past(thread'[c].packed, changes)
  <2>1. \A q \in DOMAIN old : /\ old[q] \in Fields
                              /\ \A p \in DOMAIN old[q] : old[q][p] <= changes
    BY <1>2, OfChunks DEF Past
  <2>2. DOMAIN old \cup {o} \in SUBSET Objects
    BY <1>2, <1>4, OfChunks
  <2>3. thread'[c].packed \in [DOMAIN old \cup {o} -> Fields]
    BY <1>5, <1>7, <2>1
  <2>4. thread'[c].packed \in Chunks
    BY <2>2, <2>3 DEF Chunks
  <2>5. Past(thread'[c].packed, changes)
    BY <1>6, <1>7, <2>1 DEF Past
  <2>6. QED
    BY <2>4, <2>5
<1>9. ServerInv'
  <2>1. thread'[c] \in Threads
    BY <1>4, <1>5, <1>8 DEF Threads
  <2>2. thread' \in [Clients -> Threads]
    BY <1>5, <2>1 DEF IInv, ServerInv
  <2>3. \A d \in Clients : /\ Past(thread'[d].packed, changes')
                           /\ thread'[d].pc = "none" => thread'[d].at = 0
                           /\ thread'[d].pc = "zero" => thread'[d].at # 0
    BY <1>1, <1>4, <1>5, <1>6, <1>8, Numbers DEF IInv, ServerInv
  <2>4. QED
    BY <1>0, <1>1, <2>2, <2>3 DEF IInv, ServerInv
<1>10. NetInv' /\ Grows
  BY <1>0, <1>1, NetStays
<1>11. ClientInv' /\ CopyInv'
  BY <1>1, <1>10, ClientsWait
<1>12. \A d \in Clients, u \in Objects : Owed(d, u)' = Owed(d, u)
  BY <1>0 DEF Owed
<1>13. WalkInv'
  <2> SUFFICES ASSUME NEW d \in Clients, thread'[d].pc \in {"walk", "zero"},
                      NEW u \in alive, u <= thread'[d].at
               PROVE  /\ u \in DOMAIN thread'[d].packed /\ DOMAIN thread'[d].packed[u] = Props
                      /\ \A p \in Owed(d, u)' : thread'[d].packed[u][p] = value[u][p]
    BY <1>0 DEF WalkInv
  <2>1. u \in Objects /\ u \in Nat
    BY <1>2, Numbers
  <2>2. CASE d # c
    BY <1>5, <1>12, <2>1, <2>2 DEF IInv, WalkInv
  <2>3. CASE d = c /\ u = o
    BY <1>6, <1>7, <2>3
  <2>4. CASE d = c /\ u # o
    <3>1. u <= thread[c].at
      BY <1>2, <1>3, <1>4, <1>6, <2>1, <2>4
    <3>2. /\ u \in DOMAIN old /\ DOMAIN old[u] = Props
          /\ \A p \in Owed(c, u) : old[u][p] = value[u][p]
      BY <1>0, <3>1 DEF IInv, WalkInv, old
    <3>3. QED
      BY <1>6, <1>12, <2>1, <2>4, <3>2
  <2>5. QED
    BY <2>2, <2>3, <2>4
<1>14. SentInv'
  <2> SUFFICES ASSUME NEW d \in Clients, thread'[d].pc = "done", NEW u \in alive,
                      NEW p \in Owed(d, u)'
               PROVE  Last(net[d], Len(net[d]), u, p, value[u][p])
    BY <1>0 DEF SentInv
  <2>1. d # c /\ u \in Objects
    BY <1>2, <1>6
  <2>2. QED
    BY <1>5, <1>12, <2>1 DEF IInv, SentInv
<1>15. QED
  BY <1>9, <1>10, <1>11, <1>13, <1>14 DEF IInv

\* What the clearing of the bits takes from those that were served is missed, and from
\* the one that joins what was changed since it was packed.
LEMMA ZeroesKeeps ==
  ASSUME IInv, NEW c \in Clients, InitialZeroes(c)
  PROVE  IInv'
<1> DEFINE o == thread[c].at
<1>0. /\ alive' = alive /\ value' = value /\ net' = net /\ packets' = packets /\ crash' = crash
      /\ changes' = changes /\ UNCHANGED client /\ thread[c].pc = "zero"
      /\ updateMask' = [updateMask EXCEPT ![o] = {}]
      /\ missed' = missed \cup
           {<<d, o, p>> : d \in {e \in Clients \ {c} : Served(e, o)}, p \in updateMask[o]}
           \cup {<<c, o, p>> : p \in {q \in updateMask[o] : thread[c].packed[o][q] # value[o][q]}}
      /\ thread' = [thread EXCEPT ![c].pc = "walk"]
  BY DEF InitialZeroes
<1>1. changes' \in Nat /\ changes <= changes'
  BY <1>0, Numbers DEF IInv, ServerInv
<1>2. /\ \A d \in Clients : d # c => thread'[d] = thread[d]
      /\ thread'[c].pc = "walk" /\ thread'[c].at = o /\ thread'[c].packed = thread[c].packed
      /\ thread' \in [Clients -> Threads]
  BY <1>0 DEF IInv, ServerInv, Threads
<1>3. o \in Objects
  BY <1>0 DEF IInv, ServerInv, Threads
<1>4. /\ updateMask' \in [Objects -> SUBSET Props]
      /\ \A u \in Objects : updateMask'[u] = IF u = o THEN {} ELSE updateMask[u]
  BY <1>0 DEF IInv, ServerInv
<1> HIDE DEF o
<1>5. missed \subseteq missed' /\ missed' \subseteq Clients \X Objects \X Props
  <2>1. updateMask[o] \subseteq Props /\ missed \subseteq Clients \X Objects \X Props
    BY <1>3 DEF IInv, ServerInv
  <2>2. QED
    BY <1>0, <1>3, <2>1
<1>6. ServerInv'
  BY <1>0, <1>2, <1>4, <1>5 DEF IInv, ServerInv
<1>7. NetInv' /\ Grows
  BY <1>0, <1>1, NetStays
<1>8. ClientInv' /\ CopyInv'
  BY <1>0, <1>1, <1>7, ClientsWait
\* A bit that was clear before, or one whose value is not missed.
<1>9. ASSUME NEW d \in Clients, NEW u \in alive, Served(d, u), NEW p \in Owed(d, u)'
      PROVE  \/ p \in Owed(d, u)
             \/ d = c /\ u = o /\ thread[c].packed[o][p] = value[o][p]
  <2>1. /\ u \in Objects /\ p \in Props /\ p \notin updateMask'[u]
        /\ <<d, u, p>> \notin missed' /\ <<d, u, p>> \notin missed
    BY <1>5 DEF Owed, IInv, ServerInv
  <2>2. CASE p \notin updateMask[u]
    BY <2>1, <2>2 DEF Owed
  <2>3. CASE p \in updateMask[u]
    <3>1. u = o
      BY <1>4, <2>1, <2>3
    <3>2. d = c
      BY <1>0, <1>9, <2>1, <2>3, <3>1
    <3>3. thread[c].packed[o][p] = value[o][p]
      BY <1>0, <2>1, <2>3, <3>1, <3>2
    <3>4. QED
      BY <3>1, <3>2, <3>3
  <2>4. QED
    BY <2>2, <2>3
<1>10. WalkInv'
  <2> SUFFICES ASSUME NEW d \in Clients, thread'[d].pc \in {"walk", "zero"},
                      NEW u \in alive, u <= thread'[d].at
               PROVE  /\ u \in DOMAIN thread'[d].packed /\ DOMAIN thread'[d].packed[u] = Props
                      /\ \A p \in Owed(d, u)' : thread'[d].packed[u][p] = value[u][p]
    BY <1>0 DEF WalkInv
  <2>1. /\ thread[d].pc \in {"walk", "zero"} /\ u <= thread[d].at
        /\ thread'[d].packed = thread[d].packed
    BY <1>0, <1>2 DEF o
  <2>2. Served(d, u)
    BY <2>1 DEF Served
  <2>3. /\ u \in DOMAIN thread[d].packed /\ DOMAIN thread[d].packed[u] = Props
        /\ \A p \in Owed(d, u) : thread[d].packed[u][p] = value[u][p]
    BY <2>1 DEF IInv, WalkInv
  <2>4. QED
    BY <1>9, <2>1, <2>2, <2>3
<1>11. SentInv'
  <2> SUFFICES ASSUME NEW d \in Clients, thread'[d].pc = "done", NEW u \in alive,
                      NEW p \in Owed(d, u)'
               PROVE  Last(net[d], Len(net[d]), u, p, value[u][p])
    BY <1>0 DEF SentInv
  <2>1. d # c /\ thread[d].pc = "done"
    BY <1>2
  <2>2. p \in Owed(d, u)
    BY <1>9, <2>1 DEF Served
  <2>3. QED
    BY <2>1, <2>2 DEF IInv, SentInv
<1>12. QED
  BY <1>6, <1>7, <1>8, <1>10, <1>11 DEF IInv

\* The initial data go behind what was sent before, and have all of it that is alive.
LEMMA SendsKeeps ==
  ASSUME IInv, NEW c \in Clients, InitialSends(c)
  PROVE  IInv'
<1> DEFINE old == thread[c].packed
           d == [type |-> CREATE, chunks |-> old]
<1>1. /\ alive' = alive /\ value' = value /\ updateMask' = updateMask /\ missed' = missed
      /\ crash' = crash /\ changes' = changes /\ UNCHANGED client
      /\ thread[c].pc = "walk" /\ Left(c) = {} /\ Sent({c}, CREATE, old)
      /\ thread' = [thread EXCEPT ![c] = [pc |-> "done", at |-> @.at, packed |-> <<>>]]
  BY DEF InitialSends, objects
<1>2. changes' \in Nat /\ changes <= changes'
  BY <1>1, Numbers DEF IInv, ServerInv
<1>3. thread[c] \in Threads /\ old \in Chunks /\ Past(old, changes) /\ thread[c].at \in Objects \cup {0}
  BY DEF IInv, ServerInv, Threads
<1>4. /\ \A e \in Clients : e # c => thread'[e] = thread[e]
      /\ thread'[c] = [pc |-> "done", at |-> thread[c].at, packed |-> <<>>]
      /\ thread' = [e \in Clients |-> thread'[e]]
  BY <1>1 DEF IInv, ServerInv
<1>5. <<>> \in Chunks /\ Past(<<>>, changes)
  BY NoChunks
<1>6. thread'[c] \in Threads /\ thread'[c].pc = "done" /\ thread'[c].packed = <<>>
  BY <1>3, <1>4, <1>5 DEF Threads
<1>7. ServerInv'
  <2>1. thread' \in [Clients -> Threads]
    BY <1>4, <1>6 DEF IInv, ServerInv
  <2>2. \A e \in Clients : /\ Past(thread'[e].packed, changes)
                           /\ thread'[e].pc = "none" => thread'[e].at = 0
                           /\ thread'[e].pc = "zero" => thread'[e].at # 0
    BY <1>4, <1>5, <1>6 DEF IInv, ServerInv
  <2>3. QED
    BY <1>1, <2>1, <2>2 DEF IInv, ServerInv
<1> HIDE DEF old
<1>8. /\ NetInv' /\ Grows /\ d \in Datagrams
      /\ \A e \in Clients : net'[e] = IF e \in {c} /\ ready(e) THEN Append(net[e], d) ELSE net[e]
  BY <1>1, <1>3, SentIs
<1>9. ClientInv' /\ CopyInv'
  BY <1>1, <1>2, <1>8, ClientsWait
<1>10. \A e \in Clients, u \in Objects : Owed(e, u)' = Owed(e, u)
  BY <1>1 DEF Owed
<1>11. alive \subseteq Objects
  BY DEF IInv, ServerInv
<1>12. WalkInv'
  <2> SUFFICES ASSUME NEW e \in Clients, thread'[e].pc \in {"walk", "zero"},
                      NEW u \in alive, u <= thread'[e].at
               PROVE  /\ u \in DOMAIN thread'[e].packed /\ DOMAIN thread'[e].packed[u] = Props
                      /\ \A p \in Owed(e, u)' : thread'[e].packed[u][p] = value[u][p]
    BY <1>1 DEF WalkInv
  <2>1. e # c /\ u \in Objects
    BY <1>6, <1>11
  <2>2. QED
    BY <1>4, <1>10, <2>1 DEF IInv, WalkInv
<1>13. SentInv'
  <2> SUFFICES ASSUME NEW e \in Clients, thread'[e].pc = "done", NEW u \in alive,
                      NEW p \in Owed(e, u)'
               PROVE  Last(net'[e], Len(net'[e]), u, p, value[u][p])
    BY <1>1 DEF SentInv
  <2>1. u \in Objects /\ p \in Owed(e, u)
    BY <1>10, <1>11
  <2>2. CASE e # c
    <3>1. thread[e].pc = "done" /\ net'[e] = net[e]
      BY <1>4, <1>8, <2>2
    <3>2. QED
      BY <2>1, <3>1 DEF IInv, SentInv
  <2>3. CASE e = c
    <3>1. u <= thread[c].at
      <4>1. thread[c].at \in Nat /\ u \in Nat /\ ~(u > thread[c].at)
        BY <1>1, <1>3, <2>1, Numbers DEF Left
      <4>2. QED
        BY <4>1
    <3>2. u \in DOMAIN old /\ DOMAIN old[u] = Props /\ old[u][p] = value[u][p] /\ p \in Props
      BY <1>1, <2>1, <2>3, <3>1 DEF IInv, WalkInv, Owed, old
    <3>3. Has(d, u, p) /\ d.chunks[u][p] = value[u][p]
      BY <3>2 DEF Has
    <3>4. net[c] \in Seq(Datagrams) /\ net'[c] = Append(net[c], d)
      BY <1>1, <1>8 DEF IInv, NetInv, ready
    <3>5. QED
      BY <1>8, <2>3, <3>3, <3>4, LastAppended
  <2>4. QED
    BY <2>2, <2>3
<1>14. QED
  BY <1>7, <1>8, <1>9, <1>12, <1>13 DEF IInv

-----------------------------------------------------------------------------
(* The clients. *)

\* A chunk that throws nowhere is taken whole.
LEMMA NothingThrown ==
  ASSUME NEW c, NEW d \in Datagrams, NEW o \in idToRemoteObject[c],
         \A q \in DOMAIN d.chunks : q <= o => ~Throws(c, d, q), o \in Nat
  PROVE  Taken(c, d, o) = IF o \in DOMAIN d.chunks THEN DOMAIN d.chunks[o] ELSE {}
<1>1. CASE o \in DOMAIN d.chunks
  <2>1. \A q \in DOMAIN d.chunks : q < o => q <= o
    <3>1. DOMAIN d.chunks \subseteq Nat
      BY OfChunks, Numbers DEF Datagrams
    <3>2. QED
      BY <3>1
  <2>2. o <= o
    OBVIOUS
  <2>3. o \in Reached(c, d)
    BY <1>1, <2>1 DEF Reached
  <2>4. Accepted(d.chunks[o]) = DOMAIN d.chunks[o]
    BY <1>1, <2>2 DEF Throws
  <2>5. QED
    BY <1>1, <2>3, <2>4 DEF Taken
<1>2. CASE o \notin DOMAIN d.chunks
  BY <1>2 DEF Taken, Reached
<1>3. QED
  BY <1>1, <1>2

\* Of the objects in front, no chunk of what was sent throws.
LEMMA FrontThrowsNot ==
  ASSUME NEW c, NEW o, Front(c, o), NEW n \in DOMAIN net[c], net[c][n] \in Datagrams,
         NEW q \in DOMAIN net[c][n].chunks, q <= o
  PROVE  ~Throws(c, net[c][n], q)
<1>1. q \in Objects
  BY OfChunks DEF Datagrams
<1>2. q \in idToRemoteObject[c]
  BY <1>1 DEF Front
<1>3. \A p \in DOMAIN net[c][n].chunks[q] : net[c][n].chunks[q][p] \notin Refused
  BY DEF Front
<1>4. QED
  BY <1>2, <1>3 DEF Throws, Accepted

\* What a client has of an object after it has read a datagram.
LEMMA Reads ==
  ASSUME IInv, NEW c \in Clients, NEW n \in DOMAIN net[c], ClientReceives(c, n)
  PROVE  /\ \A e \in Clients : e # c => copy'[e] = copy[e]
         /\ \A o \in Objects, p \in Props :
              copy'[c][o][p] = IF p \in Taken(c, net[c][n], o) THEN net[c][n].chunks[o][p]
                               ELSE copy[c][o][p]
         /\ \A e \in Clients, o \in Objects, p \in Props :
              <<e, o, p>> \in own' <=> <<e, o, p>> \in own /\ ~(e = c /\ p \in Taken(c, net[c][n], o))
<1> DEFINE d == net[c][n]
           T(o) == Taken(c, d, o)
<1>1. /\ copy' = [copy EXCEPT ![c] = [o \in Objects |->
                   [p \in Props |-> IF p \in T(o) THEN d.chunks[o][p] ELSE @[o][p]]]]
      /\ own' = {cop \in own : ~(cop[1] = c /\ cop[3] \in T(cop[2]))}
  BY DEF ClientReceives
<1>2. copy \in [Clients -> [Objects -> [Props -> 0 .. changes]]]
  BY DEF IInv, ClientInv
<1> HIDE DEF T
<1>3. /\ \A e \in Clients : e # c => copy'[e] = copy[e]
      /\ \A o \in Objects, p \in Props :
           copy'[c][o][p] = IF p \in T(o) THEN d.chunks[o][p] ELSE copy[c][o][p]
  BY <1>1, <1>2
<1>4. ASSUME NEW e \in Clients, NEW o \in Objects, NEW p \in Props
      PROVE  <<e, o, p>> \in own' <=> <<e, o, p>> \in own /\ ~(e = c /\ p \in T(o))
  BY <1>1
<1>5. QED
  BY <1>3, <1>4 DEF T

\* What a client reads next, in order, is the last it has read.
LEMMA ReadsNext ==
  ASSUME IInv, NEW c \in Clients, NEW n \in DOMAIN net[c], ClientReceives(c, n), InOrder(c)'
  PROVE  /\ Len(read'[c]) <= Len(net[c])
         /\ \A o \in idToRemoteObject[c], p \in Props :
              Spared(c, o)' /\ <<c, o, p>> \notin own' =>
                Last(net[c], Len(read'[c]), o, p, copy'[c][o][p])
<1> DEFINE d == net[c][n]
           k == Len(read[c])
<1>1. /\ net[c] \in Seq(Datagrams) /\ n \in 1 .. Len(net[c]) /\ d \in Datagrams
      /\ Len(net[c]) \in Nat
  BY ElementOfSeq, LenProperties DEF IInv, NetInv
<1>2. /\ read[c] \in Seq(1 .. Len(net[c])) /\ k \in Nat /\ read'[c] = Append(read[c], n)
      /\ Len(read'[c]) = k + 1 /\ read'[c][k + 1] = n
      /\ \A m \in 1 .. k : read'[c][m] = read[c][m]
  <2>1. read[c] \in Seq(1 .. Len(net[c])) /\ read'[c] = Append(read[c], n)
    BY DEF IInv, ClientInv, ClientReceives
  <2>2. QED
    BY <1>1, <2>1, AppendProperties, LenProperties
<1>3. \A m \in 1 .. Len(read'[c]) : read'[c][m] = m
  BY DEF InOrder
<1>4. dropped'[c] = (dropped[c] \/ \E o \in DOMAIN d.chunks : Throws(c, d, o))
  BY DEF ClientReceives, IInv, ClientInv
<1>5. net' = net /\ idToRemoteObject' = idToRemoteObject
  BY DEF ClientReceives
<1>6. n = k + 1 /\ \A m \in 1 .. k : read[c][m] = m
  <2>1. k + 1 \in 1 .. k + 1 /\ \A m \in 1 .. k : m \in 1 .. k + 1
    BY <1>2
  <2>2. QED
    BY <1>2, <1>3, <2>1
<1>7. \A o \in idToRemoteObject[c], p \in Props :
        Spared(c, o) /\ <<c, o, p>> \notin own => Last(net[c], k, o, p, copy[c][o][p])
  BY <1>6 DEF IInv, CopyInv, InOrder
<1>8. ASSUME NEW o \in idToRemoteObject[c], NEW p \in Props, Spared(c, o)', <<c, o, p>> \notin own'
      PROVE  Last(net[c], k + 1, o, p, copy'[c][o][p])
  <2>1. o \in Objects /\ o \in Nat
    BY Numbers DEF IInv, ClientInv
  <2>2. Front(c, o)' <=> Front(c, o)
    BY <1>5 DEF Front
  <2>3. Spared(c, o)
    BY <1>4, <1>8, <2>2 DEF Spared, IInv, ClientInv
  <2>4. \A q \in DOMAIN d.chunks : q <= o => ~Throws(c, d, q)
    <3>1. CASE Front(c, o)
      BY <1>1, <3>1, FrontThrowsNot
    <3>2. CASE ~dropped'[c]
      BY <1>4, <3>2 DEF IInv, ClientInv
    <3>3. QED
      BY <1>8, <2>2, <3>1, <3>2 DEF Spared
  <2>5. Taken(c, d, o) = IF o \in DOMAIN d.chunks THEN DOMAIN d.chunks[o] ELSE {}
    BY <1>1, <2>1, <2>4, NothingThrown
  <2>6. p \in Taken(c, d, o) <=> Has(d, o, p)
    BY <2>5 DEF Has
  <2>7. /\ copy'[c][o][p] = IF p \in Taken(c, d, o) THEN d.chunks[o][p] ELSE copy[c][o][p]
        /\ <<c, o, p>> \in own' <=> <<c, o, p>> \in own /\ ~(p \in Taken(c, d, o))
    BY <2>1, Reads
  <2>8. /\ Has(d, o, p) => copy'[c][o][p] = d.chunks[o][p]
        /\ ~Has(d, o, p) => copy'[c][o][p] = copy[c][o][p] /\ <<c, o, p>> \notin own
    BY <1>8, <2>6, <2>7
  <2>9. /\ Has(net[c][k + 1], o, p) => net[c][k + 1].chunks[o][p] = copy'[c][o][p]
        /\ ~Has(net[c][k + 1], o, p) => Last(net[c], k, o, p, copy'[c][o][p])
        /\ k + 1 <= Len(net[c])
    BY <1>1, <1>6, <1>7, <2>3, <2>8
  <2> HIDE DEF k
  <2>10. QED
    BY <1>1, <1>2, <2>9, LastNext
<1>9. QED
  BY <1>1, <1>2, <1>6, <1>8

\* Reading, in whatever order, is of the client alone.
LEMMA ReceivesKeeps ==
  ASSUME IInv, NEW c \in Clients, NEW n \in DOMAIN net[c], ClientReceives(c, n)
  PROVE  IInv'
<1> DEFINE d == net[c][n]
<1>1. /\ UNCHANGED <<objects, thread, packets, net, idToRemoteObject, changes, missed>>
      /\ crash' = crash
  BY DEF ClientReceives
<1>2. /\ net[c] \in Seq(Datagrams) /\ n \in 1 .. Len(net[c]) /\ d \in Datagrams
      /\ Past(d.chunks, changes) /\ d.chunks \in Chunks
  <2>1. net[c] \in Seq(Datagrams) /\ n \in 1 .. Len(net[c])
    BY LenProperties DEF IInv, NetInv
  <2>2. d \in Datagrams /\ Past(d.chunks, changes)
    BY <2>1, ElementOfSeq DEF IInv, NetInv
  <2>3. QED
    BY <2>1, <2>2 DEF Datagrams
<1>3. ServerInv' /\ NetInv' /\ WalkInv' /\ SentInv'
  BY <1>1 DEF objects, IInv, ServerInv, NetInv, WalkInv, SentInv, Owed
<1>4. /\ read' = [read EXCEPT ![c] = Append(@, n)]
      /\ dropped' = [dropped EXCEPT ![c] = @ \/ \E o \in DOMAIN d.chunks : Throws(c, d, o)]
      /\ \A e \in Clients : e # c => read'[e] = read[e] /\ dropped'[e] = dropped[e] /\ copy'[e] = copy[e]
      /\ dropped'[c] = (dropped[c] \/ \E o \in DOMAIN d.chunks : Throws(c, d, o))
      /\ read'[c] = Append(read[c], n)
  BY DEF ClientReceives, IInv, ClientInv
<1>5. \A o \in DOMAIN d.chunks : \A p \in Accepted(d.chunks[o]) :
        p \in DOMAIN d.chunks[o] /\ d.chunks[o][p] \in 0 .. changes
  <2>1. \A o \in DOMAIN d.chunks : \A p \in DOMAIN d.chunks[o] :
          d.chunks[o][p] \in 0 .. MaxChanges /\ d.chunks[o][p] <= changes
    BY <1>2, OfChunks DEF Past
  <2>2. changes \in Nat
    BY Numbers DEF IInv, ServerInv
  <2>3. \A o \in DOMAIN d.chunks : \A p \in DOMAIN d.chunks[o] : d.chunks[o][p] \in 0 .. changes
    BY <2>1, <2>2, Numbers
  <2>4. QED
    BY <2>3 DEF Accepted
<1>6. copy' \in [Clients -> [Objects -> [Props -> 0 .. changes]]]
  <2>1. copy' = [copy EXCEPT ![c] = [o \in Objects |->
          [p \in Props |-> IF p \in Taken(c, d, o) THEN d.chunks[o][p] ELSE @[o][p]]]]
    BY DEF ClientReceives
  <2>2. copy \in [Clients -> [Objects -> [Props -> 0 .. changes]]]
    BY DEF IInv, ClientInv
  <2>3. ASSUME NEW o \in Objects, NEW p \in Props
        PROVE  (IF p \in Taken(c, d, o) THEN d.chunks[o][p] ELSE copy[c][o][p]) \in 0 .. changes
    <3>1. p \in Taken(c, d, o) => o \in DOMAIN d.chunks /\ p \in Accepted(d.chunks[o])
      BY DEF Taken, Reached
    <3>2. QED
      BY <1>5, <2>2, <3>1
  <2>4. QED
    BY <2>1, <2>2, <2>3
<1>7. ClientInv'
  <2>1. ASSUME NEW e \in Clients PROVE read'[e] \in Seq(1 .. Len(net[e]))
    <3>1. read[e] \in Seq(1 .. Len(net[e]))
      BY DEF IInv, ClientInv
    <3>2. CASE e = c
      <4>1. read[c] \in Seq(1 .. Len(net[c])) /\ n \in 1 .. Len(net[c])
        BY <1>2, <3>1, <3>2
      <4>2. Append(read[c], n) \in Seq(1 .. Len(net[c]))
        BY <4>1, AppendProperties
      <4>3. QED
        BY <1>4, <3>2, <4>2
    <3>3. CASE e # c
      BY <1>4, <3>1, <3>3
    <3>4. QED
      BY <3>2, <3>3
  <2>2. DOMAIN read' = Clients /\ dropped' \in [Clients -> BOOLEAN]
    BY <1>4 DEF IInv, ClientInv
  <2>3. own' \subseteq Clients \X Objects \X Props
    BY DEF IInv, ClientInv, ClientReceives
  <2>4. QED
    BY <1>1, <1>6, <2>1, <2>2, <2>3 DEF IInv, ClientInv
<1>8. CopyInv'
  <2> SUFFICES ASSUME NEW e \in Clients, InOrder(e)'
               PROVE  /\ Len(read'[e]) <= Len(net[e])
                      /\ \A o \in idToRemoteObject[e], p \in Props :
                           Spared(e, o)' /\ <<e, o, p>> \notin own' =>
                             Last(net[e], Len(read'[e]), o, p, copy'[e][o][p])
    BY <1>1 DEF CopyInv
  <2>1. CASE e = c
    BY <2>1, ReadsNext
  <2>2. CASE e # c
    <3>1. InOrder(e)
      BY <1>4, <2>2 DEF InOrder
    <3>2. \A o : Spared(e, o)' => Spared(e, o)
      BY <1>1, <1>4, <2>2 DEF Spared, Front
    <3>3. \A o \in Objects, p \in Props : <<e, o, p>> \in own => <<e, o, p>> \in own'
      BY <2>2, Reads
    <3>4. idToRemoteObject[e] \subseteq Objects
      BY DEF IInv, ClientInv
    <3>5. QED
      BY <1>4, <2>2, <3>1, <3>2, <3>3, <3>4 DEF IInv, CopyInv
  <2>3. QED
    BY <2>1, <2>2
<1>9. QED
  BY <1>3, <1>7, <1>8 DEF IInv

\* What a client changes itself is excepted.
LEMMA ClientSetsKeeps ==
  ASSUME IInv, NEW c \in Clients, NEW o \in Objects, NEW p \in Props, ClientSets(c, o, p)
  PROVE  IInv'
<1>1. /\ UNCHANGED <<objects, thread, packets, net, idToRemoteObject, read, dropped, missed, crash>>
      /\ changes < MaxChanges /\ changes' = changes + 1
      /\ copy' = [copy EXCEPT ![c][o][p] = changes + 1]
      /\ own' = own \cup {<<c, o, p>>}
  BY DEF ClientSets
<1>2. changes \in Nat /\ changes' \in 0 .. MaxChanges /\ changes' \in Nat /\ changes <= changes'
  BY <1>1, Numbers DEF IInv, ServerInv
<1>3. \A n \in 0 .. changes : n \in 0 .. changes'
  BY <1>1, <1>2
<1>4. ServerInv'
  <2>1. value \in [Objects -> [Props -> 0 .. changes']]
    BY <1>3 DEF IInv, ServerInv
  <2>2. \A e \in Clients : Past(thread[e].packed, changes')
    BY <1>2, PastStays DEF IInv, ServerInv, Threads
  <2>3. QED
    BY <1>1, <1>2, <2>1, <2>2 DEF objects, IInv, ServerInv
<1>5. NetInv'
  BY <1>1, <1>2, NetStays
<1>6. WalkInv' /\ SentInv'
  BY <1>1 DEF objects, IInv, WalkInv, SentInv, Owed
<1>7. \A e \in Clients, u \in Objects, q \in Props :
        copy'[e][u][q] = IF e = c /\ u = o /\ q = p THEN changes + 1 ELSE copy[e][u][q]
  BY <1>1 DEF IInv, ClientInv
<1>8. ClientInv'
  <2>1. copy \in [Clients -> [Objects -> [Props -> 0 .. changes']]]
    BY <1>3 DEF IInv, ClientInv
  <2>2. changes + 1 \in 0 .. changes'
    BY <1>1, <1>2
  <2>3. copy' \in [Clients -> [Objects -> [Props -> 0 .. changes']]]
    BY <1>1, <2>1, <2>2
  <2>4. QED
    BY <1>1, <2>3 DEF IInv, ClientInv
<1>9. CopyInv'
  <2> SUFFICES ASSUME NEW e \in Clients, InOrder(e)
               PROVE  /\ Len(read[e]) <= Len(net[e])
                      /\ \A u \in idToRemoteObject[e], q \in Props :
                           Spared(e, u)' /\ <<e, u, q>> \notin own' =>
                             Last(net[e], Len(read[e]), u, q, copy'[e][u][q])
    BY <1>1 DEF CopyInv, InOrder
  <2>1. \A u : Spared(e, u)' => Spared(e, u)
    BY <1>1 DEF Spared, Front
  <2>2. idToRemoteObject[e] \subseteq Objects
    BY DEF IInv, ClientInv
  <2>3. ASSUME NEW u \in idToRemoteObject[e], NEW q \in Props, <<e, u, q>> \notin own'
        PROVE  <<e, u, q>> \notin own /\ copy'[e][u][q] = copy[e][u][q]
    BY <1>1, <1>7, <2>2, <2>3
  <2>4. QED
    BY <2>1, <2>3 DEF IInv, CopyInv
<1>10. QED
  BY <1>4, <1>5, <1>6, <1>8, <1>9 DEF IInv

\* A client that has killed an object of its own has fewer to care for.
LEMMA ClientKillsKeeps ==
  ASSUME IInv, NEW c \in Clients, NEW o \in Objects, ClientKills(c, o)
  PROVE  IInv'
<1>1. /\ UNCHANGED <<objects, thread, packets, net, copy, read, own, dropped, changes, missed, crash>>
      /\ idToRemoteObject' = [idToRemoteObject EXCEPT ![c] = @ \ {o}]
  BY DEF ClientKills
<1>2. ServerInv' /\ NetInv' /\ WalkInv' /\ SentInv'
  BY <1>1 DEF objects, IInv, ServerInv, NetInv, WalkInv, SentInv, Owed
<1>3. \A e \in Clients : idToRemoteObject'[e] \subseteq idToRemoteObject[e]
  BY <1>1 DEF IInv, ClientInv
<1>4. ClientInv'
  BY <1>1 DEF IInv, ClientInv
<1>5. \A e \in Clients : \A u : Spared(e, u)' => Spared(e, u)
  BY <1>1, <1>3 DEF Spared, Front
<1>6. CopyInv'
  BY <1>1, <1>3, <1>5 DEF IInv, CopyInv, InOrder
<1>7. QED
  BY <1>2, <1>4, <1>6 DEF IInv

-----------------------------------------------------------------------------
(* The invariant, and what follows. *)

\* Every step keeps it.
LEMMA NextIInv == IInv /\ [Next]_vars => IInv'
<1> SUFFICES ASSUME IInv, [Next]_vars PROVE IInv'
  OBVIOUS
<1>1. ASSUME NEW o \in Objects, NEW p \in Props, Set(o, p) PROVE IInv'
  BY <1>1, SetKeeps
<1>2. ASSUME NEW o \in Objects, NEW p \in Unmarked, AddUnmarked(o, p) PROVE IInv'
  BY <1>2, AddKeeps, Numbers
<1>3. ASSUME NEW o \in Objects, Kill(o) PROVE IInv'
  BY <1>3, KillKeeps
<1>4. CASE Tick
  BY <1>4, TickKeeps
<1>5. ASSUME NEW c \in Clients, Join(c) PROVE IInv'
  BY <1>5, JoinKeeps
<1>6. ASSUME NEW c \in Clients, InitialWrites(c) PROVE IInv'
  BY <1>6, WritesKeeps
<1>7. ASSUME NEW c \in Clients, InitialZeroes(c) PROVE IInv'
  BY <1>7, ZeroesKeeps
<1>8. ASSUME NEW c \in Clients, InitialSends(c) PROVE IInv'
  BY <1>8, SendsKeeps
<1>9. ASSUME NEW c \in Clients, NEW n \in DOMAIN net[c], ClientReceives(c, n) PROVE IInv'
  BY <1>9, ReceivesKeeps
<1>10. ASSUME NEW c \in Clients, NEW o \in Objects, ClientKills(c, o) PROVE IInv'
  BY <1>10, ClientKillsKeeps
<1>11. ASSUME NEW c \in Clients, NEW o \in Objects, NEW p \in Props, ClientSets(c, o, p) PROVE IInv'
  BY <1>11, ClientSetsKeeps
<1>12. CASE UNCHANGED vars
  <2>0. /\ UNCHANGED <<alive, value, updateMask, thread, packets, net, changes, missed, crash>>
        /\ UNCHANGED <<copy, idToRemoteObject, read, own, dropped>>
    BY <1>12 DEF vars, objects, client
  <2>1. ServerInv' /\ NetInv' /\ ClientInv' /\ WalkInv' /\ SentInv'
    <3>1. ServerInv' /\ NetInv'
      BY <2>0 DEF IInv, ServerInv, NetInv
    <3>2. ClientInv'
      BY <2>0 DEF IInv, ClientInv
    <3>3. WalkInv' /\ SentInv'
      BY <2>0 DEF IInv, WalkInv, SentInv, Owed
    <3>4. QED
      BY <3>1, <3>2, <3>3
  <2>2. \A c, o : Spared(c, o)' => Spared(c, o)
    BY <2>0 DEF Spared, Front
  <2>3. \A c : InOrder(c)' => InOrder(c)
    BY <2>0 DEF InOrder
  <2>4. CopyInv'
    BY <2>0, <2>2, <2>3 DEF IInv, CopyInv
  <2>5. QED
    BY <2>1, <2>4 DEF IInv
<1>13. QED
  BY <1>1, <1>2, <1>3, <1>4, <1>5, <1>6, <1>7, <1>8, <1>9, <1>10, <1>11, <1>12 DEF Next

\* So it holds throughout.
LEMMA SpecIInv == Spec => []IInv
BY InitIInv, NextIInv, PTL DEF Spec

\* The kinds of TypeOK.
LEMMA Typed == IInv => TypeOK
<1> SUFFICES ASSUME IInv PROVE TypeOK
  OBVIOUS
<1>1. ASSUME NEW c \in Clients
      PROVE  /\ thread[c].pc \in {"none", "walk", "zero", "done"}
             /\ thread[c].at \in Objects \cup {0}
             /\ thread[c].packed \in Chunks
             /\ Len(net[c]) <= packets
             /\ \A n \in DOMAIN net[c] : net[c][n].type \in {CREATE, UPDATE} /\ net[c][n].chunks \in Chunks
             /\ read[c] \in Seq(DOMAIN net[c])
  <2>1. thread[c] \in Threads
    BY DEF IInv, ServerInv
  <2>2. net[c] \in Seq(Datagrams) /\ Len(net[c]) <= packets
    BY DEF IInv, NetInv
  <2>3. DOMAIN net[c] = 1 .. Len(net[c])
    BY <2>2, LenProperties
  <2>4. \A n \in DOMAIN net[c] : net[c][n] \in Datagrams
    BY <2>2, <2>3, ElementOfSeq
  <2>5. read[c] \in Seq(DOMAIN net[c])
    BY <2>3 DEF IInv, ClientInv
  <2>6. QED
    BY <2>1, <2>2, <2>4, <2>5 DEF Threads, Datagrams
<1>2. QED
  BY <1>1 DEF TypeOK, IInv, ServerInv, NetInv, ClientInv

\* There is only one last.
LEMMA LastOnce ==
  ASSUME NEW sent, NEW k \in Nat, NEW o, NEW p, NEW v, NEW w,
         Last(sent, k, o, p, v), Last(sent, k, o, p, w)
  PROVE  v = w
<1>1. ASSUME NEW n \in 1 .. k, Has(sent[n], o, p), sent[n].chunks[o][p] = v,
             \A m \in n + 1 .. k : ~Has(sent[m], o, p),
             NEW l \in 1 .. k, Has(sent[l], o, p), sent[l].chunks[o][p] = w,
             \A m \in l + 1 .. k : ~Has(sent[m], o, p)
      PROVE  v = w
  <2>1. n < l => l \in n + 1 .. k
    OBVIOUS
  <2>2. l < n => n \in l + 1 .. k
    OBVIOUS
  <2>3. n = l
    BY <1>1, <2>1, <2>2
  <2>4. QED
    BY <1>1, <2>3
<1>2. QED
  BY <1>1 DEF Last

\* A client that has read everything has the newest values of the objects whose chunks
\* have all been handled.
LEMMA SparedNewest ==
  ASSUME IInv, NEW c \in Clients, ReadAll(c), NEW o \in alive \cap idToRemoteObject[c],
         Spared(c, o)
  PROVE  Newest(c, o)
<1> SUFFICES ASSUME NEW p \in Props \ updateMask[o], <<c, o, p>> \notin missed \cup own
             PROVE  copy[c][o][p] = value[o][p]
  BY DEF Newest
<1>1. net[c] \in Seq(Datagrams) /\ DOMAIN net[c] = 1 .. Len(net[c]) /\ Len(net[c]) \in Nat
  BY LenProperties DEF IInv, NetInv
<1>2. read[c] \in Seq(1 .. Len(net[c])) /\ DOMAIN read[c] = 1 .. Len(read[c]) /\ Len(read[c]) \in Nat
  BY LenProperties DEF IInv, ClientInv
<1>3. thread[c].pc = "done" /\ read[c] = [n \in DOMAIN net[c] |-> n]
  BY DEF ReadAll
<1>4. 1 .. Len(read[c]) = 1 .. Len(net[c])
  BY <1>1, <1>2, <1>3
<1>5. Len(read[c]) = Len(net[c])
  BY <1>1, <1>2, <1>4
<1>6. InOrder(c)
  BY <1>1, <1>3, <1>4 DEF InOrder
<1>7. Last(net[c], Len(net[c]), o, p, copy[c][o][p])
  BY <1>5, <1>6 DEF IInv, CopyInv
<1>8. Last(net[c], Len(net[c]), o, p, value[o][p])
  BY <1>3 DEF IInv, SentInv, Owed
<1>9. QED
  BY <1>1, <1>7, <1>8, LastOnce

\* A client that has read all that was sent to it, in order, and dropped nothing, has the
\* newest value of every property whose bit is clear, unless it missed that value to one
\* of the three races, or has changed it itself: for any number of clients, objects,
\* properties and packets.
THEOREM CopiesAlwaysConsistent == Spec => []CopiesConsistent
<1>1. IInv => UpToDate
  BY SparedNewest DEF UpToDate, Spared
<1>2. IInv => CopiesConsistent
  BY <1>1, Typed DEF CopiesConsistent
<1>3. QED
  BY <1>2, SpecIInv, PTL

\* What a client has lost, or refuses, costs it only what lies behind: the objects in front
\* stay up to date, however many packets it drops the rest of, for any number of clients,
\* objects, properties and packets.
THEOREM DropsAlwaysSpareTheFront == Spec => []DropsSpareTheFront
<1>1. IInv => DropsSpareTheFront
  BY SparedNewest DEF DropsSpareTheFront, Spared
<1>2. QED
  BY <1>1, SpecIInv, PTL
=============================================================================
