-------------------------- MODULE MemoryPageProofs --------------------------
(***************************************************************************)
(* Proofs about MemoryPage, for every page size, set of sizes and set of   *)
(* alignments.                                                             *)
(***************************************************************************)
EXTENDS MemoryPage, TLAPS

-----------------------------------------------------------------------------
(* The inductive invariant.                                                *)

(* A piece of length zero; an exact fit leaves one behind. *)
Empty(p) == end[p] < start[p]

(* Two pieces of length zero never start at the same unit: with PiecesApart *)
(* this orders the pieces by address, ties included, so that the order of  *)
(* the list can be talked about without walking it.                        *)
EmptyPiecesApart ==
  /\ \A p, q \in live : p # q /\ Empty(p) /\ Empty(q) => start[p] # start[q]
  /\ \A p \in live : allocated[p] => ~Empty(p)
  /\ \A p \in live : next[p] # p

Before(p, q) ==
  \/ start[p] < start[q]
  \/ start[p] = start[q] /\ Empty(p) /\ p # q

FreeNeighbours(p) ==
  next[p] # NoPiece /\ ~allocated[p] /\ ~allocated[next[p]]

(* Where a call in progress stands. *)
SearchInv ==
  pc = "search" =>
    /\ asked.size \in Sizes /\ asked.align \in Aligns
    /\ realSize <= PageSize
    /\ current # NoPiece => current \in live
    /\ \A q \in live : (current = NoPiece \/ Before(q, current)) => ~Fits(q)

CombineInv ==
  pc = "combine" =>
    /\ last \in live
    /\ current = next[last]
    /\ \A p \in live : FreeNeighbours(p) => ~Before(p, last)

RestInv ==
  /\ pc # "combine" => \A p \in live : ~FreeNeighbours(p)
  /\ pc \in {"idle", "search"} => victim = NoPiece

ListInv == ListCoversPage /\ PiecesApart /\ EmptyPiecesApart

Inv == TypeOK /\ ListInv /\ SearchInv /\ CombineInv /\ RestInv /\ HandlesUsable

-----------------------------------------------------------------------------
(* alignTo rounds up, by less than the alignment. *)
LEMMA AlignBounds ==
  ASSUME NEW x \in Nat, NEW a \in Nat \ {0}
  PROVE  alignTo(x, a) \in Nat /\ x <= alignTo(x, a) /\ alignTo(x, a) < x + a
<1>1. (-x) % a \in 0 .. a - 1
  OBVIOUS
<1>2. QED BY <1>1 DEF alignTo

(* alignTo returns a multiple of the alignment. *)
LEMMA AlignDivides ==
  ASSUME NEW x \in Nat, NEW a \in Nat \ {0}
  PROVE  alignTo(x, a) % a = 0
<1> DEFINE q == (-x) \div a
           r == (-x) % a
<1>1. q \in Int /\ r \in Int /\ -x = a * q + r
  OBVIOUS
<1>2. x + r = a * (-q)
  BY <1>1
<1>3. ASSUME NEW k \in Int PROVE (a * k) % a = 0
  OBVIOUS
<1>4. alignTo(x, a) = x + r
  BY DEF alignTo
<1> HIDE DEF q, r
<1>5. (a * (-q)) % a = 0
  BY <1>1, <1>3
<1>6. QED BY <1>2, <1>4, <1>5

-----------------------------------------------------------------------------
LEMMA InitInv == Init => Inv
<1> SUFFICES ASSUME Init PROVE Inv
  OBVIOUS
<1> USE PageAssumption DEF Init
<1>1. TypeOK
  <2>1. NoRequest \in Request
    BY DEF Request, NoRequest
  <2>2. end \in [Piece -> -1 .. PageSize - 1] /\ start \in [Piece -> 0 .. PageSize]
    OBVIOUS
  <2>3. request \in [Piece -> Request] /\ asked \in Request /\ toFree \in Seq(Piece)
    BY <2>1
  <2>4. QED BY <2>2, <2>3 DEF TypeOK
<1>2. ListInv
  BY DEF ListInv, ListCoversPage, PiecesApart, EmptyPiecesApart, Empty
<1>3. SearchInv /\ CombineInv /\ RestInv
  BY DEF SearchInv, CombineInv, RestInv, FreeNeighbours
<1>4. HandlesUsable
  BY DEF HandlesUsable, Handles
<1>5. QED BY <1>1, <1>2, <1>3, <1>4 DEF Inv

(* What a search that has found its piece knows of it. *)
LEMMA Found ==
  ASSUME Inv, pc = "search", current # NoPiece, Fits(current)
  PROVE  /\ current \in live /\ current \in Piece /\ ~allocated[current]
         /\ asked.size \in Sizes /\ asked.align \in Aligns
         /\ realSize \in 1 .. PageSize /\ asked.size <= realSize
         /\ realStart(current) \in Nat /\ start[current] <= realStart(current)
         /\ realStart(current) + realSize - 1 <= end[current]
         /\ realStart(current) % asked.align = 0
<1>1. current \in live /\ current \in Piece /\ ~allocated[current]
  BY DEF Inv, TypeOK, SearchInv, Fits
<1>2. asked.size \in Sizes /\ asked.align \in Aligns
  BY DEF Inv, SearchInv
<1>3. asked.size \in Nat \ {0} /\ asked.align \in Nat \ {0}
  BY <1>2, PageAssumption
<1>4. realSize \in 1 .. PageSize /\ asked.size <= realSize
  <2>1. realSize \in Nat /\ asked.size <= realSize
    BY <1>3, AlignBounds DEF realSize
  <2>2. realSize <= PageSize
    BY DEF Inv, SearchInv
  <2>3. QED BY <1>3, <2>1, <2>2, PageAssumption
<1>5. start[current] \in Nat /\ end[current] \in Int
  BY <1>1, PageAssumption DEF Inv, TypeOK
<1>6. /\ realStart(current) \in Nat /\ start[current] <= realStart(current)
      /\ realStart(current) % asked.align = 0
  BY <1>3, <1>5, AlignBounds, AlignDivides DEF realStart
<1>7. realStart(current) + realSize - 1 <= end[current]
  BY <1>4, <1>5, <1>6 DEF Fits, size
<1>8. QED BY <1>1, <1>2, <1>4, <1>6, <1>7

(* TypeOK, as far as the list is concerned, spelled out for one piece. *)
FieldsOK ==
  /\ PageSize \in Nat \ {0} /\ NoPiece \notin Piece
  /\ head \in Piece /\ live \subseteq Piece
  /\ \A p \in Piece : /\ start[p] \in Int /\ start[p] \in 0 .. PageSize
                     /\ end[p] \in Int /\ end[p] \in -1 .. PageSize - 1
                     /\ allocated[p] \in BOOLEAN
                     /\ next[p] \in Piece \cup {NoPiece}
                     /\ prev[p] \in Piece \cup {NoPiece}

LEMMA Fields == TypeOK => FieldsOK
BY PageAssumption DEF TypeOK, FieldsOK

(* A piece of length zero that starts where c ends is the next one after c. *)
LEMMA EmptyIsNext ==
  ASSUME FieldsOK, ListInv, NEW c \in live, NEW p \in live,
         p # c, Empty(p), start[p] = end[c] + 1
  PROVE  next[c] = p
<1> USE DEF ListInv, FieldsOK, ListCoversPage, Empty
<1>1. p # head
  BY DEF EmptyPiecesApart
<1> DEFINE q == prev[p]
<1>2. q \in live /\ next[q] = p /\ q # p /\ end[q] = end[c]
  BY <1>1 DEF EmptyPiecesApart
<1> HIDE DEF q
<1>3. ASSUME q # c PROVE FALSE
  <2>1. end[q] < start[q] \/ end[c] < start[c]
    BY <1>2, <1>3 DEF PiecesApart
  <2>2. CASE end[q] < start[q]
    BY <2>2, <1>2 DEF EmptyPiecesApart
  <2>3. CASE end[c] < start[c]
    BY <2>3 DEF EmptyPiecesApart
  <2>4. QED BY <2>1, <2>2, <2>3
<1>4. QED BY <1>2, <1>3

-----------------------------------------------------------------------------
(* The list after each of the three steps that change its links.           *)
LEMMA SplitList ==
  ASSUME Inv, NEW rest \in Piece, Split(rest)
  PROVE  ListInv'
<1> DEFINE c == current
           r == realSize
<1>1. /\ c \in live /\ c \in Piece /\ ~allocated[c] /\ r \in 1 .. PageSize
      /\ start[c] + r - 1 <= end[c]
  BY Found DEF Split
<1>2. rest \notin live
  BY DEF Split
<1>3. /\ live' = live \cup {rest}
      /\ head' = head
      /\ start' = [start EXCEPT ![rest] = start[c] + r]
      /\ end' = [end EXCEPT ![rest] = end[c], ![c] = start[c] + r - 1]
      /\ allocated' = [allocated EXCEPT ![c] = TRUE, ![rest] = FALSE]
      /\ next' = [next EXCEPT ![c] = rest, ![rest] = next[c]]
      /\ prev' = [p \in Piece |-> IF p = rest THEN c
                              ELSE IF p = next[c] THEN rest ELSE prev[p]]
  BY DEF Split
<1>4. \A p \in live : ~FreeNeighbours(p)
  BY DEF Inv, RestInv, Split
<1>5. TypeOK /\ ListCoversPage /\ PiecesApart /\ EmptyPiecesApart /\ FieldsOK
  BY Fields DEF Inv, ListInv
<1> HIDE DEF c, r
<1>6. \A p \in live \ {c} : /\ start'[p] = start[p] /\ end'[p] = end[p]
                            /\ next'[p] = next[p] /\ allocated'[p] = allocated[p]
                            /\ prev'[p] = IF p = next[c] THEN rest ELSE prev[p]
  BY <1>1, <1>2, <1>3, <1>5 DEF TypeOK, FieldsOK
<1>7. /\ start'[c] = start[c] /\ end'[c] = start[c] + r - 1
      /\ next'[c] = rest /\ allocated'[c] = TRUE
      /\ prev'[c] = prev[c]
  <2>1. c # next[c]
    BY <1>1, <1>5 DEF FieldsOK, ListCoversPage
  <2>2. QED BY <1>1, <1>2, <1>3, <1>5, <2>1 DEF TypeOK, FieldsOK
<1>8. /\ start'[rest] = start[c] + r /\ end'[rest] = end[c]
      /\ next'[rest] = next[c] /\ prev'[rest] = c
      /\ allocated'[rest] = FALSE
  BY <1>1, <1>2, <1>3, <1>5 DEF TypeOK, FieldsOK
<1>9. /\ PageSize \in Nat \ {0} /\ NoPiece \notin Piece /\ r \in Nat \ {0}
      /\ live' = live \cup {rest} /\ head' = head
  BY <1>1, <1>3, PageAssumption
<1>10. ListCoversPage'
  <2> SUFFICES ASSUME NEW p \in live'
               PROVE  /\ start'[p] <= end'[p] + 1
                      /\ p # head => prev'[p] \in live' /\ next'[prev'[p]] = p
                      /\ IF next'[p] = NoPiece
                         THEN end'[p] = PageSize - 1
                         ELSE /\ next'[p] \in live'
                              /\ prev'[next'[p]] = p
                              /\ start'[next'[p]] = end'[p] + 1
    BY <1>1, <1>2, <1>5, <1>6, <1>7, <1>9 DEF FieldsOK, ListCoversPage
  <2>1. CASE p = c
    BY <2>1, <1>1, <1>2, <1>5, <1>6, <1>7, <1>8, <1>9 DEF FieldsOK, ListCoversPage
  <2>2. CASE p = rest
    BY <2>2, <1>1, <1>2, <1>5, <1>6, <1>7, <1>8, <1>9 DEF FieldsOK, ListCoversPage
  <2>3. CASE p \in live \ {c}
    <3>1. start'[p] <= end'[p] + 1
      BY <2>3, <1>5, <1>6 DEF ListCoversPage
    <3>2. p # head => prev'[p] \in live' /\ next'[prev'[p]] = p
      BY <2>3, <1>1, <1>2, <1>5, <1>6, <1>8, <1>9 DEF FieldsOK, ListCoversPage
    <3>3. ASSUME next[p] = NoPiece PROVE end'[p] = PageSize - 1
      BY <3>3, <2>3, <1>5, <1>6 DEF ListCoversPage
    <3>4. ASSUME next[p] # NoPiece
          PROVE  /\ next[p] \in live' /\ prev'[next[p]] = p
                 /\ start'[next[p]] = end'[p] + 1
      <4>1. next[p] \in live /\ prev[next[p]] = p /\ start[next[p]] = end[p] + 1
        BY <3>4, <2>3, <1>5 DEF ListCoversPage
      <4>2. next[p] # next[c]
        BY <4>1, <3>4, <2>3, <1>1, <1>5 DEF ListCoversPage
      <4>3. prev'[next[p]] = p /\ start'[next[p]] = start[next[p]]
        BY <4>1, <4>2, <1>6, <1>7
      <4>4. QED BY <4>1, <4>3, <2>3, <1>6, <1>9
    <3>5. QED BY <3>1, <3>2, <3>3, <3>4, <2>3, <1>6
  <2>4. QED BY <2>1, <2>2, <2>3, <1>9
<1>11. PiecesApart'
  BY <1>1, <1>2, <1>5, <1>6, <1>7, <1>8, <1>9 DEF FieldsOK, ListCoversPage, PiecesApart
<1>12. EmptyPiecesApart'
  <2>1. \A p \in live' : Empty(p)' /\ p # rest => p \in live /\ Empty(p) /\ p # c
    BY <1>1, <1>5, <1>6, <1>7, <1>9 DEF FieldsOK, Empty
  <2>2. ASSUME Empty(rest)', NEW p \in live, p # c, Empty(p)
        PROVE  start[p] # end[c] + 1
    <3> SUFFICES ASSUME start[p] = end[c] + 1 PROVE FALSE
      OBVIOUS
    <3>1. next[c] = p /\ ~allocated[p]
      BY <2>2, <1>1, <1>5, EmptyIsNext DEF ListInv, EmptyPiecesApart
    <3>2. QED BY <3>1, <1>1, <1>4, <1>5 DEF FieldsOK, FreeNeighbours
  <2>3. ASSUME Empty(rest)' PROVE start'[rest] = end[c] + 1
    BY <2>3, <1>1, <1>5, <1>8, <1>9 DEF FieldsOK, Empty
  <2>4. ASSUME NEW p \in live', NEW q \in live', p # q, Empty(p)', Empty(q)'
        PROVE  start'[p] # start'[q]
    <3>1. CASE p # rest /\ q # rest
      BY <3>1, <2>1, <2>4, <1>5, <1>6 DEF EmptyPiecesApart
    <3>2. CASE p = rest
      BY <3>2, <2>1, <2>2, <2>3, <2>4, <1>6
    <3>3. CASE q = rest
      BY <3>3, <2>1, <2>2, <2>3, <2>4, <1>6
    <3>4. QED BY <3>1, <3>2, <3>3
  <2>5. ASSUME NEW p \in live', allocated'[p] PROVE ~Empty(p)'
    <3>1. CASE p = c
      BY <3>1, <1>1, <1>7, <1>9, <1>5 DEF FieldsOK, Empty
    <3>2. CASE p = rest
      BY <3>2, <2>5, <1>8
    <3>3. CASE p \in live \ {c}
      BY <3>3, <2>5, <1>5, <1>6 DEF EmptyPiecesApart, Empty
    <3>4. QED BY <3>1, <3>2, <3>3, <1>9
  <2>6. ASSUME NEW p \in live' PROVE next'[p] # p
    BY <2>6, <1>1, <1>2, <1>5, <1>6, <1>7, <1>8, <1>9
      DEF ListCoversPage, EmptyPiecesApart, FieldsOK
  <2>7. QED BY <2>4, <2>5, <2>6 DEF EmptyPiecesApart
<1>13. QED BY <1>10, <1>11, <1>12 DEF ListInv

LEMMA SplitPaddedList ==
  ASSUME Inv, NEW rest \in Piece, NEW pad \in Piece, SplitPadded(rest, pad)
  PROVE  ListInv'
<1> DEFINE c == current
           r == realSize
           s == realStart(c)
           b == prev[c]
<1>1. /\ c \in live /\ c \in Piece /\ ~allocated[c] /\ r \in 1 .. PageSize
      /\ s \in Int /\ start[c] < s /\ s + r - 1 <= end[c]
  <2>1. /\ start[c] <= s /\ start[c] # s /\ s \in Nat /\ c \in live
        /\ ~allocated[c] /\ r \in 1 .. PageSize /\ s + r - 1 <= end[c]
    BY Found DEF SplitPadded
  <2>2. start[c] \in Int
    BY <2>1, Fields DEF Inv, FieldsOK
  <2>3. QED BY <2>1, <2>2 DEF Inv, TypeOK
<1>2. rest \notin live /\ pad \notin live /\ rest # pad
  BY DEF SplitPadded
<1>3. /\ live' = live \cup {rest, pad}
      /\ head' = head
      /\ start' = [start EXCEPT ![rest] = s + r, ![pad] = start[c], ![c] = s]
      /\ end' = [end EXCEPT ![rest] = end[c], ![pad] = s - 1, ![c] = s + r - 1]
      /\ allocated' = [allocated EXCEPT ![c] = TRUE, ![rest] = FALSE, ![pad] = FALSE]
      /\ next' = [p \in Piece |-> IF p = c THEN rest
                              ELSE IF p = rest THEN next[c]
                              ELSE IF p = pad THEN c
                              ELSE IF p = b THEN pad ELSE next[p]]
      /\ prev' = [p \in Piece |-> IF p = rest THEN c
                              ELSE IF p = c THEN pad
                              ELSE IF p = pad THEN b
                              ELSE IF p = next[c] THEN rest ELSE prev[p]]
  BY DEF SplitPadded
<1>4. \A p \in live : ~FreeNeighbours(p)
  BY DEF Inv, RestInv, SplitPadded
<1>5. TypeOK /\ ListInv /\ ListCoversPage /\ PiecesApart /\ EmptyPiecesApart /\ FieldsOK
  BY Fields DEF Inv, ListInv
<1>6. c # head
  <2>1. asked.align \in Nat \ {0}
    BY Found, PageAssumption DEF SplitPadded
  <2>2. alignTo(0, asked.align) = 0
    BY <2>1 DEF alignTo
  <2>3. QED BY <2>2, <1>1, <1>5 DEF ListCoversPage, realStart
<1> HIDE DEF c, r, s
<1>7. b \in live /\ next[b] = c /\ b # c
  BY <1>1, <1>5, <1>6 DEF ListCoversPage, EmptyPiecesApart
<1> HIDE DEF b
<1>8. c # next[c]
  BY <1>1, <1>5 DEF EmptyPiecesApart
<1>9. /\ live' = live \cup {rest, pad} /\ head' = head
      /\ \A p \in live : p # c =>
           /\ start'[p] = start[p] /\ end'[p] = end[p] /\ allocated'[p] = allocated[p]
           /\ next'[p] = IF p = b THEN pad ELSE next[p]
           /\ prev'[p] = IF p = next[c] THEN rest ELSE prev[p]
  BY <1>1, <1>2, <1>3, <1>5 DEF TypeOK, FieldsOK
<1>10. /\ start'[c] = s /\ end'[c] = s + r - 1 /\ allocated'[c]
       /\ next'[c] = rest /\ prev'[c] = pad
  BY <1>1, <1>2, <1>3, <1>5 DEF TypeOK, FieldsOK
<1>11. /\ start'[rest] = s + r /\ end'[rest] = end[c] /\ ~allocated'[rest]
       /\ next'[rest] = next[c] /\ prev'[rest] = c
  BY <1>1, <1>2, <1>3, <1>5 DEF TypeOK, FieldsOK
<1>12. /\ start'[pad] = start[c] /\ end'[pad] = s - 1 /\ ~allocated'[pad]
       /\ next'[pad] = c /\ prev'[pad] = prev[c] /\ prev[c] = b
  BY <1>1, <1>2, <1>3, <1>5, <1>7 DEF TypeOK, FieldsOK, b
<1>13. r \in Nat \ {0} /\ PageSize \in Nat \ {0}
  BY <1>1, PageAssumption
<1>14. ListCoversPage'
  <2> SUFFICES ASSUME NEW p \in live'
               PROVE  /\ start'[p] <= end'[p] + 1
                      /\ p # head => prev'[p] \in live' /\ next'[prev'[p]] = p
                      /\ IF next'[p] = NoPiece
                         THEN end'[p] = PageSize - 1
                         ELSE /\ next'[p] \in live'
                              /\ prev'[next'[p]] = p
                              /\ start'[next'[p]] = end'[p] + 1
    BY <1>1, <1>5, <1>6, <1>9 DEF ListCoversPage, FieldsOK
  <2>1. CASE p = c
    BY <2>1, <1>1, <1>2, <1>5, <1>9, <1>10, <1>11, <1>12, <1>13
      DEF FieldsOK, ListCoversPage
  <2>2. CASE p = rest
    BY <2>2, <1>1, <1>2, <1>5, <1>8, <1>9, <1>10, <1>11, <1>13
      DEF FieldsOK, ListCoversPage
  <2>3. CASE p = pad
    BY <2>3, <1>1, <1>2, <1>5, <1>7, <1>9, <1>10, <1>12, <1>13
      DEF FieldsOK, ListCoversPage
  <2>4. CASE p \in live /\ p # c
    <3>1. start'[p] <= end'[p] + 1
      BY <2>4, <1>5, <1>9 DEF ListCoversPage
    <3>2. ASSUME p # head PROVE prev'[p] \in live' /\ next'[prev'[p]] = p
      <4>1. prev[p] \in live /\ next[prev[p]] = p
        BY <3>2, <2>4, <1>5 DEF ListCoversPage
      <4>2. CASE p = next[c]
        BY <4>2, <2>4, <1>9, <1>11
      <4>3. CASE p # next[c]
        BY <4>1, <4>3, <2>4, <1>7, <1>9
      <4>4. QED BY <4>2, <4>3
    <3>3. ASSUME next'[p] = NoPiece PROVE end'[p] = PageSize - 1
      BY <3>3, <2>4, <1>5, <1>9 DEF ListCoversPage, FieldsOK
    <3>4. ASSUME next'[p] # NoPiece
          PROVE  /\ next'[p] \in live' /\ prev'[next'[p]] = p
                 /\ start'[next'[p]] = end'[p] + 1
      <4>1. CASE p = b
        <5>1. start[c] = end[b] + 1
          BY <1>1, <1>5, <1>7 DEF ListCoversPage, FieldsOK
        <5>2. QED BY <5>1, <4>1, <2>4, <1>9, <1>12
      <4>2. CASE p # b
        <5>1. next[p] \in live /\ prev[next[p]] = p /\ start[next[p]] = end[p] + 1
          BY <4>2, <3>4, <2>4, <1>5, <1>9 DEF ListCoversPage
        <5>2. next[p] # c /\ next[p] # next[c]
          BY <5>1, <4>2, <2>4, <1>1, <1>5, <1>7, <1>12 DEF ListCoversPage, FieldsOK
        <5>3. QED BY <5>1, <5>2, <4>2, <2>4, <1>9
      <4>3. QED BY <4>1, <4>2
    <3>5. QED BY <3>1, <3>2, <3>3, <3>4
  <2>5. QED BY <2>1, <2>2, <2>3, <2>4, <1>9
<1>15. PiecesApart'
  <2>1. ASSUME NEW p \in live, p # c
        PROVE  (end[p] < start[c] /\ end[p] < s /\ end[p] < s + r)
               \/ (end[c] < start[p] /\ s + r - 1 < start[p] /\ s - 1 < start[p])
    BY <2>1, <1>1, <1>5, <1>13 DEF PiecesApart, FieldsOK
  <2> SUFFICES ASSUME NEW p \in live', NEW q \in live', p # q
               PROVE  end'[p] < start'[q] \/ end'[q] < start'[p]
    BY DEF PiecesApart
  <2>2. CASE p \in live /\ p # c
    <3>1. CASE q \in live /\ q # c
      BY <3>1, <2>2, <1>5, <1>9 DEF PiecesApart
    <3>2. CASE q \in {c, rest, pad}
      BY <3>2, <2>1, <2>2, <1>9, <1>10, <1>11, <1>12
    <3>3. QED BY <3>1, <3>2, <1>9
  <2>3. CASE p \in {c, rest, pad}
    <3>1. CASE q \in live /\ q # c
      BY <3>1, <2>1, <2>3, <1>9, <1>10, <1>11, <1>12
    <3>2. CASE q \in {c, rest, pad}
      BY <3>2, <2>3, <1>1, <1>5, <1>10, <1>11, <1>12, <1>13 DEF FieldsOK
    <3>3. QED BY <3>1, <3>2, <1>9
  <2>4. QED BY <2>2, <2>3, <1>9
<1>16. EmptyPiecesApart'
  <2>1. ~(end'[c] < start'[c]) /\ ~(end'[pad] < start'[pad])
    BY <1>1, <1>5, <1>10, <1>12, <1>13 DEF Empty, FieldsOK
  <2>2. ASSUME NEW p \in live', Empty(p)', p # rest
        PROVE  p \in live /\ Empty(p) /\ p # c
    BY <2>1, <2>2, <1>9 DEF Empty
  <2>3. ASSUME Empty(rest)', NEW p \in live, p # c, Empty(p)
        PROVE  start[p] # start'[rest]
    <3> SUFFICES ASSUME start[p] = end[c] + 1 PROVE FALSE
      BY <2>3, <1>1, <1>5, <1>11, <1>13 DEF Empty, FieldsOK
    <3>1. next[c] = p /\ ~allocated[p]
      BY <2>3, <1>1, <1>5, EmptyIsNext DEF EmptyPiecesApart
    <3>2. QED BY <3>1, <1>1, <1>4, <1>5 DEF FieldsOK, FreeNeighbours
  <2>4. ASSUME NEW p \in live', NEW q \in live', p # q, Empty(p)', Empty(q)'
        PROVE  start'[p] # start'[q]
    <3>1. CASE p # rest /\ q # rest
      BY <3>1, <2>2, <2>4, <1>5, <1>9 DEF EmptyPiecesApart
    <3>2. CASE p = rest
      BY <3>2, <2>2, <2>3, <2>4, <1>9
    <3>3. CASE q = rest
      BY <3>3, <2>2, <2>3, <2>4, <1>9
    <3>4. QED BY <3>1, <3>2, <3>3
  <2>5. ASSUME NEW p \in live', allocated'[p] PROVE ~Empty(p)'
    BY <2>1, <2>5, <1>5, <1>9, <1>11, <1>12 DEF EmptyPiecesApart, Empty
  <2>6. ASSUME NEW p \in live' PROVE next'[p] # p
    BY <2>6, <1>1, <1>2, <1>5, <1>9, <1>10, <1>11, <1>12
      DEF ListCoversPage, EmptyPiecesApart, FieldsOK
  <2>7. QED BY <2>4, <2>5, <2>6 DEF EmptyPiecesApart
<1>17. QED BY <1>14, <1>15, <1>16 DEF ListInv

LEMMA AbsorbList ==
  ASSUME Inv, Absorb
  PROVE  ListInv'
<1> DEFINE c == current
           l == last
<1>1. c \in live /\ l \in live /\ c = next[l] /\ c # NoPiece /\ ~allocated[l] /\ ~allocated[c]
  BY DEF Inv, CombineInv, TypeOK, Absorb, bothFree, ListInv, ListCoversPage
<1>2. TypeOK /\ ListInv /\ ListCoversPage /\ PiecesApart /\ EmptyPiecesApart /\ FieldsOK
  BY Fields DEF Inv, ListInv
<1>3. /\ live' = live \ {c}
      /\ head' = head
      /\ end' = [end EXCEPT ![l] = end[c], ![c] = 0]
      /\ start' = [start EXCEPT ![c] = 0]
      /\ next' = [next EXCEPT ![l] = next[c], ![c] = NoPiece]
      /\ prev' = [p \in Piece |-> IF p = c THEN NoPiece
                              ELSE IF p = next[c] THEN l ELSE prev[p]]
      /\ allocated' = allocated
  BY DEF Absorb
<1> HIDE DEF c, l
<1>4. c # l /\ c # head /\ next[c] # c
  BY <1>1, <1>2 DEF EmptyPiecesApart, ListCoversPage, FieldsOK
<1>5. next[c] # l
  <2> SUFFICES ASSUME next[c] = l PROVE FALSE
    OBVIOUS
  <2>1. /\ start[l] = end[c] + 1 /\ start[c] = end[l] + 1
        /\ start[l] <= end[l] + 1 /\ start[c] <= end[c] + 1
    BY <1>1, <1>2 DEF ListCoversPage, FieldsOK
  <2>2. Empty(l) /\ Empty(c) /\ start[l] = start[c]
    BY <2>1, <1>1, <1>2 DEF Empty, FieldsOK
  <2>3. QED BY <2>2, <1>1, <1>2, <1>4 DEF EmptyPiecesApart
<1>6. /\ live' = live \ {c} /\ head' = head /\ allocated' = allocated
      /\ \A p \in live : p # c /\ p # l =>
           /\ start'[p] = start[p] /\ end'[p] = end[p]
           /\ next'[p] = next[p]
           /\ prev'[p] = IF p = next[c] THEN l ELSE prev[p]
  BY <1>1, <1>2, <1>3 DEF TypeOK, FieldsOK
<1>7. /\ start'[l] = start[l] /\ end'[l] = end[c]
      /\ next'[l] = next[c] /\ prev'[l] = prev[l]
  BY <1>1, <1>2, <1>3, <1>4, <1>5 DEF TypeOK, FieldsOK
<1>8. start[c] = end[l] + 1 /\ start[l] <= end[l] + 1 /\ start[c] <= end[c] + 1
  BY <1>1, <1>2 DEF ListCoversPage, FieldsOK
<1>9. ASSUME NEW p \in live, p # c, p # l
      PROVE  end[p] < start[l] \/ end[c] < start[p]
  <2> SUFFICES ASSUME ~(end[p] < start[l]), ~(end[c] < start[p]) PROVE FALSE
    OBVIOUS
  <2>1. end[l] < start[p] /\ end[p] < start[c]
    BY <1>1, <1>2, <1>9 DEF PiecesApart, FieldsOK
  <2>2. start[p] = end[l] + 1 /\ Empty(p)
    BY <2>1, <1>1, <1>2, <1>8 DEF ListCoversPage, FieldsOK, Empty
  <2>3. next[l] = p
    BY <2>2, <1>1, <1>2, <1>9, EmptyIsNext
  <2>4. QED BY <2>3, <1>1, <1>9
<1>10. ListCoversPage'
  <2> SUFFICES ASSUME NEW p \in live'
               PROVE  /\ start'[p] <= end'[p] + 1
                      /\ p # head => prev'[p] \in live' /\ next'[prev'[p]] = p
                      /\ IF next'[p] = NoPiece
                         THEN end'[p] = PageSize - 1
                         ELSE /\ next'[p] \in live'
                              /\ prev'[next'[p]] = p
                              /\ start'[next'[p]] = end'[p] + 1
    BY <1>1, <1>2, <1>4, <1>6, <1>7 DEF ListCoversPage, FieldsOK
  <2>1. p \in live /\ p # c
    BY <1>6
  <2>2. start'[p] <= end'[p] + 1
    BY <2>1, <1>1, <1>2, <1>6, <1>7, <1>8 DEF ListCoversPage, FieldsOK
  <2>3. ASSUME p # head PROVE prev'[p] \in live' /\ next'[prev'[p]] = p
    <3>1. prev[p] \in live /\ next[prev[p]] = p /\ prev[p] # p
      BY <2>1, <2>3, <1>2 DEF ListCoversPage, EmptyPiecesApart
    <3>2. CASE p = l
      BY <3>1, <3>2, <1>5, <1>6, <1>7
    <3>3. CASE p # l /\ p = next[c]
      BY <3>3, <2>1, <1>1, <1>4, <1>6, <1>7
    <3>4. CASE p # l /\ p # next[c]
      BY <3>1, <3>4, <2>1, <1>1, <1>6
    <3>5. QED BY <3>2, <3>3, <3>4
  <2>4. ASSUME next'[p] = NoPiece PROVE end'[p] = PageSize - 1
    BY <2>1, <2>4, <1>1, <1>2, <1>6, <1>7 DEF ListCoversPage
  <2>5. ASSUME next'[p] # NoPiece
        PROVE  /\ next'[p] \in live' /\ prev'[next'[p]] = p
               /\ start'[next'[p]] = end'[p] + 1
    <3>1. CASE p = l
      <4>1. next[c] \in live /\ next[c] # c /\ next[c] # l /\ start[next[c]] = end[c] + 1
        BY <3>1, <2>5, <1>1, <1>2, <1>4, <1>5, <1>7 DEF ListCoversPage
      <4>2. QED BY <4>1, <3>1, <1>6, <1>7
    <3>2. CASE p # l
      <4>1. next[p] \in live /\ prev[next[p]] = p /\ start[next[p]] = end[p] + 1
        BY <3>2, <2>1, <2>5, <1>2, <1>6 DEF ListCoversPage
      <4>2. next[p] # c /\ next[p] # next[c]
        BY <4>1, <3>2, <2>1, <2>5, <1>1, <1>2, <1>6 DEF ListCoversPage
      <4>3. QED BY <4>1, <4>2, <3>2, <2>1, <1>6, <1>7
    <3>3. QED BY <3>1, <3>2
  <2>6. QED BY <2>2, <2>3, <2>4, <2>5
<1>11. PiecesApart'
  BY <1>1, <1>2, <1>6, <1>7, <1>9 DEF PiecesApart, FieldsOK
<1>12. EmptyPiecesApart'
  <2>1. ASSUME NEW p \in live' PROVE next'[p] # p /\ (allocated'[p] => ~Empty(p)')
    BY <2>1, <1>1, <1>2, <1>5, <1>6, <1>7 DEF EmptyPiecesApart, Empty
  <2>2. ASSUME NEW p \in live', Empty(p)' PROVE Empty(p)
    BY <2>2, <1>1, <1>2, <1>6, <1>7, <1>8 DEF Empty, FieldsOK
  <2>3. ASSUME NEW p \in live', NEW q \in live', p # q, Empty(p)', Empty(q)'
        PROVE  start'[p] # start'[q]
    BY <2>2, <2>3, <1>1, <1>2, <1>6, <1>7 DEF EmptyPiecesApart
  <2>4. QED BY <2>1, <2>3 DEF EmptyPiecesApart
<1>13. QED BY <1>10, <1>11, <1>12 DEF ListInv

-----------------------------------------------------------------------------
(* The order of the pieces by address is the order of the list. *)
LEMMA BeforeNext ==
  ASSUME FieldsOK, ListInv, NEW c \in live, NEW q \in live, q # c,
         next[c] = NoPiece \/ Before(q, next[c])
  PROVE  Before(q, c)
<1> USE DEF ListInv, FieldsOK, Before, Empty
<1>1. end[q] < start[c] \/ end[c] < start[q]
  BY DEF PiecesApart
<1>2. CASE end[q] < start[c]
  BY <1>2 DEF ListCoversPage
<1>3. CASE end[c] < start[q]
  <2>1. CASE next[c] = NoPiece
    <3>1. Empty(q) /\ start[q] = end[c] + 1
      BY <1>3, <2>1 DEF ListCoversPage
    <3>2. QED BY <3>1, <2>1, EmptyIsNext
  <2>2. CASE next[c] # NoPiece
    <3>1. next[c] \in live /\ start[next[c]] = end[c] + 1
      BY <2>2 DEF ListCoversPage
    <3>2. Empty(q) /\ start[q] = end[c] + 1 /\ q # next[c]
      BY <1>3, <3>1, <2>2
    <3>3. QED BY <3>2, EmptyIsNext
  <2>3. QED BY <2>1, <2>2
<1>4. QED BY <1>1, <1>2, <1>3

HeadIsFirst == \A p \in live : ~Before(p, head)

LEMMA HeadFirst == FieldsOK /\ ListInv => HeadIsFirst
<1> SUFFICES ASSUME FieldsOK, ListInv, NEW p \in live, Before(p, head)
             PROVE  FALSE
  BY DEF HeadIsFirst
<1> USE DEF ListInv, FieldsOK, ListCoversPage
<1>1. p # head /\ start[p] = 0 /\ Empty(p)
  BY DEF Before
<1>2. prev[p] \in live /\ next[prev[p]] = p /\ prev[p] # p /\ end[prev[p]] = -1
  BY <1>1 DEF EmptyPiecesApart
<1>3. start[prev[p]] = 0 /\ Empty(prev[p])
  BY <1>2 DEF Empty
<1>4. QED BY <1>1, <1>2, <1>3 DEF EmptyPiecesApart

(* Nothing is in front of the head in the next state either. *)
LEMMA HeadFirstNext ==
  ASSUME TypeOK', ListInv'
  PROVE  HeadIsFirst'
<1>1. (FieldsOK /\ ListInv => HeadIsFirst)'
  BY HeadFirst, PTL
<1>2. (TypeOK => FieldsOK)'
  BY Fields, PTL
<1>3. QED BY <1>1, <1>2

-----------------------------------------------------------------------------
(* Every step keeps the invariant: first the steps of a search. *)
LEMMA BeginAllocateInv ==
  ASSUME Inv, NEW n \in Sizes, NEW a \in Aligns, BeginAllocate(n, a)
  PROVE  Inv'
<1> USE DEF BeginAllocate
<1>1. FieldsOK /\ HeadIsFirst /\ ListInv
  BY Fields, HeadFirst DEF Inv
<1>2. TypeOK'
  BY DEF Inv, TypeOK, list, Request
<1>3. ListInv' /\ RestInv'
  BY DEF Inv, ListInv, ListCoversPage, PiecesApart, EmptyPiecesApart, Empty,
         RestInv, FreeNeighbours, list
<1>4. SearchInv'
  BY <1>1 DEF SearchInv, HeadIsFirst, Before, Empty, realSize, ListInv,
              ListCoversPage, FieldsOK, list
<1>5. CombineInv' /\ HandlesUsable'
  BY DEF Inv, CombineInv, HandlesUsable, Handles, size, list
<1>6. QED BY <1>2, <1>3, <1>4, <1>5 DEF Inv

LEMMA SearchNextInv == ASSUME Inv, SearchNext PROVE Inv'
<1> USE DEF SearchNext
<1>1. FieldsOK /\ ListInv /\ current \in live
  BY Fields DEF Inv, SearchInv
<1>2. TypeOK'
  BY DEF Inv, TypeOK, list
<1>3. ListInv' /\ RestInv'
  BY DEF Inv, ListInv, ListCoversPage, PiecesApart, EmptyPiecesApart, Empty,
         RestInv, FreeNeighbours, list
<1>4. SearchInv'
  <2>1. current' # NoPiece => current' \in live
    BY <1>1 DEF ListInv, ListCoversPage
  <2>2. ASSUME NEW q \in live, current' = NoPiece \/ Before(q, current')
        PROVE  ~Fits(q)
    <3>1. CASE q = current
      BY <3>1
    <3>2. CASE q # current
      <4>1. Before(q, current)
        BY <1>1, <2>2, <3>2, BeforeNext
      <4>2. QED BY <4>1 DEF Inv, SearchInv
    <3>3. QED BY <3>1, <3>2
  <2>3. QED BY <2>1, <2>2
        DEF Inv, SearchInv, Fits, size, realStart, realSize, Before, Empty, list
<1>5. CombineInv' /\ HandlesUsable'
  BY DEF Inv, CombineInv, HandlesUsable, Handles, size, list
<1>6. QED BY <1>2, <1>3, <1>4, <1>5 DEF Inv

LEMMA SearchFailsInv == ASSUME Inv, SearchFails PROVE Inv'
<1> USE DEF SearchFails
<1>1. TypeOK'
  BY PageAssumption DEF Inv, TypeOK, list, Request, NoRequest
<1>2. ListInv' /\ RestInv'
  BY DEF Inv, ListInv, ListCoversPage, PiecesApart, EmptyPiecesApart, Empty,
         RestInv, FreeNeighbours, list
<1>3. SearchInv' /\ CombineInv' /\ HandlesUsable'
  BY DEF Inv, SearchInv, CombineInv, HandlesUsable, Handles, size, list
<1>4. QED BY <1>1, <1>2, <1>3 DEF Inv

LEMMA WalkOnInv == ASSUME Inv, WalkOn PROVE Inv'
<1> USE DEF WalkOn
<1>1. /\ FieldsOK /\ ListInv /\ last \in live /\ current = next[last]
      /\ current \in live
  BY Fields DEF Inv, CombineInv, ListInv, ListCoversPage
<1>2. TypeOK'
  BY DEF Inv, TypeOK, list
<1>3. ListInv' /\ RestInv'
  BY DEF Inv, ListInv, ListCoversPage, PiecesApart, EmptyPiecesApart, Empty,
         RestInv, FreeNeighbours, list
<1>4. CombineInv'
  <2>1. ASSUME NEW p \in live, FreeNeighbours(p) PROVE ~Before(p, current)
    <3>1. p # last
      BY <1>1, <2>1 DEF FreeNeighbours, bothFree
    <3>2. ~Before(p, last)
      BY <2>1 DEF Inv, CombineInv
    <3>3. QED BY <1>1, <3>1, <3>2, BeforeNext
  <2>2. QED BY <1>1, <2>1 DEF CombineInv, FreeNeighbours, Before, Empty, list
<1>5. SearchInv' /\ HandlesUsable'
  BY DEF Inv, SearchInv, HandlesUsable, Handles, size, list
<1>6. QED BY <1>2, <1>3, <1>4, <1>5 DEF Inv

LEMMA CombineReturnsInv == ASSUME Inv, CombineReturns PROVE Inv'
<1> USE DEF CombineReturns
<1>1. FieldsOK /\ ListInv /\ last \in live /\ current = next[last]
  BY Fields DEF Inv, CombineInv
<1>2. TypeOK'
  BY DEF Inv, TypeOK, list
<1>3. ListInv'
  BY DEF Inv, ListInv, ListCoversPage, PiecesApart, EmptyPiecesApart, Empty, list
<1>4. ASSUME NEW p \in live PROVE ~FreeNeighbours(p)
  <2> SUFFICES ASSUME FreeNeighbours(p) PROVE FALSE
    OBVIOUS
  <2>1. p # last
    BY <1>1 DEF FreeNeighbours
  <2>2. Before(p, last)
    BY <1>1, <2>1, BeforeNext
  <2>3. QED BY <2>2 DEF Inv, CombineInv
<1>5. RestInv'
  BY <1>4 DEF RestInv, FreeNeighbours, list
<1>6. SearchInv' /\ CombineInv' /\ HandlesUsable'
  BY DEF Inv, SearchInv, CombineInv, HandlesUsable, Handles, size, list
<1>7. QED BY <1>2, <1>3, <1>5, <1>6 DEF Inv

-----------------------------------------------------------------------------
(* The steps that cut, merge and give back pieces. *)
(* Handing out the current piece, when the list it is cut from keeps the   *)
(* other pieces that callers have pointers to as they are.                 *)
LEMMA HandOutHandles ==
  ASSUME Inv, HandOut, NEW c \in live, c = current, ~allocated[c], c \in Piece,
         c \in live', allocated'[c],
         start'[c] % asked.align = 0,
         end'[c] - start'[c] + 1 >= asked.size,
         \A p \in live : p # c =>
           /\ p \in live' /\ allocated'[p] = allocated[p]
           /\ start'[p] = start[p] /\ end'[p] = end[p]
  PROVE  HandlesUsable'
<1>1. Handles' = Handles \cup {c} /\ c \notin Handles
  BY DEF Inv, HandlesUsable, Handles, HandOut
<1>2. ASSUME NEW p \in Handles, p # c
      PROVE  /\ p \in live' /\ allocated'[p]
             /\ start'[p] % request'[p].align = 0
             /\ size(p)' >= request'[p].size
  BY <1>2 DEF Inv, HandlesUsable, HandOut, TypeOK, size
<1>3. request'[c] = asked
  BY DEF HandOut, Inv, TypeOK
<1>4. \A i \in DOMAIN toFree : toFree[i] \notin held'
  BY <1>1 DEF Inv, HandlesUsable, Handles, HandOut
<1>5. toFree' = toFree
  BY DEF HandOut
<1>6. QED BY <1>1, <1>2, <1>3, <1>4, <1>5 DEF Inv, HandlesUsable, size

LEMMA TakeWholePageInv == ASSUME Inv, TakeWholePage PROVE Inv'
<1> DEFINE c == current
<1>1. /\ c \in live /\ c \in Piece /\ ~allocated[c]
      /\ asked.size <= realSize /\ realSize \in 1 .. PageSize
      /\ realStart(c) \in Nat /\ start[c] <= realStart(c)
      /\ realStart(c) + realSize - 1 <= end[c] /\ realStart(c) % asked.align = 0
      /\ asked.size \in Nat
  BY Found, PageAssumption DEF TakeWholePage
<1>2. FieldsOK /\ ListInv /\ TypeOK
  BY Fields DEF Inv
<1>3. realStart(c) = start[c] /\ end[c] - start[c] + 1 >= asked.size /\ ~Empty(c)
  BY <1>1, <1>2 DEF FieldsOK, TakeWholePage, Empty
<1>4. TypeOK'
  BY <1>1, <1>2, PageAssumption
    DEF TypeOK, TakeWholePage, HandOut, Request, NoRequest
<1>5. ListInv'
  BY <1>1, <1>2, <1>3 DEF TakeWholePage, ListInv, ListCoversPage, PiecesApart,
         EmptyPiecesApart, Empty, TypeOK
<1>6. RestInv'
  BY <1>1, <1>2 DEF Inv, RestInv, FreeNeighbours, TakeWholePage, HandOut, TypeOK
<1>7. SearchInv' /\ CombineInv'
  BY DEF SearchInv, CombineInv, TakeWholePage
<1>8. HandlesUsable'
  <2>1. /\ live' = live /\ allocated'[c] /\ start' = start /\ end' = end
        /\ \A p \in live : p # c => allocated'[p] = allocated[p]
    BY <1>1, <1>2 DEF TakeWholePage, TypeOK
  <2>2. QED BY <2>1, <1>1, <1>3, HandOutHandles DEF TakeWholePage
<1>9. QED BY <1>4, <1>5, <1>6, <1>7, <1>8 DEF Inv

LEMMA SplitInv == ASSUME Inv, NEW rest \in Piece, Split(rest) PROVE Inv'
<1> DEFINE c == current
           r == realSize
<1>1. /\ c \in live /\ c \in Piece /\ ~allocated[c] /\ r \in 1 .. PageSize
      /\ start[c] % asked.align = 0 /\ asked.size <= r /\ asked.size \in Nat
      /\ start[c] + r - 1 <= end[c]
  BY Found, PageAssumption DEF Split
<1>2. FieldsOK /\ TypeOK
  BY Fields DEF Inv
<1>3. /\ rest \notin live /\ HandOut /\ BeginCombine
      /\ live' = live \cup {rest} /\ head' = head
      /\ start' = [start EXCEPT ![rest] = start[c] + r]
      /\ end' = [end EXCEPT ![rest] = end[c], ![c] = start[c] + r - 1]
      /\ allocated' = [allocated EXCEPT ![c] = TRUE, ![rest] = FALSE]
      /\ next' = [next EXCEPT ![c] = rest, ![rest] = next[c]]
      /\ prev' = [p \in Piece |-> IF p = rest THEN c
                              ELSE IF p = next[c] THEN rest ELSE prev[p]]
      /\ victim = NoPiece
  BY DEF Split, Inv, RestInv
<1> HIDE DEF r
<1>4. TypeOK'
  <2>1. start' \in [Piece -> 0 .. PageSize] /\ end' \in [Piece -> -1 .. PageSize - 1]
    <3>1. /\ start[c] + r \in 0 .. PageSize /\ start[c] + r - 1 \in -1 .. PageSize - 1
          /\ end[c] \in -1 .. PageSize - 1
      BY <1>1, <1>2 DEF FieldsOK
    <3>2. QED BY <3>1, <1>3, <1>2 DEF TypeOK
  <2>2. /\ allocated' \in [Piece -> BOOLEAN]
        /\ next' \in [Piece -> Piece \cup {NoPiece}]
        /\ prev' \in [Piece -> Piece \cup {NoPiece}]
        /\ live' \subseteq Piece /\ head' \in Piece
    BY <1>1, <1>2, <1>3 DEF TypeOK, FieldsOK
  <2>3. /\ held' \subseteq Piece /\ request' \in [Piece -> Request]
        /\ asked' \in Request /\ toFree' \in Seq(Piece)
        /\ victim' \in Piece \cup {NoPiece} /\ draining' \in BOOLEAN
    BY <1>1, <1>2, <1>3, PageAssumption DEF TypeOK, HandOut, Request, NoRequest
  <2>4. /\ pc' = "combine" /\ last' \in Piece \cup {NoPiece}
        /\ current' \in Piece \cup {NoPiece}
    BY <1>2, <1>3, <2>2 DEF BeginCombine, TypeOK
  <2>5. QED BY <2>1, <2>2, <2>3, <2>4 DEF TypeOK
<1>5. ListInv'
  BY SplitList
<1>6. CombineInv'
  BY <1>3, <1>4, <1>5, HeadFirstNext
    DEF CombineInv, BeginCombine, HeadIsFirst, ListInv, ListCoversPage
<1>7. SearchInv' /\ RestInv'
  BY <1>3 DEF SearchInv, RestInv, BeginCombine
<1>8. HandlesUsable'
  <2>1. /\ start'[c] = start[c] /\ end'[c] = start[c] + r - 1 /\ allocated'[c]
        /\ \A p \in live : p # c =>
             /\ p \in live' /\ allocated'[p] = allocated[p]
             /\ start'[p] = start[p] /\ end'[p] = end[p]
    BY <1>1, <1>2, <1>3 DEF TypeOK, FieldsOK
  <2>2. end'[c] - start'[c] + 1 >= asked.size /\ start'[c] % asked.align = 0
    BY <2>1, <1>1, <1>2 DEF FieldsOK
  <2>3. QED BY <2>1, <2>2, <1>1, <1>3, HandOutHandles
<1>9. QED BY <1>4, <1>5, <1>6, <1>7, <1>8 DEF Inv

LEMMA SplitPaddedInv ==
  ASSUME Inv, NEW rest \in Piece, NEW pad \in Piece, SplitPadded(rest, pad)
  PROVE  Inv'
<1> DEFINE c == current
           r == realSize
           s == realStart(c)
<1>1. /\ c \in live /\ c \in Piece /\ ~allocated[c] /\ r \in 1 .. PageSize
      /\ s % asked.align = 0 /\ asked.size <= r /\ asked.size \in Nat
      /\ s \in Nat /\ start[c] <= s /\ start[c] # s /\ s + r - 1 <= end[c]
  BY Found, PageAssumption DEF SplitPadded
<1>2. FieldsOK /\ TypeOK
  BY Fields DEF Inv
<1>3. /\ rest \notin live /\ pad \notin live /\ rest # pad
      /\ HandOut /\ BeginCombine
      /\ live' = live \cup {rest, pad} /\ head' = head
      /\ start' = [start EXCEPT ![rest] = s + r, ![pad] = start[c], ![c] = s]
      /\ end' = [end EXCEPT ![rest] = end[c], ![pad] = s - 1, ![c] = s + r - 1]
      /\ allocated' = [allocated EXCEPT ![c] = TRUE, ![rest] = FALSE, ![pad] = FALSE]
      /\ next' = [p \in Piece |-> IF p = c THEN rest
                              ELSE IF p = rest THEN next[c]
                              ELSE IF p = pad THEN c
                              ELSE IF p = prev[c] THEN pad ELSE next[p]]
      /\ prev' = [p \in Piece |-> IF p = rest THEN c
                              ELSE IF p = c THEN pad
                              ELSE IF p = pad THEN prev[c]
                              ELSE IF p = next[c] THEN rest ELSE prev[p]]
      /\ victim = NoPiece
  BY DEF SplitPadded, Inv, RestInv
<1> HIDE DEF r, s
<1>4. TypeOK'
  <2>1. start' \in [Piece -> 0 .. PageSize] /\ end' \in [Piece -> -1 .. PageSize - 1]
    <3>1. /\ s + r \in 0 .. PageSize /\ s + r - 1 \in -1 .. PageSize - 1
          /\ s \in 0 .. PageSize /\ s - 1 \in -1 .. PageSize - 1
          /\ end[c] \in -1 .. PageSize - 1 /\ start[c] \in 0 .. PageSize
      BY <1>1, <1>2 DEF FieldsOK
    <3>2. QED BY <3>1, <1>3, <1>2 DEF TypeOK
  <2>2. /\ allocated' \in [Piece -> BOOLEAN]
        /\ next' \in [Piece -> Piece \cup {NoPiece}]
        /\ prev' \in [Piece -> Piece \cup {NoPiece}]
        /\ live' \subseteq Piece /\ head' \in Piece
    BY <1>1, <1>2, <1>3 DEF TypeOK, FieldsOK
  <2>3. /\ held' \subseteq Piece /\ request' \in [Piece -> Request]
        /\ asked' \in Request /\ toFree' \in Seq(Piece)
        /\ victim' \in Piece \cup {NoPiece} /\ draining' \in BOOLEAN
    BY <1>1, <1>2, <1>3, PageAssumption DEF TypeOK, HandOut, Request, NoRequest
  <2>4. /\ pc' = "combine" /\ last' \in Piece \cup {NoPiece}
        /\ current' \in Piece \cup {NoPiece}
    BY <1>2, <1>3, <2>2 DEF BeginCombine, TypeOK
  <2>5. QED BY <2>1, <2>2, <2>3, <2>4 DEF TypeOK
<1>5. ListInv'
  BY SplitPaddedList
<1>6. CombineInv'
  BY <1>3, <1>4, <1>5, HeadFirstNext
    DEF CombineInv, BeginCombine, HeadIsFirst, ListInv, ListCoversPage
<1>7. SearchInv' /\ RestInv'
  BY <1>3 DEF SearchInv, RestInv, BeginCombine
<1>8. HandlesUsable'
  <2>1. /\ start'[c] = s /\ end'[c] = s + r - 1 /\ allocated'[c]
        /\ \A p \in live : p # c =>
             /\ p \in live' /\ allocated'[p] = allocated[p]
             /\ start'[p] = start[p] /\ end'[p] = end[p]
    BY <1>1, <1>2, <1>3 DEF TypeOK, FieldsOK
  <2>2. end'[c] - start'[c] + 1 >= asked.size /\ start'[c] % asked.align = 0
    BY <2>1, <1>1
  <2>3. QED BY <2>1, <2>2, <1>1, <1>3, HandOutHandles
<1>9. QED BY <1>4, <1>5, <1>6, <1>7, <1>8 DEF Inv

LEMMA AbsorbInv == ASSUME Inv, Absorb PROVE Inv'
<1> DEFINE c == current
           l == last
<1>1. /\ c \in live /\ l \in live /\ c = next[l] /\ c # NoPiece
      /\ ~allocated[l] /\ ~allocated[c] /\ c # l
  BY DEF Inv, CombineInv, TypeOK, Absorb, bothFree, ListInv, ListCoversPage,
         EmptyPiecesApart
<1>2. FieldsOK /\ TypeOK
  BY Fields DEF Inv
<1>3. /\ live' = live \ {c} /\ head' = head
      /\ end' = [end EXCEPT ![l] = end[c], ![c] = 0]
      /\ start' = [start EXCEPT ![c] = 0]
      /\ next' = [next EXCEPT ![l] = next[c], ![c] = NoPiece]
      /\ prev' = [p \in Piece |-> IF p = c THEN NoPiece
                              ELSE IF p = next[c] THEN l ELSE prev[p]]
      /\ allocated' = allocated /\ last' = last /\ current' = next[c]
      /\ UNCHANGED <<toFree, held, request, pc, asked, victim, draining>>
  BY DEF Absorb
<1>4. pc = "combine"
  BY DEF Absorb
<1>5. TypeOK'
  <2>1. /\ start' \in [Piece -> 0 .. PageSize]
        /\ end[c] \in -1 .. PageSize - 1 /\ 0 \in -1 .. PageSize - 1
    BY <1>1, <1>2, <1>3 DEF TypeOK, FieldsOK
  <2>2. end' \in [Piece -> -1 .. PageSize - 1]
    BY <2>1, <1>1, <1>2, <1>3 DEF TypeOK
  <2>3. /\ live' \subseteq Piece
        /\ next' \in [Piece -> Piece \cup {NoPiece}]
        /\ prev' \in [Piece -> Piece \cup {NoPiece}]
        /\ current' \in Piece \cup {NoPiece}
    BY <1>1, <1>2, <1>3 DEF TypeOK, FieldsOK
  <2>4. QED BY <2>1, <2>2, <2>3, <1>2, <1>3 DEF TypeOK
<1>6. ListInv'
  BY AbsorbList
<1>7. CombineInv'
  <2>1. current' = next'[last'] /\ last' \in live'
    BY <1>1, <1>2, <1>3 DEF TypeOK, FieldsOK
  <2>2. ASSUME NEW p \in live', FreeNeighbours(p)' PROVE ~Before(p, last)'
    <3>1. CASE p = l
      BY <3>1, <1>2, <1>3 DEF Before, FieldsOK
    <3>2. CASE p # l
      <4>1. /\ p \in live /\ p # c /\ next'[p] = next[p] /\ start'[p] = start[p]
            /\ end'[p] = end[p] /\ start'[l] = start[l]
        BY <3>2, <2>2, <1>1, <1>2, <1>3 DEF TypeOK, FieldsOK
      <4>2. FreeNeighbours(p)
        BY <4>1, <2>2, <1>3 DEF FreeNeighbours
      <4>3. ~Before(p, last)
        BY <4>1, <4>2, <1>4 DEF Inv, CombineInv
      <4>4. QED BY <4>1, <4>3, <1>3 DEF Before, Empty
    <3>3. QED BY <3>1, <3>2
  <2>3. QED BY <2>1, <2>2 DEF CombineInv
<1>8. SearchInv' /\ RestInv'
  BY <1>3, <1>4 DEF SearchInv, RestInv
<1>9. HandlesUsable'
  <2>1. Handles' = Handles /\ c \notin Handles /\ l \notin Handles
    BY <1>1, <1>3 DEF Handles, Inv, HandlesUsable
  <2>2. \A p \in live : p # c /\ p # l => p \in live' /\ start'[p] = start[p] /\ end'[p] = end[p]
    BY <1>1, <1>2, <1>3 DEF TypeOK, FieldsOK
  <2> HIDE DEF c, l
  <2>3. QED BY <2>1, <2>2, <1>3 DEF Inv, HandlesUsable, size
<1>10. QED BY <1>5, <1>6, <1>7, <1>8, <1>9 DEF Inv

(* What giving back p does to everything but the pointers. *)
LEMMA GiveBackInv ==
  ASSUME Inv, NEW p \in live, pc = "idle", GiveBack(p),
         held' \subseteq held, toFree' \in Seq(Piece)
  PROVE  TypeOK' /\ ListInv' /\ SearchInv' /\ CombineInv' /\ RestInv'
<1>1. FieldsOK /\ ListInv /\ TypeOK /\ HeadIsFirst /\ p \in Piece
  BY Fields, HeadFirst DEF Inv, FieldsOK
<1>2. TypeOK'
  BY <1>1, PageAssumption DEF GiveBack, BeginCombine, TypeOK, Request, NoRequest
<1>3. ListInv'
  BY <1>1 DEF GiveBack, ListInv, ListCoversPage, PiecesApart, EmptyPiecesApart,
              Empty, TypeOK
<1>4. CombineInv'
  BY <1>1 DEF GiveBack, BeginCombine, CombineInv, HeadIsFirst, Before, Empty,
              ListInv, ListCoversPage
<1>5. SearchInv' /\ RestInv'
  BY DEF GiveBack, BeginCombine, SearchInv, RestInv
<1>6. QED BY <1>2, <1>3, <1>4, <1>5

LEMMA DeallocateInv == ASSUME Inv, NEW p \in Piece, Deallocate(p) PROVE Inv'
<1>1. p \in held /\ p \in live /\ toFree' = toFree
  BY DEF Deallocate, Inv, HandlesUsable, Handles
<1>2. TypeOK' /\ ListInv' /\ SearchInv' /\ CombineInv' /\ RestInv'
  BY <1>1, GiveBackInv DEF Deallocate, Inv, TypeOK
<1>3. HandlesUsable'
  <2>1. Handles' = Handles \ {p}
    BY <1>1 DEF Deallocate, Handles, Inv, HandlesUsable
  <2>2. ASSUME NEW q \in Handles, q # p
        PROVE  /\ q \in live' /\ allocated'[q]
               /\ start'[q] % request'[q].align = 0
               /\ size(q)' >= request'[q].size
    BY <2>2 DEF Inv, TypeOK, HandlesUsable, Deallocate, GiveBack, size
  <2>3. held' \subseteq held
    BY DEF Deallocate
  <2>4. QED BY <2>1, <2>2, <2>3, <1>1 DEF Inv, HandlesUsable
<1>4. QED BY <1>2, <1>3 DEF Inv

LEMMA DrainOneInv == ASSUME Inv, DrainOne PROVE Inv'
<1> DEFINE p == Head(toFree)
<1>1. /\ toFree \in Seq(Piece) /\ toFree # <<>> /\ toFree' = Tail(toFree) /\ held' = held
  BY DEF DrainOne, Inv, TypeOK
<1>2. /\ toFree' \in Seq(Piece) /\ p = toFree[1] /\ 1 \in DOMAIN toFree
      /\ \A i \in DOMAIN toFree' : i + 1 \in DOMAIN toFree /\ toFree'[i] = toFree[i + 1]
                                 /\ i + 1 # 1
  BY <1>1
<1>3. p \in Handles /\ p \in live
  BY <1>2 DEF Inv, HandlesUsable, Handles
<1>4. TypeOK' /\ ListInv' /\ SearchInv' /\ CombineInv' /\ RestInv'
  BY <1>1, <1>2, <1>3, GiveBackInv DEF DrainOne
<1>5. GiveBack(p)
  BY DEF DrainOne
<1> HIDE DEF p
<1>6. HandlesUsable'
  <2>1. Handles' \subseteq Handles \ {p}
    BY <1>1, <1>2 DEF Handles, Inv, HandlesUsable
  <2>2. ASSUME NEW q \in Handles, q # p
        PROVE  /\ q \in live' /\ allocated'[q]
               /\ start'[q] % request'[q].align = 0
               /\ size(q)' >= request'[q].size
    BY <2>2, <1>5 DEF Inv, TypeOK, HandlesUsable, GiveBack, size
  <2>3. \A i, j \in DOMAIN toFree' : i # j => toFree'[i] # toFree'[j]
    BY <1>1, <1>2 DEF Inv, HandlesUsable
  <2>4. \A i \in DOMAIN toFree' : toFree'[i] \notin held'
    BY <1>1, <1>2 DEF Inv, HandlesUsable
  <2>5. QED BY <2>1, <2>2, <2>3, <2>4 DEF HandlesUsable
<1>7. QED BY <1>4, <1>6 DEF Inv

LEMMA RequestDeallocateInv ==
  ASSUME Inv, NEW p \in Piece, RequestDeallocate(p)
  PROVE  Inv'
<1> USE DEF RequestDeallocate
<1>1. /\ toFree \in Seq(Piece) /\ p \in held /\ toFree' = Append(toFree, p)
      /\ held' = held \ {p}
  BY DEF Inv, TypeOK
<1>2. /\ toFree' \in Seq(Piece)
      /\ DOMAIN toFree' = DOMAIN toFree \cup {Len(toFree) + 1}
      /\ Len(toFree) + 1 \notin DOMAIN toFree
      /\ toFree'[Len(toFree) + 1] = p
      /\ \A i \in DOMAIN toFree : toFree'[i] = toFree[i]
  BY <1>1
<1>3. TypeOK'
  BY <1>2 DEF Inv, TypeOK, list, calls
<1>4. ListInv' /\ SearchInv' /\ CombineInv' /\ RestInv'
  BY DEF Inv, ListInv, ListCoversPage, PiecesApart, EmptyPiecesApart, Empty, SearchInv,
         CombineInv, RestInv, FreeNeighbours, list, calls
<1>5. HandlesUsable'
  <2>1. Handles' = Handles
    BY <1>1, <1>2 DEF Handles
  <2>2. ASSUME NEW i \in DOMAIN toFree', NEW j \in DOMAIN toFree', i # j
        PROVE  toFree'[i] # toFree'[j]
    BY <2>2, <1>1, <1>2 DEF Inv, HandlesUsable
  <2>3. ASSUME NEW i \in DOMAIN toFree' PROVE toFree'[i] \notin held'
    BY <2>3, <1>1, <1>2 DEF Inv, HandlesUsable
  <2>4. QED BY <2>1, <2>2, <2>3 DEF Inv, HandlesUsable, size, list
<1>6. QED BY <1>3, <1>4, <1>5 DEF Inv

LEMMA OtherInv ==
  ASSUME Inv, DeallocateReturns \/ BeginDrain \/ EndDrain \/ UNCHANGED vars
  PROVE  Inv'
<1> USE DEF DeallocateReturns, BeginDrain, EndDrain, vars, list, calls
<1>1. TypeOK' /\ ListInv'
  <2>1. TypeOK'
    BY DEF Inv, TypeOK
  <2>2. ListInv'
    BY DEF Inv, ListInv, ListCoversPage, PiecesApart, EmptyPiecesApart, Empty
  <2>3. QED BY <2>1, <2>2
<1>2. SearchInv'
  BY DEF Inv, SearchInv, Fits, size, realStart, realSize, Before, Empty
<1>3. CombineInv' /\ RestInv'
  BY DEF Inv, CombineInv, RestInv, FreeNeighbours, Before, Empty
<1>4. HandlesUsable'
  BY DEF Inv, HandlesUsable, Handles, size
<1>5. QED BY <1>1, <1>2, <1>3, <1>4 DEF Inv

LEMMA NextInv == Inv /\ [Next]_vars => Inv'
<1> SUFFICES ASSUME Inv, [Next]_vars PROVE Inv'
  OBVIOUS
<1>1. ASSUME NEW n \in Sizes, NEW a \in Aligns, BeginAllocate(n, a) PROVE Inv'
  BY <1>1, BeginAllocateInv
<1>2. ASSUME NEW p \in Piece, Deallocate(p) \/ RequestDeallocate(p) PROVE Inv'
  BY <1>2, DeallocateInv, RequestDeallocateInv
<1>3. ASSUME NEW rest \in Piece, Split(rest) PROVE Inv'
  BY <1>3, SplitInv
<1>4. ASSUME NEW rest \in Piece, NEW pad \in Piece, SplitPadded(rest, pad) PROVE Inv'
  BY <1>4, SplitPaddedInv
<1>5. CASE SearchNext \/ SearchFails \/ TakeWholePage
  BY <1>5, SearchNextInv, SearchFailsInv, TakeWholePageInv
<1>6. CASE Absorb \/ WalkOn \/ CombineReturns \/ DrainOne
  BY <1>6, AbsorbInv, WalkOnInv, CombineReturnsInv, DrainOneInv
<1>7. CASE DeallocateReturns \/ BeginDrain \/ EndDrain \/ UNCHANGED vars
  BY <1>7, OtherInv
<1>8. QED BY <1>1, <1>2, <1>3, <1>4, <1>5, <1>6, <1>7 DEF Next, Proceed

THEOREM Invariance == Spec => []Inv
BY InitInv, NextInv, PTL DEF Spec

-----------------------------------------------------------------------------
(* The variables keep their types: in particular no offset leaves the page. *)
THEOREM TypeCorrect == Spec => []TypeOK
BY Invariance, PTL DEF Inv

(* The list of a page always covers the page without a hole, through every *)
(* split and merge, and its links agree in both directions.                *)
THEOREM ListAlwaysCoversPage == Spec => []ListCoversPage
BY Invariance, PTL DEF Inv, ListInv

(* No two pieces ever share a unit of the page. *)
THEOREM PiecesAlwaysApart == Spec => []PiecesApart
BY Invariance, PTL DEF Inv, ListInv

(* A pointer to a piece that has been handed out and not given back is     *)
(* never dangling, and its region stays aligned and large enough.          *)
THEOREM HandlesAlwaysUsable == Spec => []HandlesUsable
BY Invariance, PTL DEF Inv

(* Between calls free neighbours are merged, and a page on which nothing   *)
(* is allocated is one free piece again.                                   *)
THEOREM FreePiecesAlwaysMerged == Spec => []FreePiecesMerged
<1>1. ASSUME Inv PROVE FreePiecesMerged
  <2> SUFFICES ASSUME pc = "idle"
               PROVE  /\ \A p \in live : next[p] # NoPiece => allocated[p] \/ allocated[next[p]]
                      /\ (\A p \in live : ~allocated[p]) => live = {head}
    BY DEF FreePiecesMerged
  <2>1. FieldsOK /\ ListInv /\ HeadIsFirst
    BY <1>1, Fields, HeadFirst DEF Inv
  <2>2. \A p \in live : ~FreeNeighbours(p)
    BY <1>1 DEF Inv, RestInv
  <2>3. ASSUME \A p \in live : ~allocated[p], NEW p \in live, p # head
        PROVE  FALSE
    <3>1. next[head] = NoPiece /\ end[head] = PageSize - 1 /\ start[head] = 0
      BY <2>1, <2>2, <2>3 DEF ListInv, ListCoversPage, FreeNeighbours
    <3>2. CASE end[p] < start[head]
      BY <3>1, <3>2, <2>1, <2>3 DEF HeadIsFirst, Before, Empty, ListInv,
                                    ListCoversPage, FieldsOK
    <3>3. CASE end[head] < start[p]
      <4>1. Empty(p) /\ start[p] = end[head] + 1 /\ head \in live
        BY <3>1, <3>3, <2>1, <2>3 DEF Empty, FieldsOK, ListInv, ListCoversPage
      <4>2. next[head] = p
        BY <4>1, <2>1, <2>3, EmptyIsNext
      <4>3. QED BY <4>2, <3>1, <2>1, <2>3 DEF FieldsOK
    <3>4. QED BY <3>2, <3>3, <2>1, <2>3 DEF ListInv, PiecesApart, ListCoversPage
  <2>4. head \in live
    BY <2>1 DEF ListInv, ListCoversPage
  <2>5. QED BY <2>2, <2>3, <2>4 DEF FreeNeighbours
<1>2. QED BY <1>1, Invariance, PTL

(* The two together: a partition of the page, with no more pieces than it needs. *)
THEOREM ListAlwaysSound == Spec => []ListSound
BY ListAlwaysCoversPage, FreePiecesAlwaysMerged, PTL DEF ListSound

-----------------------------------------------------------------------------
(* Which step hands a piece out. *)
LEMMA HandedOut ==
  ASSUME Inv, [Next]_vars, NEW p \in Piece, p \in held', p \notin held
  PROVE  pc = "search" /\ current # NoPiece /\ Fits(current) /\ p = current
<1> USE DEF list, calls, vars
<1>1. CASE \E n \in Sizes, a \in Aligns : BeginAllocate(n, a)
  BY <1>1 DEF BeginAllocate
<1>2. CASE \E q \in Piece : Deallocate(q) \/ RequestDeallocate(q)
  BY <1>2 DEF Deallocate, RequestDeallocate
<1>3. CASE BeginDrain \/ SearchNext \/ SearchFails \/ Absorb \/ WalkOn \/ CombineReturns
           \/ DeallocateReturns \/ DrainOne \/ EndDrain \/ UNCHANGED vars
  BY <1>3 DEF BeginDrain, SearchNext, SearchFails, Absorb, WalkOn, CombineReturns,
              DeallocateReturns, DrainOne, EndDrain
<1>4. CASE TakeWholePage
  BY <1>4 DEF TakeWholePage, HandOut
<1>5. CASE \E rest \in Piece : Split(rest)
  BY <1>5 DEF Split, HandOut
<1>6. CASE \E rest, pad \in Piece : SplitPadded(rest, pad)
  BY <1>6 DEF SplitPadded, HandOut
<1>7. QED BY <1>1, <1>2, <1>3, <1>4, <1>5, <1>6 DEF Next, Proceed

(* allocate() hands out the lowest piece that would do. *)
THEOREM FirstFitHolds == Spec => FirstFit
<1>1. ASSUME Inv, [Next]_vars, NEW p \in Piece, p \in held', p \notin held,
             NEW q \in live, Fits(q)
      PROVE  start[p] <= start[q]
  <2>1. pc = "search" /\ current # NoPiece /\ Fits(current) /\ p = current
    BY <1>1, HandedOut
  <2>2. ~Before(q, current) /\ FieldsOK /\ current \in live
    BY <1>1, <2>1, Fields DEF Inv, SearchInv
  <2>3. QED BY <1>1, <2>1, <2>2 DEF Before, FieldsOK
<1>2. Inv /\ [Next]_vars =>
        [\A p \in Piece : p \in held' /\ p \notin held
           => \A q \in live : Fits(q) => start[p] <= start[q]]_vars
  BY <1>1
<1>3. QED BY <1>2, Invariance, PTL DEF Spec, FirstFit

(* allocate() gives up only when no piece of the page would do. *)
THEOREM NullOnlyWhenNothingFitsHolds == Spec => NullOnlyWhenNothingFits
<1>1. ASSUME Inv, [Next]_vars, pc = "search", pc' = "idle", held' = held
      PROVE  \A p \in live : ~Fits(p)
  <2> USE <1>1 DEF list, calls, vars
  <2>1. CASE SearchFails
    BY <2>1 DEF SearchFails, Inv, SearchInv
  <2>2. CASE TakeWholePage
    BY <2>2, Found DEF TakeWholePage, HandOut, Inv, HandlesUsable, Handles
  <2>3. CASE \E n \in Sizes, a \in Aligns : BeginAllocate(n, a)
    BY <2>3 DEF BeginAllocate
  <2>4. CASE \E q \in Piece : Deallocate(q) \/ RequestDeallocate(q)
    BY <2>4 DEF Deallocate, RequestDeallocate
  <2>5. CASE BeginDrain \/ SearchNext \/ Absorb \/ WalkOn \/ CombineReturns
             \/ DeallocateReturns \/ DrainOne \/ EndDrain \/ UNCHANGED vars
    BY <2>5 DEF BeginDrain, SearchNext, Absorb, WalkOn, CombineReturns,
                DeallocateReturns, DrainOne, EndDrain
  <2>6. CASE \E rest \in Piece : Split(rest)
    BY <2>6 DEF Split, BeginCombine
  <2>7. CASE \E rest, pad \in Piece : SplitPadded(rest, pad)
    BY <2>7 DEF SplitPadded, BeginCombine
  <2>8. QED BY <2>1, <2>2, <2>3, <2>4, <2>5, <2>6, <2>7 DEF Next, Proceed
<1>2. Inv /\ [Next]_vars =>
        [pc = "search" /\ pc' = "idle" /\ held' = held => \A p \in live : ~Fits(p)]_vars
  BY <1>1
<1>3. QED BY <1>2, Invariance, PTL DEF Spec, NullOnlyWhenNothingFits

(* The two together: the search finds a piece if there is one, and the lowest. *)
THEOREM SearchAlwaysRight == Spec => SearchRight
BY FirstFitHolds, NullOnlyWhenNothingFitsHolds, PTL DEF SearchRight

-----------------------------------------------------------------------------
(* The page implements AllocatorSpec.                                      *)

(* A step that leaves the pieces in use alone leaves the regions alone. *)
LEMMA RegionsKept ==
  ASSUME InUse' = InUse,
         \A p \in InUse : start'[p] = start[p] /\ end'[p] = end[p]
  PROVE  Regions' = Regions
BY DEF Regions

(* A step that takes one more piece into use adds its region. *)
LEMMA RegionsGain ==
  ASSUME NEW c \in Piece, InUse' = InUse \cup {c},
         \A p \in InUse : start'[p] = start[p] /\ end'[p] = end[p]
  PROVE  Regions' = Regions \cup {<<start'[c], end'[c]>>}
BY DEF Regions

(* The page grants a piece of the one current was before. *)
LEMMA Grants ==
  ASSUME Inv, pc = "search", current # NoPiece, Fits(current),
         InUse' = InUse \cup {current},
         \A p \in InUse : start'[p] = start[p] /\ end'[p] = end[p],
         start'[current] \in Int, end'[current] \in Int,
         start[current] <= start'[current], end'[current] <= end[current],
         start'[current] <= end'[current]
  PROVE  Promise!Grant
<1> DEFINE r == <<start'[current], end'[current]>>
<1>1. FieldsOK /\ PiecesApart /\ current \in live /\ ~allocated[current]
  BY Found, Fields DEF Inv, ListInv
<1>2. Regions' = Regions \cup {r}
  BY <1>1, RegionsGain DEF FieldsOK
<1>3. r \in Promise!Region
  BY <1>1 DEF Promise!Region, FieldsOK
<1>4. \A s \in Regions : Promise!Apart(r, s)
  <2> SUFFICES ASSUME NEW p \in InUse
               PROVE  end'[current] < start[p] \/ end[p] < start'[current]
    BY DEF Regions, Promise!Apart
  <2>1. p \in live /\ p # current
    BY <1>1 DEF InUse
  <2>2. end[p] < start[current] \/ end[current] < start[p]
    BY <1>1, <2>1 DEF PiecesApart
  <2>3. QED BY <1>1, <2>1, <2>2 DEF FieldsOK
<1>5. QED BY <1>2, <1>3, <1>4 DEF Promise!Grant, Regions, InUse

(* Giving a piece back releases its region, and no other piece has it. *)
LEMMA Releases ==
  ASSUME Inv, NEW c \in live, allocated[c], InUse' = InUse \ {c},
         start' = start, end' = end
  PROVE  Promise!Release
<1> DEFINE r == <<start[c], end[c]>>
<1>1. FieldsOK /\ PiecesApart /\ EmptyPiecesApart
  BY Fields DEF Inv, ListInv
<1>2. \A p \in InUse : p # c => <<start[p], end[p]>> # r
  <2> SUFFICES ASSUME NEW p \in InUse, p # c, start[p] = start[c], end[p] = end[c]
               PROVE  FALSE
    OBVIOUS
  <2>1. p \in live /\ (end[p] < start[c] \/ end[c] < start[p])
    BY <1>1 DEF PiecesApart, InUse
  <2>2. ~(end[c] < start[c])
    BY <1>1 DEF EmptyPiecesApart, Empty
  <2>3. QED BY <2>1, <2>2
<1>3. r \in Regions
  BY DEF Regions, InUse
<1>4. Regions' = Regions \ {r}
  BY <1>2 DEF Regions
<1>5. QED BY <1>3, <1>4 DEF Promise!Release, Regions, InUse

(* Every step of the page is a Grant, a Release or no step of AllocatorSpec. *)
LEMMA StepImplements ==
  ASSUME Inv, [Next]_vars
  PROVE  Promise!Next \/ Regions' = Regions
<1> USE DEF list, calls, vars
<1>1. CASE \/ \E n \in Sizes, a \in Aligns : BeginAllocate(n, a)
           \/ \E p \in Piece : RequestDeallocate(p)
           \/ BeginDrain \/ SearchNext \/ SearchFails \/ WalkOn \/ CombineReturns
           \/ DeallocateReturns \/ EndDrain \/ UNCHANGED vars
  <2>1. UNCHANGED <<live, start, end, allocated>>
    BY <1>1 DEF BeginAllocate, RequestDeallocate, BeginDrain, SearchNext, SearchFails,
                WalkOn, CombineReturns, DeallocateReturns, EndDrain
  <2>2. QED BY <2>1, RegionsKept DEF InUse
<1>2. CASE TakeWholePage
  <2>1. current \in live /\ FieldsOK /\ ~Empty(current)
    <3>1. size(current) >= realSize /\ realSize \in 1 .. PageSize /\ FieldsOK
          /\ current \in live
      BY <1>2, Found, Fields DEF TakeWholePage, Inv, size, FieldsOK
    <3>2. QED BY <3>1 DEF size, Empty, FieldsOK
  <2>2. InUse' = InUse \cup {current}
    BY <1>2, <2>1 DEF TakeWholePage, InUse, FieldsOK, Inv, TypeOK
  <2>3. UNCHANGED <<start, end>>
    BY <1>2 DEF TakeWholePage
  <2>4. Promise!Grant
    BY <1>2, <2>1, <2>2, <2>3, Grants DEF TakeWholePage, FieldsOK, Empty
  <2>5. QED BY <2>4 DEF Promise!Next
<1>3. ASSUME NEW rest \in Piece, Split(rest) PROVE Promise!Grant
  <2> DEFINE c == current
  <2>1. /\ FieldsOK /\ c \in live /\ c \in Piece /\ ~allocated[c] /\ rest # c
        /\ realSize \in 1 .. PageSize /\ start[c] + realSize - 1 <= end[c]
    BY <1>3, Found, Fields DEF Split, Inv
  <2>2. allocated \in [Piece -> BOOLEAN] /\ start \in [Piece -> 0 .. PageSize]
        /\ end \in [Piece -> -1 .. PageSize - 1]
    BY DEF Inv, TypeOK
  <2> HIDE DEF c
  <2>a. \A p \in live : p # c => /\ allocated'[p] = allocated[p]
                                 /\ start'[p] = start[p] /\ end'[p] = end[p]
    BY <1>3, <2>1, <2>2 DEF Split, FieldsOK, c
  <2>b. live' = live \cup {rest} /\ allocated'[c] /\ ~allocated'[rest]
    BY <1>3, <2>1, <2>2 DEF Split, FieldsOK, c
  <2>3. InUse' = InUse \cup {c}
    BY <2>1, <2>a, <2>b DEF InUse
  <2>4. \A p \in InUse : start'[p] = start[p] /\ end'[p] = end[p]
    BY <2>1, <2>a DEF InUse
  <2>5. start'[c] = start[c] /\ end'[c] = start[c] + realSize - 1
    BY <1>3, <2>1, <2>2 DEF Split, c
  <2>6. pc = "search" /\ c # NoPiece /\ Fits(c)
    BY <1>3 DEF Split, c
  <2>7. start'[c] \in Int /\ end'[c] \in Int /\ start[c] <= start'[c]
        /\ end'[c] <= end[c] /\ start'[c] <= end'[c]
    BY <2>1, <2>5 DEF FieldsOK
  <2>8. QED BY <2>3, <2>4, <2>6, <2>7, Grants DEF c
<1>4. ASSUME NEW rest \in Piece, NEW pad \in Piece, SplitPadded(rest, pad)
      PROVE  Promise!Grant
  <2> DEFINE c == current
             s == realStart(c)
  <2>1. /\ FieldsOK /\ c \in live /\ c \in Piece /\ ~allocated[c]
        /\ rest # c /\ pad # c /\ rest # pad
        /\ realSize \in 1 .. PageSize /\ s \in Nat /\ start[c] <= s
        /\ s + realSize - 1 <= end[c]
    BY <1>4, Found, Fields DEF SplitPadded, Inv
  <2>2. allocated \in [Piece -> BOOLEAN] /\ start \in [Piece -> 0 .. PageSize]
        /\ end \in [Piece -> -1 .. PageSize - 1]
    BY DEF Inv, TypeOK
  <2> HIDE DEF c, s
  <2>a. \A p \in live : p # c => /\ allocated'[p] = allocated[p]
                                 /\ start'[p] = start[p] /\ end'[p] = end[p]
    BY <1>4, <2>1, <2>2 DEF SplitPadded, FieldsOK, c
  <2>b. live' = live \cup {rest, pad} /\ allocated'[c]
        /\ ~allocated'[rest] /\ ~allocated'[pad]
    BY <1>4, <2>1, <2>2 DEF SplitPadded, FieldsOK, c
  <2>3. InUse' = InUse \cup {c}
    BY <2>1, <2>a, <2>b DEF InUse
  <2>4. \A p \in InUse : start'[p] = start[p] /\ end'[p] = end[p]
    BY <2>1, <2>a DEF InUse
  <2>5. start'[c] = s /\ end'[c] = s + realSize - 1
    BY <1>4, <2>1, <2>2 DEF SplitPadded, c, s
  <2>6. pc = "search" /\ c # NoPiece /\ Fits(c)
    BY <1>4 DEF SplitPadded, c
  <2>7. start'[c] \in Int /\ end'[c] \in Int /\ start[c] <= start'[c]
        /\ end'[c] <= end[c] /\ start'[c] <= end'[c]
    BY <2>1, <2>5 DEF FieldsOK
  <2>8. QED BY <2>3, <2>4, <2>6, <2>7, Grants DEF c
<1>5. ASSUME Absorb PROVE Regions' = Regions
  <2>1. FieldsOK /\ last \in live /\ current = next[last] /\ ListCoversPage
    BY <1>5, Fields DEF Absorb, Inv, CombineInv, ListInv
  <2>2. ~allocated[current] /\ ~allocated[last]
    BY <1>5 DEF Absorb, bothFree
  <2>3. InUse' = InUse
    BY <1>5, <2>2 DEF Absorb, InUse
  <2>4. start \in [Piece -> 0 .. PageSize] /\ end \in [Piece -> -1 .. PageSize - 1]
    BY DEF Inv, TypeOK
  <2>5. \A p \in InUse : start'[p] = start[p] /\ end'[p] = end[p]
    BY <1>5, <2>1, <2>2, <2>4 DEF Absorb, InUse, FieldsOK
  <2>6. QED BY <2>3, <2>5, RegionsKept
<1>6. ASSUME NEW p \in live, GiveBack(p) PROVE Promise!Release
  <2>1. InUse' = InUse \ {p}
    BY <1>6 DEF GiveBack, InUse, Inv, TypeOK
  <2>2. QED BY <1>6, <2>1, Releases DEF GiveBack
<1>7. ASSUME NEW p \in Piece, Deallocate(p) PROVE Promise!Release
  <2>1. p \in live
    BY <1>7 DEF Deallocate, Inv, HandlesUsable, Handles
  <2>2. QED BY <1>6, <1>7, <2>1 DEF Deallocate
<1>8. ASSUME DrainOne PROVE Promise!Release
  <2>1. toFree \in Seq(Piece) /\ toFree # <<>>
    BY <1>8 DEF DrainOne, Inv, TypeOK
  <2>2. Head(toFree) \in Handles
    BY <2>1 DEF Handles
  <2>3. Head(toFree) \in live
    BY <2>2 DEF Inv, HandlesUsable
  <2>4. QED BY <1>6, <1>8, <2>3 DEF DrainOne
<1>9. QED BY <1>1, <1>2, <1>3, <1>4, <1>5, <1>6, <1>7, <1>8
             DEF Next, Proceed, Promise!Next

(* The allocated pieces of a page are, at every step, what AllocatorSpec   *)
(* promises: a region is granted apart from all others, or one is released. *)
THEOREM PageImplementsAllocator == Spec => Implements
<1>1. Init => Promise!Init
  BY DEF Init, Promise!Init, Regions, InUse
<1>2. Inv /\ [Next]_vars => [Promise!Next]_Regions
  BY StepImplements
<1>3. QED BY <1>1, <1>2, Invariance, PTL DEF Spec, Implements, Promise!Spec
=============================================================================
