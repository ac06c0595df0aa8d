----------------------------- MODULE MemoryPage -----------------------------
(***************************************************************************)
(* One page of GPU memory (render::Page) and the pieces it is cut into     *)
(* (render::Piece): a doubly linked list that covers the page, searched    *)
(* first-fit by allocate(), split there, and merged again by               *)
(* combinePieces().  The loops over the list are modelled one iteration    *)
(* per step, because what they do to a list they are walking is what could *)
(* go wrong; pc keeps every other operation out until a call has returned, *)
(* as the single thread that owns the renderer does.                       *)
(***************************************************************************)
EXTENDS Integers, Sequences

CONSTANTS
  PageSize,  \* Page::size
  Piece,     \* the heap objects that can be a Piece (bounds the list)
  Sizes,     \* the sizes callers ask for
  Aligns,    \* the alignments callers ask for
  NoPiece    \* nullptr

ASSUME PageAssumption ==
  /\ PageSize \in Nat \ {0}
  /\ Sizes \subseteq Nat \ {0}
  /\ Aligns \subseteq Nat \ {0}
  /\ NoPiece \notin Piece

VARIABLES
  head,       \* Page::head
  live,       \* the pieces that are not deleted
  start,      \* Piece::start
  end,        \* Piece::end, the last unit of the piece
  allocated,  \* Piece::allocated
  next,       \* Piece::next
  prev,       \* Piece::prev
  toFree,     \* Page::deallocationList
  held,       \* the pieces callers hold a pointer to
  request,    \* what the holder of a piece asked for
  pc,         \* where the call in progress is; "idle" between calls, or "undefined"
  last,       \* combinePieces: last
  current,    \* combinePieces and allocate: current
  asked,      \* the arguments of the allocate() in progress
  victim,     \* the piece whose deallocate() is in progress
  draining    \* processDeallocationList() is in progress

list == <<head, live, start, end, allocated, next, prev>>
calls == <<pc, last, current, asked, victim, draining>>
vars == <<list, toFree, held, request, calls>>

Request == [size : Sizes \cup {0}, align : Aligns \cup {1}]
NoRequest == [size |-> 0, align |-> 1]

-----------------------------------------------------------------------------
(* Mutant: rounds down. *)
alignTo_Down(size, align) == size - (size % align)

(* align.h: size rounded up to a multiple of align. *)
alignTo(size, align) == size + ((-size) % align)

realSize == alignTo(asked.size, asked.align)
realStart(p) == alignTo(start[p], asked.align)

size(p) == end[p] - start[p] + 1

(* Mutant: does not ask whether the piece is allocated. *)
Fits_Allocated(p) == size(p) - (realStart(p) - start[p]) >= realSize

(* The test of allocate()'s loop: what is left of p behind its alignment. *)
Fits(p) == ~allocated[p] /\ size(p) - (realStart(p) - start[p]) >= realSize

Init ==
  /\ head \in Piece
  /\ live = {head}
  /\ start = [p \in Piece |-> 0]
  /\ end = [p \in Piece |-> IF p = head THEN PageSize - 1 ELSE 0]
  /\ allocated = [p \in Piece |-> FALSE]
  /\ next = [p \in Piece |-> NoPiece]
  /\ prev = [p \in Piece |-> NoPiece]
  /\ toFree = <<>>
  /\ held = {}
  /\ request = [p \in Piece |-> NoRequest]
  /\ pc = "idle"
  /\ last = NoPiece
  /\ current = NoPiece
  /\ asked = NoRequest
  /\ victim = NoPiece
  /\ draining = FALSE

-----------------------------------------------------------------------------
(* Page::allocate(size, align).  A request larger than the page returns    *)
(* nullptr and changes nothing, so it is not a step.                       *)
BeginAllocate(n, a) ==
  /\ pc = "idle" /\ ~draining
  /\ alignTo(n, a) <= PageSize
  /\ \E rest, pad \in Piece \ live : rest # pad   \* bound: objects left to cut with
  /\ pc' = "search"
  /\ asked' = [size |-> n, align |-> a]
  /\ current' = head
  /\ UNCHANGED <<list, toFree, held, request, last, victim, draining>>

(* Mutant: current is not moved on. *)
SearchNext_Stays ==
  /\ pc = "search" /\ current # NoPiece /\ ~Fits(current)
  /\ UNCHANGED vars

(* Mutant: the piece is not tested. *)
SearchNext_Untested ==
  /\ pc = "search" /\ current # NoPiece
  /\ current' = next[current]
  /\ UNCHANGED <<list, toFree, held, request, pc, last, asked, victim, draining>>

SearchNext ==
  /\ pc = "search" /\ current # NoPiece /\ ~Fits(current)
  /\ current' = next[current]
  /\ UNCHANGED <<list, toFree, held, request, pc, last, asked, victim, draining>>

(* allocate() returns nullptr. *)
SearchFails ==
  /\ pc = "search" /\ current = NoPiece
  /\ pc' = "idle"
  /\ asked' = NoRequest
  /\ UNCHANGED <<list, toFree, held, request, last, current, victim, draining>>

(* The caller is given the piece found. *)
HandOut ==
  /\ held' = held \cup {current}
  /\ request' = [request EXCEPT ![current] = asked]
  /\ asked' = NoRequest
  /\ UNCHANGED <<toFree, victim, draining>>

(* combinePieces() starts at the head; no call ever moves Page::head. *)
BeginCombine ==
  /\ pc' = "combine"
  /\ last' = head
  /\ current' = next'[head]

(* "we're using up the entire page" *)
TakeWholePage ==
  /\ pc = "search" /\ current # NoPiece /\ Fits(current)
  /\ realSize = PageSize
  /\ allocated' = [allocated EXCEPT ![current] = TRUE]
  /\ HandOut
  /\ pc' = "idle"
  /\ current' = NoPiece
  /\ UNCHANGED <<head, live, start, end, next, prev, last>>

(* "segment memory if needed": rest is unusedSegment, what is left of the  *)
(* piece behind the new one, of length zero when the fit is exact.         *)
Split(rest) ==
  LET c == current
      after == next[c] IN
  /\ pc = "search" /\ c # NoPiece /\ Fits(c)
  /\ realSize # PageSize
  /\ realStart(c) = start[c]
  /\ rest \in Piece \ live
  /\ live' = live \cup {rest}
  /\ start' = [start EXCEPT ![rest] = start[c] + realSize]
  /\ end' = [end EXCEPT ![rest] = end[c], ![c] = start[c] + realSize - 1]
  /\ allocated' = [allocated EXCEPT ![c] = TRUE, ![rest] = FALSE]
  /\ next' = [next EXCEPT ![c] = rest, ![rest] = after]
  /\ prev' = [p \in Piece |-> IF p = rest THEN c
                              ELSE IF p = after THEN rest ELSE prev[p]]
  /\ HandOut
  /\ BeginCombine
  /\ UNCHANGED head

(* The same with pad, unusedSegmentAlign, in front: "add the unused        *)
(* alignment before the current element".  The code does not move head     *)
(* when current is the head of the list.                                   *)
SplitPadded(rest, pad) ==
  LET c == current
      s == realStart(c)
      before == prev[c]
      after == next[c] IN
  /\ pc = "search" /\ c # NoPiece /\ Fits(c)
  /\ realSize # PageSize
  /\ s # start[c]
  /\ rest \in Piece \ live /\ pad \in Piece \ live /\ rest # pad
  /\ live' = live \cup {rest, pad}
  /\ start' = [start EXCEPT ![rest] = s + realSize, ![pad] = start[c], ![c] = s]
  /\ end' = [end EXCEPT ![rest] = end[c], ![pad] = s - 1, ![c] = s + realSize - 1]
  /\ allocated' = [allocated EXCEPT ![c] = TRUE, ![rest] = FALSE, ![pad] = FALSE]
  /\ next' = [p \in Piece |-> IF p = c THEN rest
                              ELSE IF p = rest THEN after
                              ELSE IF p = pad THEN c
                              ELSE IF p = before THEN pad ELSE next[p]]
  /\ prev' = [p \in Piece |-> IF p = rest THEN c
                              ELSE IF p = c THEN pad
                              ELSE IF p = pad THEN before
                              ELSE IF p = after THEN rest ELSE prev[p]]
  /\ HandOut
  /\ BeginCombine
  /\ UNCHANGED head

-----------------------------------------------------------------------------
(* Page::combinePieces(), one iteration of its loop. *)
bothFree == ~allocated[last] /\ ~allocated[current]

(* Mutant: the piece behind the absorbed one keeps its old prev. *)
Absorb_PrevKept ==
  LET c == current
      after == next[c] IN
  /\ pc = "combine" /\ c # NoPiece /\ bothFree
  /\ live' = live \ {c}
  /\ end' = [end EXCEPT ![last] = end[c], ![c] = 0]
  /\ start' = [start EXCEPT ![c] = 0]
  /\ next' = [next EXCEPT ![last] = after, ![c] = NoPiece]
  /\ prev' = [prev EXCEPT ![c] = NoPiece]
  /\ current' = after
  /\ UNCHANGED <<head, allocated, toFree, held, request, pc, last, asked,
                 victim, draining>>

(* "last will absorb current", and current is deleted; the fields of a     *)
(* deleted piece are cleared, so that equal heaps are equal states.        *)
Absorb ==
  LET c == current
      after == next[c] IN
  /\ pc = "combine" /\ c # NoPiece /\ bothFree
  /\ live' = live \ {c}
  /\ end' = [end EXCEPT ![last] = end[c], ![c] = 0]
  /\ start' = [start EXCEPT ![c] = 0]
  /\ next' = [next EXCEPT ![last] = after, ![c] = NoPiece]
  /\ prev' = [p \in Piece |-> IF p = c THEN NoPiece
                              ELSE IF p = after THEN last ELSE prev[p]]
  /\ current' = after
  /\ UNCHANGED <<head, allocated, toFree, held, request, pc, last, asked,
                 victim, draining>>

WalkOn ==
  /\ pc = "combine" /\ current # NoPiece /\ ~bothFree
  /\ last' = current
  /\ current' = next[current]
  /\ UNCHANGED <<list, toFree, held, request, pc, asked, victim, draining>>

(* combinePieces() returns to allocate(), which returns the piece, or to   *)
(* Piece::deallocate(), which goes on to its last lines.                   *)
CombineReturns ==
  /\ pc = "combine" /\ current = NoPiece
  /\ pc' = IF victim = NoPiece THEN "idle" ELSE "tail"
  /\ last' = NoPiece
  /\ UNCHANGED <<list, toFree, held, request, current, asked, victim, draining>>

-----------------------------------------------------------------------------
(* Piece::deallocate() up to the call of combinePieces().  The code returns *)
(* at once when the piece is free; HandlesUsable says it never is.         *)
GiveBack(p) ==
  /\ allocated[p]
  /\ allocated' = [allocated EXCEPT ![p] = FALSE]
  /\ request' = [request EXCEPT ![p] = NoRequest]
  /\ victim' = p
  /\ UNCHANGED <<head, live, start, end, next, prev, asked, draining>>
  /\ BeginCombine

(* A caller deallocates a piece it holds, and drops its pointer. *)
Deallocate(p) ==
  /\ pc = "idle" /\ ~draining
  /\ p \in held
  /\ held' = held \ {p}
  /\ GiveBack(p)
  /\ UNCHANGED toFree

(* The last lines of Piece::deallocate() read parent and buffer through    *)
(* this, destroy the buffer and write valid.  If combinePieces() deleted   *)
(* the piece, the memory may be as it was; or else nothing is known of     *)
(* what is destroyed, or of the program.                                   *)
DeallocateReturns ==
  /\ pc = "tail"
  /\ pc' \in {"idle"} \cup (IF victim \in live THEN {} ELSE {"undefined"})
  /\ victim' = NoPiece
  /\ UNCHANGED <<list, toFree, held, request, last, current, asked, draining>>

(* Piece::requestDeallocate(); the caller drops its pointer. *)
RequestDeallocate(p) ==
  /\ pc = "idle" /\ ~draining
  /\ p \in held
  /\ held' = held \ {p}
  /\ toFree' = Append(toFree, p)
  /\ UNCHANGED <<list, request, calls>>

(* Page::processDeallocationList(), called by the manager at the start of  *)
(* a frame for a page whose list is not empty: every entry is deallocated, *)
(* in order, then the list is cleared.                                     *)
BeginDrain ==
  /\ pc = "idle" /\ ~draining
  /\ toFree # <<>>
  /\ draining' = TRUE
  /\ UNCHANGED <<list, toFree, held, request, pc, last, current, asked, victim>>

DrainOne ==
  /\ pc = "idle" /\ draining
  /\ toFree # <<>>
  /\ toFree' = Tail(toFree)
  /\ GiveBack(Head(toFree))
  /\ UNCHANGED held

EndDrain ==
  /\ pc = "idle" /\ draining
  /\ toFree = <<>>
  /\ draining' = FALSE
  /\ UNCHANGED <<list, toFree, held, request, pc, last, current, asked, victim>>

-----------------------------------------------------------------------------
(* The steps of a call that has begun. *)
Proceed ==
  \/ SearchNext \/ SearchFails \/ TakeWholePage
  \/ \E rest \in Piece : Split(rest)
  \/ \E rest, pad \in Piece : SplitPadded(rest, pad)
  \/ Absorb \/ WalkOn \/ CombineReturns \/ DeallocateReturns
  \/ DrainOne \/ EndDrain

Next ==
  \/ \E n \in Sizes, a \in Aligns : BeginAllocate(n, a)
  \/ \E p \in Piece : Deallocate(p) \/ RequestDeallocate(p)
  \/ BeginDrain
  \/ Proceed

Spec == Init /\ [][Next]_vars

-----------------------------------------------------------------------------
(* Every call that begins is run to its end: one thread, no blocking. *)
FairSpec == Spec /\ WF_vars(Proceed)

TypeOK ==
  /\ head \in Piece
  /\ live \subseteq Piece
  /\ start \in [Piece -> 0 .. PageSize]
  /\ end \in [Piece -> -1 .. PageSize - 1]
  /\ allocated \in [Piece -> BOOLEAN]
  /\ next \in [Piece -> Piece \cup {NoPiece}]
  /\ prev \in [Piece -> Piece \cup {NoPiece}]
  /\ toFree \in Seq(Piece)
  /\ held \subseteq Piece
  /\ request \in [Piece -> Request]
  /\ pc \in {"idle", "search", "combine", "tail", "undefined"}
  /\ last \in Piece \cup {NoPiece}
  /\ current \in Piece \cup {NoPiece}
  /\ asked \in Request
  /\ victim \in Piece \cup {NoPiece}
  /\ draining \in BOOLEAN

(* The list covers the page without a hole: it begins at unit 0, every     *)
(* piece is followed by the one that starts behind it, the links agree in  *)
(* both directions, and the last piece ends with the page.                 *)
ListCoversPage ==
  /\ head \in live /\ start[head] = 0 /\ prev[head] = NoPiece
  /\ \A p \in live :
       /\ start[p] <= end[p] + 1
       /\ p # head => prev[p] \in live /\ next[prev[p]] = p
       /\ IF next[p] = NoPiece
          THEN end[p] = PageSize - 1
          ELSE /\ next[p] \in live
               /\ prev[next[p]] = p
               /\ start[next[p]] = end[p] + 1

(* No two pieces of the page share a unit, allocated or not. *)
PiecesApart ==
  \A p, q \in live : p # q => end[p] < start[q] \/ end[q] < start[p]

Handles == held \cup {toFree[i] : i \in DOMAIN toFree}

(* A pointer that a caller holds, or that waits in the deallocation list,  *)
(* is to a piece that is still there, still allocated, aligned and large   *)
(* enough for what was asked, whatever was split and merged around it; and *)
(* no piece is waiting twice or both held and waiting.                     *)
HandlesUsable ==
  /\ \A p \in Handles :
       /\ p \in live /\ allocated[p]
       /\ start[p] % request[p].align = 0
       /\ size(p) >= request[p].size
  /\ \A i, j \in DOMAIN toFree : i # j => toFree[i] # toFree[j]
  /\ \A i \in DOMAIN toFree : toFree[i] \notin held

(* Between calls no two neighbours are free, so that a free region is one  *)
(* piece; and when nothing is allocated the page is one piece again.       *)
FreePiecesMerged ==
  pc = "idle" =>
    /\ \A p \in live : next[p] # NoPiece => allocated[p] \/ allocated[next[p]]
    /\ (\A p \in live : ~allocated[p]) => live = {head}

(* The list of pieces is a partition of the page at every step, and has no *)
(* more pieces than it needs between the calls.                            *)
ListSound == ListCoversPage /\ FreePiecesMerged

(* allocate() returns nullptr only when no piece of the page would do. *)
NullOnlyWhenNothingFits ==
  [][pc = "search" /\ pc' = "idle" /\ held' = held
       => \A p \in live : ~Fits(p)]_vars

(* allocate() takes the lowest piece that would do. *)
FirstFit ==
  [][\A p \in Piece : p \in held' /\ p \notin held
       => \A q \in live : Fits(q) => start[p] <= start[q]]_vars

(* allocate() finds a piece if there is one, and the lowest. *)
SearchRight == NullOnlyWhenNothingFits /\ FirstFit

(* No call runs forever: the walks along the list come to an end. *)
CallsReturn == pc # "idle" ~> pc \in {"idle", "undefined"}

(* The regions of the allocated pieces behave as AllocatorSpec promises. *)
InUse == {p \in live : allocated[p]}
Regions == {<<start[p], end[p]>> : p \in InUse}

Promise == INSTANCE AllocatorSpec WITH regions <- Regions

Implements == Promise!Spec
=============================================================================
