------------------------- MODULE VertexBufferProofs -------------------------
(***************************************************************************)
(* The safety properties of VertexBuffer, for any set of sizes and any     *)
(* number of calls of setData.                                             *)
(***************************************************************************)
EXTENDS VertexBuffer, TLAPS

\* The fences: one that is signaled has no frame, and within a turn the last frame
\* of that turn is done, for prerender() has waited for it.
FenceInv ==
  /\ \A s \in Slots : fence[s] => gpu[s] = "idle"
  /\ \A s \in Slots : gpu[s] = "reads" => dynamicBufferInitialized
  /\ phase = "turn" => gpu[pp] = "idle"
  /\ phase = "turn" /\ ~swapchainOutOfDate => ~fence[pp]

\* Once drawn, the slot of the turn stays in use until render().
DrawnInv ==
  drawn => /\ phase = "turn"
           /\ ~swapchainOutOfDate
           /\ alive
           /\ dynamicBufferInitialized
           /\ slot[pp].state = InUse

\* What the states of the two slots mean: one of them is in use, and what is in use
\* holds the newest data.
DataInv ==
  alive /\ dynamicBufferInitialized =>
    /\ \E s \in Slots : slot[s].state = InUse
    /\ \A s \in Slots : slot[s].piece \in Piece
    /\ \A s \in Slots :
         slot[s].state = InUse /\ size # 0 =>
           slot[s].piece.data = latest /\ slot[s].piece.size >= size

\* As long as no two sizes have come in one turn, only a slot that says so has
\* another size than the newest data, and a slot of the other turn whose data is old
\* was overtaken in this one.
SizeInv ==
  /\ ~alive => OutOfDateBuffers = {}
  /\ dynamicBufferInitialized => size \in {0, oldSize} /\ oldSize \in Sizes
  /\ alive /\ dynamicBufferInitialized /\ ~resized =>
       /\ \A s \in Slots : slot[s].state # SizeOutOfDate => slot[s].piece.size = oldSize
       /\ slot[Other(pp)].state = DataOutOfDate => given

IInv ==
  /\ TypeOK
  /\ FenceInv
  /\ DrawnInv
  /\ DataInv
  /\ StaleIsListed
  /\ SizeInv
  /\ OverflowNeedsTwoSizes

-----------------------------------------------------------------------------
(* The slots. *)

LEMMA SlotFacts ==
  ASSUME pp \in Slots
  PROVE  /\ Other(pp) \in Slots
         /\ Other(pp) # pp
         /\ Other(Other(pp)) = pp
         /\ NextTurn = Other(pp)
         /\ \A s \in Slots : s = pp \/ s = Other(pp)
BY DEF Slots, Other, NextTurn

LEMMA StateNames ==
  /\ InUse # DataOutOfDate
  /\ InUse # SizeOutOfDate
  /\ DataOutOfDate # SizeOutOfDate
BY DEF InUse, DataOutOfDate, SizeOutOfDate

\* handleOutOfDateBuffer(), when nothing is wrong with it, leaves the slot in use
\* with the newest data, and touches nothing in one that was in use.
LEMMA HandledFacts ==
  ASSUME IInv, alive, dynamicBufferInitialized, HandleFault = "none"
  PROVE  /\ Handled.state = InUse
         /\ Handled.piece \in Piece
         /\ Handled \in [state : {InUse, DataOutOfDate, SizeOutOfDate},
                         piece : Piece \cup {NoPiece}]
         /\ size # 0 => Handled.piece.data = latest /\ Handled.piece.size >= size
         /\ slot[pp].state = InUse => Handled.piece = slot[pp].piece
         /\ ~resized => Handled.piece.size = oldSize
<1> DEFINE p == slot[pp]
           r == slot[Other(pp)]
<1>1. /\ pp \in Slots /\ Other(pp) \in Slots
      /\ \A s \in Slots : s = pp \/ s = Other(pp)
  BY SlotFacts DEF IInv, TypeOK
<1>2. /\ p.piece \in Piece /\ r.piece \in Piece
      /\ p.state \in {InUse, DataOutOfDate, SizeOutOfDate}
      /\ p.state = InUse \/ r.state = InUse
  BY <1>1 DEF IInv, TypeOK, DataInv
<1>3. /\ p.state = InUse /\ size # 0 => p.piece.data = latest /\ p.piece.size >= size
      /\ r.state = InUse /\ size # 0 => r.piece.data = latest /\ r.piece.size >= size
      /\ ~resized /\ p.state # SizeOutOfDate => p.piece.size = oldSize
  BY <1>1 DEF IInv, DataInv, SizeInv
<1>4. /\ size \in {0, oldSize} /\ oldSize \in Sizes
      /\ Sizes \subseteq Nat \ {0}
      /\ size \in Nat
  <2>1. size \in {0, oldSize} /\ oldSize \in Sizes
    BY DEF IInv, SizeInv
  <2> QED
    BY <2>1, BufferAssumption DEF BufferAssumption
<1>5. CASE p.state = InUse
  <2>1. Handled = [state |-> InUse, piece |-> p.piece]
    BY <1>5, StateNames DEF Handled
  <2> QED
    BY <2>1, <1>2, <1>3, <1>5, StateNames
<1>6. CASE p.state = DataOutOfDate
  <2>1. Handled = [state |-> InUse, piece |-> Copied(p.piece)]
    BY <1>6, StateNames DEF Handled
  <2>2. size <= r.piece.size /\ size <= p.piece.size
    <3>1. r.piece.size \in Nat /\ p.piece.size \in Nat
      BY <1>2, <1>4 DEF Piece
    <3>2. ~(size > r.piece.size) /\ ~(size > p.piece.size)
      BY <1>6, StateNames DEF HandleFault
    <3> QED
      BY <1>4, <3>1, <3>2
  <2>3. /\ Copied(p.piece) \in Piece
        /\ Copied(p.piece).size = p.piece.size
        /\ size # 0 => Copied(p.piece).data = r.piece.data
    BY <1>2 DEF Copied, Piece
  <2> QED
    BY <2>1, <2>2, <2>3, <1>2, <1>3, <1>4, <1>6, StateNames DEF Piece
<1>7. CASE p.state = SizeOutOfDate
  <2>1. Handled = [state |-> InUse, piece |-> Copied([size |-> size, data |-> 0])]
    BY <1>7, StateNames DEF Handled
  <2>2. size # 0
    BY <1>7, StateNames DEF HandleFault
  <2>3. /\ Copied([size |-> size, data |-> 0]) = [size |-> size, data |-> r.piece.data]
        /\ r.piece.data \in 0 .. MaxVersion
    BY <2>2, <1>2 DEF Copied, Piece
  <2> QED
    BY <2>1, <2>2, <2>3, <1>2, <1>3, <1>4, <1>7, StateNames DEF Piece
<1> QED
  BY <1>2, <1>5, <1>6, <1>7

-----------------------------------------------------------------------------
(* The inductive invariant. *)

LEMMA InitInv == Init => IInv
<1> SUFFICES ASSUME Init PROVE IInv
  OBVIOUS
<1>1. TypeOK
  <2>1. MaxVersion \in Nat
    BY BufferAssumption DEF BufferAssumption
  <2>2. slot \in [Slots -> [state : {InUse, DataOutOfDate, SizeOutOfDate},
                           piece : Piece \cup {NoPiece}]]
    BY DEF Init
  <2>3. /\ fence \in [Slots -> BOOLEAN]
        /\ gpu \in [Slots -> {"idle", "reads", "busy"}]
        /\ pp \in Slots
        /\ OutOfDateBuffers \subseteq Slots
    BY DEF Init, Slots
  <2>4. version \in 0 .. MaxVersion /\ latest \in 0 .. MaxVersion
    BY <2>1 DEF Init
  <2> QED
    BY <2>2, <2>3, <2>4 DEF Init, TypeOK
<1>2. FenceInv /\ DrawnInv /\ DataInv /\ StaleIsListed /\ SizeInv
  BY DEF Init, FenceInv, DrawnInv, DataInv, StaleIsListed, SizeInv
<1>3. OverflowNeedsTwoSizes
  BY DEF Init, OverflowNeedsTwoSizes
<1> QED
  BY <1>1, <1>2, <1>3 DEF IInv

\* Steps of the window that leave the buffer alone.
LEMMA WindowSteps ==
  ASSUME IInv,
         \/ PrerenderAcquires
         \/ PrerenderRefused
         \/ \E s \in Slots : GPUFinishes(s)
         \/ RenderSkips
         \/ RenderRefused
  PROVE  IInv'
<1>1. pp \in Slots
  BY DEF IInv, TypeOK
<1>2. /\ pp' = pp /\ given' = given /\ resized' = resized /\ crash' = crash
      /\ version' = version /\ latest' = latest
      /\ UNCHANGED buffer
  BY DEF PrerenderAcquires, PrerenderRefused, GPUFinishes, RenderSkips, RenderRefused,
         history
<1>3. TypeOK'
  BY <1>1, <1>2 DEF IInv, TypeOK, buffer, PrerenderAcquires, PrerenderRefused,
         PrerenderMayGoOn, GPUFinishes, RenderSkips, RenderRefused, Submit
<1>4. DataInv' /\ StaleIsListed' /\ SizeInv' /\ OverflowNeedsTwoSizes'
  BY <1>2 DEF IInv, buffer, DataInv, StaleIsListed, SizeInv, OverflowNeedsTwoSizes,
              Other
<1>5. FenceInv'
  <2>1. dynamicBufferInitialized' = dynamicBufferInitialized
    BY <1>2 DEF buffer
  <2>2. /\ \A s \in Slots : fence'[s] => gpu'[s] = "idle"
        /\ \A s \in Slots : gpu'[s] = "reads" => gpu[s] = "reads" \/ drawn
        /\ phase' = "turn" => gpu'[pp] = "idle"
        /\ phase' = "turn" /\ ~swapchainOutOfDate' => ~fence'[pp]
    <3>1. CASE PrerenderAcquires
      BY <1>1, <3>1 DEF IInv, TypeOK, FenceInv, PrerenderAcquires, PrerenderMayGoOn
    <3>2. CASE PrerenderRefused
      BY <1>1, <3>2 DEF IInv, TypeOK, FenceInv, PrerenderRefused, PrerenderMayGoOn
    <3>3. CASE \E s \in Slots : GPUFinishes(s)
      BY <1>1, <3>3 DEF IInv, TypeOK, FenceInv, GPUFinishes
    <3>4. CASE RenderSkips
      BY <1>1, <3>4 DEF IInv, TypeOK, FenceInv, RenderSkips
    <3>5. CASE RenderRefused
      BY <1>1, <3>5
         DEF IInv, TypeOK, FenceInv, RenderRefused, MayRender, Submit
    <3> QED
      BY <3>1, <3>2, <3>3, <3>4, <3>5
  <2> QED
    BY <1>2, <2>1, <2>2 DEF IInv, FenceInv, DrawnInv
<1>6. DrawnInv'
  BY <1>1, <1>2 DEF IInv, DrawnInv, buffer, PrerenderAcquires, PrerenderRefused,
         PrerenderMayGoOn, GPUFinishes, RenderSkips, RenderRefused, MayRender
<1> QED
  BY <1>3, <1>4, <1>5, <1>6 DEF IInv

\* A slot of the turn that is brought up to date, or left alone when it is in use.
LEMMA RefreshInv ==
  ASSUME IInv, alive, dynamicBufferInitialized, HandleFault = "none",
         alive' = alive, size' = size, oldSize' = oldSize,
         dynamicBufferInitialized' = dynamicBufferInitialized,
         version' = version, latest' = latest, resized' = resized, crash' = crash,
         slot' = [slot EXCEPT ![pp] = Handled],
         OutOfDateBuffers' = OutOfDateBuffers \ {pp},
         \/ pp' = pp /\ given' = given
         \/ pp' = Other(pp)
  PROVE  /\ slot' \in [Slots -> [state : {InUse, DataOutOfDate, SizeOutOfDate},
                                piece : Piece \cup {NoPiece}]]
         /\ slot'[pp].state = InUse
         /\ DataInv' /\ StaleIsListed' /\ SizeInv'
<1> DEFINE q == Other(pp)
<1>1. /\ pp \in Slots /\ q \in Slots /\ q # pp /\ Other(q) = pp
      /\ \A s \in Slots : s = pp \/ s = q
  BY SlotFacts DEF IInv, TypeOK
<1>2. slot \in [Slots -> [state : {InUse, DataOutOfDate, SizeOutOfDate},
                         piece : Piece \cup {NoPiece}]]
  BY DEF IInv, TypeOK
<1>3. slot'[pp] = Handled /\ slot'[q] = slot[q]
  BY <1>1, <1>2
<1>4. slot' \in [Slots -> [state : {InUse, DataOutOfDate, SizeOutOfDate},
                          piece : Piece \cup {NoPiece}]]
  BY <1>1, <1>2, HandledFacts
<1>5. slot'[pp].state = InUse
  BY <1>3, HandledFacts
<1>6. DataInv'
  <2>1. /\ slot'[pp].piece \in Piece
        /\ size # 0 => slot'[pp].piece.data = latest /\ slot'[pp].piece.size >= size
    BY <1>3, HandledFacts
  <2>2. /\ slot'[q].piece \in Piece
        /\ slot'[q].state = InUse /\ size # 0 =>
             slot'[q].piece.data = latest /\ slot'[q].piece.size >= size
    BY <1>1, <1>3 DEF IInv, DataInv
  <2> QED
    BY <1>1, <1>5, <2>1, <2>2 DEF DataInv
<1>7. StaleIsListed'
  BY <1>1, <1>3, <1>5 DEF IInv, StaleIsListed
<1>8. SizeInv'
  <2>1. ~resized => slot'[pp].piece.size = oldSize
    BY <1>3, HandledFacts
  <2>2. ~resized /\ slot'[q].state # SizeOutOfDate => slot'[q].piece.size = oldSize
    BY <1>1, <1>3 DEF IInv, SizeInv
  <2>3. ~resized /\ slot'[Other(pp')].state = DataOutOfDate => given'
    <3>1. CASE pp' = pp /\ given' = given
      BY <1>1, <1>3, <3>1 DEF IInv, SizeInv
    <3>2. CASE pp' = q
      BY <1>1, <1>5, <3>2, StateNames
    <3> QED
      BY <3>1, <3>2
  <2> QED
    BY <1>1, <2>1, <2>2, <2>3 DEF IInv, SizeInv
<1> QED
  BY <1>4, <1>5, <1>6, <1>7, <1>8

LEMMA DrawStep == IInv /\ Draw => IInv'
<1> SUFFICES ASSUME IInv, Draw PROVE IInv'
  OBVIOUS
<1>1. /\ pp \in Slots
      /\ UNCHANGED <<window, alive, size, oldSize, dynamicBufferInitialized, history,
                    crash>>
      /\ alive /\ dynamicBufferInitialized /\ drawn'
      /\ phase = "turn" /\ ~swapchainOutOfDate
  BY DEF IInv, TypeOK, Draw, DrawFault
<1>2. CASE isOutOfDateBuffer
  <2>1. /\ HandleFault = "none"
        /\ slot' = [slot EXCEPT ![pp] = Handled]
        /\ OutOfDateBuffers' = OutOfDateBuffers \ {pp}
    BY <1>2 DEF Draw, DrawFault
  <2>2. /\ slot' \in [Slots -> [state : {InUse, DataOutOfDate, SizeOutOfDate},
                                piece : Piece \cup {NoPiece}]]
        /\ slot'[pp].state = InUse
        /\ DataInv' /\ StaleIsListed' /\ SizeInv'
    BY <1>1, <2>1, RefreshInv DEF window, history
  <2>3. TypeOK'
    BY <1>1, <2>1, <2>2 DEF IInv, TypeOK, window, history
  <2> QED
    BY <1>1, <2>2, <2>3
       DEF IInv, FenceInv, DrawnInv, OverflowNeedsTwoSizes, window, history
<1>3. CASE ~isOutOfDateBuffer
  <2>1. slot' = slot /\ OutOfDateBuffers' = OutOfDateBuffers
    BY <1>1, <1>3 DEF Draw, IInv, TypeOK
  <2>2. slot[pp].state = InUse
    BY <1>1, <1>3 DEF isOutOfDateBuffer, IInv, TypeOK
  <2>3. TypeOK'
    BY <1>1, <2>1 DEF IInv, TypeOK, window, history
  <2>4. DataInv' /\ StaleIsListed' /\ SizeInv' /\ FenceInv'
    BY <1>1, <2>1 DEF IInv, DataInv, StaleIsListed, SizeInv, FenceInv, window, history
  <2> QED
    BY <1>1, <2>1, <2>2, <2>3, <2>4
       DEF IInv, DrawnInv, OverflowNeedsTwoSizes, window, history
<1> QED
  BY <1>2, <1>3

LEMMA FlipStep == IInv /\ RenderFlips => IInv'
<1> SUFFICES ASSUME IInv, RenderFlips PROVE IInv'
  OBVIOUS
<1> DEFINE q == Other(pp)
<1>1. /\ pp \in Slots /\ q \in Slots /\ q # pp /\ Other(q) = pp /\ pp' = q
      /\ \A s \in Slots : s = pp \/ s = q
  BY SlotFacts DEF IInv, TypeOK, RenderFlips
<1>2. /\ UNCHANGED <<fence, alive, size, oldSize, dynamicBufferInitialized, version,
                    latest, resized, crash, swapchainOutOfDate>>
      /\ phase = "turn" /\ phase' = "between" /\ ~drawn' /\ ~given'
      /\ OutOfDateBuffers' = OutOfDateBuffers \ {pp}
      /\ given' \in BOOLEAN /\ drawn' \in BOOLEAN
      /\ gpu' = [gpu EXCEPT ![pp] = IF drawn THEN "reads" ELSE "busy"]
      /\ ~swapchainOutOfDate
  BY DEF RenderFlips, MayRender, Submit
<1>3. /\ slot' \in [Slots -> [state : {InUse, DataOutOfDate, SizeOutOfDate},
                              piece : Piece \cup {NoPiece}]]
      /\ DataInv' /\ StaleIsListed' /\ SizeInv'
  <2>1. CASE pp \in OutOfDateBuffers /\ dynamicBufferInitialized
    <3>1. /\ alive /\ HandleFault = "none"
          /\ slot' = [slot EXCEPT ![pp] = Handled]
      BY <2>1 DEF RenderFlips, IInv, SizeInv
    <3> QED
      BY <1>1, <1>2, <2>1, <3>1, RefreshInv
  <2>2. CASE pp \notin OutOfDateBuffers \/ ~dynamicBufferInitialized
    <3>1. slot' = slot
      BY <1>1, <2>2 DEF RenderFlips, Handled, IInv, TypeOK
    <3>2. DataInv'
      BY <1>2, <3>1 DEF IInv, DataInv
    <3>3. StaleIsListed'
      BY <1>1, <1>2, <2>2, <3>1 DEF IInv, StaleIsListed
    <3>4. alive /\ dynamicBufferInitialized => slot[pp].state = InUse
      BY <1>1, <2>2 DEF IInv, StaleIsListed
    <3>5. SizeInv'
      BY <1>1, <1>2, <3>1, <3>4, StateNames DEF IInv, SizeInv
    <3> QED
      BY <3>1, <3>2, <3>3, <3>5 DEF IInv, TypeOK
  <2> QED
    BY <2>1, <2>2
<1>4. TypeOK'
  BY <1>1, <1>2, <1>3 DEF IInv, TypeOK
<1>5. FenceInv'
  BY <1>1, <1>2 DEF IInv, TypeOK, FenceInv, DrawnInv
<1>6. DrawnInv' /\ OverflowNeedsTwoSizes'
  BY <1>2 DEF IInv, DrawnInv, OverflowNeedsTwoSizes
<1> QED
  BY <1>3, <1>4, <1>5, <1>6 DEF IInv

LEMMA SetDataStep == ASSUME IInv, NEW n \in Sizes, SetData(n) PROVE IInv'
<1> DEFINE q == Other(pp)
           new == [state |-> InUse, piece |-> [size |-> n, data |-> version + 1]]
<1>1. /\ pp \in Slots /\ q \in Slots /\ q # pp
      /\ \A s \in Slots : s = pp \/ s = q
  BY SlotFacts DEF IInv, TypeOK
<1>2. /\ UNCHANGED <<window, alive, drawn, crash>>
      /\ alive /\ ~drawn
      /\ dynamicBufferInitialized' /\ size' = n /\ oldSize' = n
      /\ latest' = version + 1 /\ version' = version + 1
      /\ given' /\ resized' = (resized \/ (given /\ n # oldSize))
      /\ OutOfDateBuffers' = Listed
      /\ dynamicBufferInitialized' = TRUE /\ given' = TRUE
  BY DEF SetData
<1>3. slot'[pp] = new /\ slot'[q] = Overtaken(q, n)
  BY <1>1 DEF SetData
<1>4. version + 1 \in 0 .. MaxVersion /\ n \in Nat /\ n # 0
  BY BufferAssumption DEF BufferAssumption, SetData, IInv, TypeOK
<1>5. /\ [size |-> n, data |-> version + 1] \in Piece
      /\ [size |-> n, data |-> 0] \in Piece
  <2>1. n \in Sizes /\ 0 \in 0 .. MaxVersion
    BY <1>4, BufferAssumption DEF BufferAssumption
  <2> QED
    BY <1>4, <2>1 DEF Piece
<1>6. /\ Overtaken(q, n).state \in {DataOutOfDate, SizeOutOfDate}
      /\ Overtaken(q, n).piece \in Piece
  <2>1. slot[q].state \in {InUse, DataOutOfDate, SizeOutOfDate}
    BY <1>1 DEF IInv, TypeOK
  <2>2. dynamicBufferInitialized => slot[q].piece \in Piece
    BY <1>1, <1>2 DEF IInv, DataInv
  <2> QED
    BY <2>1, <2>2, <1>5 DEF Overtaken
<1>7. TypeOK'
  <2>1. slot' \in [Slots -> [state : {InUse, DataOutOfDate, SizeOutOfDate},
                            piece : Piece \cup {NoPiece}]]
    <3>1. new \in [state : {InUse, DataOutOfDate, SizeOutOfDate},
                   piece : Piece \cup {NoPiece}]
      BY <1>5
    <3>2. Overtaken(q, n) \in [state : {InUse, DataOutOfDate, SizeOutOfDate},
                               piece : Piece \cup {NoPiece}]
      BY <1>6 DEF Overtaken
    <3> QED
      BY <1>1, <3>1, <3>2 DEF SetData
  <2>2. OutOfDateBuffers' \subseteq Slots
    BY <1>1, <1>2 DEF Listed, IInv, TypeOK
  <2>3. resized' \in BOOLEAN
    BY <1>2 DEF IInv, TypeOK
  <2> QED
    BY <1>2, <1>4, <2>1, <2>2, <2>3 DEF IInv, TypeOK, window
<1>8. FenceInv' /\ DrawnInv' /\ OverflowNeedsTwoSizes'
  BY <1>2 DEF IInv, FenceInv, DrawnInv, OverflowNeedsTwoSizes, window
<1>9. DataInv'
  <2>1. slot'[pp].state = InUse /\ slot'[pp].piece = [size |-> n, data |-> version + 1]
    BY <1>3
  <2>2. slot'[q].state # InUse /\ slot'[q].piece \in Piece
    BY <1>3, <1>6, StateNames
  <2>3. latest' = version + 1 /\ size' = n
    BY <1>2
  <2>4. \A s \in Slots : slot'[s].piece \in Piece
    BY <1>1, <1>5, <2>1, <2>2
  <2>5. \A s \in Slots : slot'[s].state = InUse =>
                          slot'[s].piece.data = latest' /\ slot'[s].piece.size >= size'
    BY <1>1, <1>4, <2>1, <2>2, <2>3
  <2> QED
    BY <1>1, <2>1, <2>4, <2>5 DEF DataInv
<1>10. StaleIsListed'
  BY <1>1, <1>2, <1>3 DEF Listed, StaleIsListed
<1>11. SizeInv'
  <2>1. ~resized' => \A s \in Slots :
                       slot'[s].state # SizeOutOfDate => slot'[s].piece.size = n
    <3> SUFFICES ASSUME ~resized'
                 PROVE  slot'[q].state # SizeOutOfDate => slot'[q].piece.size = n
      BY <1>1, <1>3
    <3>1. CASE ~dynamicBufferInitialized
      BY <1>3, <3>1 DEF Overtaken
    <3>2. CASE dynamicBufferInitialized
      <4>1. ~resized /\ (given => n = oldSize)
        BY <1>2
      <4>2. /\ slot[q].state # SizeOutOfDate => slot[q].piece.size = oldSize
            /\ slot[q].state = DataOutOfDate => given
        BY <1>1, <1>2, <3>2, <4>1 DEF IInv, SizeInv
      <4>3. slot[q].state \in {InUse, DataOutOfDate, SizeOutOfDate}
        BY <1>1 DEF IInv, TypeOK
      <4>4. /\ slot'[q].piece = slot[q].piece
            /\ slot'[q].state = IF slot[q].state # InUse THEN slot[q].state
                                ELSE IF n # oldSize THEN SizeOutOfDate ELSE DataOutOfDate
        BY <1>3, <3>2 DEF Overtaken
      <4> QED
        BY <4>1, <4>2, <4>3, <4>4, StateNames
    <3> QED
      BY <3>1, <3>2
  <2> QED
    BY <1>2, <2>1 DEF SizeInv, window
<1> QED
  BY <1>7, <1>8, <1>9, <1>10, <1>11 DEF IInv

LEMMA SetNothingStep == IInv /\ SetNothing => IInv'
<1> SUFFICES ASSUME IInv, SetNothing PROVE IInv'
  OBVIOUS
<1>1. /\ size' = 0
      /\ UNCHANGED <<window, alive, oldSize, dynamicBufferInitialized, slot,
                    OutOfDateBuffers, drawn, history, crash>>
  BY DEF SetNothing
<1>2. TypeOK'
  BY <1>1 DEF IInv, TypeOK, window, history
<1>3. FenceInv' /\ DrawnInv' /\ DataInv' /\ StaleIsListed' /\ OverflowNeedsTwoSizes'
  BY <1>1 DEF IInv, FenceInv, DrawnInv, DataInv, StaleIsListed, OverflowNeedsTwoSizes,
              window, history
<1>4. SizeInv'
  BY <1>1 DEF IInv, SizeInv, window, history
<1> QED
  BY <1>2, <1>3, <1>4 DEF IInv

LEMMA DeleteStep == IInv /\ Delete => IInv'
<1> SUFFICES ASSUME IInv, Delete PROVE IInv'
  OBVIOUS
<1>1. /\ ~drawn /\ alive' = FALSE /\ OutOfDateBuffers' = {}
      /\ UNCHANGED <<window, size, oldSize, dynamicBufferInitialized, drawn, history,
                    crash>>
  BY DEF Delete
<1>2. TypeOK'
  <2>1. slot' \in [Slots -> [state : {InUse, DataOutOfDate, SizeOutOfDate},
                            piece : Piece \cup {NoPiece}]]
    BY DEF Delete, IInv, TypeOK
  <2> QED
    BY <1>1, <2>1 DEF IInv, TypeOK, window, history
<1> QED
  BY <1>1, <1>2 DEF IInv, FenceInv, DrawnInv, DataInv, StaleIsListed, SizeInv,
                    OverflowNeedsTwoSizes, window, history

\* A copy past the end of a piece: then two sizes have come in one turn.
LEMMA FaultNeedsTwoSizes ==
  ASSUME IInv, alive, HandleFault = "overflow"
  PROVE  resized
<1> DEFINE q == Other(pp)
<1>1. /\ pp \in Slots /\ q \in Slots
      /\ \A s \in Slots : s = pp \/ s = q
  BY SlotFacts DEF IInv, TypeOK
<1>2. /\ dynamicBufferInitialized
      /\ slot[pp].state # InUse
      /\ \/ size > slot[q].piece.size
         \/ slot[pp].state = DataOutOfDate /\ size > slot[pp].piece.size
  BY DEF HandleFault
<1>3. size \in {0, oldSize} /\ oldSize \in Sizes
  BY <1>2 DEF IInv, SizeInv
<1>4. slot[q].state = InUse /\ slot[q].piece \in Piece /\ slot[pp].piece \in Piece
  BY <1>1, <1>2 DEF IInv, DataInv
<1>5. /\ slot[q].piece.size \in Nat /\ slot[pp].piece.size \in Nat
      /\ oldSize \in Nat
  BY <1>3, <1>4, BufferAssumption DEF BufferAssumption, Piece
<1>6. size # 0
  BY <1>2, <1>5
<1>7. slot[q].piece.size >= size
  BY <1>1, <1>2, <1>4, <1>6 DEF IInv, DataInv
<1>8. slot[pp].state = DataOutOfDate /\ size > slot[pp].piece.size
  BY <1>2, <1>3, <1>5, <1>7
<1>9. ~resized => slot[pp].piece.size = oldSize
  BY <1>1, <1>2, <1>8, StateNames DEF IInv, SizeInv
<1> QED
  BY <1>3, <1>5, <1>6, <1>8, <1>9

LEMMA FailSteps == IInv /\ (DrawFails \/ RenderFails) => IInv'
<1> SUFFICES ASSUME IInv, DrawFails \/ RenderFails PROVE IInv'
  OBVIOUS
<1>1. /\ UNCHANGED <<window, buffer, drawn, history>>
      /\ alive
      /\ crash' \in {HandleFault, "null", "none"}
  BY DEF DrawFails, RenderFails, DrawFault, IInv, SizeInv
<1>2. HandleFault \in {"none", "empty", "overflow"}
  BY DEF HandleFault
<1>3. OverflowNeedsTwoSizes'
  BY <1>1, FaultNeedsTwoSizes DEF OverflowNeedsTwoSizes, history
<1>4. TypeOK'
  BY <1>1, <1>2 DEF IInv, TypeOK, window, buffer, history
<1> QED
  BY <1>1, <1>3, <1>4 DEF IInv, FenceInv, DrawnInv, DataInv, StaleIsListed, SizeInv,
                          window, buffer, history

LEMMA NextInv == IInv /\ [Next]_vars => IInv'
<1> SUFFICES ASSUME IInv, [Next]_vars PROVE IInv'
  OBVIOUS
<1>1. CASE UNCHANGED vars
  BY <1>1 DEF IInv, TypeOK, FenceInv, DrawnInv, DataInv, StaleIsListed, SizeInv,
              OverflowNeedsTwoSizes, vars, window, buffer, history
<1>2. CASE Next
  BY <1>2, WindowSteps, SetDataStep, SetNothingStep, DrawStep, DeleteStep, FlipStep,
     FailSteps DEF Next
<1> QED
  BY <1>1, <1>2

\* The inductive invariant holds.
THEOREM InvHolds == Spec => []IInv
<1> QED
  BY InitInv, NextInv, PTL DEF Spec

-----------------------------------------------------------------------------
(* What the runs check, for all sizes. *)

\* Every variable keeps to its type.
THEOREM TypeCorrect == Spec => []TypeOK
<1>1. IInv => TypeOK
  BY DEF IInv
<1> QED
  BY <1>1, InvHolds, PTL

\* What is drawn is the newest data, in full.
THEOREM AlwaysDrawsNewest == Spec => []DrawnIsNewest
<1>1. IInv => DrawnIsNewest
  BY DEF IInv, DrawnInv, DataInv, DrawnIsNewest, TypeOK
<1> QED
  BY <1>1, InvHolds, PTL

\* Old slots are always in the set of their turn.
THEOREM StaleAlwaysListed == Spec => []StaleIsListed
<1>1. IInv => StaleIsListed
  BY DEF IInv
<1> QED
  BY <1>1, InvHolds, PTL

\* A buffer that gets one size of data in a turn is never copied out of bounds.
THEOREM OneSizePerTurnIsSafe == Spec => []OverflowNeedsTwoSizes
<1>1. IInv => OverflowNeedsTwoSizes
  BY DEF IInv
<1> QED
  BY <1>1, InvHolds, PTL

\* Within a turn nothing touches what the GPU reads.
THEOREM TurnsLeaveGPUAlone == Spec => TurnLeavesGPUAlone
<1> DEFINE q == Other(pp)
           A == phase = "turn" /\ alive' =>
                  \A s \in Slots :
                    "reads" \in {gpu[s], gpu'[s]} => slot'[s].piece = slot[s].piece
<1>1. IInv /\ [Next]_vars => A
  <2> SUFFICES ASSUME IInv, [Next]_vars, phase = "turn", alive',
                      NEW s \in Slots, "reads" \in {gpu[s], gpu'[s]}
               PROVE  slot'[s].piece = slot[s].piece
    OBVIOUS
  <2>1. /\ pp \in Slots /\ q \in Slots /\ q # pp /\ s \in {pp, q}
        /\ gpu[pp] = "idle"
    BY SlotFacts DEF IInv, TypeOK, FenceInv
  <2>2. CASE UNCHANGED slot
    BY <2>2
  <2>3. CASE \E n \in Sizes : SetData(n)
    <3>1. PICK n \in Sizes : SetData(n)
      BY <2>3
    <3>2. s = q /\ gpu[s] = "reads"
      BY <2>1, <3>1 DEF SetData, window
    <3>3. dynamicBufferInitialized
      BY <3>2 DEF IInv, FenceInv
    <3>4. slot'[q] = Overtaken(q, n)
      BY <2>1, <3>1 DEF SetData
    <3> QED
      BY <3>2, <3>3, <3>4 DEF Overtaken
  <2>4. CASE Draw
    <3>1. s = q
      BY <2>1, <2>4 DEF Draw, window
    <3> QED
      BY <2>1, <2>4, <3>1 DEF Draw, IInv, TypeOK
  <2>5. CASE RenderFlips
    <3>1. CASE s = q
      BY <2>1, <2>5, <3>1 DEF RenderFlips, IInv, TypeOK
    <3>2. CASE s = pp
      <4>1. drawn
        BY <2>1, <2>5, <3>2 DEF RenderFlips, Submit, IInv, TypeOK
      <4>2. /\ alive /\ dynamicBufferInitialized /\ slot[pp].state = InUse
        BY <4>1 DEF IInv, DrawnInv
      <4>3. HandleFault = "none"
        BY <4>2 DEF HandleFault
      <4>4. Handled.piece = slot[pp].piece
        BY <4>2, <4>3, HandledFacts
      <4> QED
        BY <2>1, <2>5, <3>2, <4>4 DEF RenderFlips, IInv, TypeOK
    <3> QED
      BY <2>1, <3>1, <3>2
  <2>6. CASE Delete
    BY <2>6 DEF Delete
  <2> QED
    BY <2>2, <2>3, <2>4, <2>5, <2>6
       DEF Next, vars, buffer, PrerenderAcquires, PrerenderRefused, GPUFinishes,
           SetNothing, DrawFails, RenderSkips, RenderRefused, RenderFails
<1>2. IInv /\ [Next]_vars => [A]_vars
  BY <1>1
<1> QED
  BY <1>2, InvHolds, PTL DEF Spec, TurnLeavesGPUAlone

=============================================================================
