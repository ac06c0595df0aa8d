---------------------------- MODULE VertexBuffer ----------------------------
(***************************************************************************)
(* One dynamic render::VertexBuffer of the Vulkan backend and the loop of  *)
(* frames that it lives in: Window::prerender and Window::render.          *)
(*                                                                         *)
(* Two frames are in flight.  framePingPong (here pp) says whose turn it   *)
(* is, frameFence[pp] is signaled when the GPU is done with the last frame *)
(* of that turn, and a dynamic buffer keeps a piece of memory for each of  *)
(* the two: data is written into the slot of the turn, and the other slot  *)
(* is brought up to date when its turn comes, when it is drawn or at the   *)
(* end of the turn.                                                        *)
(*                                                                         *)
(* Data is the number of the call of setData that brought it.              *)
(***************************************************************************)
EXTENDS Integers

CONSTANTS Sizes,         \* the sizes, in bytes, that setData is called with
          MaxVersion     \* bound on the calls of setData

ASSUME BufferAssumption ==
  /\ Sizes \subseteq Nat \ {0}
  /\ MaxVersion \in Nat

Slots == {0, 1}
Other(s) == 1 - s

InUse        == "VERTEX_SUB_BUFFER_IN_USE"
DataOutOfDate == "VERTEX_SUB_BUFFER_DATA_OUT_OF_DATE"
SizeOutOfDate == "VERTEX_SUB_BUFFER_SIZE_OUT_OF_DATE"

Unset   == -1                          \* (uint32_t)-1, which setDynamicDraw stores
NoPiece == [size |-> 0, data |-> 0]    \* nullptr
Piece   == [size : Sizes, data : 0 .. MaxVersion]

VARIABLES
  \* @type: render::Window
  pp,                  \* framePingPong
  phase,               \* "turn" between prerender and render, else "between"
  swapchainOutOfDate,
  fence,               \* frameFence: whether each is signaled
  gpu,                 \* per turn, its last frame: "idle" when done, "reads" when
                       \* it is running and draws this buffer, else "busy"
  \* @type: render::VertexBuffer
  alive,               \* the object has not been deleted
  size, oldSize,
  dynamicBufferInitialized,
  slot,                \* dynamicBuffers
  OutOfDateBuffers,    \* the turns in whose set this buffer is
  drawn,               \* the buffer is bound in the commands of this turn
  \* history, for the properties
  version,             \* calls of setData so far
  latest,              \* the last of them that brought data
  given,               \* setData has brought data since pp last changed
  resized,             \* and once brought more with another size before it did
  crash                \* what has gone wrong, "none" so far: the model stops there

window  == <<pp, phase, swapchainOutOfDate, fence, gpu>>
buffer  == <<alive, size, oldSize, dynamicBufferInitialized, slot, OutOfDateBuffers>>
history == <<version, latest, given, resized>>
vars    == <<window, buffer, drawn, history, crash>>

\* A buffer that has been made and told that it is dynamic.
Init ==
  /\ pp = 0
  /\ phase = "between"
  /\ swapchainOutOfDate = FALSE
  /\ fence = [s \in Slots |-> TRUE]
  /\ gpu = [s \in Slots |-> "idle"]
  /\ alive = TRUE
  /\ size = 0
  /\ oldSize = Unset
  /\ dynamicBufferInitialized = FALSE
  /\ slot = [s \in Slots |-> [state |-> SizeOutOfDate, piece |-> NoPiece]]
  /\ OutOfDateBuffers = {}
  /\ drawn = FALSE
  /\ version = 0
  /\ latest = 0
  /\ given = FALSE
  /\ resized = FALSE
  /\ crash = "none"

-----------------------------------------------------------------------------
(* The window. *)

\* Mutant: prerender() does not wait for the fence.
PrerenderMayGoOn_NoWait ==
  /\ crash = "none"
  /\ phase = "between"
  /\ swapchainOutOfDate => \A s \in Slots : gpu[s] = "idle"

\* createSwapchain() waits until the device is idle, before prerender() waits
\* for the fence of the turn.
PrerenderMayGoOn ==
  /\ crash = "none"
  /\ phase = "between"
  /\ swapchainOutOfDate => \A s \in Slots : gpu[s] = "idle"
  /\ fence[pp]

\* prerender() acquires an image and resets the fence.
PrerenderAcquires ==
  /\ PrerenderMayGoOn
  /\ phase' = "turn"
  /\ swapchainOutOfDate' = FALSE
  /\ fence' = [fence EXCEPT ![pp] = FALSE]
  /\ UNCHANGED <<pp, gpu, buffer, drawn, history, crash>>

\* Mutant: the fence is reset before the image is acquired.
PrerenderRefused_AfterReset ==
  /\ PrerenderMayGoOn
  /\ phase' = "turn"
  /\ swapchainOutOfDate' = TRUE
  /\ fence' = [fence EXCEPT ![pp] = FALSE]
  /\ UNCHANGED <<pp, gpu, buffer, drawn, history, crash>>

\* The swapchain turns out to be out of date: nothing will be drawn this turn.
PrerenderRefused ==
  /\ PrerenderMayGoOn
  /\ phase' = "turn"
  /\ swapchainOutOfDate' = TRUE
  /\ UNCHANGED <<pp, fence, gpu, buffer, drawn, history, crash>>

\* The GPU finishes a frame.  In which order it finishes them does not matter.
GPUFinishes(s) ==
  /\ crash = "none"
  /\ gpu[s] # "idle"
  /\ gpu' = [gpu EXCEPT ![s] = "idle"]
  /\ fence' = [fence EXCEPT ![s] = TRUE]
  /\ UNCHANGED <<pp, phase, swapchainOutOfDate, buffer, drawn, history, crash>>

-----------------------------------------------------------------------------
(* The buffer. *)

\* Mutant: the other slot is only marked when the size changes.
Overtaken_Unmarked(s, n) ==
  [state |-> IF slot[s].state = InUse /\ n # oldSize THEN SizeOutOfDate
             ELSE slot[s].state,
   piece |-> IF dynamicBufferInitialized THEN slot[s].piece
             ELSE [size |-> n, data |-> 0]]

\* Mutant: no difference is made between old data and an old size.
Overtaken_NoResize(s, n) ==
  [state |-> IF slot[s].state # InUse THEN slot[s].state ELSE DataOutOfDate,
   piece |-> IF dynamicBufferInitialized THEN slot[s].piece
             ELSE [size |-> n, data |-> 0]]

\* A slot after a call of setData with n bytes in the other slot's turn.
Overtaken(s, n) ==
  [state |-> IF slot[s].state # InUse THEN slot[s].state
             ELSE IF n # oldSize THEN SizeOutOfDate ELSE DataOutOfDate,
   piece |-> IF dynamicBufferInitialized THEN slot[s].piece
             ELSE [size |-> n, data |-> 0]]

\* The sets that the buffer is in after setData().
Listed == (OutOfDateBuffers \cup {Other(pp)}) \ {pp}

\* setData().  It is called by scripts and by what is about to be drawn, within
\* a turn and before the buffer is drawn in it; and between turns, when an object
\* of the server is unpacked.  The piece is replaced when its size is another:
\* either way the slot holds n bytes of the new data.
SetData(n) ==
  /\ crash = "none" /\ alive /\ ~drawn
  /\ version < MaxVersion
  /\ slot' = [s \in Slots |->
                IF s = pp THEN [state |-> InUse, piece |-> [size |-> n, data |-> version + 1]]
                ELSE Overtaken(s, n)]
  /\ OutOfDateBuffers' = Listed
  /\ dynamicBufferInitialized' = TRUE
  /\ size' = n
  /\ oldSize' = n
  /\ version' = version + 1
  /\ latest' = version + 1
  /\ given' = TRUE
  /\ resized' = (resized \/ (given /\ n # oldSize))
  /\ UNCHANGED <<window, alive, drawn, crash>>

\* setData() with no bytes: it returns early.
SetNothing ==
  /\ crash = "none" /\ alive /\ ~drawn
  /\ size # 0
  /\ size' = 0
  /\ UNCHANGED <<window, alive, oldSize, dynamicBufferInitialized, slot,
                 OutOfDateBuffers, drawn, history, crash>>

isOutOfDateBuffer == slot[pp].state \in {DataOutOfDate, SizeOutOfDate}

\* memcpy() of size bytes from the slot of the other turn.
Copied(piece) ==
  [piece EXCEPT !.data = IF size = 0 THEN @ ELSE slot[Other(pp)].piece.data]

\* handleOutOfDateBuffer(): the slot of the turn after it.
Handled ==
  IF ~dynamicBufferInitialized THEN slot[pp]
  ELSE [state |-> InUse,
        piece |-> CASE slot[pp].state = SizeOutOfDate -> Copied([size |-> size, data |-> 0])
                    [] slot[pp].state = DataOutOfDate -> Copied(slot[pp].piece)
                    [] OTHER -> slot[pp].piece]

\* What is wrong with doing so: a buffer of no bytes is created, or the copy
\* is larger than one of the pieces.
HandleFault ==
  IF ~dynamicBufferInitialized \/ slot[pp].state = InUse THEN "none"
  ELSE IF slot[pp].state = SizeOutOfDate /\ size = 0 THEN "empty"
  ELSE IF \/ size > slot[Other(pp)].piece.size
          \/ slot[pp].state = DataOutOfDate /\ size > slot[pp].piece.size THEN "overflow"
  ELSE "none"

\* VertexAttributes::getVulkanBuffers(), when the attributes are bound for a draw.
DrawFault ==
  IF isOutOfDateBuffer /\ HandleFault # "none" THEN HandleFault
  ELSE IF dynamicBufferInitialized THEN "none" ELSE "null"

Draw ==
  /\ crash = "none" /\ alive /\ ~drawn
  /\ phase = "turn" /\ ~swapchainOutOfDate
  /\ DrawFault = "none"
  /\ slot' = [slot EXCEPT ![pp] = IF isOutOfDateBuffer THEN Handled ELSE @]
  /\ OutOfDateBuffers' = IF isOutOfDateBuffer THEN OutOfDateBuffers \ {pp}
                         ELSE OutOfDateBuffers
  /\ drawn' = TRUE
  /\ UNCHANGED <<window, alive, size, oldSize, dynamicBufferInitialized, history, crash>>

DrawFails ==
  /\ crash = "none" /\ alive /\ ~drawn
  /\ phase = "turn" /\ ~swapchainOutOfDate
  /\ DrawFault # "none"
  /\ crash' = DrawFault
  /\ UNCHANGED <<window, buffer, drawn, history>>

\* The destructor: both pieces go, and the buffer leaves both sets.
Delete ==
  /\ crash = "none" /\ alive /\ ~drawn
  /\ alive' = FALSE
  /\ slot' = [s \in Slots |-> [slot[s] EXCEPT !.piece = NoPiece]]
  /\ OutOfDateBuffers' = {}
  /\ UNCHANGED <<window, size, oldSize, dynamicBufferInitialized, drawn, history, crash>>

-----------------------------------------------------------------------------
(* Window::render(). *)

MayRender == crash = "none" /\ phase = "turn"

\* The swapchain was out of date in prerender().
RenderSkips ==
  /\ MayRender
  /\ swapchainOutOfDate
  /\ phase' = "between"
  /\ UNCHANGED <<pp, swapchainOutOfDate, fence, gpu, buffer, drawn, history, crash>>

\* The commands are submitted with the fence of the turn.
Submit == gpu' = [gpu EXCEPT ![pp] = IF drawn THEN "reads" ELSE "busy"]

\* The image cannot be presented: render() returns, and the turn is not passed on.
RenderRefused ==
  /\ MayRender
  /\ ~swapchainOutOfDate
  /\ Submit
  /\ swapchainOutOfDate' = TRUE
  /\ phase' = "between"
  /\ drawn' = FALSE
  /\ UNCHANGED <<pp, fence, buffer, history, crash>>

NextTurn == (pp + 1) % 2

\* The image is presented, a buffer that is out of date in this turn and was not
\* drawn is brought up to date, and the turn is passed on.
RenderFlips ==
  /\ MayRender
  /\ ~swapchainOutOfDate
  /\ pp \in OutOfDateBuffers => HandleFault = "none"
  /\ Submit
  /\ slot' = [slot EXCEPT ![pp] = IF pp \in OutOfDateBuffers THEN Handled ELSE @]
  /\ OutOfDateBuffers' = OutOfDateBuffers \ {pp}
  /\ pp' = NextTurn
  /\ phase' = "between"
  /\ drawn' = FALSE
  /\ given' = FALSE
  /\ UNCHANGED <<swapchainOutOfDate, fence, alive, size, oldSize,
                 dynamicBufferInitialized, version, latest, resized, crash>>

RenderFails ==
  /\ MayRender
  /\ ~swapchainOutOfDate
  /\ pp \in OutOfDateBuffers /\ HandleFault # "none"
  /\ crash' = HandleFault
  /\ UNCHANGED <<window, buffer, drawn, history>>

Prerender == PrerenderAcquires \/ PrerenderRefused
Render    == RenderSkips \/ RenderRefused \/ RenderFlips \/ RenderFails

Next ==
  \/ PrerenderAcquires
  \/ PrerenderRefused
  \/ \E s \in Slots : GPUFinishes(s)
  \/ \E n \in Sizes : SetData(n)
  \/ SetNothing
  \/ Draw
  \/ DrawFails
  \/ Delete
  \/ RenderSkips
  \/ RenderRefused
  \/ RenderFlips
  \/ RenderFails

Spec == Init /\ [][Next]_vars

\* The engine's loop calls both functions in every turn, and the GPU finishes what
\* it is given.
FairSpec ==
  /\ Spec
  /\ WF_vars(Prerender)
  /\ WF_vars(Render)
  /\ \A s \in Slots : WF_vars(GPUFinishes(s))

-----------------------------------------------------------------------------
(* Properties. *)

\* Every variable has a value of its kind.
TypeOK ==
  /\ pp \in Slots
  /\ phase \in {"between", "turn"}
  /\ swapchainOutOfDate \in BOOLEAN
  /\ fence \in [Slots -> BOOLEAN]
  /\ gpu \in [Slots -> {"idle", "reads", "busy"}]
  /\ alive \in BOOLEAN
  /\ size \in Sizes \cup {0}
  /\ oldSize \in Sizes \cup {Unset}
  /\ dynamicBufferInitialized \in BOOLEAN
  /\ slot \in [Slots -> [state : {InUse, DataOutOfDate, SizeOutOfDate},
                         piece : Piece \cup {NoPiece}]]
  /\ OutOfDateBuffers \subseteq Slots
  /\ drawn \in BOOLEAN
  /\ version \in 0 .. MaxVersion
  /\ latest \in 0 .. MaxVersion
  /\ given \in BOOLEAN
  /\ resized \in BOOLEAN
  /\ crash \in {"none", "null", "empty", "overflow"}

\* Between prerender() and the end of render() nothing writes, replaces or frees a
\* piece that a submitted frame is reading, not even the copy that render() makes
\* into the slot of the frame it has just submitted.  (Between turns setData() does,
\* when an object of the server is unpacked; and so does the destructor.)
TurnLeavesGPUAlone ==
  [][phase = "turn" /\ alive' =>
       \A s \in Slots :
         "reads" \in {gpu[s], gpu'[s]} => slot'[s].piece = slot[s].piece]_vars

\* What is drawn is what setData() brought last, whichever turn's slot it was
\* written into and however the turn was cut short.
DrawnIsNewest ==
  drawn /\ size # 0 => /\ slot[pp].piece.data = latest
                       /\ slot[pp].piece.size >= size

\* A slot that is behind is in the set of its turn, so that it will be brought up
\* to date when the turn comes.
StaleIsListed ==
  alive /\ dynamicBufferInitialized =>
    \A s \in Slots : slot[s].state # InUse => s \in OutOfDateBuffers

\* handleOutOfDateBuffer() copies past the end of a piece only if, once, data of two
\* sizes came before the turn was passed on.
OverflowNeedsTwoSizes == crash = "overflow" => resized

\* prerender() never waits for ever for a fence, in spite of the turns in which
\* nothing is submitted and those that are not passed on.
TurnsGoOn == []<>(phase = "turn" \/ crash # "none")

\* vertexBuffer.cc:181 "determine how the in-use buffer turns out of date": the
\* states tell a slot whose data is old from one whose size is old.
StateTellsSize ==
  alive /\ dynamicBufferInitialized /\ size # 0 =>
    \A s \in Slots : slot[s].state = DataOutOfDate => slot[s].piece.size = size

=============================================================================
