------------------------------- MODULE Draws -------------------------------
(***************************************************************************)
(* How a turn of the engine becomes a command buffer: the objects of the   *)
(* scene bind a program, uniforms, textures and vertex attributes to       *)
(* render::State (renderer/state.cc) and draw; State creates pipelines and *)
(* descriptor sets as they are needed and keeps what it bound last, so as  *)
(* not to bind it again; render::Window records one of two buffers while   *)
(* the GPU runs the other (renderer/window.cc, renderer/windowVulkan.cc).  *)
(*                                                                         *)
(* One action renders one object (the engine has one thread for this); the *)
(* GPU and the surface act on their own.  A value bound to a uniform is    *)
(* the turn and a number within it, so that no two are alike.              *)
(***************************************************************************)
EXTENDS Naturals, Sequences, FiniteSets, TLC

CONSTANTS
    Chunks,      \* the chunks in the order in which they are drawn: a sequence
    Views,       \* the sets of chunks (by their places) that the camera can see
    Occupied,    \* the chunks on which a unit stands
    Texts,       \* the texts of the interface
    MaxTurns,    \* bound on the turns of the loop
    MaxObjects,  \* bound on what is drawn in a turn after the chunks
    MaxDrawn     \* bound on what is drawn after the chunks in all turns

ASSUME DrawsAssumption ==
    /\ Chunks \in Seq(STRING) /\ Views \subseteq SUBSET DOMAIN Chunks
    /\ Occupied \subseteq {Chunks[i] : i \in DOMAIN Chunks}
    /\ {MaxTurns, MaxObjects, MaxDrawn} \subseteq Nat

VARIABLES
    state,          \* render::State, its static tables and what it made of the device
    framePingPong,  \* the buffer being recorded, and the slots that go with it
    outOfDate,      \* swapchainOutOfDate
    fence,          \* of each buffer: whether its fence is signalled
    pending,        \* the buffers that the GPU has and has not finished
    picture,        \* the image of the document: "none", "copying" to the GPU, or "ready"
    phase,          \* where the turn is
    turn,           \* the turns begun
    objects,        \* how much this turn, and all turns, have drawn after the chunks
    carried,        \* of each buffer: State's `old' when its recording began
    refusals        \* turns without an image in a row, and the most of them so far

vars == <<state, framePingPong, outOfDate, fence, pending, picture, phase, turn,
          objects, carried, refusals>>

Slots == {0, 1}
Nobody == "none"  \* nullptr, or a handle never set
Programs == {"tile", "line", "box", "image", "text"}

(* The bindings that the shaders of a program declare.                     *)
UniformBindings == [p \in Programs |-> IF p \in {"box", "text"} THEN {0, 1} ELSE {0}]
TextureBinding == [p \in Programs |-> IF p = "text" THEN 2 ELSE 1]
Layout(p) == UniformBindings[p] \cup (IF p \in {"line", "box"} THEN {} ELSE {TextureBinding[p]})

Larger(a, b) == IF a > b THEN a ELSE b

(* f[k] = v, of a map or an array that need not have a place for k yet.   *)
Put(f, k, v) == [x \in DOMAIN f \cup {k} |-> IF x = k THEN v ELSE f[x]]

SubState(p, a, d, s) == [program |-> p, attributes |-> a, depth |-> d, stencil |-> s]
NoPipeline == SubState(Nobody, Nobody, FALSE, "none")

-----------------------------------------------------------------------------
(* render::State and render::Program, as functions of the state.           *)

(* As if a set begun for another program could be gone on with.            *)
BindProgram_KeepsSet(s, p) == [s EXCEPT !.current.program = p, !.want = <<>>]

BindProgram(s, p) ==
    LET s1 == [s EXCEPT !.current.program = p, !.want = <<>>]
    IN IF s.old.program = p THEN s1
       ELSE [s1 EXCEPT !.needsUpdate = FALSE, !.topDescriptor = 0]

BindVertexAttributes(s, a) == [s EXCEPT !.current.attributes = a]
EnableDepthTest(s, on) == [s EXCEPT !.current.depth = on]
SetStencil(s, mode) == [s EXCEPT !.current.stencil = mode]

(* Program::createDescriptorSet(): the pair of sets with this index.       *)
CreateDescriptorSet(s, i) == [s EXCEPT !.sets[s.current.program] = Larger(@, i + 1)]

(* The set that is being filled stays the same until a draw has used it or *)
(* another program than the one drawn last is bound.                       *)
UpdateDescriptorWrites(s, binding, source) ==
    LET p == s.current.program
        s1 == [s EXCEPT !.descriptorWrites = Put(@, binding, source),
                        !.topDescriptor = Larger(@, binding)]
    IN IF s.needsUpdate THEN s1
       ELSE [CreateDescriptorSet(s1, s.setsTaken[p]) EXCEPT
                !.setIndex = s.setsTaken[p], !.setProgram = p,
                !.needsUpdate = TRUE, !.setsTaken[p] = @ + 1]

(* As if one piece for each uniform were enough for a turn.                *)
BindUniform_OnePiece(s, binding) ==
    LET piece == <<s.current.program, binding, 0>>
        value == <<turn, s.stamp>>
    IN UpdateDescriptorWrites(
           [s EXCEPT !.pieces[framePingPong] = Put(@, piece, value),
                     !.want = Put(@, binding, value), !.stamp = @ + 1], binding, piece)

BindUniform(s, binding) ==
    LET p == s.current.program
        piece == <<p, binding, s.uniformsTaken[p][binding]>>
        value == <<turn, s.stamp>>
        s1 == [s EXCEPT !.pieces[framePingPong] = Put(@, piece, value),
                        !.want = Put(@, binding, value), !.stamp = @ + 1]
    IN [UpdateDescriptorWrites(s1, binding, piece) EXCEPT !.uniformsTaken[p][binding] = @ + 1]

BindTexture(s, t) ==
    LET binding == TextureBinding[s.current.program]
    IN UpdateDescriptorWrites([s EXCEPT !.want = Put(@, binding, <<t>>)], binding, <<t>>)

(* As if a pipeline were bound only when it has just been made.            *)
BindPipeline_OnlyNew(s) ==
    LET set == <<s.current.program, s.setIndex>>
        new == s.current \notin s.pipelines \cup s.empty
        s1 == [s EXCEPT !.pipelines = @ \cup {s.current}, !.old = s.current,
                        !.pipe = IF new THEN s.current ELSE @]
    IN IF ~s.needsUpdate THEN s1
       ELSE [s1 EXCEPT !.contents[framePingPong] =
                           Put(@, set, [b \in 0..s.topDescriptor |-> s.descriptorWrites[b]]),
                       !.set = set, !.needsUpdate = FALSE]

(* State::bindPipeline(): a pipeline is made for a state that has none,    *)
(* and bound if the state is not the one bound last; the set is written    *)
(* and bound if something was bound to it.  The layout is then looked up   *)
(* with [], which leaves an empty entry for a state that has none.         *)
BindPipeline(s) ==
    LET p == s.current.program
        known == s.pipelines \cup s.empty
        s1 == IF s.current = s.old THEN s
              ELSE [s EXCEPT !.pipelines = IF s.current \in known THEN @ ELSE @ \cup {s.current},
                             !.pipe = IF s.current \in s.empty THEN NoPipeline ELSE s.current,
                             !.old = s.current]
        written == DOMAIN s.descriptorWrites \cap 0..s.topDescriptor
        set == <<p, s.setIndex>>
        before == s.contents[framePingPong]
        kept == IF set \in DOMAIN before THEN DOMAIN before[set] ELSE {}
        content == [b \in written \cup kept |->
                       IF b \in written THEN s.descriptorWrites[b] ELSE before[set][b]]
    IN IF ~s.needsUpdate THEN s1
       ELSE [s1 EXCEPT !.contents[framePingPong] = Put(@, set, content),
                       !.set = set,
                       !.empty = IF s.current \in s1.pipelines THEN @ ELSE @ \cup {s.current},
                       !.needsUpdate = FALSE]

Draw(s) ==
    IF outOfDate THEN s
    ELSE LET b == BindPipeline(s)
         IN [b EXCEPT !.buffer[framePingPong] =
                 Append(@, [state |-> b.current, pipe |-> b.pipe, set |-> b.set,
                            want |-> b.want, stray |-> b.setProgram # b.current.program])]

(* As if the indices were not given back.                                  *)
Reset_KeepsIndices(s) ==
    [s EXCEPT !.buffer[framePingPong] = <<>>, !.pipe = NoPipeline, !.set = <<>>,
              !.needsUpdate = FALSE, !.stamp = 0]

(* What earlier turns left in the sets and pieces of this slot is dropped  *)
(* from the model: no draw can want it.                                    *)
Reset(s) ==
    [s EXCEPT !.contents[framePingPong] = <<>>, !.pieces[framePingPong] = <<>>,
              !.buffer[framePingPong] = <<>>, !.pipe = NoPipeline, !.set = <<>>,
              !.needsUpdate = FALSE, !.stamp = 0,
              !.setsTaken = [p \in Programs |-> 0],
              !.uniformsTaken = [p \in Programs |-> [b \in UniformBindings[p] |-> 0]]]

ResetPipelines(s) == [s EXCEPT !.pipelines = {}, !.empty = {}]

-----------------------------------------------------------------------------
(* What the objects of the scene do with State.                            *)

(* Chunk::renderChunk(): the tiles up to a unit, the unit, and the rest.   *)
RenderChunk(s, c) ==
    LET tiles(t) == Draw(BindVertexAttributes(SetStencil(t, "tiles"), c))
        unit(t) == Draw(BindVertexAttributes(SetStencil(t, "unit"), c \o " unit"))
        bound == BindUniform(s, 0)
    IN SetStencil(IF c \in Occupied THEN tiles(unit(tiles(bound))) ELSE tiles(bound), "tiles off")

(* Chunk::renderXRay(): the uniforms are bound whether or not something    *)
(* shines through.                                                         *)
RenderXRay(s, c) ==
    LET bound == SetStencil(BindUniform(s, 0), "xray")
        unit(t) == EnableDepthTest(Draw(EnableDepthTest(
                       BindVertexAttributes(t, c \o " xray"), FALSE)), TRUE)
    IN SetStencil(IF c \in Occupied THEN unit(bound) ELSE bound, "off")

(* Op(s, c) for the chunks within the bounds of the camera, in their order. *)
ForVisible(Op(_, _), s, visible) ==
    LET done[i \in 0..Len(Chunks)] ==
            IF i = 0 THEN s
            ELSE IF i \in visible THEN Op(done[i - 1], Chunks[i]) ELSE done[i - 1]
    IN done[Len(Chunks)]

RenderContainer(s, visible) ==
    LET bound == BindTexture(BindProgram(s, "tile"), "sprites")
    IN ForVisible(RenderXRay, ForVisible(RenderChunk, bound, visible), visible)

RenderLine(s) == Draw(BindVertexAttributes(BindUniform(BindProgram(s, "line"), 0), "line"))

RenderBox(s) ==
    Draw(BindVertexAttributes(BindUniform(BindUniform(BindProgram(s, "box"), 0), 1), "box"))

RenderImage(s) ==
    Draw(BindVertexAttributes(
        BindUniform(BindTexture(BindProgram(s, "image"), "picture"), 0), "image"))

RenderText(s, t) ==
    Draw(BindVertexAttributes(
        BindUniform(BindUniform(BindTexture(BindProgram(s, "text"), "font"), 0), 1), t))

-----------------------------------------------------------------------------
(* Window::initializeVulkan(): both fences are signalled, the depth test   *)
(* is on, and nothing has been bound.                                      *)
Init ==
    /\ state = [current |-> SubState(Nobody, Nobody, TRUE, "none"),
                old |-> NoPipeline,
                needsUpdate |-> FALSE, setIndex |-> 0, setProgram |-> Nobody,
                topDescriptor |-> 0, descriptorWrites |-> <<>>,
                setsTaken |-> [p \in Programs |-> 0],
                uniformsTaken |-> [p \in Programs |-> [b \in UniformBindings[p] |-> 0]],
                sets |-> [p \in Programs |-> 0],
                contents |-> [i \in Slots |-> <<>>], pieces |-> [i \in Slots |-> <<>>],
                pipelines |-> {}, empty |-> {},
                buffer |-> [i \in Slots |-> <<>>], pipe |-> NoPipeline, set |-> <<>>,
                want |-> <<>>, stamp |-> 0]
    /\ framePingPong = 0 /\ outOfDate = FALSE
    /\ fence = [i \in Slots |-> TRUE] /\ pending = {}
    /\ picture = "none"
    /\ phase = "prerender" /\ turn = 0 /\ objects = [now |-> 0, all |-> 0]
    /\ carried = [i \in Slots |-> state.old]
    /\ refusals = [now |-> 0, most |-> 0]

(* Window::prerender(): createSwapchain() if the last turn asked for it,   *)
(* which waits until the GPU is idle; the wait for the fence of the        *)
(* buffer; then the surface gives an image or refuses one.                 *)
PrerenderBegin ==
    /\ phase = "prerender" /\ turn < MaxTurns
    /\ outOfDate => pending = {}
    /\ fence[framePingPong]
    /\ turn' = turn + 1 /\ objects' = [objects EXCEPT !.now = 0] /\ phase' = "container"
    /\ UNCHANGED <<framePingPong, pending, picture>>

CreateSwapchain(s) == IF outOfDate THEN ResetPipelines(s) ELSE s

(* As if the fence were reset before the image is asked for.               *)
PrerenderRefused_ResetsFence ==
    /\ PrerenderBegin
    /\ state' = CreateSwapchain(state)
    /\ outOfDate' = TRUE
    /\ fence' = [fence EXCEPT ![framePingPong] = FALSE]
    /\ refusals' = [now |-> refusals.now + 1, most |-> Larger(refusals.most, refusals.now + 1)]
    /\ UNCHANGED carried

PrerenderRefused ==
    /\ PrerenderBegin
    /\ state' = CreateSwapchain(state)
    /\ outOfDate' = TRUE
    /\ refusals' = [now |-> refusals.now + 1, most |-> Larger(refusals.most, refusals.now + 1)]
    /\ UNCHANGED <<fence, carried>>

PrerenderAcquired ==
    /\ PrerenderBegin
    /\ state' = Reset(CreateSwapchain(state))
    /\ outOfDate' = FALSE
    /\ fence' = [fence EXCEPT ![framePingPong] = FALSE]
    /\ carried' = [carried EXCEPT ![framePingPong] = state.old]
    /\ refusals' = [refusals EXCEPT !.now = 0]

RenderObjects(from, to, s) ==
    /\ phase = from /\ phase' = to /\ state' = s
    /\ UNCHANGED <<framePingPong, outOfDate, fence, pending, picture, turn, carried,
                   refusals>>

(* Engine::tick(): the renderables, the chunk container first; then the    *)
(* interface and the document without a depth test.                        *)
DrawContainer ==
    \E visible \in Views :
        /\ RenderObjects("container", "world", RenderContainer(state, visible))
        /\ UNCHANGED objects

AnotherObject ==
    /\ objects.now < MaxObjects /\ objects.all < MaxDrawn
    /\ objects' = [now |-> objects.now + 1, all |-> objects.all + 1]

DrawLine == AnotherObject /\ RenderObjects("world", "world", RenderLine(state))

DepthOff ==
    /\ RenderObjects("world", "interface", EnableDepthTest(state, FALSE))
    /\ UNCHANGED objects

(* A healthbar is an object of the interface too, and two boxes.           *)
DrawHealthbar ==
    AnotherObject /\ RenderObjects("interface", "interface", RenderBox(RenderBox(state)))

DrawText ==
    /\ AnotherObject
    /\ \E t \in Texts : RenderObjects("interface", "interface", RenderText(state, t))
DrawBox == AnotherObject /\ RenderObjects("interface", "interface", RenderBox(state))
DrawImage == picture # "none" /\ AnotherObject /\ RenderObjects("interface", "interface", RenderImage(state))

RenderEnd ==
    /\ phase = "interface" /\ phase' = "prerender"
    /\ state' = EnableDepthTest(state, TRUE)
    /\ UNCHANGED <<fence, picture, turn, objects, carried, refusals>>

(* Window::render(): without an image nothing is submitted.                *)
RenderNothing ==
    /\ outOfDate /\ RenderEnd
    /\ UNCHANGED <<framePingPong, outOfDate, pending>>

(* The copies are waited for, the buffer is submitted, and the turn is     *)
(* passed on unless the image cannot be presented any more.                *)
RenderSubmit ==
    /\ ~outOfDate /\ picture # "copying" /\ RenderEnd
    /\ pending' = pending \cup {framePingPong}
    /\ \/ framePingPong' = 1 - framePingPong /\ UNCHANGED outOfDate
       \/ outOfDate' = TRUE /\ UNCHANGED framePingPong

(* Texture::load(), when a document that shows the image is loaded: the    *)
(* pixels are staged, and a copy to the image is handed to the GPU.        *)
LoadPicture ==
    /\ phase = "prerender" /\ picture = "none" /\ picture' = "copying"
    /\ UNCHANGED <<state, framePingPong, outOfDate, fence, pending, phase, turn, objects,
                   carried, refusals>>

(* The GPU finishes the copy, or a frame, whose commands nobody reads      *)
(* again.  That the loop sees only between the turns, where it looks at    *)
(* fences: a frame finished sooner only reads less of what a turn changes. *)
FinishCopy ==
    /\ picture = "copying" /\ picture' = "ready"
    /\ UNCHANGED <<state, framePingPong, outOfDate, fence, pending, phase, turn, objects,
                   carried, refusals>>

FinishFrame(i) ==
    /\ phase = "prerender" /\ i \in pending /\ pending' = pending \ {i}
    /\ fence' = [fence EXCEPT ![i] = TRUE]
    /\ state' = [state EXCEPT !.buffer[i] = <<>>]
    /\ UNCHANGED <<framePingPong, outOfDate, picture, phase, turn, objects, carried, refusals>>

Loop ==
    \/ PrerenderRefused \/ PrerenderAcquired \/ DrawContainer \/ DrawLine \/ DrawHealthbar
    \/ DepthOff \/ DrawText \/ DrawBox \/ DrawImage \/ RenderNothing \/ RenderSubmit \/ LoadPicture

GPU == FinishCopy \/ \E i \in Slots : FinishFrame(i)

(* The loop has no end; the model's has one, and stops nowhere else.       *)
LastTurn == turn = MaxTurns /\ phase = "prerender" /\ UNCHANGED vars

Next == Loop \/ GPU \/ LastTurn

Spec == Init /\ [][Next]_vars

-----------------------------------------------------------------------------
(* What a draw in buffer i reads through the set that was bound for it.    *)
Source(i, source) ==
    IF Len(source) = 3
    THEN IF source \in DOMAIN state.pieces[i] THEN state.pieces[i][source] ELSE Nobody
    ELSE IF source = <<"picture">> /\ picture = "copying" THEN Nobody ELSE source

Reads(i, d) ==
    IF d.set = <<>> \/ d.set \notin DOMAIN state.contents[i] THEN <<>>
    ELSE LET content == state.contents[i][d.set]
         IN [b \in DOMAIN content \cap Layout(d.set[1]) |-> Source(i, content[b])]

DrawsOf(i) == {state.buffer[i][k] : k \in DOMAIN state.buffer[i]}

(* While the GPU runs a buffer, each draw in it reads just the uniforms    *)
(* and images that its object bound: no other object, no later frame and   *)
(* no reload has taken the set, the piece or the image since.  Excepted    *)
(* are the draws that use the index of another program's set.              *)
DrawsReadTheirOwn ==
    \A i \in pending : \A d \in DrawsOf(i) : ~d.stray => Reads(i, d) = d.want

(* A draw uses the index of another program's set only when it is the      *)
(* first of its buffer and its program drew last in the buffer before: the *)
(* chunks, all out of sight, took a set and did not draw with it.          *)
StrayOnlyFirst ==
    \A i \in Slots : \A k \in DOMAIN state.buffer[i] :
        LET d == state.buffer[i][k]
        IN d.stray => /\ k = 1 /\ d.state.program = carried[i].program
                      /\ d.set[2] < state.sets[d.state.program]

(* A draw runs with the pipeline of its state, unless it begins the buffer *)
(* with the state that ended the last one (`old' outlives the buffer), or  *)
(* such a draw has left an empty entry, of which there is at most one.     *)
DrawsHavePipelines ==
    /\ Cardinality(state.empty) <= 1
    /\ \A i \in pending : \A k \in DOMAIN state.buffer[i] :
           LET d == state.buffer[i][k]
           IN \/ d.pipe = d.state /\ d.state \in state.pipelines
              \/ d.pipe = NoPipeline /\ d.state \in state.empty
              \/ d.pipe = NoPipeline /\ \A j \in 1..k : state.buffer[i][j].state = carried[i]

(* The sets that a turn can take of a program, with this many objects      *)
(* after the chunks.                                                       *)
SetsPerTurn(p, drawn) ==
    IF p = "tile" THEN 2 * Len(Chunks) + 1 ELSE IF p = "box" THEN 2 * drawn ELSE drawn

(* The sets of a program are never freed, and are as many as the draws of  *)
(* one turn need, times the turns in a row that got no image and so did    *)
(* not give them back.                                                     *)
SetsBounded ==
    \A p \in Programs :
        state.sets[p] <= (refusals.most + 1) * SetsPerTurn(p, MaxObjects)

(* A fence is unsignalled exactly while the GPU has its frame or the frame *)
(* is being recorded for an image, and never both: the wait for a fence    *)
(* ends, whatever the surface refuses, and no buffer is recorded anew that *)
(* the GPU still runs.                                                     *)
Recording == phase # "prerender" /\ ~outOfDate

FenceTellsGPU ==
    /\ Recording => framePingPong \notin pending
    /\ \A i \in Slots : ~fence[i] <=> (i \in pending \/ (Recording /\ i = framePingPong))
=============================================================================
