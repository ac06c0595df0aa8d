---------------------------- MODULE DrawsProofs ----------------------------
(***************************************************************************)
(* What holds of Draws for every scene, every number of turns and objects  *)
(* and whatever the surface refuses: the fences tell what the GPU has, a   *)
(* draw reads what its object bound and runs with its pipeline, only the   *)
(* first draw of a buffer can be stray, and the sets stay bounded.         *)
(*                                                                         *)
(* What an object does is a composition of functions of State, so the      *)
(* invariant is one of a state s: each function is given the effect it has *)
(* on s, then what it keeps of the invariant, and the actions follow.      *)
(***************************************************************************)
EXTENDS Draws, FiniteSetTheorems, WellFoundedInduction, TLAPS

(* FenceTellsGPU is inductive once the fences are Booleans and the buffer  *)
(* being recorded is one of the two.                                       *)
FenceInv ==
    /\ fence \in [Slots -> BOOLEAN]
    /\ framePingPong \in Slots
    /\ FenceTellsGPU

-----------------------------------------------------------------------------
(* What holds of State, at any place of a turn.  Everything is said of a   *)
(* state s, because what an object does is a composition of functions.     *)

F == framePingPong
On == ~outOfDate

Stencils == {"none", "tiles", "unit", "tiles off", "xray", "off"}
Attributes ==
    {Nobody, "line", "box", "image"} \cup Texts
    \cup UNION {{Chunks[i], Chunks[i] \o " unit", Chunks[i] \o " xray"} : i \in DOMAIN Chunks}
SubStates == [program : Programs \cup {Nobody}, attributes : Attributes, depth : BOOLEAN,
              stencil : Stencils]

Shape(s) ==
    s = [current |-> s.current, old |-> s.old, needsUpdate |-> s.needsUpdate,
         setIndex |-> s.setIndex, setProgram |-> s.setProgram,
         topDescriptor |-> s.topDescriptor, descriptorWrites |-> s.descriptorWrites,
         setsTaken |-> s.setsTaken, uniformsTaken |-> s.uniformsTaken, sets |-> s.sets,
         contents |-> s.contents, pieces |-> s.pieces, pipelines |-> s.pipelines,
         empty |-> s.empty, buffer |-> s.buffer, pipe |-> s.pipe, set |-> s.set,
         want |-> s.want, stamp |-> s.stamp]

IsSeq(b) == b \in Seq({b[k] : k \in DOMAIN b})

Typed(s) ==
    /\ s.current \in SubStates /\ s.old \in SubStates
    /\ s.needsUpdate \in BOOLEAN /\ s.setIndex \in Nat /\ s.topDescriptor \in Nat
    /\ s.setsTaken \in [Programs -> Nat] /\ s.sets \in [Programs -> Nat]
    /\ s.uniformsTaken = [p \in Programs |-> s.uniformsTaken[p]]
    /\ \A p \in Programs : s.uniformsTaken[p] \in [UniformBindings[p] -> Nat]
    /\ s.contents = [i \in Slots |-> s.contents[i]]
    /\ s.pieces = [i \in Slots |-> s.pieces[i]]
    /\ s.buffer = [i \in Slots |-> s.buffer[i]]
    /\ \A i \in Slots : IsSeq(s.buffer[i])

(* Pipelines: which are known, with which one a draw runs, which is bound. *)
Piped(s, i, k) ==
    LET d == s.buffer[i][k]
    IN \/ d.pipe = d.state /\ d.state \in s.pipelines
       \/ d.pipe = NoPipeline /\ d.state \in s.empty
       \/ d.pipe = NoPipeline /\ \A j \in 1..k : s.buffer[i][j].state = carried[i]
PipedIn(s, i) == \A k \in DOMAIN s.buffer[i] : Piped(s, i, k)

PipesKnown(s) ==
    /\ \A x, y \in s.empty : x = y
    /\ s.old \in s.pipelines \cup s.empty \/ (s.pipelines = {} /\ s.empty = {})

PipeBound(s) ==
    \/ s.pipe = s.old /\ s.old \in s.pipelines
    \/ s.pipe = NoPipeline /\ s.old \in s.empty
    \/ /\ s.pipe = NoPipeline /\ s.old = carried[F]
       /\ \A k \in DOMAIN s.buffer[F] : s.buffer[F][k].state = carried[F]

(* The draws with another program's set.                                   *)
StrayFirst(s, i) ==
    \A k \in DOMAIN s.buffer[i] :
        LET d == s.buffer[i][k]
        IN d.stray => /\ k = 1 /\ d.state.program = carried[i].program
                      /\ d.state.program \in Programs /\ d.set[2] \in Nat
                      /\ d.set[2] < s.sets[d.state.program]

OldHasSet(s) == s.old.program \in Programs => s.sets[s.old.program] > 0

(* What a binding that was written with x shows is v.                      *)
Shown(i) == IF i \in pending THEN picture = "ready" ELSE picture # "none"
Gives(s, i, x, v) ==
    \/ Len(x) = 3 /\ x \in DOMAIN s.pieces[i] /\ s.pieces[i][x] = v
    \/ Len(x) # 3 /\ x = v /\ (x = <<"picture">> => Shown(i))

SetGives(s, i, set, want) ==
    /\ set[1] \in Programs /\ set[2] \in Nat /\ set = <<set[1], set[2]>>
    /\ set \in DOMAIN s.contents[i]
    /\ want = [b \in Layout(set[1]) |-> want[b]]
    /\ \A b \in Layout(set[1]) : /\ b \in DOMAIN s.contents[i][set]
                                 /\ Gives(s, i, s.contents[i][set][b], want[b])

DrawnRight(s, i) ==
    \A k \in DOMAIN s.buffer[i] :
        ~s.buffer[i][k].stray => SetGives(s, i, s.buffer[i][k].set, s.buffer[i][k].want)

(* The set that is being filled has not been drawn with, nor the pieces    *)
(* that have not been taken.                                               *)
SetsApart(s) ==
    \A k \in DOMAIN s.buffer[F] :
        LET d == s.buffer[F][k]
        IN ~d.stray => /\ d.set[2] < s.setsTaken[d.set[1]]
                       /\ s.needsUpdate => d.set # <<s.setProgram, s.setIndex>>
PiecesTaken(s) ==
    \A p \in Programs : \A b \in UniformBindings[p] : \A n \in Nat :
        <<p, b, n>> \in DOMAIN s.pieces[F] => n < s.uniformsTaken[p][b]

(* Always, and while a buffer is recorded.                                 *)
StateOK(s) ==
    /\ Shape(s) /\ Typed(s) /\ PipesKnown(s) /\ OldHasSet(s)
    /\ \A i \in Slots : StrayFirst(s, i)
    /\ \A i \in pending : PipedIn(s, i) /\ DrawnRight(s, i)
RecordingOK(s) ==
    On => /\ PipeBound(s) /\ PipedIn(s, F) /\ DrawnRight(s, F)
          /\ SetsApart(s) /\ PiecesTaken(s)
          /\ s.buffer[F] = <<>> => s.old = carried[F]

(* A turn has begun; or its chunks have been drawn, and may have left a    *)
(* set that none of them drew with.                                        *)
Begun(s) ==
    On => /\ s.needsUpdate = FALSE /\ s.buffer[F] = <<>>
          /\ s.setsTaken = [p \in Programs |-> 0]
LeftOver(s) ==
    On /\ s.needsUpdate =>
        /\ s.setProgram = "tile"
        /\ s.old.program = "tile" \/ (s.buffer[F] = <<>> /\ s.setIndex = 0)

(* While an object of a program is drawn.  The set that it fills is one it *)
(* has taken, or the one the chunks have left.                             *)
Fresh(s, p) == /\ s.setProgram = p /\ s.setsTaken[p] = s.setIndex + 1
               /\ s.setsTaken[p] <= s.sets[p]
Strays(s, p) == /\ s.setProgram = "tile" /\ p # "tile" /\ s.setIndex = 0
                /\ s.buffer[F] = <<>> /\ s.old.program = p

BoundBy(s, p, bindings) ==
    /\ s.current.program = p /\ p \in Programs /\ bindings \subseteq Layout(p)
    /\ On => /\ s.needsUpdate => Fresh(s, p) \/ Strays(s, p)
             /\ s.want = [b \in bindings |-> s.want[b]]
             /\ \A b \in bindings : /\ b \in DOMAIN s.descriptorWrites /\ b <= s.topDescriptor
                                    /\ Gives(s, F, s.descriptorWrites[b], s.want[b])
(* The next draw has the set that it wants. *)
Drawable(s, p) ==
    On /\ ~s.needsUpdate => /\ SetGives(s, F, s.set, s.want) /\ s.setProgram = p /\ s.set[1] = p
                            /\ s.set[2] < s.setsTaken[p] /\ s.sets[p] > 0

PictureStates == {"none", "copying", "ready"}
Phases == {"prerender", "container", "world", "interface"}

IInv ==
    /\ FenceInv
    /\ phase \in Phases /\ picture \in PictureStates /\ pending \subseteq Slots
    /\ outOfDate \in BOOLEAN /\ carried = [i \in Slots |-> carried[i]]
    /\ phase # "prerender" => F \notin pending
    /\ StateOK(state)
    /\ phase # "prerender" => RecordingOK(state)
    /\ phase = "container" => Begun(state)
    /\ phase \in {"world", "interface"} => LeftOver(state)

-----------------------------------------------------------------------------
(* What each function of State does.                                       *)

(* A sequence and one more: no set of what is in it is needed beforehand.  *)
LEMMA OneMore ==
    ASSUME NEW b, IsSeq(b), NEW d
    PROVE /\ IsSeq(Append(b, d)) /\ Len(b) \in Nat /\ DOMAIN b = 1..Len(b)
          /\ DOMAIN Append(b, d) = 1..(Len(b) + 1)
          /\ Append(b, d)[Len(b) + 1] = d
          /\ \A k \in 1..Len(b) : Append(b, d)[k] = b[k]
<1> DEFINE S == {b[k] : k \in DOMAIN b}
<1>1. b \in Seq(S)
  BY DEF IsSeq
<1>2. Len(b) \in Nat /\ DOMAIN b = 1..Len(b) /\ b \in [1..Len(b) -> S]
  BY <1>1
<1>3. b \in Seq(S \cup {d})
  <2>1. b \in [1..Len(b) -> S \cup {d}]
    BY <1>2
  <2>2. QED
    BY <1>2, <2>1
<1>4. /\ Append(b, d) \in Seq(S \cup {d})
      /\ DOMAIN Append(b, d) = 1..(Len(b) + 1)
      /\ Append(b, d)[Len(b) + 1] = d
      /\ \A k \in 1..Len(b) : Append(b, d)[k] = b[k]
  <2> HIDE DEF S
  <2>1. QED
    BY <1>2, <1>3
<1>5. {Append(b, d)[k] : k \in DOMAIN Append(b, d)} = S \cup {d}
  <2>1. \A k \in 1..(Len(b) + 1) : k \in 1..Len(b) \/ k = Len(b) + 1
    BY <1>2
  <2>2. Len(b) + 1 \in 1..(Len(b) + 1) /\ \A k \in 1..Len(b) : k \in 1..(Len(b) + 1)
    BY <1>2
  <2>3. QED
    BY <1>2, <1>4, <2>1, <2>2
<1>6. QED
  BY <1>2, <1>4, <1>5 DEF IsSeq

(* Binding something changes no buffer and no content of a set.            *)
LEMMA TypedKept ==
    ASSUME NEW s, Typed(s), NEW r,
           r.contents = s.contents, r.buffer = s.buffer, r.old = s.old,
           r.pieces = [i \in Slots |-> r.pieces[i]],
           r.current \in SubStates, r.needsUpdate \in BOOLEAN, r.setIndex \in Nat,
           r.topDescriptor \in Nat, r.setsTaken \in [Programs -> Nat],
           r.sets \in [Programs -> Nat],
           r.uniformsTaken = [p \in Programs |-> r.uniformsTaken[p]],
           \A p \in Programs : r.uniformsTaken[p] \in [UniformBindings[p] -> Nat]
    PROVE Typed(r)
<1>1. /\ r.contents = [i \in Slots |-> r.contents[i]]
      /\ r.buffer = [i \in Slots |-> r.buffer[i]]
      /\ \A i \in Slots : IsSeq(r.buffer[i])
      /\ r.old \in SubStates
  BY DEF Typed
<1>2. QED
  BY <1>1, Zenon DEF Typed

BoundProgram(s, p, r) ==
    /\ Shape(r)
    /\ r.current = [s.current EXCEPT !.program = p] /\ r.want = <<>>
    /\ r.needsUpdate = (IF s.old.program = p THEN s.needsUpdate ELSE FALSE)
    /\ r.topDescriptor = (IF s.old.program = p THEN s.topDescriptor ELSE 0)
    /\ r.old = s.old /\ r.setIndex = s.setIndex /\ r.setProgram = s.setProgram
    /\ r.descriptorWrites = s.descriptorWrites /\ r.setsTaken = s.setsTaken
    /\ r.uniformsTaken = s.uniformsTaken /\ r.sets = s.sets /\ r.contents = s.contents
    /\ r.pieces = s.pieces /\ r.pipelines = s.pipelines /\ r.empty = s.empty
    /\ r.buffer = s.buffer /\ r.pipe = s.pipe /\ r.set = s.set

(* Program::bind() changes just this of a state.                           *)
LEMMA BindProgramIs ==
    ASSUME NEW s, Shape(s), NEW p
    PROVE BoundProgram(s, p, BindProgram(s, p))
<1>1. PICK r : r = BindProgram(s, p)
  OBVIOUS
<1>2. BoundProgram(s, p, r)
  BY <1>1 DEF BindProgram, Shape, BoundProgram
<1>3. QED
  BY <1>1, <1>2

(* How many sets are taken from s to r: at most n, and of program p.       *)
SameSets(s, r) == r.sets = s.sets /\ r.setsTaken = s.setsTaken
Takes(s, r, p, n) ==
    \A q \in Programs :
        /\ s.setsTaken[q] <= r.setsTaken[q]
        /\ r.setsTaken[q] <= s.setsTaken[q] + (IF q = p THEN n ELSE 0)
        /\ r.sets[q] <= s.sets[q] \/ r.sets[q] <= r.setsTaken[q]

(* What two calls take is what they take together.                         *)
LEMMA TakesMore ==
    ASSUME NEW s, NEW r, NEW t, Typed(s), Typed(r), Typed(t), NEW p, NEW m \in Nat, NEW n \in Nat,
           Takes(s, r, p, m), Takes(r, t, p, n)
    PROVE Takes(s, t, p, m + n)
<1> SUFFICES ASSUME NEW q \in Programs
             PROVE /\ s.setsTaken[q] <= t.setsTaken[q]
                   /\ t.setsTaken[q] <= s.setsTaken[q] + (IF q = p THEN m + n ELSE 0)
                   /\ t.sets[q] <= s.sets[q] \/ t.sets[q] <= t.setsTaken[q]
  BY DEF Takes
<1>1. /\ s.setsTaken[q] \in Nat /\ r.setsTaken[q] \in Nat /\ t.setsTaken[q] \in Nat
      /\ s.sets[q] \in Nat /\ r.sets[q] \in Nat /\ t.sets[q] \in Nat
  BY DEF Typed
<1>2. /\ s.setsTaken[q] <= r.setsTaken[q]
      /\ r.setsTaken[q] <= s.setsTaken[q] + (IF q = p THEN m ELSE 0)
      /\ r.sets[q] <= s.sets[q] \/ r.sets[q] <= r.setsTaken[q]
  BY DEF Takes
<1>3. /\ r.setsTaken[q] <= t.setsTaken[q]
      /\ t.setsTaken[q] <= r.setsTaken[q] + (IF q = p THEN n ELSE 0)
      /\ t.sets[q] <= r.sets[q] \/ t.sets[q] <= t.setsTaken[q]
  BY DEF Takes
<1>4. QED
  BY <1>1, <1>2, <1>3

(* What takes at most one takes at most two.                               *)
LEMMA TakesMoreOf ==
    ASSUME NEW s, NEW r, Typed(s), Typed(r), NEW p, Takes(s, r, p, 1)
    PROVE Takes(s, r, p, 2)
<1>1. \A q \in Programs : s.setsTaken[q] \in Nat /\ r.setsTaken[q] \in Nat
  BY DEF Typed
<1>2. QED
  BY <1>1 DEF Takes

(* A call that leaves the sets alone takes none.                           *)
LEMMA TakesNone ==
    ASSUME NEW s, NEW r, Typed(s), SameSets(s, r), NEW p, NEW n \in Nat
    PROVE Takes(s, r, p, n)
<1>1. \A q \in Programs : s.setsTaken[q] \in Nat /\ s.sets[q] \in Nat
  BY DEF Typed
<1>2. QED
  BY <1>1 DEF Takes, SameSets

(* The calls that only change the state that the next draw is made with.   *)
OnlyCurrent(s, r) ==
    /\ Shape(r)
    /\ r.old = s.old /\ r.needsUpdate = s.needsUpdate /\ r.setIndex = s.setIndex
    /\ r.setProgram = s.setProgram /\ r.topDescriptor = s.topDescriptor
    /\ r.descriptorWrites = s.descriptorWrites /\ r.setsTaken = s.setsTaken
    /\ r.uniformsTaken = s.uniformsTaken /\ r.sets = s.sets /\ r.contents = s.contents
    /\ r.pieces = s.pieces /\ r.pipelines = s.pipelines /\ r.empty = s.empty
    /\ r.buffer = s.buffer /\ r.pipe = s.pipe /\ r.set = s.set /\ r.want = s.want

(* The calls that bind attributes, switch the depth test or set the        *)
(* stencil change just the state that the next draw is made with, and keep *)
(* its program.                                                            *)
LEMMA CurrentIs ==
    ASSUME NEW s, Shape(s), s.current \in SubStates, NEW r,
           \/ \E a \in Attributes : r = BindVertexAttributes(s, a)
           \/ \E on \in BOOLEAN : r = EnableDepthTest(s, on)
           \/ \E mode \in Stencils : r = SetStencil(s, mode)
    PROVE OnlyCurrent(s, r) /\ r.current \in SubStates /\ r.current.program = s.current.program
<1>1. OnlyCurrent(s, r)
  BY DEF OnlyCurrent, Shape, BindVertexAttributes, EnableDepthTest, SetStencil
<1>2. \/ \E a \in Attributes : r.current = [s.current EXCEPT !.attributes = a]
      \/ \E on \in BOOLEAN : r.current = [s.current EXCEPT !.depth = on]
      \/ \E mode \in Stencils : r.current = [s.current EXCEPT !.stencil = mode]
  BY DEF Shape, BindVertexAttributes, EnableDepthTest, SetStencil
<1>3. QED
  BY <1>1, <1>2 DEF SubStates

Wrote(s, p, b, x, r) ==
    /\ Shape(r) /\ r.needsUpdate = TRUE
    /\ r.descriptorWrites = Put(s.descriptorWrites, b, x)
    /\ r.topDescriptor = Larger(s.topDescriptor, b)
    /\ r.setIndex = (IF s.needsUpdate THEN s.setIndex ELSE s.setsTaken[p])
    /\ r.setProgram = (IF s.needsUpdate THEN s.setProgram ELSE p)
    /\ r.setsTaken = (IF s.needsUpdate THEN s.setsTaken
                      ELSE [s.setsTaken EXCEPT ![p] = s.setsTaken[p] + 1])
    /\ r.sets = (IF s.needsUpdate THEN s.sets
                 ELSE [s.sets EXCEPT ![p] = Larger(s.sets[p], s.setsTaken[p] + 1)])
    /\ r.current = s.current /\ r.old = s.old /\ r.uniformsTaken = s.uniformsTaken
    /\ r.contents = s.contents /\ r.pieces = s.pieces /\ r.pipelines = s.pipelines
    /\ r.empty = s.empty /\ r.buffer = s.buffer /\ r.pipe = s.pipe /\ r.set = s.set
    /\ r.want = s.want

(* State::updateDescriptorWrites() begins a set if none is being filled,   *)
(* and writes to it.                                                       *)
LEMMA WritesIs ==
    ASSUME NEW s, Shape(s), Typed(s), NEW p \in Programs, p = s.current.program,
           NEW b \in Nat, NEW x, NEW r, r = UpdateDescriptorWrites(s, b, x)
    PROVE Wrote(s, p, b, x, r)
<1>1. PICK s1 : s1 = [s EXCEPT !.descriptorWrites = Put(@, b, x), !.topDescriptor = Larger(@, b)]
  OBVIOUS
<1>2. /\ Shape(s1)
      /\ s1.descriptorWrites = Put(s.descriptorWrites, b, x)
      /\ s1.topDescriptor = Larger(s.topDescriptor, b)
      /\ s1.needsUpdate = s.needsUpdate /\ s1.setIndex = s.setIndex
      /\ s1.setProgram = s.setProgram /\ s1.setsTaken = s.setsTaken /\ s1.sets = s.sets
      /\ s1.current = s.current /\ s1.old = s.old /\ s1.uniformsTaken = s.uniformsTaken
      /\ s1.contents = s.contents /\ s1.pieces = s.pieces /\ s1.pipelines = s.pipelines
      /\ s1.empty = s.empty /\ s1.buffer = s.buffer /\ s1.pipe = s.pipe /\ s1.set = s.set
      /\ s1.want = s.want
  BY <1>1 DEF Shape
<1>3. CASE s.needsUpdate
  <2>1. r = s1
    BY <1>1, <1>3 DEF UpdateDescriptorWrites
  <2>2. s.needsUpdate = TRUE
    BY <1>3 DEF Typed
  <2>3. QED
    BY <1>2, <1>3, <2>1, <2>2 DEF Wrote
<1>4. CASE ~s.needsUpdate
  <2>1. PICK s2 : s2 = [s1 EXCEPT !.sets[s1.current.program] = Larger(@, s.setsTaken[p] + 1)]
    OBVIOUS
  <2>2. r = [s2 EXCEPT !.setIndex = s.setsTaken[p], !.setProgram = p, !.needsUpdate = TRUE,
                       !.setsTaken[p] = @ + 1]
    BY <1>1, <1>4, <2>1 DEF UpdateDescriptorWrites, CreateDescriptorSet
  <2>3. /\ Shape(s2)
        /\ s2.sets = [s.sets EXCEPT ![p] = Larger(s.sets[p], s.setsTaken[p] + 1)]
        /\ s2.descriptorWrites = s1.descriptorWrites /\ s2.topDescriptor = s1.topDescriptor
        /\ s2.setsTaken = s.setsTaken
        /\ s2.current = s.current /\ s2.old = s.old /\ s2.uniformsTaken = s.uniformsTaken
        /\ s2.contents = s.contents /\ s2.pieces = s.pieces /\ s2.pipelines = s.pipelines
        /\ s2.empty = s.empty /\ s2.buffer = s.buffer /\ s2.pipe = s.pipe /\ s2.set = s.set
        /\ s2.want = s.want
    BY <1>2, <2>1 DEF Shape
  <2>4. /\ Shape(r) /\ r.needsUpdate = TRUE
        /\ r.setIndex = s.setsTaken[p] /\ r.setProgram = p
        /\ r.setsTaken = [s2.setsTaken EXCEPT ![p] = s2.setsTaken[p] + 1]
        /\ r.sets = s2.sets
        /\ r.descriptorWrites = s2.descriptorWrites /\ r.topDescriptor = s2.topDescriptor
        /\ r.current = s2.current /\ r.old = s2.old /\ r.uniformsTaken = s2.uniformsTaken
        /\ r.contents = s2.contents /\ r.pieces = s2.pieces /\ r.pipelines = s2.pipelines
        /\ r.empty = s2.empty /\ r.buffer = s2.buffer /\ r.pipe = s2.pipe /\ r.set = s2.set
        /\ r.want = s2.want
    BY <2>2, <2>3 DEF Shape
  <2>5. QED
    BY <1>2, <1>4, <2>3, <2>4 DEF Wrote
<1>5. QED
  BY <1>3, <1>4 DEF Typed

(* What a call that binds something leaves alone or only adds to.          *)
Binds(s, r) ==
    /\ Shape(r) /\ Typed(r)
    /\ r.buffer = s.buffer /\ r.contents = s.contents /\ r.pipelines = s.pipelines
    /\ r.empty = s.empty /\ r.old = s.old /\ r.pipe = s.pipe /\ r.set = s.set
    /\ \A q \in Programs : s.sets[q] <= r.sets[q] /\ s.setsTaken[q] <= r.setsTaken[q]
    /\ \A i \in Slots : i # F => r.pieces[i] = s.pieces[i]
    /\ On => \A x \in DOMAIN s.pieces[F] : /\ x \in DOMAIN r.pieces[F]
                                            /\ r.pieces[F][x] = s.pieces[F][x]
    /\ PiecesTaken(s) => PiecesTaken(r)
    /\ r.needsUpdate =>
         \/ s.needsUpdate /\ r.setProgram = s.setProgram /\ r.setIndex = s.setIndex
         \/ r.setProgram \in Programs /\ r.setIndex = s.setsTaken[r.setProgram]

(* What is shown, and what was drawn, stays so.                            *)
LEMMA GivesKept ==
    ASSUME NEW s, NEW r, Binds(s, r), NEW i \in Slots, i # F \/ On, NEW x, NEW v, Gives(s, i, x, v)
    PROVE Gives(r, i, x, v)
BY DEF Gives, Binds

(* A set that gave a draw what it wanted still does after something is     *)
(* bound.                                                                  *)
LEMMA SetGivesKept ==
    ASSUME NEW s, NEW r, Binds(s, r), NEW i \in Slots, i # F \/ On, NEW set, NEW want,
           SetGives(s, i, set, want)
    PROVE SetGives(r, i, set, want)
<1>1. r.contents = s.contents
  BY DEF Binds
<1>2. QED
  BY <1>1, GivesKept DEF SetGives

(* Binding something keeps all that holds of State: a set that is begun is *)
(* one that no draw of the buffer has.                                     *)
LEMMA BindsKeeps ==
    ASSUME NEW s, NEW r, Binds(s, r), StateOK(s), RecordingOK(s), F \in Slots \ pending,
           pending \subseteq Slots
    PROVE StateOK(r) /\ RecordingOK(r)
<1>1. PipesKnown(r)
  BY DEF Binds, StateOK, PipesKnown
<1>2. OldHasSet(r)
  <2>1. r.old = s.old
    BY DEF Binds
  <2>2. ASSUME s.old.program \in Programs
        PROVE r.sets[s.old.program] > 0
    <3>1. PICK q \in Programs : q = s.old.program
      BY <2>2
    <3>2. s.sets[q] > 0 /\ s.sets[q] <= r.sets[q] /\ s.sets[q] \in Nat /\ r.sets[q] \in Nat
      BY <3>1 DEF StateOK, OldHasSet, Binds, Typed
    <3>3. QED
      BY <3>1, <3>2
  <2>3. QED
    BY <2>1, <2>2 DEF OldHasSet
<1>3. ASSUME NEW i \in Slots
      PROVE StrayFirst(r, i)
  <2>1. r.buffer = s.buffer /\ StrayFirst(s, i)
    BY DEF Binds, StateOK
  <2>2. \A q \in Programs : s.sets[q] <= r.sets[q] /\ s.sets[q] \in Nat /\ r.sets[q] \in Nat
    BY DEF Binds, StateOK, Typed
  <2>3. SUFFICES ASSUME NEW k \in DOMAIN s.buffer[i], s.buffer[i][k].stray
                 PROVE s.buffer[i][k].set[2] < r.sets[s.buffer[i][k].state.program]
    BY <2>1 DEF StrayFirst
  <2>4. PICK q \in Programs : q = s.buffer[i][k].state.program
    BY <2>1, <2>3 DEF StrayFirst
  <2>5. s.buffer[i][k].set[2] \in Nat /\ s.buffer[i][k].set[2] < s.sets[q]
    BY <2>1, <2>3, <2>4 DEF StrayFirst
  <2>6. QED
    BY <2>2, <2>4, <2>5
<1>4. ASSUME NEW i \in Slots, PipedIn(s, i)
      PROVE PipedIn(r, i)
  BY <1>4 DEF PipedIn, Piped, Binds
<1>5. ASSUME NEW i \in Slots, i # F \/ On, DrawnRight(s, i)
      PROVE DrawnRight(r, i)
  <2>1. r.buffer = s.buffer
    BY DEF Binds
  <2>2. QED
    BY <1>5, <2>1, SetGivesKept DEF DrawnRight
<1>6. StateOK(r)
  BY <1>1, <1>2, <1>3, <1>4, <1>5 DEF StateOK, Binds
<1>7. ASSUME On
      PROVE SetsApart(r) /\ PiecesTaken(r) /\ PipeBound(r)
  <2>1. SetsApart(s) /\ DrawnRight(s, F) /\ PiecesTaken(s) /\ PipeBound(s)
    BY <1>7 DEF RecordingOK
  <2>2. PiecesTaken(r) /\ PipeBound(r)
    BY <2>1 DEF Binds, PipeBound
  <2>3. ASSUME NEW k \in DOMAIN s.buffer[F], ~s.buffer[F][k].stray
        PROVE LET d == s.buffer[F][k]
              IN /\ d.set[2] < r.setsTaken[d.set[1]]
                 /\ r.needsUpdate => d.set # <<r.setProgram, r.setIndex>>
    <3>1. PICK d : d = s.buffer[F][k]
      OBVIOUS
    <3>2. d.set[1] \in Programs /\ d.set[2] \in Nat /\ d.set = <<d.set[1], d.set[2]>>
      BY <2>1, <2>3, <3>1 DEF DrawnRight, SetGives
    <3>3. /\ d.set[2] < s.setsTaken[d.set[1]]
          /\ s.needsUpdate => d.set # <<s.setProgram, s.setIndex>>
      BY <2>1, <2>3, <3>1 DEF SetsApart
    <3>4. /\ s.setsTaken[d.set[1]] <= r.setsTaken[d.set[1]]
          /\ s.setsTaken[d.set[1]] \in Nat /\ r.setsTaken[d.set[1]] \in Nat
      BY <3>2 DEF Binds, StateOK, Typed
    <3>5. d.set[2] < r.setsTaken[d.set[1]]
      BY <3>2, <3>3, <3>4
    <3>6. ASSUME r.needsUpdate
          PROVE d.set # <<r.setProgram, r.setIndex>>
      <4>1. CASE s.needsUpdate /\ r.setProgram = s.setProgram /\ r.setIndex = s.setIndex
        BY <3>3, <4>1
      <4>2. CASE r.setProgram \in Programs /\ r.setIndex = s.setsTaken[r.setProgram]
        <5>1. SUFFICES ASSUME d.set = <<r.setProgram, r.setIndex>>
                       PROVE FALSE
          OBVIOUS
        <5>2. d.set[1] = r.setProgram /\ d.set[2] = r.setIndex
          BY <5>1
        <5>3. d.set[2] = s.setsTaken[d.set[1]]
          BY <4>2, <5>2
        <5>4. QED
          BY <3>2, <3>3, <3>4, <5>3
      <4>3. QED
        BY <3>6, <4>1, <4>2 DEF Binds
    <3>7. QED
      BY <3>1, <3>5, <3>6
  <2>4. SetsApart(r)
    BY <2>3 DEF SetsApart, Binds
  <2>5. QED
    BY <2>2, <2>4
<1>8. RecordingOK(r)
  BY <1>4, <1>5, <1>7 DEF RecordingOK, Binds
<1>9. QED
  BY <1>6, <1>8

-----------------------------------------------------------------------------
(* Binding, for the next draw.                                             *)

(* The bindings that the shaders of a program can declare.                 *)
LEMMA LayoutIs ==
    ASSUME NEW p \in Programs
    PROVE /\ UniformBindings[p] \subseteq Layout(p) /\ Layout(p) \subseteq {0, 1, 2}
          /\ 0 \in UniformBindings[p] /\ TextureBinding[p] \in {1, 2}
          /\ p \notin {"line", "box"} => TextureBinding[p] \in Layout(p)
BY DEF Layout, UniformBindings, TextureBinding, Programs

(* The first thing an object does.  It finds no set begun, or the one that *)
(* the chunks have left.                                                   *)
LEMMA BeginsObject ==
    ASSUME NEW s, StateOK(s), RecordingOK(s), F \in Slots \ pending, pending \subseteq Slots,
           NEW p \in Programs, LeftOver(s), p = "tile" => Begun(s),
           NEW r, r = BindProgram(s, p)
    PROVE /\ StateOK(r) /\ RecordingOK(r) /\ BoundBy(r, p, {})
          /\ r.setsTaken = s.setsTaken /\ r.buffer = s.buffer /\ r.sets = s.sets
          /\ ~s.needsUpdate => ~r.needsUpdate
<1>1. Shape(s) /\ Typed(s)
  BY DEF StateOK
<1>2. BoundProgram(s, p, r)
  BY <1>1, BindProgramIs
<1>3. r.current \in SubStates /\ r.current.program = p
  BY <1>1, <1>2 DEF BoundProgram, Typed, SubStates
<1>4. r.needsUpdate \in BOOLEAN /\ r.topDescriptor \in Nat
  <2>1. s.needsUpdate \in BOOLEAN /\ s.topDescriptor \in Nat
    BY <1>1 DEF Typed
  <2>2. CASE s.old.program = p
    <3>1. r.needsUpdate = s.needsUpdate /\ r.topDescriptor = s.topDescriptor
      BY <1>2, <2>2 DEF BoundProgram
    <3>2. QED
      BY <2>1, <3>1
  <2>3. CASE s.old.program # p
    <3>1. r.needsUpdate = FALSE
      BY <1>2, <2>3 DEF BoundProgram
    <3>2. r.topDescriptor = 0
      BY <1>2, <2>3 DEF BoundProgram
    <3>3. r.needsUpdate \in BOOLEAN
      BY <3>1, Zenon
    <3>4. QED
      BY <3>2, <3>3
  <2>4. QED
    BY <2>2, <2>3
<1>5. Typed(r)
  <2>1. /\ r.contents = s.contents /\ r.buffer = s.buffer /\ r.old = s.old
        /\ r.pieces = s.pieces /\ r.uniformsTaken = s.uniformsTaken
        /\ r.setIndex = s.setIndex /\ r.setsTaken = s.setsTaken /\ r.sets = s.sets
    BY <1>2 DEF BoundProgram
  <2>2. /\ r.pieces = [i \in Slots |-> r.pieces[i]] /\ r.setIndex \in Nat
        /\ r.setsTaken \in [Programs -> Nat] /\ r.sets \in [Programs -> Nat]
        /\ r.uniformsTaken = [q \in Programs |-> r.uniformsTaken[q]]
        /\ \A q \in Programs : r.uniformsTaken[q] \in [UniformBindings[q] -> Nat]
    BY <1>1, <2>1 DEF Typed
  <2>3. QED
    BY <1>1, <1>3, <1>4, <2>1, <2>2, TypedKept
<1>6. Binds(s, r)
  <2>1. \A q \in Programs : s.sets[q] <= r.sets[q] /\ s.setsTaken[q] <= r.setsTaken[q]
    BY <1>1, <1>2 DEF BoundProgram, Typed
  <2>2. PiecesTaken(s) => PiecesTaken(r)
    BY <1>2 DEF BoundProgram, PiecesTaken
  <2>3. r.needsUpdate => s.needsUpdate
    BY <1>2 DEF BoundProgram
  <2>4. QED
    BY <1>2, <1>5, <2>1, <2>2, <2>3 DEF Binds, BoundProgram
<1>7. ASSUME On, r.needsUpdate
      PROVE Strays(r, p)
  <2>1. s.needsUpdate /\ s.old.program = p
    BY <1>2, <1>7 DEF BoundProgram
  <2>2. p # "tile"
    BY <1>7, <2>1 DEF Begun
  <2>3. QED
    BY <1>2, <1>7, <2>1, <2>2 DEF LeftOver, Strays, BoundProgram
<1>8. r.want = [b \in {} |-> r.want[b]]
  BY <1>2 DEF BoundProgram
<1>9. BoundBy(r, p, {})
  BY <1>3, <1>7, <1>8 DEF BoundBy
<1>10. QED
  BY <1>2, <1>6, <1>9, BindsKeeps DEF BoundProgram

(* A uniform or a texture bound to b: what is written there is x, what it  *)
(* shows is v.                                                             *)
BoundTo(s, p, b, x, v, r) ==
    /\ r.descriptorWrites = Put(s.descriptorWrites, b, x) /\ r.want = Put(s.want, b, v)
    /\ r.topDescriptor = Larger(s.topDescriptor, b)
    /\ r.current = s.current /\ r.needsUpdate = TRUE
    /\ r.setIndex = (IF s.needsUpdate THEN s.setIndex ELSE s.setsTaken[p])
    /\ r.setProgram = (IF s.needsUpdate THEN s.setProgram ELSE p)
    /\ r.setsTaken = (IF s.needsUpdate THEN s.setsTaken
                      ELSE [s.setsTaken EXCEPT ![p] = s.setsTaken[p] + 1])
    /\ r.sets = (IF s.needsUpdate THEN s.sets
                 ELSE [s.sets EXCEPT ![p] = Larger(s.sets[p], s.setsTaken[p] + 1)])

(* Binding one thing more: the next draw wants it and what was bound       *)
(* before, and the set that is being filled shows it.                      *)
LEMMA BindsOne ==
    ASSUME NEW s, NEW r, Binds(s, r), Typed(s), NEW p, NEW D, BoundBy(s, p, D), NEW b \in Layout(p),
           NEW x, NEW v, On => Gives(r, F, x, v), F \in Slots, BoundTo(s, p, b, x, v, r)
    PROVE BoundBy(r, p, D \cup {b})
<1>1. /\ s.current.program = p /\ p \in Programs /\ D \subseteq Layout(p)
      /\ Layout(p) \subseteq {0, 1, 2} /\ b \in Nat
  BY LayoutIs DEF BoundBy
<1>2. ASSUME On
      PROVE Fresh(r, p) \/ Strays(r, p)
  <2>1. CASE s.needsUpdate
    <3>1. Fresh(s, p) \/ Strays(s, p)
      BY <1>2, <2>1 DEF BoundBy
    <3>2. QED
      BY <2>1, <3>1 DEF Fresh, Strays, Binds, BoundTo
  <2>2. CASE ~s.needsUpdate
    <3>1. /\ r.setsTaken[p] = s.setsTaken[p] + 1 /\ r.setIndex = s.setsTaken[p]
          /\ r.setProgram = p /\ r.sets[p] = Larger(s.sets[p], s.setsTaken[p] + 1)
          /\ s.setsTaken[p] \in Nat /\ s.sets[p] \in Nat
      BY <1>1, <2>2 DEF Typed, BoundTo
    <3>2. Fresh(r, p)
      BY <3>1 DEF Fresh, Larger
    <3>3. QED
      BY <3>2
  <2>3. QED
    BY <2>1, <2>2
<1>3. r.want = Put(s.want, b, v) /\ r.descriptorWrites = Put(s.descriptorWrites, b, x)
  BY DEF BoundTo
<1>4. ASSUME On
      PROVE r.want = [c \in D \cup {b} |-> r.want[c]]
  <2>1. s.want = [c \in D |-> s.want[c]]
    BY <1>4 DEF BoundBy
  <2>2. DOMAIN s.want = D
    BY <2>1
  <2>3. QED
    BY <1>3, <2>2 DEF Put
<1>5. ASSUME On, NEW c \in D \cup {b}
      PROVE /\ c \in DOMAIN r.descriptorWrites /\ c <= r.topDescriptor
            /\ Gives(r, F, r.descriptorWrites[c], r.want[c])
  <2>1. s.topDescriptor \in Nat /\ s.topDescriptor <= r.topDescriptor /\ b <= r.topDescriptor
        /\ r.topDescriptor \in Nat
    BY <1>1 DEF Typed, Larger, BoundTo
  <2>2. CASE c = b
    <3>1. r.descriptorWrites[c] = x /\ r.want[c] = v /\ c \in DOMAIN r.descriptorWrites
      BY <1>3, <2>2 DEF Put
    <3>2. QED
      BY <1>5, <2>1, <2>2, <3>1
  <2>3. CASE c # b
    <3>1. /\ c \in D /\ c \in DOMAIN s.descriptorWrites /\ c <= s.topDescriptor
          /\ Gives(s, F, s.descriptorWrites[c], s.want[c]) /\ c \in DOMAIN s.want
      <4>1. s.want = [k \in D |-> s.want[k]]
        BY <1>5 DEF BoundBy
      <4>2. QED
        BY <1>5, <2>3, <4>1 DEF BoundBy
    <3>2. /\ c \in DOMAIN r.descriptorWrites
          /\ r.descriptorWrites[c] = s.descriptorWrites[c] /\ r.want[c] = s.want[c]
      BY <1>3, <2>3, <3>1 DEF Put
    <3>3. c \in Nat
      BY <1>1, <3>1
    <3>4. c <= r.topDescriptor
      BY <2>1, <3>1, <3>3
    <3>5. QED
      BY <1>5, <3>1, <3>2, <3>4, GivesKept
  <2>4. QED
    BY <2>2, <2>3
<1>6. r.current.program = p
  BY <1>1 DEF BoundTo
<1>7. QED
  BY <1>1, <1>2, <1>4, <1>5, <1>6 DEF BoundBy

(* What binding leaves to the next call.                                   *)
Bound(s, p, D, b, r) ==
    /\ StateOK(r) /\ RecordingOK(r) /\ BoundBy(r, p, D \cup {b})
    /\ r.needsUpdate = TRUE /\ r.buffer = s.buffer /\ r.old = s.old
    /\ r.setIndex = (IF s.needsUpdate THEN s.setIndex ELSE s.setsTaken[p])
    /\ r.setsTaken = (IF s.needsUpdate THEN s.setsTaken
                      ELSE [s.setsTaken EXCEPT ![p] = s.setsTaken[p] + 1])
    /\ r.sets = (IF s.needsUpdate THEN s.sets
                 ELSE [s.sets EXCEPT ![p] = Larger(s.sets[p], s.setsTaken[p] + 1)])

(* An object takes a set with the first thing that it binds.               *)
LEMMA TakesOne ==
    ASSUME NEW s, Typed(s), NEW r, Typed(r), NEW s1, NEW s2,
           SameSets(s, s1), NEW p \in Programs, NEW D, NEW b, Bound(s1, p, D, b, s2),
           SameSets(s2, r)
    PROVE Takes(s, r, p, 1)
<1>1. /\ s1.setsTaken = s.setsTaken /\ s1.sets = s.sets
      /\ r.setsTaken = s2.setsTaken /\ r.sets = s2.sets
  BY DEF SameSets
<1>2. \A q \in Programs : s.setsTaken[q] \in Nat /\ s.sets[q] \in Nat
  BY DEF Typed
<1>3. CASE s1.needsUpdate
  <2>1. r.setsTaken = s.setsTaken /\ r.sets = s.sets
    BY <1>1, <1>3 DEF Bound
  <2>2. QED
    BY <2>1, TakesNone DEF SameSets
<1>4. CASE ~s1.needsUpdate
  <2>1. /\ r.setsTaken = [s.setsTaken EXCEPT ![p] = s.setsTaken[p] + 1]
        /\ r.sets = [s.sets EXCEPT ![p] = Larger(s.sets[p], s.setsTaken[p] + 1)]
    BY <1>1, <1>4 DEF Bound
  <2>2. \A q \in Programs :
            /\ r.setsTaken[q] = IF q = p THEN s.setsTaken[p] + 1 ELSE s.setsTaken[q]
            /\ r.sets[q] = IF q = p THEN Larger(s.sets[p], s.setsTaken[p] + 1) ELSE s.sets[q]
    BY <2>1 DEF Typed
  <2>3. QED
    BY <1>2, <2>2 DEF Takes, Larger
<1>5. QED
  BY <1>3, <1>4

(* Binding a uniform takes a piece that no draw of the buffer reads.       *)
LEMMA UniformBound ==
    ASSUME NEW s, StateOK(s), RecordingOK(s), F \in Slots \ pending, pending \subseteq Slots,
           NEW p, NEW D, BoundBy(s, p, D), NEW b \in UniformBindings[p]
    PROVE Bound(s, p, D, b, BindUniform(s, b))
<1>1. Shape(s) /\ Typed(s) /\ s.current.program = p /\ p \in Programs
  BY DEF StateOK, BoundBy
<1>2. b \in Layout(p) /\ b \in Nat
  BY <1>1, LayoutIs
<1>3. PICK n \in Nat : n = s.uniformsTaken[p][b]
  BY <1>1 DEF Typed
<1>4. PICK x : x = <<p, b, n>>
  OBVIOUS
<1>5. PICK v : v = <<turn, s.stamp>>
  OBVIOUS
<1>6. PICK s1 : s1 = [s EXCEPT !.pieces[framePingPong] = Put(@, x, v),
                               !.want = Put(@, b, v), !.stamp = @ + 1]
  OBVIOUS
<1>7. /\ Shape(s1)
      /\ s1.pieces = [s.pieces EXCEPT ![F] = Put(s.pieces[F], x, v)]
      /\ s1.want = Put(s.want, b, v)
      /\ s1.needsUpdate = s.needsUpdate /\ s1.setIndex = s.setIndex
      /\ s1.setProgram = s.setProgram /\ s1.setsTaken = s.setsTaken /\ s1.sets = s.sets
      /\ s1.current = s.current /\ s1.old = s.old /\ s1.uniformsTaken = s.uniformsTaken
      /\ s1.contents = s.contents /\ s1.pipelines = s.pipelines
      /\ s1.empty = s.empty /\ s1.buffer = s.buffer /\ s1.pipe = s.pipe /\ s1.set = s.set
      /\ s1.descriptorWrites = s.descriptorWrites /\ s1.topDescriptor = s.topDescriptor
  BY <1>1, <1>6 DEF Shape, F
<1>8. s1.pieces = [i \in Slots |-> s1.pieces[i]]
  BY <1>1, <1>7 DEF Typed
<1>9. Typed(s1) /\ p = s1.current.program
  BY <1>1, <1>7, <1>8 DEF Typed
<1>10. PICK s2 : s2 = UpdateDescriptorWrites(s1, b, x)
  OBVIOUS
<1>11. PICK r : r = [s2 EXCEPT !.uniformsTaken[p][b] = @ + 1]
  OBVIOUS
<1>12. r = BindUniform(s, b)
  BY <1>1, <1>3, <1>4, <1>5, <1>6, <1>10, <1>11 DEF BindUniform
<1>13. Wrote(s1, p, b, x, s2)
  BY <1>1, <1>2, <1>7, <1>9, <1>10, WritesIs
<1>14. s2.uniformsTaken = s.uniformsTaken /\ s2.pieces = s1.pieces
  BY <1>7, <1>13 DEF Wrote
<1>15. /\ Shape(r) /\ r.needsUpdate = s2.needsUpdate
       /\ r.uniformsTaken = [s2.uniformsTaken EXCEPT ![p][b] = s2.uniformsTaken[p][b] + 1]
       /\ r.descriptorWrites = s2.descriptorWrites /\ r.topDescriptor = s2.topDescriptor
       /\ r.setIndex = s2.setIndex /\ r.setProgram = s2.setProgram
       /\ r.setsTaken = s2.setsTaken /\ r.sets = s2.sets
       /\ r.current = s2.current /\ r.old = s2.old
       /\ r.contents = s2.contents /\ r.pieces = s2.pieces /\ r.pipelines = s2.pipelines
       /\ r.empty = s2.empty /\ r.buffer = s2.buffer /\ r.pipe = s2.pipe /\ r.set = s2.set
       /\ r.want = s2.want
  <2>1. Shape(s2)
    BY <1>13 DEF Wrote
  <2>2. QED
    BY <1>11, <2>1 DEF Shape
<1>16. BoundTo(s, p, b, x, v, r)
  BY <1>7, <1>13, <1>15 DEF Wrote, BoundTo
<1>17. /\ r.contents = s.contents /\ r.pieces = s1.pieces /\ r.pipelines = s.pipelines
       /\ r.empty = s.empty /\ r.buffer = s.buffer /\ r.pipe = s.pipe /\ r.set = s.set
       /\ r.old = s.old
  BY <1>7, <1>13, <1>15 DEF Wrote
<1>18. r.uniformsTaken = [s.uniformsTaken EXCEPT ![p] = [s.uniformsTaken[p] EXCEPT ![b] = n + 1]]
  BY <1>3, <1>14, <1>15
<1>19. /\ r.uniformsTaken = [q \in Programs |-> r.uniformsTaken[q]]
       /\ \A q \in Programs : r.uniformsTaken[q] =
            IF q = p THEN [s.uniformsTaken[p] EXCEPT ![b] = n + 1] ELSE s.uniformsTaken[q]
  BY <1>1, <1>18 DEF Typed
<1>20. /\ \A q \in Programs : r.uniformsTaken[q] \in [UniformBindings[q] -> Nat]
       /\ \A q \in Programs : \A c \in UniformBindings[q] :
            r.uniformsTaken[q][c] = IF q = p /\ c = b THEN n + 1 ELSE s.uniformsTaken[q][c]
  BY <1>1, <1>3, <1>19 DEF Typed
<1>21. /\ r.setsTaken \in [Programs -> Nat] /\ r.sets \in [Programs -> Nat]
       /\ r.setIndex \in Nat /\ r.topDescriptor \in Nat
       /\ \A q \in Programs : s.sets[q] <= r.sets[q] /\ s.setsTaken[q] <= r.setsTaken[q]
  BY <1>1, <1>2, <1>16 DEF Typed, Larger, BoundTo
<1>22. Typed(r)
  <2>1. r.current \in SubStates /\ r.needsUpdate \in BOOLEAN
    BY <1>1, <1>16 DEF Typed, BoundTo
  <2>2. /\ r.pieces = [i \in Slots |-> r.pieces[i]]
        /\ r.uniformsTaken = [q \in Programs |-> r.uniformsTaken[q]]
        /\ \A q \in Programs : r.uniformsTaken[q] \in [UniformBindings[q] -> Nat]
    BY <1>8, <1>17, <1>19, <1>20
  <2>3. QED
    BY <1>1, <1>17, <1>21, <2>1, <2>2, TypedKept
<1>23. DOMAIN r.pieces[F] = DOMAIN s.pieces[F] \cup {x}
  <2>1. r.pieces[F] = Put(s.pieces[F], x, v)
    BY <1>1, <1>7, <1>17 DEF Typed
  <2>2. QED
    BY <2>1 DEF Put
<1>24. ASSUME PiecesTaken(s)
       PROVE PiecesTaken(r)
  <2>1. SUFFICES ASSUME NEW q \in Programs, NEW c \in UniformBindings[q], NEW m \in Nat,
                        <<q, c, m>> \in DOMAIN r.pieces[F]
                 PROVE m < r.uniformsTaken[q][c]
    BY DEF PiecesTaken
  <2>2. s.uniformsTaken[q][c] \in Nat
    BY <1>1 DEF Typed
  <2>3. CASE <<q, c, m>> = x
    BY <1>3, <1>4, <1>20, <2>3
  <2>4. CASE <<q, c, m>> \in DOMAIN s.pieces[F]
    <3>1. m < s.uniformsTaken[q][c]
      BY <1>24, <2>4 DEF PiecesTaken
    <3>2. QED
      BY <1>3, <1>20, <2>2, <3>1
  <2>5. QED
    BY <1>23, <2>1, <2>3, <2>4
<1>25. ASSUME On
       PROVE /\ \A y \in DOMAIN s.pieces[F] : /\ y \in DOMAIN r.pieces[F]
                                              /\ r.pieces[F][y] = s.pieces[F][y]
             /\ Gives(r, F, x, v)
  <2>1. PiecesTaken(s)
    BY <1>25 DEF RecordingOK
  <2>2. x \notin DOMAIN s.pieces[F]
    <3>1. SUFFICES ASSUME <<p, b, n>> \in DOMAIN s.pieces[F]
                   PROVE FALSE
      BY <1>4
    <3>2. n < s.uniformsTaken[p][b]
      BY <1>1, <2>1, <3>1 DEF PiecesTaken
    <3>3. QED
      BY <1>3, <3>2
  <2>3. r.pieces[F] = Put(s.pieces[F], x, v)
    BY <1>1, <1>7, <1>17 DEF Typed
  <2>4. /\ \A y \in DOMAIN s.pieces[F] : y \in DOMAIN r.pieces[F] /\ r.pieces[F][y] = s.pieces[F][y]
        /\ x \in DOMAIN r.pieces[F] /\ r.pieces[F][x] = v
    BY <2>2, <2>3 DEF Put
  <2>5. Len(x) = 3
    BY <1>4
  <2>6. QED
    BY <2>4, <2>5 DEF Gives
<1>26. \A i \in Slots : i # F => r.pieces[i] = s.pieces[i]
  BY <1>1, <1>7, <1>17 DEF Typed
<1>27. r.needsUpdate =>
         \/ s.needsUpdate /\ r.setProgram = s.setProgram /\ r.setIndex = s.setIndex
         \/ r.setProgram \in Programs /\ r.setIndex = s.setsTaken[r.setProgram]
  BY <1>1, <1>16 DEF BoundTo
<1>28. Binds(s, r)
  BY <1>15, <1>17, <1>21, <1>22, <1>24, <1>25, <1>26, <1>27 DEF Binds
<1>29. StateOK(r) /\ RecordingOK(r)
  BY <1>28, BindsKeeps
<1>30. BoundBy(r, p, D \cup {b})
  BY <1>1, <1>2, <1>16, <1>25, <1>28, BindsOne
<1>31. QED
  BY <1>12, <1>16, <1>17, <1>29, <1>30 DEF Bound, BoundTo

(* Binding a texture; the image of the document only when it is loaded.    *)
LEMMA TextureBound ==
    ASSUME NEW s, StateOK(s), RecordingOK(s), F \in Slots \ pending, pending \subseteq Slots,
           NEW p, NEW D, BoundBy(s, p, D), p \notin {"line", "box"},
           NEW t, t = "picture" => picture # "none"
    PROVE Bound(s, p, D, TextureBinding[p], BindTexture(s, t))
<1> DEFINE b == TextureBinding[p]
<1>1. Shape(s) /\ Typed(s) /\ s.current.program = p /\ p \in Programs
  BY DEF StateOK, BoundBy
<1>2. b \in Layout(p) /\ b \in Nat
  BY <1>1, LayoutIs
<1>3. PICK x : x = <<t>>
  OBVIOUS
<1>4. PICK s1 : s1 = [s EXCEPT !.want = Put(@, b, x)]
  OBVIOUS
<1>5. /\ Shape(s1) /\ s1.pieces = s.pieces
      /\ s1.want = Put(s.want, b, x)
      /\ s1.needsUpdate = s.needsUpdate /\ s1.setIndex = s.setIndex
      /\ s1.setProgram = s.setProgram /\ s1.setsTaken = s.setsTaken /\ s1.sets = s.sets
      /\ s1.current = s.current /\ s1.old = s.old /\ s1.uniformsTaken = s.uniformsTaken
      /\ s1.contents = s.contents /\ s1.pipelines = s.pipelines
      /\ s1.empty = s.empty /\ s1.buffer = s.buffer /\ s1.pipe = s.pipe /\ s1.set = s.set
      /\ s1.descriptorWrites = s.descriptorWrites /\ s1.topDescriptor = s.topDescriptor
  BY <1>1, <1>4 DEF Shape
<1>6. Typed(s1) /\ p = s1.current.program
  BY <1>1, <1>5 DEF Typed
<1>7. PICK r : r = UpdateDescriptorWrites(s1, b, x)
  OBVIOUS
<1>8. r = BindTexture(s, t)
  BY <1>1, <1>3, <1>4, <1>7 DEF BindTexture
<1> HIDE DEF b
<1>9. Wrote(s1, p, b, x, r)
  BY <1>1, <1>2, <1>5, <1>6, <1>7, WritesIs
<1>10. BoundTo(s, p, b, x, x, r)
  BY <1>5, <1>9 DEF Wrote, BoundTo
<1>11. /\ Shape(r) /\ r.contents = s.contents /\ r.pieces = s.pieces /\ r.pipelines = s.pipelines
       /\ r.empty = s.empty /\ r.buffer = s.buffer /\ r.pipe = s.pipe /\ r.set = s.set
       /\ r.old = s.old /\ r.uniformsTaken = s.uniformsTaken
  BY <1>5, <1>9 DEF Wrote
<1>12. /\ r.setsTaken \in [Programs -> Nat] /\ r.sets \in [Programs -> Nat]
       /\ r.setIndex \in Nat /\ r.topDescriptor \in Nat
       /\ \A q \in Programs : s.sets[q] <= r.sets[q] /\ s.setsTaken[q] <= r.setsTaken[q]
  BY <1>1, <1>2, <1>10 DEF Typed, Larger, BoundTo
<1>13. Typed(r)
  <2>1. r.current \in SubStates /\ r.needsUpdate \in BOOLEAN
    BY <1>1, <1>10 DEF Typed, BoundTo
  <2>2. /\ r.pieces = [i \in Slots |-> r.pieces[i]]
        /\ r.uniformsTaken = [q \in Programs |-> r.uniformsTaken[q]]
        /\ \A q \in Programs : r.uniformsTaken[q] \in [UniformBindings[q] -> Nat]
    BY <1>1, <1>11 DEF Typed
  <2>3. QED
    BY <1>1, <1>11, <1>12, <2>1, <2>2, TypedKept
<1>14. PiecesTaken(s) => PiecesTaken(r)
  BY <1>11 DEF PiecesTaken
<1>15. r.needsUpdate =>
         \/ s.needsUpdate /\ r.setProgram = s.setProgram /\ r.setIndex = s.setIndex
         \/ r.setProgram \in Programs /\ r.setIndex = s.setsTaken[r.setProgram]
  BY <1>1, <1>10 DEF BoundTo
<1>16. Binds(s, r)
  BY <1>11, <1>12, <1>13, <1>14, <1>15 DEF Binds
<1>17. StateOK(r) /\ RecordingOK(r)
  BY <1>16, BindsKeeps
<1>18. Gives(r, F, x, x)
  <2>1. Len(x) # 3
    BY <1>3
  <2>2. x = <<"picture">> => t = "picture"
    BY <1>3
  <2>3. QED
    BY <2>1, <2>2 DEF Gives, Shown
<1>19. BoundBy(r, p, D \cup {b})
  BY <1>1, <1>2, <1>10, <1>16, <1>18, BindsOne
<1>20. QED
  BY <1>8, <1>10, <1>11, <1>17, <1>19 DEF Bound, BoundTo, b

-----------------------------------------------------------------------------
(* Drawing.                                                                *)

(* What the set that is filled holds when it has been written.             *)
Written(s, set) ==
    LET written == DOMAIN s.descriptorWrites \cap 0..s.topDescriptor
        before == s.contents[F]
        kept == IF set \in DOMAIN before THEN DOMAIN before[set] ELSE {}
    IN [b \in written \cup kept |->
           IF b \in written THEN s.descriptorWrites[b] ELSE before[set][b]]

BoundPipeline(s, set, r) ==
    /\ Shape(r) /\ r.current = s.current /\ r.old = s.current /\ r.needsUpdate = FALSE
    /\ r.pipelines = (IF s.current = s.old \/ s.current \in s.empty THEN s.pipelines
                      ELSE s.pipelines \cup {s.current})
    /\ r.pipe = (IF s.current = s.old THEN s.pipe
                 ELSE IF s.current \in s.empty THEN NoPipeline ELSE s.current)
    /\ r.empty = (IF s.needsUpdate /\ s.current \notin r.pipelines
                  THEN s.empty \cup {s.current} ELSE s.empty)
    /\ r.set = (IF s.needsUpdate THEN set ELSE s.set)
    /\ r.contents = (IF s.needsUpdate
                     THEN [s.contents EXCEPT ![F] = Put(s.contents[F], set, Written(s, set))]
                     ELSE s.contents)
    /\ r.setIndex = s.setIndex /\ r.setProgram = s.setProgram
    /\ r.topDescriptor = s.topDescriptor /\ r.descriptorWrites = s.descriptorWrites
    /\ r.setsTaken = s.setsTaken /\ r.uniformsTaken = s.uniformsTaken /\ r.sets = s.sets
    /\ r.pieces = s.pieces /\ r.want = s.want

(* State::bindPipeline() binds the pipeline, writes the set that was       *)
(* filled, and leaves an empty entry only for a state that has no          *)
(* pipeline.                                                               *)
LEMMA BindPipelineIs ==
    ASSUME NEW s, Shape(s), Typed(s), NEW set, set = <<s.current.program, s.setIndex>>,
           NEW r, r = BindPipeline(s)
    PROVE BoundPipeline(s, set, r) /\ r.buffer = s.buffer
<1>1. PICK s1 : s1 = IF s.current = s.old THEN s
              ELSE [s EXCEPT !.pipelines = IF s.current \in s.pipelines \cup s.empty THEN @
                                           ELSE @ \cup {s.current},
                             !.pipe = IF s.current \in s.empty THEN NoPipeline ELSE s.current,
                             !.old = s.current]
  OBVIOUS
<1>2. /\ Shape(s1) /\ s1.current = s.current /\ s1.old = s.current
      /\ s1.pipe = (IF s.current = s.old THEN s.pipe
                    ELSE IF s.current \in s.empty THEN NoPipeline ELSE s.current)
      /\ s1.needsUpdate = s.needsUpdate /\ s1.empty = s.empty /\ s1.set = s.set
      /\ s1.contents = s.contents
      /\ s1.setIndex = s.setIndex /\ s1.setProgram = s.setProgram
      /\ s1.topDescriptor = s.topDescriptor /\ s1.descriptorWrites = s.descriptorWrites
      /\ s1.setsTaken = s.setsTaken /\ s1.uniformsTaken = s.uniformsTaken /\ s1.sets = s.sets
      /\ s1.pieces = s.pieces /\ s1.want = s.want /\ s1.buffer = s.buffer
  BY <1>1 DEF Shape
<1>3. s1.pipelines = (IF s.current = s.old \/ s.current \in s.empty THEN s.pipelines
                      ELSE s.pipelines \cup {s.current})
  BY <1>1 DEF Shape
<1>4. CASE ~s.needsUpdate
  <2>1. r = s1
    BY <1>1, <1>4 DEF BindPipeline
  <2>2. s.needsUpdate = FALSE
    BY <1>4 DEF Typed
  <2>3. QED
    BY <1>2, <1>3, <1>4, <2>1, <2>2 DEF BoundPipeline
<1>5. CASE s.needsUpdate
  <2>1. PICK content : content = Written(s, set)
    OBVIOUS
  <2>2. r = [s1 EXCEPT !.contents[framePingPong] = Put(@, set, content),
                       !.set = set,
                       !.empty = IF s.current \in s1.pipelines THEN @ ELSE @ \cup {s.current},
                       !.needsUpdate = FALSE]
    BY <1>1, <1>5, <2>1 DEF BindPipeline, Written, F
  <2>3. /\ Shape(r)
        /\ r.contents = [s1.contents EXCEPT ![F] = Put(s1.contents[F], set, content)]
        /\ r.set = set /\ r.needsUpdate = FALSE
        /\ r.empty = (IF s.current \in s1.pipelines THEN s1.empty ELSE s1.empty \cup {s.current})
        /\ r.current = s1.current /\ r.old = s1.old /\ r.pipelines = s1.pipelines
        /\ r.pipe = s1.pipe
        /\ r.setIndex = s1.setIndex /\ r.setProgram = s1.setProgram
        /\ r.topDescriptor = s1.topDescriptor /\ r.descriptorWrites = s1.descriptorWrites
        /\ r.setsTaken = s1.setsTaken /\ r.uniformsTaken = s1.uniformsTaken /\ r.sets = s1.sets
        /\ r.pieces = s1.pieces /\ r.want = s1.want /\ r.buffer = s1.buffer
    <3>1. PICK e : e = IF s.current \in s1.pipelines THEN s1.empty
                       ELSE s1.empty \cup {s.current}
      OBVIOUS
    <3>2. PICK c : c = [s1.contents EXCEPT ![F] = Put(s1.contents[F], set, content)]
      OBVIOUS
    <3>3. r = [s1 EXCEPT !.contents = c, !.set = set, !.empty = e, !.needsUpdate = FALSE]
      BY <1>2, <2>2, <3>1, <3>2 DEF Shape, F
    <3>4. Shape(s1)
      BY <1>2
    <3>5. /\ Shape(r) /\ r.contents = c /\ r.set = set /\ r.needsUpdate = FALSE
          /\ r.empty = e /\ r.current = s1.current /\ r.old = s1.old
          /\ r.pipelines = s1.pipelines /\ r.pipe = s1.pipe
          /\ r.setIndex = s1.setIndex /\ r.setProgram = s1.setProgram
          /\ r.topDescriptor = s1.topDescriptor /\ r.descriptorWrites = s1.descriptorWrites
          /\ r.setsTaken = s1.setsTaken /\ r.uniformsTaken = s1.uniformsTaken
          /\ r.sets = s1.sets /\ r.pieces = s1.pieces /\ r.want = s1.want
          /\ r.buffer = s1.buffer
      BY <3>3, <3>4 DEF Shape
    <3>6. QED
      BY <3>1, <3>2, <3>5
  <2>4. QED
    BY <1>2, <1>3, <1>5, <2>1, <2>3 DEF BoundPipeline
<1>6. QED
  BY <1>4, <1>5

(* A draw ends the buffer, with what bindPipeline() left.                  *)
Drew(s, r) ==
    \E d : /\ d.state = r.current /\ d.pipe = r.pipe /\ d.set = r.set /\ d.want = r.want
           /\ d.stray <=> r.setProgram # r.current.program
           /\ r.buffer = [s.buffer EXCEPT ![F] = Append(s.buffer[F], d)]

(* State::draw() is bindPipeline() and a draw at the end of the buffer.    *)
LEMMA DrawIs ==
    ASSUME NEW s, Shape(s), Typed(s), On, NEW set, set = <<s.current.program, s.setIndex>>,
           NEW r, r = Draw(s)
    PROVE BoundPipeline(s, set, r) /\ Drew(s, r)
<1>1. PICK b : b = BindPipeline(s)
  OBVIOUS
<1>2. BoundPipeline(s, set, b) /\ b.buffer = s.buffer
  BY <1>1, BindPipelineIs
<1>3. PICK d : d = [state |-> b.current, pipe |-> b.pipe, set |-> b.set,
                    want |-> b.want, stray |-> b.setProgram # b.current.program]
  OBVIOUS
<1>4. r = [b EXCEPT !.buffer[framePingPong] = Append(@, d)]
  BY <1>1, <1>3 DEF Draw, On
<1>5. Shape(b)
  BY <1>2 DEF BoundPipeline
<1>6. /\ Shape(r)
      /\ r.buffer = [b.buffer EXCEPT ![F] = Append(b.buffer[F], d)]
      /\ r.current = b.current /\ r.old = b.old /\ r.needsUpdate = b.needsUpdate
      /\ r.pipelines = b.pipelines /\ r.pipe = b.pipe /\ r.empty = b.empty /\ r.set = b.set
      /\ r.contents = b.contents
      /\ r.setIndex = b.setIndex /\ r.setProgram = b.setProgram
      /\ r.topDescriptor = b.topDescriptor /\ r.descriptorWrites = b.descriptorWrites
      /\ r.setsTaken = b.setsTaken /\ r.uniformsTaken = b.uniformsTaken /\ r.sets = b.sets
      /\ r.pieces = b.pieces /\ r.want = b.want
  BY <1>4, <1>5 DEF Shape, F
<1>7. BoundPipeline(s, set, r)
  BY <1>2, <1>6 DEF BoundPipeline
<1>8. Drew(s, r)
  <2>1. /\ d.state = r.current /\ d.pipe = r.pipe /\ d.set = r.set /\ d.want = r.want
        /\ d.stray = (r.setProgram # r.current.program)
    BY <1>3, <1>6
  <2>2. r.buffer = [s.buffer EXCEPT ![F] = Append(s.buffer[F], d)]
    BY <1>2, <1>6
  <2>3. QED
    BY <2>1, <2>2 DEF Drew
<1>9. QED
  BY <1>7, <1>8
(* What a draw leaves to the next object, or to the next draw of a chunk.  *)
AfterDraw(s, p, r) ==
    /\ StateOK(r) /\ RecordingOK(r) /\ BoundBy(r, p, Layout(p)) /\ LeftOver(r)
    /\ On /\ s.needsUpdate => s.setProgram = p \/ Strays(s, p)
    /\ On /\ s.setProgram = p => Drawable(r, p)
    /\ On => r.needsUpdate = FALSE /\ r.buffer[F] # <<>> /\ r.old.program = p
    /\ SameSets(s, r)

(* A draw of a program that has bound all that its shaders declare keeps   *)
(* what holds of State: it reads what was bound, or is the stray first     *)
(* one.                                                                    *)
LEMMA DrawnWith ==
    ASSUME NEW s, StateOK(s), RecordingOK(s), F \in Slots \ pending, pending \subseteq Slots, On,
           NEW p, BoundBy(s, p, Layout(p)), Drawable(s, p), NEW r, r = Draw(s)
    PROVE AfterDraw(s, p, r)
<1>1. Shape(s) /\ Typed(s) /\ s.current.program = p /\ p \in Programs
  BY DEF StateOK, BoundBy
<1>2. PICK set : set = <<p, s.setIndex>>
  OBVIOUS
<1>3. BoundPipeline(s, set, r) /\ Drew(s, r)
  BY <1>1, <1>2, DrawIs
<1>4. PICK d : /\ d.state = r.current /\ d.pipe = r.pipe /\ d.set = r.set /\ d.want = r.want
               /\ d.stray <=> r.setProgram # r.current.program
               /\ r.buffer = [s.buffer EXCEPT ![F] = Append(s.buffer[F], d)]
  BY <1>3 DEF Drew
<1>5. PICK a : a = s.buffer[F]
  OBVIOUS
<1>6. IsSeq(a) /\ F \in Slots
  BY <1>1, <1>5 DEF Typed
<1>7. PICK n \in Nat : n = Len(a)
  BY <1>6, OneMore
<1>8. /\ r.buffer = [i \in Slots |-> r.buffer[i]] /\ r.buffer[F] = Append(a, d)
      /\ \A i \in Slots : i # F => r.buffer[i] = s.buffer[i]
  BY <1>1, <1>4, <1>5 DEF Typed
<1>9. /\ IsSeq(r.buffer[F]) /\ DOMAIN a = 1..n /\ DOMAIN r.buffer[F] = 1..(n + 1)
      /\ r.buffer[F][n + 1] = d /\ \A k \in 1..n : r.buffer[F][k] = a[k]
  <2>1. /\ IsSeq(Append(a, d)) /\ DOMAIN a = 1..Len(a) /\ DOMAIN Append(a, d) = 1..(Len(a) + 1)
        /\ Append(a, d)[Len(a) + 1] = d /\ \A k \in 1..Len(a) : Append(a, d)[k] = a[k]
    BY <1>6, OneMore
  <2>2. QED
    BY <1>7, <1>8, <2>1
<1>10. /\ \A k \in 1..(n + 1) : k \in 1..n \/ k = n + 1
       /\ \A k \in 1..n : k \in 1..(n + 1)
       /\ n + 1 \in 1..(n + 1)
  BY <1>7
<1>11. /\ r.current = s.current /\ r.old = s.current /\ s.current \in SubStates
       /\ r.needsUpdate = FALSE /\ r.needsUpdate \in BOOLEAN
  <2>1. r.current = s.current /\ r.old = s.current /\ s.current \in SubStates
    BY <1>1, <1>3 DEF BoundPipeline, Typed
  <2>2. r.needsUpdate = FALSE
    BY <1>3 DEF BoundPipeline
  <2>3. r.needsUpdate \in BOOLEAN
    BY <2>2, Zenon
  <2>4. QED
    BY <2>1, <2>2, <2>3
<1>12. /\ r.setIndex = s.setIndex /\ r.setProgram = s.setProgram
       /\ r.topDescriptor = s.topDescriptor /\ r.descriptorWrites = s.descriptorWrites
       /\ r.setsTaken = s.setsTaken /\ r.uniformsTaken = s.uniformsTaken /\ r.sets = s.sets
       /\ r.pieces = s.pieces /\ r.want = s.want
  BY <1>3 DEF BoundPipeline
(* The contents. *)
<1>13. /\ r.contents = [i \in Slots |-> r.contents[i]]
       /\ \A i \in Slots : i # F => r.contents[i] = s.contents[i]
       /\ ~s.needsUpdate => r.contents = s.contents /\ r.set = s.set
       /\ s.needsUpdate => r.contents[F] = Put(s.contents[F], set, Written(s, set)) /\ r.set = set
  <2>1. s.contents = [i \in Slots |-> s.contents[i]]
    BY <1>1 DEF Typed
  <2>2. CASE s.needsUpdate
    <3>1. /\ r.contents = [s.contents EXCEPT ![F] = Put(s.contents[F], set, Written(s, set))]
          /\ r.set = set
      BY <1>3, <2>2 DEF BoundPipeline
    <3>2. QED
      BY <1>6, <2>1, <2>2, <3>1
  <2>3. CASE ~s.needsUpdate
    <3>1. r.contents = s.contents /\ r.set = s.set
      BY <1>3, <2>3 DEF BoundPipeline
    <3>2. QED
      BY <2>1, <2>3, <3>1
  <2>4. QED
    BY <2>2, <2>3
<1>14. Typed(r)
  <2>1. /\ r.old \in SubStates /\ r.current \in SubStates
        /\ r.setIndex \in Nat /\ r.topDescriptor \in Nat
        /\ r.setsTaken \in [Programs -> Nat] /\ r.sets \in [Programs -> Nat]
        /\ r.uniformsTaken = [q \in Programs |-> r.uniformsTaken[q]]
        /\ \A q \in Programs : r.uniformsTaken[q] \in [UniformBindings[q] -> Nat]
        /\ r.pieces = [i \in Slots |-> r.pieces[i]]
    BY <1>1, <1>11, <1>12 DEF Typed
  <2>2. \A i \in Slots : IsSeq(r.buffer[i])
    BY <1>1, <1>8, <1>9 DEF Typed
  <2>3. QED
    BY <1>8, <1>11, <1>13, <2>1, <2>2, Zenon DEF Typed
(* The pipelines. *)
<1>15. /\ s.pipelines \subseteq r.pipelines /\ s.empty \subseteq r.empty
       /\ PipesKnown(r) /\ PipeBound(s)
  <2>1. PipesKnown(s) /\ PipeBound(s)
    BY DEF StateOK, RecordingOK
  <2>2. /\ r.pipelines = (IF s.current = s.old \/ s.current \in s.empty THEN s.pipelines
                          ELSE s.pipelines \cup {s.current})
        /\ r.empty = (IF s.needsUpdate /\ s.current \notin r.pipelines
                      THEN s.empty \cup {s.current} ELSE s.empty)
    BY <1>3 DEF BoundPipeline
  <2>3. PipesKnown(r)
    BY <1>11, <2>1, <2>2 DEF PipesKnown
  <2>4. QED
    BY <2>1, <2>2, <2>3
<1>16. \/ r.pipe = r.old /\ r.old \in r.pipelines
       \/ r.pipe = NoPipeline /\ r.old \in r.empty
       \/ /\ r.pipe = NoPipeline /\ r.old = carried[F]
          /\ \A k \in 1..n : a[k].state = carried[F]
  <2>1. CASE s.current = s.old
    <3>1. r.pipe = s.pipe
      BY <1>3, <2>1 DEF BoundPipeline
    <3>2. QED
      BY <1>5, <1>9, <1>11, <1>15, <2>1, <3>1 DEF PipeBound
  <2>2. CASE s.current # s.old
    <3>1. /\ r.pipe = (IF s.current \in s.empty THEN NoPipeline ELSE s.current)
          /\ r.pipelines = (IF s.current \in s.empty THEN s.pipelines
                            ELSE s.pipelines \cup {s.current})
      BY <1>3, <2>2 DEF BoundPipeline
    <3>2. QED
      BY <1>11, <1>15, <3>1
  <2>3. QED
    BY <2>1, <2>2
<1>17. PipeBound(r)
  <2>1. ASSUME r.pipe = NoPipeline, r.old = carried[F], \A k \in 1..n : a[k].state = carried[F]
        PROVE PipeBound(r)
    <3>1. \A k \in 1..(n + 1) : r.buffer[F][k].state = carried[F]
      BY <1>4, <1>9, <1>10, <1>11, <2>1
    <3>2. QED
      BY <1>9, <2>1, <3>1 DEF PipeBound
  <2>2. QED
    BY <1>16, <2>1 DEF PipeBound
<1>18. ASSUME NEW i \in Slots, PipedIn(s, i)
       PROVE PipedIn(r, i)
  <2>1. CASE i # F
    BY <1>8, <1>15, <1>18, <2>1 DEF PipedIn, Piped
  <2>2. CASE i = F
    <3>1. ASSUME NEW k \in 1..n
          PROVE Piped(r, F, k)
      <4>1. /\ r.buffer[F][k] = a[k] /\ \A j \in 1..k : j \in 1..n
        BY <1>7, <1>9
      <4>2. Piped(s, F, k)
        BY <1>5, <1>9, <1>18, <2>2 DEF PipedIn
      <4>3. \/ a[k].pipe = a[k].state /\ a[k].state \in s.pipelines
            \/ a[k].pipe = NoPipeline /\ a[k].state \in s.empty
            \/ a[k].pipe = NoPipeline /\ \A j \in 1..k : a[j].state = carried[F]
        BY <1>5, <4>2 DEF Piped
      <4>4. (\A j \in 1..k : a[j].state = carried[F])
              => \A j \in 1..k : r.buffer[F][j].state = carried[F]
        BY <1>9, <4>1
      <4>5. QED
        BY <1>15, <4>1, <4>3, <4>4 DEF Piped
    <3>2. Piped(r, F, n + 1)
      <4>1. (\A j \in 1..n : a[j].state = carried[F]) /\ r.old = carried[F]
              => \A j \in 1..(n + 1) : r.buffer[F][j].state = carried[F]
        BY <1>4, <1>9, <1>10, <1>11
      <4>2. r.buffer[F][n + 1].pipe = r.pipe /\ r.buffer[F][n + 1].state = r.old
        BY <1>4, <1>9, <1>11
      <4>3. QED
        BY <1>16, <4>1, <4>2 DEF Piped
    <3>3. QED
      BY <1>9, <1>10, <2>2, <3>1, <3>2 DEF PipedIn
  <2>3. QED
    BY <2>1, <2>2
(* The set. *)
<1>19. s.needsUpdate => Fresh(s, p) \/ Strays(s, p)
  BY DEF BoundBy
<1>20. ~s.needsUpdate => /\ SetGives(s, F, s.set, s.want) /\ s.setProgram = p /\ s.set[1] = p
                         /\ s.set[2] < s.setsTaken[p] /\ s.sets[p] > 0
  BY DEF Drawable
<1>21. OldHasSet(r) /\ s.sets[p] > 0
  <2>1. s.setsTaken[p] \in Nat /\ s.sets[p] \in Nat /\ s.setIndex \in Nat
    BY <1>1 DEF Typed
  <2>2. CASE s.needsUpdate /\ Fresh(s, p)
    <3>1. s.setsTaken[p] = s.setIndex + 1 /\ s.setsTaken[p] <= s.sets[p]
      BY <2>2 DEF Fresh
    <3>2. QED
      BY <1>1, <1>11, <1>12, <2>1, <3>1 DEF OldHasSet
  <2>3. CASE s.needsUpdate /\ Strays(s, p)
    <3>1. s.old.program = p
      BY <2>3 DEF Strays
    <3>2. QED
      BY <1>1, <1>11, <1>12, <3>1 DEF OldHasSet, StateOK
  <2>4. CASE ~s.needsUpdate
    BY <1>1, <1>11, <1>12, <1>20, <2>4 DEF OldHasSet
  <2>5. QED
    BY <1>19, <2>2, <2>3, <2>4
<1>22. d.stray <=> s.setProgram # p
  BY <1>1, <1>4, <1>11, <1>12
<1>23. ASSUME NEW i \in Slots
       PROVE StrayFirst(r, i)
  <2>1. StrayFirst(s, i)
    BY DEF StateOK
  <2>2. CASE i # F
    BY <1>8, <1>12, <2>1, <2>2 DEF StrayFirst
  <2>3. CASE i = F
    <3>1. ASSUME NEW k \in 1..n, a[k].stray
          PROVE /\ k = 1 /\ a[k].state.program = carried[F].program
                /\ a[k].state.program \in Programs /\ a[k].set[2] \in Nat
                /\ a[k].set[2] < r.sets[a[k].state.program]
      BY <1>5, <1>9, <1>12, <2>1, <2>3, <3>1 DEF StrayFirst
    <3>2. ASSUME d.stray
          PROVE /\ n + 1 = 1 /\ d.state.program = carried[F].program
                /\ d.state.program \in Programs /\ d.set[2] \in Nat
                /\ d.set[2] < r.sets[d.state.program]
      <4>1. s.needsUpdate /\ Strays(s, p)
        BY <1>19, <1>20, <1>22, <3>2 DEF Fresh
      <4>2. a = <<>> /\ s.old.program = p /\ s.setIndex = 0
        BY <1>5, <4>1 DEF Strays
      <4>3. n = 0
        BY <1>7, <4>2
      <4>4. s.old = carried[F]
        BY <1>5, <4>2 DEF RecordingOK
      <4>5. d.set = set /\ d.state.program = p
        BY <1>1, <1>4, <1>11, <1>13, <4>1
      <4>6. d.set[2] = 0
        BY <1>2, <4>2, <4>5
      <4>7. QED
        BY <1>1, <1>12, <1>21, <4>2, <4>3, <4>4, <4>5, <4>6
    <3>3. QED
      BY <1>9, <1>10, <2>3, <3>1, <3>2 DEF StrayFirst
  <2>4. QED
    BY <2>2, <2>3
(* What the sets give.  The one that is written now no draw has used. *)
<1>24. ASSUME NEW i \in Slots, NEW x, NEW v, Gives(s, i, x, v)
       PROVE Gives(r, i, x, v)
  BY <1>12, <1>24 DEF Gives
<1>25. ASSUME NEW i \in Slots, NEW y, NEW want, SetGives(s, i, y, want),
              i # F \/ ~s.needsUpdate \/ y # set
       PROVE SetGives(r, i, y, want)
  <2>1. y \in DOMAIN r.contents[i] /\ r.contents[i][y] = s.contents[i][y]
    <3>1. y \in DOMAIN s.contents[i]
      BY <1>25 DEF SetGives
    <3>2. CASE i = F /\ s.needsUpdate
      BY <1>13, <1>25, <3>1, <3>2 DEF Put
    <3>3. CASE i # F \/ ~s.needsUpdate
      BY <1>13, <3>1, <3>3
    <3>4. QED
      BY <3>2, <3>3
  <2>2. QED
    BY <1>24, <1>25, <2>1 DEF SetGives
<1>26. ASSUME s.setProgram = p
       PROVE /\ SetGives(r, F, r.set, s.want) /\ r.set[1] = p
             /\ r.set[2] < s.setsTaken[p]
  <2>1. CASE ~s.needsUpdate
    <3>1. r.set = s.set
      BY <1>13, <2>1
    <3>2. QED
      BY <1>6, <1>20, <1>25, <2>1, <3>1
  <2>2. CASE s.needsUpdate
    <3>1. Fresh(s, p)
      BY <1>19, <1>26, <2>2 DEF Strays
    <3>2. r.set = set /\ set[1] = p /\ set[2] = s.setIndex /\ s.setIndex \in Nat
      BY <1>1, <1>2, <1>13, <2>2 DEF Typed
    <3>3. r.contents[F] = Put(s.contents[F], set, Written(s, set))
      BY <1>13, <2>2
    <3>4. set \in DOMAIN r.contents[F] /\ r.contents[F][set] = Written(s, set)
      BY <3>3 DEF Put
    <3>5. s.want = [b \in Layout(p) |-> s.want[b]]
      BY DEF BoundBy
    <3>6. ASSUME NEW b \in Layout(p)
          PROVE /\ b \in DOMAIN Written(s, set)
                /\ Gives(r, F, Written(s, set)[b], s.want[b])
      <4>1. /\ b \in DOMAIN s.descriptorWrites /\ b <= s.topDescriptor
            /\ Gives(s, F, s.descriptorWrites[b], s.want[b])
        BY DEF BoundBy
      <4>2. b \in Nat /\ s.topDescriptor \in Nat
        BY <1>1, LayoutIs DEF Typed
      <4>3. b \in DOMAIN s.descriptorWrites \cap 0..s.topDescriptor
        BY <4>1, <4>2
      <4>4. /\ b \in DOMAIN Written(s, set)
            /\ Written(s, set)[b] = s.descriptorWrites[b]
        BY <4>3 DEF Written
      <4>5. QED
        BY <1>6, <1>24, <4>1, <4>4
    <3>7. SetGives(r, F, set, s.want)
      BY <1>1, <1>2, <3>2, <3>4, <3>5, <3>6 DEF SetGives
    <3>8. set[2] < s.setsTaken[p]
      <4>1. s.setsTaken[p] = s.setIndex + 1
        BY <3>1 DEF Fresh
      <4>2. QED
        BY <3>2, <4>1
    <3>9. QED
      BY <3>2, <3>7, <3>8
  <2>3. QED
    BY <2>1, <2>2
<1>27. ASSUME NEW k \in 1..n, ~a[k].stray
       PROVE /\ SetGives(r, F, a[k].set, a[k].want)
             /\ a[k].set[2] < s.setsTaken[a[k].set[1]]
  <2>1. DrawnRight(s, F) /\ SetsApart(s)
    BY DEF RecordingOK
  <2>2. /\ SetGives(s, F, a[k].set, a[k].want)
        /\ a[k].set[2] < s.setsTaken[a[k].set[1]]
        /\ s.needsUpdate => a[k].set # <<s.setProgram, s.setIndex>>
    BY <1>5, <1>9, <1>27, <2>1 DEF DrawnRight, SetsApart
  <2>3. CASE ~s.needsUpdate
    BY <1>6, <1>25, <2>2, <2>3
  <2>4. CASE s.needsUpdate
    <3>1. s.setProgram = p
      <4>1. CASE Fresh(s, p)
        BY <4>1 DEF Fresh
      <4>2. CASE Strays(s, p)
        <5>1. a = <<>>
          BY <1>5, <4>2 DEF Strays
        <5>2. n = 0
          BY <1>7, <5>1
        <5>3. QED
          BY <1>27, <5>2
      <4>3. QED
        BY <1>19, <2>4, <4>1, <4>2
    <3>2. a[k].set # set
      BY <1>2, <2>2, <2>4, <3>1
    <3>3. QED
      BY <1>6, <1>25, <2>2, <3>2
  <2>5. QED
    BY <2>3, <2>4
<1>28. ASSUME ~d.stray
       PROVE SetGives(r, F, d.set, d.want) /\ d.set[2] < s.setsTaken[d.set[1]]
  BY <1>4, <1>12, <1>22, <1>26, <1>28
<1>29. DrawnRight(r, F) /\ SetsApart(r)
  <2>1. ASSUME NEW k \in 1..(n + 1), ~r.buffer[F][k].stray
        PROVE /\ SetGives(r, F, r.buffer[F][k].set, r.buffer[F][k].want)
              /\ r.buffer[F][k].set[2] < r.setsTaken[r.buffer[F][k].set[1]]
    BY <1>9, <1>10, <1>12, <1>27, <1>28, <2>1
  <2>2. QED
    BY <1>9, <1>11, <2>1 DEF DrawnRight, SetsApart
<1>30. ASSUME NEW i \in Slots, i # F, DrawnRight(s, i)
       PROVE DrawnRight(r, i)
  BY <1>8, <1>25, <1>30 DEF DrawnRight
<1>31. PiecesTaken(r)
  <2>1. PiecesTaken(s)
    BY DEF RecordingOK
  <2>2. QED
    BY <1>12, <2>1 DEF PiecesTaken
<1>32. r.buffer[F] # <<>>
  <2>1. DOMAIN <<>> = {}
    OBVIOUS
  <2>2. QED
    BY <1>9, <1>10, <2>1
<1>33. StateOK(r)
  <2>1. Shape(r)
    BY <1>3 DEF BoundPipeline
  <2>2. \A i \in pending : PipedIn(r, i) /\ DrawnRight(r, i)
    BY <1>18, <1>30 DEF StateOK
  <2>3. QED
    BY <1>14, <1>15, <1>21, <1>23, <2>1, <2>2 DEF StateOK
<1>34. RecordingOK(r)
  <2>1. PipedIn(r, F)
    BY <1>6, <1>18 DEF RecordingOK
  <2>2. QED
    BY <1>17, <1>29, <1>31, <1>32, <2>1 DEF RecordingOK
<1>35. BoundBy(r, p, Layout(p))
  <2>1. /\ s.want = [b \in Layout(p) |-> s.want[b]]
        /\ \A b \in Layout(p) : /\ b \in DOMAIN s.descriptorWrites /\ b <= s.topDescriptor
                                /\ Gives(s, F, s.descriptorWrites[b], s.want[b])
    BY DEF BoundBy
  <2>2. QED
    BY <1>1, <1>6, <1>11, <1>12, <1>24, <2>1 DEF BoundBy
<1>36. s.setProgram = p => Drawable(r, p)
  BY <1>12, <1>21, <1>26 DEF Drawable
<1>37. s.needsUpdate => s.setProgram = p \/ Strays(s, p)
  BY <1>19 DEF Fresh
<1>38. LeftOver(r)
  BY <1>11 DEF LeftOver
<1>39. r.old.program = p
  BY <1>1, <1>11
<1>40. QED
  BY <1>11, <1>12, <1>32, <1>33, <1>34, <1>35, <1>36, <1>37, <1>38, <1>39
  DEF AfterDraw, SameSets
(* A draw when an image was acquired, or none was.                         *)
LEMMA Drawn ==
    ASSUME NEW s, StateOK(s), RecordingOK(s), F \in Slots \ pending, pending \subseteq Slots,
           NEW p, BoundBy(s, p, Layout(p)), Drawable(s, p), NEW r, r = Draw(s)
    PROVE AfterDraw(s, p, r)
<1>1. CASE On
  BY <1>1, DrawnWith
<1>2. CASE ~On
  <2>1. r = s
    BY <1>2 DEF Draw, On
  <2>2. QED
    BY <1>2, <2>1 DEF LeftOver, AfterDraw, SameSets
<1>3. QED
  BY <1>1, <1>2

(* What the next draw is made with does not matter to what holds.          *)
SameButCurrent(s, r) ==
    /\ OnlyCurrent(s, r) /\ r.current.program = s.current.program
    /\ StateOK(r) /\ (RecordingOK(s) => RecordingOK(r))
    /\ LeftOver(s) => LeftOver(r)
    /\ Begun(s) => Begun(r)

(* So these calls keep all that holds of State.                            *)
LEMMA CurrentKept ==
    ASSUME NEW s, StateOK(s), NEW r,
           \/ \E a \in Attributes : r = BindVertexAttributes(s, a)
           \/ \E on \in BOOLEAN : r = EnableDepthTest(s, on)
           \/ \E mode \in Stencils : r = SetStencil(s, mode)
    PROVE SameButCurrent(s, r)
<1>1. Shape(s) /\ Typed(s) /\ s.current \in SubStates
  BY DEF StateOK, Typed
<1>2. OnlyCurrent(s, r) /\ r.current \in SubStates /\ r.current.program = s.current.program
  BY <1>1, CurrentIs
<1>3. /\ Shape(r)
      /\ r.old = s.old /\ r.needsUpdate = s.needsUpdate /\ r.setIndex = s.setIndex
      /\ r.setProgram = s.setProgram /\ r.topDescriptor = s.topDescriptor
      /\ r.descriptorWrites = s.descriptorWrites /\ r.setsTaken = s.setsTaken
      /\ r.uniformsTaken = s.uniformsTaken /\ r.sets = s.sets /\ r.contents = s.contents
      /\ r.pieces = s.pieces /\ r.pipelines = s.pipelines /\ r.empty = s.empty
      /\ r.buffer = s.buffer /\ r.pipe = s.pipe /\ r.set = s.set /\ r.want = s.want
  BY <1>2 DEF OnlyCurrent
<1>4. Typed(r)
  <2>1. /\ r.pieces = [i \in Slots |-> r.pieces[i]] /\ r.setIndex \in Nat
        /\ r.topDescriptor \in Nat /\ r.needsUpdate \in BOOLEAN
        /\ r.setsTaken \in [Programs -> Nat] /\ r.sets \in [Programs -> Nat]
        /\ r.uniformsTaken = [q \in Programs |-> r.uniformsTaken[q]]
        /\ \A q \in Programs : r.uniformsTaken[q] \in [UniformBindings[q] -> Nat]
    BY <1>1, <1>3 DEF Typed
  <2>2. QED
    BY <1>1, <1>2, <1>3, <2>1, TypedKept
<1>5. PipesKnown(r) /\ OldHasSet(r)
  BY <1>3 DEF StateOK, PipesKnown, OldHasSet
<1>6. ASSUME NEW i
      PROVE /\ StrayFirst(s, i) => StrayFirst(r, i)
            /\ PipedIn(s, i) => PipedIn(r, i)
            /\ DrawnRight(s, i) => DrawnRight(r, i)
  <2>1. StrayFirst(s, i) => StrayFirst(r, i)
    BY <1>3 DEF StrayFirst
  <2>2. PipedIn(s, i) => PipedIn(r, i)
    BY <1>3 DEF PipedIn, Piped
  <2>3. DrawnRight(s, i) => DrawnRight(r, i)
    <3>1. \A x, v : Gives(s, i, x, v) => Gives(r, i, x, v)
      BY <1>3 DEF Gives
    <3>2. \A set, want : SetGives(s, i, set, want) => SetGives(r, i, set, want)
      BY <1>3, <3>1 DEF SetGives
    <3>3. QED
      BY <1>3, <3>2 DEF DrawnRight
  <2>4. QED
    BY <2>1, <2>2, <2>3
<1>7. StateOK(r)
  BY <1>3, <1>4, <1>5, <1>6 DEF StateOK
<1>8. ASSUME RecordingOK(s)
      PROVE RecordingOK(r)
  <2>1. ASSUME On
        PROVE PipeBound(r) /\ SetsApart(r) /\ PiecesTaken(r)
    BY <1>3, <1>8, <2>1 DEF RecordingOK, PipeBound, SetsApart, PiecesTaken
  <2>2. ASSUME On
        PROVE PipedIn(r, F) /\ DrawnRight(r, F)
    BY <1>6, <1>8, <2>2 DEF RecordingOK
  <2>3. QED
    BY <1>3, <1>8, <2>1, <2>2 DEF RecordingOK
<1>9. (LeftOver(s) => LeftOver(r)) /\ (Begun(s) => Begun(r))
  BY <1>3 DEF LeftOver, Begun
<1>10. QED
  BY <1>2, <1>7, <1>8, <1>9 DEF SameButCurrent

(* And they keep what has been bound.                                      *)
LEMMA CurrentBound ==
    ASSUME NEW s, NEW r, OnlyCurrent(s, r), r.current.program = s.current.program, NEW p
    PROVE /\ BoundBy(s, p, Layout(p)) => BoundBy(r, p, Layout(p))
          /\ Drawable(s, p) => Drawable(r, p)
<1>1. /\ r.old = s.old /\ r.needsUpdate = s.needsUpdate /\ r.setIndex = s.setIndex
      /\ r.setProgram = s.setProgram /\ r.topDescriptor = s.topDescriptor
      /\ r.descriptorWrites = s.descriptorWrites /\ r.setsTaken = s.setsTaken
      /\ r.sets = s.sets /\ r.contents = s.contents /\ r.pieces = s.pieces
      /\ r.buffer = s.buffer /\ r.set = s.set /\ r.want = s.want
  BY DEF OnlyCurrent
<1>2. \A i, x, v : Gives(s, i, x, v) <=> Gives(r, i, x, v)
  BY <1>1 DEF Gives
<1>3. Fresh(s, p) \/ Strays(s, p) => Fresh(r, p) \/ Strays(r, p)
  BY <1>1 DEF Fresh, Strays
<1>4. BoundBy(s, p, Layout(p)) => BoundBy(r, p, Layout(p))
  BY <1>1, <1>2, <1>3 DEF BoundBy
<1>5. Drawable(s, p) => Drawable(r, p)
  BY <1>1, <1>2 DEF Drawable, SetGives
<1>6. QED
  BY <1>4, <1>5

-----------------------------------------------------------------------------
(* The objects.                                                            *)

Done(s) == StateOK(s) /\ RecordingOK(s) /\ LeftOver(s)
(* From s to r, with at most n sets of program p. *)
DoneFrom(s, r, p, n) == Done(r) /\ Takes(s, r, p, n)

(* The last thing an object does.                                          *)
LEMMA EndsObject ==
    ASSUME NEW s, StateOK(s), RecordingOK(s), F \in Slots \ pending, pending \subseteq Slots,
           NEW p, BoundBy(s, p, Layout(p)), s.needsUpdate, NEW a \in Attributes
    PROVE Done(Draw(BindVertexAttributes(s, a))) /\ SameSets(s, Draw(BindVertexAttributes(s, a)))
<1>1. PICK t : t = BindVertexAttributes(s, a)
  OBVIOUS
<1>2. /\ OnlyCurrent(s, t) /\ t.current.program = s.current.program
      /\ StateOK(t) /\ RecordingOK(t)
  <2>1. SameButCurrent(s, t)
    BY <1>1, CurrentKept
  <2>2. QED
    BY <2>1 DEF SameButCurrent
<1>3. t.needsUpdate = s.needsUpdate
  BY <1>2 DEF OnlyCurrent
<1>4. BoundBy(t, p, Layout(p)) /\ Drawable(t, p)
  BY <1>2, <1>3, CurrentBound DEF Drawable
<1>5. QED
  <2>1. PICK r : r = Draw(t)
    OBVIOUS
  <2>2. AfterDraw(t, p, r)
    BY <1>2, <1>4, <2>1, Drawn
  <2>3. Done(r) /\ SameSets(s, r)
    BY <1>2, <2>2 DEF AfterDraw, Done, SameSets, OnlyCurrent
  <2>4. QED
    BY <1>1, <2>1, <2>3

(* A line keeps the invariant, and takes at most one set.                  *)
LEMMA LineDone ==
    ASSUME NEW s, Done(s), F \in Slots \ pending, pending \subseteq Slots
    PROVE DoneFrom(s, RenderLine(s), "line", 1)
<1>1. "line" \in Programs /\ Layout("line") = {0} /\ 0 \in UniformBindings["line"]
  BY DEF Programs, Layout, UniformBindings
<1>2. PICK s1 : s1 = BindProgram(s, "line")
  OBVIOUS
<1>3. StateOK(s1) /\ RecordingOK(s1) /\ BoundBy(s1, "line", {}) /\ SameSets(s, s1)
  BY <1>1, <1>2, BeginsObject DEF Done, SameSets
<1>4. PICK s2 : s2 = BindUniform(s1, 0)
  OBVIOUS
<1>5. Bound(s1, "line", {}, 0, s2)
  BY <1>1, <1>3, <1>4, UniformBound
<1>6. StateOK(s2) /\ RecordingOK(s2) /\ BoundBy(s2, "line", Layout("line")) /\ s2.needsUpdate
  BY <1>1, <1>5 DEF Bound
<1>7. PICK r : r = Draw(BindVertexAttributes(s2, "line"))
  OBVIOUS
<1>8. Done(r) /\ SameSets(s2, r)
  BY <1>6, <1>7, EndsObject DEF Attributes
<1>9. Typed(s) /\ Typed(r) /\ SameSets(s2, r)
  BY <1>8 DEF Done, StateOK, SameSets
<1>10. Takes(s, r, "line", 1)
  BY <1>1, <1>3, <1>5, <1>9, TakesOne
<1>11. QED
  BY <1>2, <1>4, <1>7, <1>8, <1>10 DEF DoneFrom, RenderLine

(* So does a box.                                                          *)
LEMMA BoxDone ==
    ASSUME NEW s, Done(s), F \in Slots \ pending, pending \subseteq Slots
    PROVE DoneFrom(s, RenderBox(s), "box", 1)
<1>1. /\ "box" \in Programs /\ Layout("box") = ({} \cup {0}) \cup {1}
      /\ 0 \in UniformBindings["box"] /\ 1 \in UniformBindings["box"]
  BY DEF Programs, Layout, UniformBindings
<1>2. PICK s1 : s1 = BindProgram(s, "box")
  OBVIOUS
<1>3. StateOK(s1) /\ RecordingOK(s1) /\ BoundBy(s1, "box", {}) /\ SameSets(s, s1)
  BY <1>1, <1>2, BeginsObject DEF Done, SameSets
<1>4. PICK s2 : s2 = BindUniform(s1, 0)
  OBVIOUS
<1>5. Bound(s1, "box", {}, 0, s2)
  BY <1>1, <1>3, <1>4, UniformBound
<1>6. StateOK(s2) /\ RecordingOK(s2) /\ BoundBy(s2, "box", {} \cup {0})
  BY <1>5 DEF Bound
<1>7. PICK s3 : s3 = BindUniform(s2, 1)
  OBVIOUS
<1>8. Bound(s2, "box", {} \cup {0}, 1, s3)
  BY <1>1, <1>6, <1>7, UniformBound
<1>9. StateOK(s3) /\ RecordingOK(s3) /\ BoundBy(s3, "box", Layout("box")) /\ s3.needsUpdate
  BY <1>1, <1>8 DEF Bound
<1>10. PICK r : r = Draw(BindVertexAttributes(s3, "box"))
  OBVIOUS
<1>11. Done(r) /\ SameSets(s3, r)
  BY <1>9, <1>10, EndsObject DEF Attributes
<1>12. SameSets(s2, s3)
  BY <1>5, <1>8 DEF Bound, SameSets
<1>13. Typed(s) /\ Typed(r) /\ SameSets(s2, r)
  BY <1>11, <1>12 DEF Done, StateOK, SameSets
<1>14. Takes(s, r, "box", 1)
  BY <1>1, <1>3, <1>5, <1>13, TakesOne
<1>15. QED
  BY <1>2, <1>4, <1>7, <1>10, <1>11, <1>14 DEF DoneFrom, RenderBox

(* So does an image, if it has been loaded.                                *)
LEMMA ImageDone ==
    ASSUME NEW s, Done(s), F \in Slots \ pending, pending \subseteq Slots, picture # "none"
    PROVE DoneFrom(s, RenderImage(s), "image", 1)
<1>1. /\ "image" \in Programs /\ Layout("image") = ({} \cup {1}) \cup {0}
      /\ 0 \in UniformBindings["image"] /\ TextureBinding["image"] = 1
  BY DEF Programs, Layout, UniformBindings, TextureBinding
<1>2. PICK s1 : s1 = BindProgram(s, "image")
  OBVIOUS
<1>3. StateOK(s1) /\ RecordingOK(s1) /\ BoundBy(s1, "image", {}) /\ SameSets(s, s1)
  BY <1>1, <1>2, BeginsObject DEF Done, SameSets
<1>4. PICK s2 : s2 = BindTexture(s1, "picture")
  OBVIOUS
<1>5. Bound(s1, "image", {}, 1, s2)
  BY <1>1, <1>3, <1>4, TextureBound
<1>6. StateOK(s2) /\ RecordingOK(s2) /\ BoundBy(s2, "image", {} \cup {1})
  BY <1>5 DEF Bound
<1>7. PICK s3 : s3 = BindUniform(s2, 0)
  OBVIOUS
<1>8. Bound(s2, "image", {} \cup {1}, 0, s3)
  BY <1>1, <1>6, <1>7, UniformBound
<1>9. StateOK(s3) /\ RecordingOK(s3) /\ BoundBy(s3, "image", Layout("image")) /\ s3.needsUpdate
  BY <1>1, <1>8 DEF Bound
<1>10. PICK r : r = Draw(BindVertexAttributes(s3, "image"))
  OBVIOUS
<1>11. Done(r) /\ SameSets(s3, r)
  BY <1>9, <1>10, EndsObject DEF Attributes
<1>12. SameSets(s2, s3)
  BY <1>5, <1>8 DEF Bound, SameSets
<1>13. Typed(s) /\ Typed(r) /\ SameSets(s2, r)
  BY <1>11, <1>12 DEF Done, StateOK, SameSets
<1>14. Takes(s, r, "image", 1)
  BY <1>1, <1>3, <1>5, <1>13, TakesOne
<1>15. QED
  BY <1>2, <1>4, <1>7, <1>10, <1>11, <1>14 DEF DoneFrom, RenderImage

(* So does a text.                                                         *)
LEMMA TextDone ==
    ASSUME NEW s, Done(s), F \in Slots \ pending, pending \subseteq Slots, NEW t \in Texts
    PROVE DoneFrom(s, RenderText(s, t), "text", 1)
<1>1. /\ "text" \in Programs /\ Layout("text") = (({} \cup {2}) \cup {0}) \cup {1}
      /\ 0 \in UniformBindings["text"] /\ 1 \in UniformBindings["text"]
      /\ TextureBinding["text"] = 2
  BY DEF Programs, Layout, UniformBindings, TextureBinding
<1>2. PICK s1 : s1 = BindProgram(s, "text")
  OBVIOUS
<1>3. StateOK(s1) /\ RecordingOK(s1) /\ BoundBy(s1, "text", {}) /\ SameSets(s, s1)
  BY <1>1, <1>2, BeginsObject DEF Done, SameSets
<1>4. PICK s2 : s2 = BindTexture(s1, "font")
  OBVIOUS
<1>5. Bound(s1, "text", {}, 2, s2)
  BY <1>1, <1>3, <1>4, TextureBound
<1>6. StateOK(s2) /\ RecordingOK(s2) /\ BoundBy(s2, "text", {} \cup {2})
  BY <1>5 DEF Bound
<1>7. PICK s3 : s3 = BindUniform(s2, 0)
  OBVIOUS
<1>8. Bound(s2, "text", {} \cup {2}, 0, s3)
  BY <1>1, <1>6, <1>7, UniformBound
<1>9. StateOK(s3) /\ RecordingOK(s3) /\ BoundBy(s3, "text", ({} \cup {2}) \cup {0})
  BY <1>8 DEF Bound
<1>10. PICK s4 : s4 = BindUniform(s3, 1)
  OBVIOUS
<1>11. Bound(s3, "text", ({} \cup {2}) \cup {0}, 1, s4)
  BY <1>1, <1>9, <1>10, UniformBound
<1>12. StateOK(s4) /\ RecordingOK(s4) /\ BoundBy(s4, "text", Layout("text")) /\ s4.needsUpdate
  BY <1>1, <1>11 DEF Bound
<1>13. PICK r : r = Draw(BindVertexAttributes(s4, t))
  OBVIOUS
<1>14. Done(r) /\ SameSets(s4, r)
  BY <1>12, <1>13, EndsObject DEF Attributes
<1>15. SameSets(s2, s4)
  BY <1>5, <1>8, <1>11 DEF Bound, SameSets
<1>16. Typed(s) /\ Typed(r) /\ SameSets(s2, r)
  BY <1>14, <1>15 DEF Done, StateOK, SameSets
<1>17. Takes(s, r, "text", 1)
  BY <1>1, <1>3, <1>5, <1>16, TakesOne
<1>18. QED
  BY <1>2, <1>4, <1>7, <1>10, <1>13, <1>14, <1>17 DEF DoneFrom, RenderText
-----------------------------------------------------------------------------
(* The chunks.                                                             *)

(* Between two chunks: what has been bound, and that nothing has been drawn *)
(* as long as the set is the first of the turn.                            *)
Progress(s) ==
    On => /\ s.buffer[F] = <<>> => s.needsUpdate /\ s.setIndex = 0
          /\ s.buffer[F] # <<>> => s.old.program = "tile"
InContainer(s) ==
    /\ StateOK(s) /\ RecordingOK(s) /\ Progress(s)
    /\ BoundBy(s, "tile", {1}) \/ BoundBy(s, "tile", Layout("tile"))
(* Within a chunk, all is bound. *)
ChunkReady(s) ==
    /\ StateOK(s) /\ RecordingOK(s) /\ Progress(s)
    /\ BoundBy(s, "tile", Layout("tile")) /\ Drawable(s, "tile")
    /\ On => s.setProgram = "tile"

(* A draw, or a change of what is drawn with, takes no set. *)
ChunkFrom(s, r) == ChunkReady(r) /\ SameSets(s, r)

(* What the shaders of the tiles declare.                                  *)
LEMMA TileIs ==
    /\ "tile" \in Programs /\ Layout("tile") = {1} \cup {0} /\ TextureBinding["tile"] = 1
    /\ 0 \in UniformBindings["tile"] /\ Layout("tile") = Layout("tile") \cup {0}
BY DEF Programs, Layout, UniformBindings, TextureBinding

(* The set that the chunks fill is one of their own.                       *)
LEMMA TileSet ==
    ASSUME NEW s, NEW D, BoundBy(s, "tile", D), On, s.needsUpdate
    PROVE s.setProgram = "tile"
BY DEF BoundBy, Fresh, Strays

(* A chunk that binds its uniforms has bound all that a draw needs, and    *)
(* has taken at most one set.                                              *)
LEMMA ChunkBinds ==
    ASSUME NEW s, InContainer(s), F \in Slots \ pending, pending \subseteq Slots
    PROVE /\ ChunkReady(BindUniform(s, 0))
          /\ \A t : ChunkFrom(BindUniform(s, 0), t) => Takes(s, t, "tile", 1)
<1>1. PICK r : r = BindUniform(s, 0)
  OBVIOUS
<1>2. StateOK(s) /\ RecordingOK(s) /\ Progress(s)
  BY DEF InContainer
<1>3. PICK D : /\ D = {1} \/ D = Layout("tile")
               /\ BoundBy(s, "tile", D)
  BY DEF InContainer
<1>4. Bound(s, "tile", D, 0, r)
  BY <1>1, <1>2, <1>3, TileIs, UniformBound
<1>5. D \cup {0} = Layout("tile")
  BY <1>3, TileIs
<1>6. /\ StateOK(r) /\ RecordingOK(r) /\ BoundBy(r, "tile", Layout("tile")) /\ r.needsUpdate = TRUE
      /\ r.buffer = s.buffer /\ r.old = s.old
      /\ r.setIndex = (IF s.needsUpdate THEN s.setIndex ELSE s.setsTaken["tile"])
  BY <1>4, <1>5 DEF Bound
<1>7. Progress(r)
  BY <1>2, <1>6 DEF Progress
<1>8. (On => r.setProgram = "tile") /\ Drawable(r, "tile")
  BY <1>6, TileSet DEF Drawable
<1>9. ASSUME NEW t, ChunkFrom(r, t)
      PROVE Takes(s, t, "tile", 1)
  <2>1. Typed(s) /\ Typed(t) /\ SameSets(r, t)
    BY <1>2, <1>9 DEF ChunkFrom, ChunkReady, StateOK
  <2>2. SameSets(s, s)
    BY DEF SameSets
  <2>3. QED
    BY <1>4, <2>1, <2>2, TileIs, TakesOne
<1>10. QED
  BY <1>1, <1>6, <1>7, <1>8, <1>9 DEF ChunkReady

(* A draw of a chunk leaves State ready for another with the same set.     *)
LEMMA ChunkDraws ==
    ASSUME NEW s, ChunkReady(s), F \in Slots \ pending, pending \subseteq Slots
    PROVE ChunkFrom(s, Draw(s))
<1>1. PICK r : r = Draw(s)
  OBVIOUS
<1>2. /\ StateOK(s) /\ RecordingOK(s) /\ Progress(s) /\ BoundBy(s, "tile", Layout("tile"))
      /\ Drawable(s, "tile") /\ (On => s.setProgram = "tile")
  BY DEF ChunkReady
<1>3. AfterDraw(s, "tile", r)
  BY <1>1, <1>2, Drawn
<1>4. CASE ~On
  <2>1. r = s
    BY <1>1, <1>4 DEF Draw, On
  <2>2. QED
    BY <1>1, <2>1 DEF ChunkFrom, SameSets
<1>5. CASE On
  <2>1. Drawable(r, "tile") /\ r.needsUpdate = FALSE /\ r.buffer[F] # <<>> /\ r.old.program = "tile"
    BY <1>2, <1>3, <1>5 DEF AfterDraw
  <2>2. Progress(r) /\ r.setProgram = "tile"
    BY <1>5, <2>1 DEF Progress, Drawable
  <2>3. StateOK(r) /\ RecordingOK(r) /\ BoundBy(r, "tile", Layout("tile"))
    BY <1>3 DEF AfterDraw
  <2>4. SameSets(s, r)
    BY <1>3 DEF AfterDraw
  <2>5. QED
    BY <1>1, <2>1, <2>2, <2>3, <2>4 DEF ChunkReady, ChunkFrom
<1>6. QED
  BY <1>4, <1>5

(* So do the calls between the draws.                                      *)
LEMMA ChunkSets ==
    ASSUME NEW s, ChunkReady(s), NEW r,
           \/ \E a \in Attributes : r = BindVertexAttributes(s, a)
           \/ \E on \in BOOLEAN : r = EnableDepthTest(s, on)
           \/ \E mode \in Stencils : r = SetStencil(s, mode)
    PROVE ChunkFrom(s, r)
<1>1. /\ StateOK(s) /\ RecordingOK(s) /\ Progress(s) /\ BoundBy(s, "tile", Layout("tile"))
      /\ Drawable(s, "tile") /\ (On => s.setProgram = "tile")
  BY DEF ChunkReady
<1>2. SameButCurrent(s, r)
  BY <1>1, CurrentKept
<1>3. OnlyCurrent(s, r) /\ r.current.program = s.current.program /\ StateOK(r) /\ RecordingOK(r)
  BY <1>1, <1>2 DEF SameButCurrent
<1>4. BoundBy(r, "tile", Layout("tile")) /\ Drawable(r, "tile")
  BY <1>1, <1>3, CurrentBound
<1>5. Progress(r) /\ (On => r.setProgram = "tile")
  BY <1>1, <1>3 DEF OnlyCurrent, Progress
<1>6. QED
  BY <1>3, <1>4, <1>5 DEF ChunkReady, ChunkFrom, OnlyCurrent, SameSets

(* After a chunk the next one can begin.                                   *)
LEMMA ChunkLeaves ==
    ASSUME NEW s, ChunkReady(s)
    PROVE InContainer(s)
BY DEF ChunkReady, InContainer

(* Of two such calls after each other no set is taken either.              *)
LEMMA ChunkOn ==
    ASSUME NEW s, NEW r, NEW t, ChunkFrom(s, r), ChunkFrom(r, t)
    PROVE ChunkFrom(s, t)
BY DEF ChunkFrom, SameSets

(* Draws with a stencil and the vertices of c, within a chunk.             *)
LEMMA PieceDrawn ==
    ASSUME NEW s, ChunkReady(s), F \in Slots \ pending, pending \subseteq Slots,
           NEW a \in Attributes, NEW mode \in Stencils
    PROVE ChunkFrom(s, Draw(BindVertexAttributes(SetStencil(s, mode), a)))
<1>1. PICK s1 : s1 = SetStencil(s, mode)
  OBVIOUS
<1>2. ChunkFrom(s, s1)
  BY <1>1, ChunkSets
<1>3. PICK s2 : s2 = BindVertexAttributes(s1, a)
  OBVIOUS
<1>4. ChunkFrom(s1, s2)
  BY <1>2, <1>3, ChunkSets DEF ChunkFrom
<1>5. PICK s3 : s3 = Draw(s2)
  OBVIOUS
<1>6. ChunkFrom(s2, s3)
  BY <1>4, <1>5, ChunkDraws DEF ChunkFrom
<1>7. ChunkFrom(s, s3)
  BY <1>2, <1>4, <1>6, ChunkOn
<1>8. QED
  BY <1>1, <1>3, <1>5, <1>7

(* What a chunk binds the vertices of is among the attributes.             *)
LEMMA ChunkAttributes ==
    ASSUME NEW i \in DOMAIN Chunks, NEW c, c = Chunks[i]
    PROVE {c, c \o " unit", c \o " xray"} \subseteq Attributes
<1> DEFINE of(j) == {Chunks[j], Chunks[j] \o " unit", Chunks[j] \o " xray"}
           all == {of(j) : j \in DOMAIN Chunks}
<1>1. {c, c \o " unit", c \o " xray"} = of(i)
  BY Zenon
<1>2. of(i) \in all
  OBVIOUS
<1>3. UNION all \subseteq Attributes
  BY DEF Attributes
<1> HIDE DEF of, all
<1>4. QED
  BY <1>1, <1>2, <1>3, Zenon

(* Chunk::renderChunk() leaves State as the next chunk expects it.         *)
LEMMA ChunkRendered ==
    ASSUME NEW s, InContainer(s), F \in Slots \ pending, pending \subseteq Slots,
           NEW i \in DOMAIN Chunks
    PROVE /\ InContainer(RenderChunk(s, Chunks[i]))
          /\ Takes(s, RenderChunk(s, Chunks[i]), "tile", 1)
<1>1. PICK c : c = Chunks[i]
  OBVIOUS
<1>2. {"tiles", "unit", "tiles off"} \subseteq Stencils
  BY DEF Stencils
<1>3. {c, c \o " unit"} \subseteq Attributes
  BY <1>1, ChunkAttributes
<1> DEFINE tiles(t) == Draw(BindVertexAttributes(SetStencil(t, "tiles"), c))
           unit(t) == Draw(BindVertexAttributes(SetStencil(t, "unit"), c \o " unit"))
<1>4. \A t : ChunkReady(t) => ChunkFrom(t, tiles(t)) /\ ChunkFrom(t, unit(t))
  BY <1>2, <1>3, PieceDrawn
<1>5. PICK s1 : s1 = BindUniform(s, 0)
  OBVIOUS
<1>6. ChunkReady(s1)
  BY <1>5, ChunkBinds
<1>7. PICK s2 : s2 = IF c \in Occupied THEN tiles(unit(tiles(s1))) ELSE tiles(s1)
  OBVIOUS
<1>8. RenderChunk(s, c) = SetStencil(s2, "tiles off")
  BY <1>5, <1>7 DEF RenderChunk
<1> HIDE DEF tiles, unit
<1>9. ChunkFrom(s1, s2)
  <2>1. ChunkFrom(s1, tiles(s1)) /\ ChunkReady(tiles(s1))
    BY <1>4, <1>6 DEF ChunkFrom
  <2>2. ChunkFrom(s1, unit(tiles(s1))) /\ ChunkReady(unit(tiles(s1)))
    BY <1>4, <2>1, ChunkOn DEF ChunkFrom
  <2>3. ChunkFrom(s1, tiles(unit(tiles(s1))))
    BY <1>4, <2>2, ChunkOn
  <2>4. QED
    BY <1>7, <2>1, <2>3
<1>10. PICK r : r = SetStencil(s2, "tiles off")
  OBVIOUS
<1>11. ChunkFrom(s1, r)
  BY <1>2, <1>9, <1>10, ChunkSets, ChunkOn DEF ChunkFrom
<1>12. InContainer(r) /\ Takes(s, r, "tile", 1)
  BY <1>5, <1>11, ChunkBinds, ChunkLeaves DEF ChunkFrom
<1>13. QED
  BY <1>1, <1>8, <1>10, <1>12

(* So does Chunk::renderXRay(), which may bind and not draw.               *)
LEMMA XRayRendered ==
    ASSUME NEW s, InContainer(s), F \in Slots \ pending, pending \subseteq Slots,
           NEW i \in DOMAIN Chunks
    PROVE /\ InContainer(RenderXRay(s, Chunks[i]))
          /\ Takes(s, RenderXRay(s, Chunks[i]), "tile", 1)
<1>1. PICK c : c = Chunks[i]
  OBVIOUS
<1>2. {"xray", "off"} \subseteq Stencils
  BY DEF Stencils
<1>3. c \o " xray" \in Attributes
  BY <1>1, ChunkAttributes
<1>4. PICK s1 : s1 = BindUniform(s, 0)
  OBVIOUS
<1>5. ChunkReady(s1)
  BY <1>4, ChunkBinds
<1>6. PICK s2 : s2 = SetStencil(s1, "xray")
  OBVIOUS
<1>7. ChunkFrom(s1, s2)
  BY <1>2, <1>5, <1>6, ChunkSets
<1>8. PICK s3 : s3 = BindVertexAttributes(s2, c \o " xray")
  OBVIOUS
<1>9. ChunkFrom(s2, s3)
  BY <1>3, <1>7, <1>8, ChunkSets DEF ChunkFrom
<1>10. PICK s4 : s4 = EnableDepthTest(s3, FALSE)
  OBVIOUS
<1>11. ChunkFrom(s3, s4)
  <2>1. \E on \in BOOLEAN : s4 = EnableDepthTest(s3, on)
    BY <1>10, Zenon
  <2>2. QED
    BY <1>9, <2>1, ChunkSets DEF ChunkFrom
<1>12. PICK s5 : s5 = Draw(s4)
  OBVIOUS
<1>13. ChunkFrom(s4, s5)
  BY <1>11, <1>12, ChunkDraws DEF ChunkFrom
<1>14. PICK s6 : s6 = EnableDepthTest(s5, TRUE)
  OBVIOUS
<1>15. ChunkFrom(s5, s6)
  <2>1. \E on \in BOOLEAN : s6 = EnableDepthTest(s5, on)
    BY <1>14, Zenon
  <2>2. QED
    BY <1>13, <2>1, ChunkSets DEF ChunkFrom
<1>16. PICK s7 : s7 = IF c \in Occupied THEN s6 ELSE s2
  OBVIOUS
<1>17. ChunkFrom(s1, s7)
  <2>1. ChunkFrom(s1, s6)
    BY <1>7, <1>9, <1>11, <1>13, <1>15, ChunkOn
  <2>2. QED
    BY <1>7, <1>16, <2>1
<1>18. PICK r : r = SetStencil(s7, "off")
  OBVIOUS
<1>19. ChunkFrom(s1, r)
  BY <1>2, <1>17, <1>18, ChunkSets, ChunkOn DEF ChunkFrom
<1>20. InContainer(r) /\ Takes(s, r, "tile", 1)
  BY <1>4, <1>19, ChunkBinds, ChunkLeaves DEF ChunkFrom
<1>21. RenderXRay(s, c) = r
  BY <1>4, <1>6, <1>8, <1>10, <1>12, <1>14, <1>16, <1>18 DEF RenderXRay
<1>22. QED
  BY <1>1, <1>20, <1>21
-----------------------------------------------------------------------------
(* One after the other.                                                    *)

(* A set of natural numbers that is not empty has a least.                 *)
LEMMA Least ==
    ASSUME NEW S \in SUBSET Nat, S # {}
    PROVE \E n \in S : \A m \in S : n <= m
<1> DEFINE R == {ss \in Nat \X Nat : ss[1] < ss[2]}
<1>1. R = OpToRel(<, Nat)
  BY DEF OpToRel
<1>2. IsWellFoundedOn(R, Nat)
  BY <1>1, NatLessThanWellFounded
<1> HIDE DEF R
<1>3. PICK n \in S : \A m \in S : <<m, n>> \notin R
  BY <1>2, WFMin
<1>4. ASSUME NEW m \in S
      PROVE n <= m
  <2>1. m \in Nat /\ n \in Nat /\ <<m, n>> \notin R
    BY <1>3
  <2>2. m < n => <<m, n>> \in R
    BY <2>1 DEF R
  <2>3. QED
    BY <2>1, <2>2
<1>5. QED
  BY <1>4

(* What ForVisible() does to s with the chunk at place i, in either pass.  *)
Part(xray, s, i, visible) ==
    IF i \in visible
    THEN IF xray THEN RenderXRay(s, Chunks[i]) ELSE RenderChunk(s, Chunks[i])
    ELSE s

(* f is s after each of the first m chunks.                                *)
Passes(f, m, xray, s, visible) ==
    f = [i \in 0..m |-> IF i = 0 THEN s ELSE Part(xray, f[i - 1], i, visible)]

(* There is such an f: what ForVisible() says of `done' defines a function. *)
LEMMA PassExists ==
    ASSUME NEW s, NEW visible, NEW xray \in BOOLEAN, NEW m \in Nat
    PROVE \E f : Passes(f, m, xray, s, visible)
<1> DEFINE S == {n \in Nat : ~\E f : Passes(f, n, xray, s, visible)}
<1>1. SUFFICES ASSUME S # {}
               PROVE FALSE
  OBVIOUS
<1>2. PICK n \in S : \A k \in S : n <= k
  BY <1>1, Least
<1>3. CASE n = 0
  <2> DEFINE f == [i \in 0..0 |-> s]
  <2>1. f = [i \in 0..0 |-> IF i = 0 THEN s ELSE Part(xray, f[i - 1], i, visible)]
    OBVIOUS
  <2>2. Passes(f, 0, xray, s, visible)
    BY <2>1 DEF Passes
  <2>3. QED
    BY <1>3, <2>2
<1>4. CASE n # 0
  <2>1. n - 1 \in Nat /\ n - 1 \notin S /\ n \in Nat
    BY <1>2, <1>4
  <2>2. PICK f : Passes(f, n - 1, xray, s, visible)
    BY <2>1
  <2> DEFINE h == [i \in 0..n |-> IF i <= n - 1 THEN f[i] ELSE Part(xray, f[n - 1], n, visible)]
  <2>3. \A i \in 0..n - 1 : f[i] = IF i = 0 THEN s ELSE Part(xray, f[i - 1], i, visible)
    BY <2>2 DEF Passes
  <2>4. ASSUME NEW i \in 0..n
        PROVE h[i] = IF i = 0 THEN s ELSE Part(xray, h[i - 1], i, visible)
    <3>1. CASE i = 0
      BY <2>1, <2>3, <3>1
    <3>2. CASE i # 0 /\ i <= n - 1
      <4>1. i - 1 \in 0..n /\ i - 1 <= n - 1 /\ i \in 0..n - 1
        BY <2>1, <3>2
      <4>2. h[i] = f[i] /\ h[i - 1] = f[i - 1]
        BY <3>2, <4>1
      <4>3. QED
        BY <2>3, <3>2, <4>1, <4>2
    <3>3. CASE i = n
      <4>1. n - 1 \in 0..n /\ ~(n <= n - 1)
        BY <2>1
      <4>2. h[n] = Part(xray, f[n - 1], n, visible) /\ h[n - 1] = f[n - 1]
        BY <2>1, <4>1
      <4>3. QED
        BY <1>4, <3>3, <4>2
    <3>4. QED
      BY <2>1, <3>1, <3>2, <3>3
  <2>5. h = [i \in 0..n |-> h[i]]
    OBVIOUS
  <2> HIDE DEF h
  <2>6. h = [i \in 0..n |-> IF i = 0 THEN s ELSE Part(xray, h[i - 1], i, visible)]
    BY <2>4, <2>5
  <2>7. QED
    BY <2>6 DEF Passes
<1>5. QED
  BY <1>3, <1>4

(* Each of them leaves State as the next one expects it.                   *)
LEMMA PassKeeps ==
    ASSUME NEW s, InContainer(s), F \in Slots \ pending, pending \subseteq Slots,
           NEW visible, NEW xray \in BOOLEAN, NEW m \in Nat, m = Len(Chunks),
           NEW f, Passes(f, m, xray, s, visible)
    PROVE InContainer(f[m]) /\ Takes(s, f[m], "tile", m)
<1> DEFINE S == {n \in 0..m : ~(InContainer(f[n]) /\ Takes(s, f[n], "tile", n))}
<1>1. \A n \in 0..m : f[n] = IF n = 0 THEN s ELSE Part(xray, f[n - 1], n, visible)
  BY DEF Passes
<1>2. S = {}
  <2>1. SUFFICES ASSUME S # {}
                 PROVE FALSE
    OBVIOUS
  <2>2. PICK n \in S : \A k \in S : n <= k
    <3>1. S \in SUBSET Nat
      OBVIOUS
    <3> HIDE DEF S
    <3>2. QED
      BY <2>1, <3>1, Least
  <2>3. n \in 0..m /\ ~(InContainer(f[n]) /\ Takes(s, f[n], "tile", n))
    BY <2>2
  <2>4. n # 0
    <3>1. Typed(s) /\ SameSets(s, s)
      BY DEF InContainer, StateOK, SameSets
    <3>2. Takes(s, s, "tile", 0)
      BY <3>1, TakesNone
    <3>3. QED
      BY <1>1, <2>3, <3>2
  <2>5. n - 1 \in 0..m /\ n - 1 \notin S /\ n \in 1..m
    BY <2>2, <2>3, <2>4
  <2>6. /\ InContainer(f[n - 1]) /\ Takes(s, f[n - 1], "tile", n - 1)
        /\ f[n] = Part(xray, f[n - 1], n, visible)
    BY <1>1, <2>3, <2>4, <2>5
  <2>7. n \in DOMAIN Chunks
    <3>1. Chunks \in Seq(STRING)
      BY DrawsAssumption
    <3>2. QED
      BY <2>5, <3>1
  <2>8. PICK g : g = f[n - 1]
    OBVIOUS
  <2>9. PICK h : h = f[n]
    OBVIOUS
  <2>10. InContainer(g) /\ h = Part(xray, g, n, visible)
    BY <2>6, <2>8, <2>9
  <2>11. InContainer(h) /\ Takes(g, h, "tile", 1)
    <3>1. CASE n \in visible
      <4>1. /\ InContainer(RenderChunk(g, Chunks[n]))
            /\ Takes(g, RenderChunk(g, Chunks[n]), "tile", 1)
            /\ InContainer(RenderXRay(g, Chunks[n]))
            /\ Takes(g, RenderXRay(g, Chunks[n]), "tile", 1)
        BY <2>7, <2>10, ChunkRendered, XRayRendered
      <4>2. QED
        BY <2>10, <3>1, <4>1 DEF Part
    <3>2. CASE n \notin visible
      <4>1. h = g
        BY <2>10, <3>2 DEF Part
      <4>2. Typed(g) /\ SameSets(g, g)
        BY <2>10 DEF InContainer, StateOK, SameSets
      <4>3. Takes(g, g, "tile", 1)
        BY <4>2, TakesNone
      <4>4. QED
        BY <2>10, <4>1, <4>3
    <3>3. QED
      BY <3>1, <3>2
  <2>12. PICK k \in Nat : k = n - 1
    BY <2>3, <2>4
  <2>13. Takes(s, g, "tile", k)
    BY <2>6, <2>8, <2>12
  <2>14. Typed(s) /\ Typed(g) /\ Typed(h)
    BY <2>10, <2>11 DEF InContainer, StateOK
  <2>15. Takes(s, h, "tile", k + 1)
    BY <2>11, <2>13, <2>14, TakesMore
  <2>16. k + 1 = n
    BY <2>3, <2>12
  <2>17. QED
    BY <2>3, <2>9, <2>11, <2>15, <2>16
<1>3. m \in 0..m
  OBVIOUS
<1>4. QED
  BY <1>2, <1>3

(* The pass over the chunks, with any of them in sight.                    *)
LEMMA ChunksPass ==
    ASSUME NEW s, InContainer(s), F \in Slots \ pending, pending \subseteq Slots, NEW visible
    PROVE /\ InContainer(ForVisible(RenderChunk, s, visible))
          /\ Takes(s, ForVisible(RenderChunk, s, visible), "tile", Len(Chunks))
<1> DEFINE m == Len(Chunks)
           f == CHOOSE f : f = [i \in 0..m |->
                    IF i = 0 THEN s
                    ELSE IF i \in visible THEN RenderChunk(f[i - 1], Chunks[i]) ELSE f[i - 1]]
<1>1. m \in Nat
  <2>1. Chunks \in Seq(STRING)
    BY DrawsAssumption
  <2>2. QED
    BY <2>1
<1>2. ForVisible(RenderChunk, s, visible) = f[m]
  BY DEF ForVisible
<1>3. PICK xray \in BOOLEAN : ~xray
  OBVIOUS
<1>4. PICK h : Passes(h, m, xray, s, visible)
  BY <1>1, PassExists
<1>5. Passes(f, m, xray, s, visible)
  BY <1>3, <1>4 DEF Passes, Part
<1> HIDE DEF f
<1>6. InContainer(f[m]) /\ Takes(s, f[m], "tile", m)
  BY <1>1, <1>5, PassKeeps
<1>7. QED
  BY <1>2, <1>6

(* The pass over what shines through.                                      *)
LEMMA XRaysPass ==
    ASSUME NEW s, InContainer(s), F \in Slots \ pending, pending \subseteq Slots, NEW visible
    PROVE /\ InContainer(ForVisible(RenderXRay, s, visible))
          /\ Takes(s, ForVisible(RenderXRay, s, visible), "tile", Len(Chunks))
<1> DEFINE m == Len(Chunks)
           f == CHOOSE f : f = [i \in 0..m |->
                    IF i = 0 THEN s
                    ELSE IF i \in visible THEN RenderXRay(f[i - 1], Chunks[i]) ELSE f[i - 1]]
<1>1. m \in Nat
  <2>1. Chunks \in Seq(STRING)
    BY DrawsAssumption
  <2>2. QED
    BY <2>1
<1>2. ForVisible(RenderXRay, s, visible) = f[m]
  BY DEF ForVisible
<1>3. PICK xray \in BOOLEAN : xray
  OBVIOUS
<1>4. PICK h : Passes(h, m, xray, s, visible)
  BY <1>1, PassExists
<1>5. Passes(f, m, xray, s, visible)
  BY <1>3, <1>4 DEF Passes, Part
<1> HIDE DEF f
<1>6. InContainer(f[m]) /\ Takes(s, f[m], "tile", m)
  BY <1>1, <1>5, PassKeeps
<1>7. QED
  BY <1>2, <1>6

(* The container, at the beginning of a turn.                              *)
LEMMA ContainerDone ==
    ASSUME NEW s, StateOK(s), RecordingOK(s), Begun(s), F \in Slots \ pending,
           pending \subseteq Slots, NEW visible
    PROVE DoneFrom(s, RenderContainer(s, visible), "tile", 2 * Len(Chunks) + 1)
<1>1. LeftOver(s)
  BY DEF Begun, LeftOver
<1>2. PICK s1 : s1 = BindProgram(s, "tile")
  OBVIOUS
<1>3. /\ StateOK(s1) /\ RecordingOK(s1) /\ BoundBy(s1, "tile", {})
      /\ s1.setsTaken = s.setsTaken /\ s1.buffer = s.buffer /\ s1.sets = s.sets
      /\ ~s.needsUpdate => ~s1.needsUpdate
  BY <1>1, <1>2, TileIs, BeginsObject
<1>4. PICK s2 : s2 = BindTexture(s1, "sprites")
  OBVIOUS
<1>5. Bound(s1, "tile", {}, 1, s2)
  BY <1>3, <1>4, TileIs, TextureBound
<1>6. /\ StateOK(s2) /\ RecordingOK(s2) /\ BoundBy(s2, "tile", {} \cup {1})
      /\ s2.needsUpdate = TRUE /\ s2.buffer = s1.buffer
      /\ s2.setIndex = (IF s1.needsUpdate THEN s1.setIndex ELSE s1.setsTaken["tile"])
  BY <1>5 DEF Bound
<1>7. Progress(s2)
  <2>1. ASSUME On
        PROVE s2.setIndex = 0 /\ s2.buffer[F] = <<>>
    BY <1>3, <1>6, <2>1, TileIs DEF Begun
  <2>2. QED
    BY <1>6, <2>1 DEF Progress
<1>8. InContainer(s2)
  BY <1>6, <1>7 DEF InContainer
<1>9. PICK m \in Nat : m = Len(Chunks)
  <2>1. Chunks \in Seq(STRING)
    BY DrawsAssumption
  <2>2. QED
    BY <2>1
<1>10. PICK s3 : s3 = ForVisible(RenderChunk, s2, visible)
  OBVIOUS
<1>11. InContainer(s3) /\ Takes(s2, s3, "tile", m)
  BY <1>8, <1>9, <1>10, ChunksPass
<1>12. PICK s4 : s4 = ForVisible(RenderXRay, s3, visible)
  OBVIOUS
<1>13. InContainer(s4) /\ Takes(s3, s4, "tile", m)
  BY <1>9, <1>11, <1>12, XRaysPass
<1>14. StateOK(s4) /\ RecordingOK(s4) /\ Progress(s4)
  BY <1>13 DEF InContainer
<1>15. On /\ s4.needsUpdate => s4.setProgram = "tile"
  BY <1>13, TileSet DEF InContainer
<1>16. LeftOver(s4)
  BY <1>14, <1>15 DEF Progress, LeftOver
<1>17. Takes(s, s4, "tile", 2 * m + 1)
  <2>1. Typed(s) /\ Typed(s2) /\ Typed(s3) /\ Typed(s4)
    BY <1>6, <1>11, <1>14 DEF InContainer, StateOK
  <2>2. SameSets(s, s1) /\ SameSets(s2, s2)
    BY <1>3 DEF SameSets
  <2>3. Takes(s, s2, "tile", 1)
    BY <1>5, <2>1, <2>2, TileIs, TakesOne
  <2>4. Takes(s, s3, "tile", 1 + m)
    BY <1>11, <2>1, <2>3, TakesMore
  <2>5. Takes(s, s4, "tile", (1 + m) + m)
    BY <1>13, <2>1, <2>4, TakesMore
  <2>6. (1 + m) + m = 2 * m + 1
    OBVIOUS
  <2>7. QED
    BY <2>5, <2>6
<1>18. RenderContainer(s, visible) = s4
  BY <1>2, <1>4, <1>10, <1>12 DEF RenderContainer
<1>19. QED
  BY <1>9, <1>14, <1>16, <1>17, <1>18 DEF Done, DoneFrom
(* At first both fences are signalled and the GPU has nothing.             *)
LEMMA FenceInvInit == Init => FenceInv
BY DEF Init, FenceInv, FenceTellsGPU, Slots, Recording

(* The turn begins: the fence that was waited for is signalled, so that    *)
(* the GPU does not have the buffer.                                       *)
LEMMA PrerenderKeeps ==
    ASSUME FenceInv, PrerenderRefused \/ PrerenderAcquired
    PROVE FenceInv'
<1>1. phase = "prerender" /\ phase' = "container" /\ fence[framePingPong]
      /\ framePingPong' = framePingPong /\ pending' = pending
  BY DEF PrerenderRefused, PrerenderAcquired, PrerenderBegin
<1>2. framePingPong \notin pending
  BY <1>1 DEF FenceInv, FenceTellsGPU
<1>3. \A i \in Slots : ~fence[i] <=> i \in pending
  BY <1>1 DEF FenceInv, FenceTellsGPU, Recording
<1>4. CASE PrerenderRefused
  BY <1>1, <1>2, <1>3, <1>4 DEF PrerenderRefused, FenceInv, FenceTellsGPU, Recording
<1>5. CASE PrerenderAcquired
  BY <1>1, <1>2, <1>3, <1>5 DEF PrerenderAcquired, FenceInv, FenceTellsGPU, Recording
<1>6. QED
  BY <1>4, <1>5

(* Rendering an object moves within the turn.                              *)
LEMMA ObjectsKeep ==
    ASSUME FenceInv, NEW from, NEW to, NEW s, RenderObjects(from, to, s),
           from # "prerender", to # "prerender"
    PROVE FenceInv'
BY DEF RenderObjects, FenceInv, FenceTellsGPU, Recording

(* The turn ends, with a frame for the GPU or without.                     *)
LEMMA RenderKeeps ==
    ASSUME FenceInv, RenderNothing \/ RenderSubmit
    PROVE FenceInv'
<1>1. phase = "interface" /\ phase' = "prerender" /\ fence' = fence
  BY DEF RenderNothing, RenderSubmit, RenderEnd
<1>2. CASE RenderNothing
  BY <1>1, <1>2 DEF RenderNothing, FenceInv, FenceTellsGPU, Recording
<1>3. CASE RenderSubmit
  <2>1. pending' = pending \cup {framePingPong} /\ ~outOfDate
    BY <1>3 DEF RenderSubmit
  <2>2. framePingPong' \in Slots
    BY <1>3 DEF RenderSubmit, FenceInv, Slots
  <2>3. \A i \in Slots : ~fence'[i] <=> i \in pending'
    BY <1>1, <2>1 DEF FenceInv, FenceTellsGPU, Recording
  <2>4. QED
    BY <1>1, <2>2, <2>3 DEF FenceInv, FenceTellsGPU, Recording
<1>4. QED
  BY <1>2, <1>3

(* The GPU finishes a frame, which is not the one being recorded.          *)
LEMMA FinishKeeps ==
    ASSUME FenceInv, NEW i \in Slots, FinishFrame(i)
    PROVE FenceInv'
BY DEF FinishFrame, FenceInv, FenceTellsGPU, Recording

(* So every step keeps what the fences tell.                               *)
LEMMA FenceInvKept == FenceInv /\ [Next]_vars => FenceInv'
<1> SUFFICES ASSUME FenceInv, [Next]_vars PROVE FenceInv'
  OBVIOUS
<1>1. CASE PrerenderRefused \/ PrerenderAcquired
  BY <1>1, PrerenderKeeps
<1>2. CASE DrawContainer
  BY <1>2, ObjectsKeep DEF DrawContainer
<1>3. CASE DrawLine \/ DrawHealthbar
  BY <1>3, ObjectsKeep DEF DrawLine, DrawHealthbar
<1>4. CASE DepthOff
  BY <1>4, ObjectsKeep DEF DepthOff
<1>5. CASE DrawText
  BY <1>5, ObjectsKeep DEF DrawText
<1>6. CASE DrawBox \/ DrawImage
  BY <1>6, ObjectsKeep DEF DrawBox, DrawImage
<1>7. CASE RenderNothing \/ RenderSubmit
  BY <1>7, RenderKeeps
<1>8. CASE LoadPicture \/ FinishCopy
  BY <1>8 DEF LoadPicture, FinishCopy, FenceInv, FenceTellsGPU, Recording
<1>9. CASE \E i \in Slots : FinishFrame(i)
  BY <1>9, FinishKeeps
<1>10. CASE LastTurn \/ UNCHANGED vars
  BY <1>10 DEF LastTurn, vars, FenceInv, FenceTellsGPU, Recording
<1>11. QED
  BY <1>1, <1>2, <1>3, <1>4, <1>5, <1>6, <1>7, <1>8, <1>9, <1>10 DEF Next, Loop, GPU

-----------------------------------------------------------------------------
(* The steps.                                                              *)

(* What was drawn in buffer i stays right when the image only gets readier. *)
LEMMA SameDraws ==
    ASSUME NEW i, Shown(i) => Shown(i)'
    PROVE /\ carried'[i] = carried[i] /\ PipedIn(state', i) => PipedIn(state, i)'
          /\ DrawnRight(state', i) => DrawnRight(state, i)'
          /\ carried'[i] = carried[i] /\ StrayFirst(state', i) => StrayFirst(state, i)'
<1>1. carried'[i] = carried[i] /\ PipedIn(state', i) => PipedIn(state, i)'
  BY DEF PipedIn, Piped
<1>2. \A x, v : Gives(state', i, x, v) => Gives(state, i, x, v)'
  BY DEF Gives
<1>3. \A set, want : SetGives(state', i, set, want) => SetGives(state, i, set, want)'
  BY <1>2 DEF SetGives
<1>4. DrawnRight(state', i) => DrawnRight(state, i)'
  BY <1>3 DEF DrawnRight
<1>5. carried'[i] = carried[i] /\ StrayFirst(state', i) => StrayFirst(state, i)'
  BY DEF StrayFirst
<1>6. QED
  BY <1>1, <1>4, <1>5

(* What holds of the next State and of each buffer holds of the next state *)
(* of the model.                                                           *)
LEMMA StateMoves ==
    ASSUME Shape(state'), Typed(state'), PipesKnown(state'), OldHasSet(state'),
           \A i \in Slots : StrayFirst(state, i)',
           \A i \in pending' : PipedIn(state, i)' /\ DrawnRight(state, i)'
    PROVE StateOK(state)'
<1>1. Shape(state)' /\ PipesKnown(state)' /\ OldHasSet(state)'
  BY DEF Shape, PipesKnown, OldHasSet
<1>2. Typed(state)'
  BY DEF Typed, IsSeq
<1>3. QED
  BY <1>1, <1>2 DEF StateOK

(* While a turn goes on, only State and what is drawn change.              *)
Goes == UNCHANGED <<framePingPong, outOfDate, pending, carried>>

(* What holds of the next State in a step that changes neither buffer nor  *)
(* frame holds after it.                                                   *)
LEMMA StateGoes ==
    ASSUME StateOK(state'), Goes, pending \subseteq Slots,
           picture' = picture \/ (picture # "ready" /\ picture' # "none")
    PROVE /\ StateOK(state)'
          /\ RecordingOK(state') /\ F \in Slots => RecordingOK(state)'
<1>1. \A i : Shown(i) => Shown(i)'
  BY DEF Shown, Goes
<1>2. carried' = carried /\ pending' = pending /\ F' = F /\ (On <=> On')
  BY DEF Goes, F, On
<1>3. StateOK(state)'
  <2>1. \A i \in Slots : StrayFirst(state, i)'
    BY <1>1, <1>2, SameDraws DEF StateOK
  <2>2. \A i \in pending' : PipedIn(state, i)' /\ DrawnRight(state, i)'
    BY <1>1, <1>2, SameDraws DEF StateOK
  <2>3. QED
    BY <2>1, <2>2, StateMoves DEF StateOK
<1>4. ASSUME RecordingOK(state'), F \in Slots
      PROVE RecordingOK(state)'
  <2>1. ASSUME On
        PROVE (PipedIn(state, F) /\ DrawnRight(state, F))'
    <3>1. PICK i \in Slots : i = F
      BY <1>4
    <3>2. PipedIn(state', i) /\ DrawnRight(state', i)
      BY <1>4, <2>1, <3>1 DEF RecordingOK
    <3>3. PipedIn(state, i)' /\ DrawnRight(state, i)'
      BY <1>1, <1>2, <3>2, SameDraws
    <3>4. QED
      BY <1>2, <3>1, <3>3
  <2>2. ASSUME On
        PROVE (PipeBound(state) /\ SetsApart(state) /\ PiecesTaken(state))'
    BY <1>2, <1>4, <2>2 DEF RecordingOK, PipeBound, SetsApart, PiecesTaken
  <2>3. QED
    BY <1>2, <1>4, <2>1, <2>2 DEF RecordingOK
<1>5. QED
  BY <1>3, <1>4

(* Nothing has been bound or drawn at first.                               *)
LEMMA InitIInv == Init => IInv
<1> SUFFICES ASSUME Init
             PROVE IInv
  OBVIOUS
<1>1. NoPipeline \in SubStates /\ state.current \in SubStates
  <2>1. Nobody \in Attributes /\ "none" \in Stencils /\ Nobody \in Programs \cup {Nobody}
    BY DEF Attributes, Stencils
  <2>2. \A depth \in BOOLEAN : SubState(Nobody, Nobody, depth, "none") \in SubStates
    BY <2>1 DEF SubState, SubStates
  <2>3. state.current = SubState(Nobody, Nobody, TRUE, "none")
    BY DEF Init
  <2>4. TRUE \in BOOLEAN /\ FALSE \in BOOLEAN
    BY Zenon
  <2>5. QED
    BY <2>2, <2>3, <2>4, Zenon DEF NoPipeline
<1>2. Shape(state)
  BY DEF Init, Shape
<1>3. /\ state.old = NoPipeline /\ state.setIndex = 0 /\ state.topDescriptor = 0
      /\ state.setsTaken = [p \in Programs |-> 0] /\ state.sets = [p \in Programs |-> 0]
      /\ state.uniformsTaken = [p \in Programs |-> [b \in UniformBindings[p] |-> 0]]
      /\ state.contents = [i \in Slots |-> <<>>] /\ state.pieces = [i \in Slots |-> <<>>]
      /\ state.buffer = [i \in Slots |-> <<>>] /\ state.pipelines = {} /\ state.empty = {}
  BY DEF Init
<1>4. state.needsUpdate = FALSE
  BY DEF Init
<1>5. Typed(state)
  <2>1. IsSeq(<<>>)
    BY DEF IsSeq
  <2>2. state.needsUpdate \in BOOLEAN
    BY <1>4, Zenon
  <2>3. /\ state.setIndex \in Nat /\ state.topDescriptor \in Nat
        /\ state.setsTaken \in [Programs -> Nat] /\ state.sets \in [Programs -> Nat]
        /\ state.uniformsTaken = [p \in Programs |-> state.uniformsTaken[p]]
        /\ \A p \in Programs : state.uniformsTaken[p] \in [UniformBindings[p] -> Nat]
    BY <1>3
  <2>4. /\ state.contents = [i \in Slots |-> state.contents[i]]
        /\ state.pieces = [i \in Slots |-> state.pieces[i]]
        /\ state.buffer = [i \in Slots |-> state.buffer[i]]
        /\ \A i \in Slots : IsSeq(state.buffer[i])
    BY <1>3, <2>1
  <2>5. state.old \in SubStates
    BY <1>1, <1>3
  <2>6. QED
    BY <1>1, <2>2, <2>3, <2>4, <2>5, Zenon DEF Typed
<1>6. PipesKnown(state) /\ OldHasSet(state)
  <2>1. state.old.program = Nobody /\ Nobody \notin Programs
    BY <1>3 DEF NoPipeline, SubState, Programs, Nobody
  <2>2. QED
    BY <1>3, <2>1 DEF PipesKnown, OldHasSet
<1>7. \A i \in Slots : StrayFirst(state, i)
  BY <1>3 DEF StrayFirst
<1>8. pending = {} /\ phase = "prerender" /\ picture = "none" /\ outOfDate = FALSE
      /\ carried = [i \in Slots |-> carried[i]]
  BY DEF Init
<1>9. outOfDate \in BOOLEAN
  BY <1>8, Zenon
<1>10. StateOK(state)
  BY <1>2, <1>5, <1>6, <1>7, <1>8 DEF StateOK
<1>11. FenceInv
  BY FenceInvInit
<1>12. QED
  BY <1>8, <1>9, <1>10, <1>11 DEF IInv, Phases, PictureStates

(* What an object may rely on.                                             *)
LEMMA InTurn ==
    ASSUME IInv, phase # "prerender"
    PROVE /\ F \in Slots \ pending /\ pending \subseteq Slots
          /\ StateOK(state) /\ RecordingOK(state)
          /\ phase = "container" => Begun(state)
          /\ phase \in {"world", "interface"} => Done(state)
BY DEF IInv, FenceInv, F, Done

(* A step that renders an object and keeps what holds of State keeps the   *)
(* invariant.                                                              *)
LEMMA ObjectStep ==
    ASSUME IInv, FenceInv', NEW from, NEW to, NEW s, RenderObjects(from, to, s),
           to \in {"world", "interface"}, Done(s), phase # "prerender"
    PROVE IInv'
<1>1. /\ state' = s /\ phase' = to
      /\ UNCHANGED <<framePingPong, outOfDate, fence, pending, picture, turn, carried, refusals>>
  BY DEF RenderObjects
<1>2. Goes /\ picture' = picture
  BY <1>1 DEF Goes
<1>3. F \in Slots \ pending /\ pending \subseteq Slots
  BY InTurn
<1>4. StateOK(state') /\ RecordingOK(state') /\ LeftOver(state')
  BY <1>1 DEF Done
<1>5. StateOK(state)' /\ RecordingOK(state)'
  BY <1>2, <1>3, <1>4, StateGoes
<1>6. LeftOver(state)'
  BY <1>1, <1>4 DEF LeftOver, F, On
<1>7. /\ phase' \in Phases /\ picture' \in PictureStates /\ pending' \subseteq Slots
      /\ outOfDate' \in BOOLEAN /\ carried' = [i \in Slots |-> carried'[i]]
  <2>1. phase' \in Phases
    BY <1>1 DEF Phases
  <2>2. QED
    BY <1>1, <2>1 DEF IInv
<1>8. F' \notin pending' /\ phase' # "container"
  BY <1>1, <1>3 DEF F
<1>9. QED
  BY <1>5, <1>6, <1>7, <1>8 DEF IInv

(* All objects do, and so does switching the depth test off.               *)
LEMMA ObjectsStep ==
    ASSUME IInv, FenceInv', DrawContainer \/ DrawLine \/ DrawHealthbar \/ DepthOff
                            \/ DrawText \/ DrawBox \/ DrawImage
    PROVE IInv'
<1>1. CASE DrawContainer
  <2>1. PICK visible \in Views :
            RenderObjects("container", "world", RenderContainer(state, visible))
    BY <1>1 DEF DrawContainer
  <2>2. phase = "container"
    BY <2>1 DEF RenderObjects
  <2>3. Done(RenderContainer(state, visible))
    BY <2>2, InTurn, ContainerDone DEF DoneFrom
  <2>4. QED
    BY <2>1, <2>2, <2>3, ObjectStep
<1>2. CASE DrawLine
  <2>1. RenderObjects("world", "world", RenderLine(state)) /\ phase = "world"
    BY <1>2 DEF DrawLine, RenderObjects
  <2>2. Done(RenderLine(state))
    BY <2>1, InTurn, LineDone DEF DoneFrom
  <2>3. QED
    BY <2>1, <2>2, ObjectStep
<1>3. CASE DrawHealthbar
  <2>1. /\ RenderObjects("interface", "interface", RenderBox(RenderBox(state)))
        /\ phase = "interface"
    BY <1>3 DEF DrawHealthbar, RenderObjects
  <2>2. Done(RenderBox(state))
    BY <2>1, InTurn, BoxDone DEF DoneFrom
  <2>3. Done(RenderBox(RenderBox(state)))
    BY <2>1, <2>2, InTurn, BoxDone DEF DoneFrom
  <2>4. QED
    BY <2>1, <2>3, ObjectStep
<1>4. CASE DepthOff
  <2>1. RenderObjects("world", "interface", EnableDepthTest(state, FALSE)) /\ phase = "world"
    BY <1>4 DEF DepthOff, RenderObjects
  <2>2. PICK s : s = EnableDepthTest(state, FALSE)
    OBVIOUS
  <2>3. \E on \in BOOLEAN : s = EnableDepthTest(state, on)
    BY <2>2, Zenon
  <2>4. Done(state)
    BY <2>1, InTurn
  <2>5. SameButCurrent(state, s)
    BY <2>3, <2>4, CurrentKept DEF Done
  <2>6. Done(s)
    BY <2>4, <2>5 DEF SameButCurrent, Done
  <2>7. QED
    BY <2>1, <2>2, <2>6, ObjectStep
<1>5. CASE DrawText
  <2>1. PICK t \in Texts : RenderObjects("interface", "interface", RenderText(state, t))
    BY <1>5 DEF DrawText
  <2>2. phase = "interface"
    BY <2>1 DEF RenderObjects
  <2>3. Done(RenderText(state, t))
    BY <2>2, InTurn, TextDone DEF DoneFrom
  <2>4. QED
    BY <2>1, <2>2, <2>3, ObjectStep
<1>6. CASE DrawBox
  <2>1. RenderObjects("interface", "interface", RenderBox(state)) /\ phase = "interface"
    BY <1>6 DEF DrawBox, RenderObjects
  <2>2. Done(RenderBox(state))
    BY <2>1, InTurn, BoxDone DEF DoneFrom
  <2>3. QED
    BY <2>1, <2>2, ObjectStep
<1>7. CASE DrawImage
  <2>1. /\ RenderObjects("interface", "interface", RenderImage(state)) /\ phase = "interface"
        /\ picture # "none"
    BY <1>7 DEF DrawImage, RenderObjects
  <2>2. Done(RenderImage(state))
    BY <2>1, InTurn, ImageDone DEF DoneFrom
  <2>3. QED
    BY <2>1, <2>2, ObjectStep
<1>8. QED
  BY <1>1, <1>2, <1>3, <1>4, <1>5, <1>6, <1>7

(* createSwapchain() drops the pipelines, when the GPU has no frame.       *)
LEMMA SwapchainIs ==
    ASSUME IInv, PrerenderBegin, NEW s, s = CreateSwapchain(state)
    PROVE /\ Shape(s) /\ Typed(s) /\ PipesKnown(s) /\ OldHasSet(s)
          /\ \A i \in Slots : StrayFirst(s, i)
          /\ \A i \in pending : PipedIn(s, i) /\ DrawnRight(s, i)
          /\ s.old = state.old
<1>1. StateOK(state) /\ (outOfDate => pending = {})
  BY DEF IInv, PrerenderBegin
<1>2. CASE ~outOfDate
  <2>1. s = state
    BY <1>2 DEF CreateSwapchain
  <2>2. QED
    BY <1>1, <2>1 DEF StateOK
<1>3. CASE outOfDate
  <2>1. s = [state EXCEPT !.pipelines = {}, !.empty = {}]
    BY <1>3 DEF CreateSwapchain, ResetPipelines
  <2>2. Shape(state)
    BY <1>1 DEF StateOK
  <2>3. /\ Shape(s) /\ s.pipelines = {} /\ s.empty = {}
        /\ s.current = state.current /\ s.needsUpdate = state.needsUpdate
        /\ s.old = state.old /\ s.setIndex = state.setIndex
        /\ s.topDescriptor = state.topDescriptor /\ s.setsTaken = state.setsTaken
        /\ s.uniformsTaken = state.uniformsTaken /\ s.sets = state.sets
        /\ s.contents = state.contents /\ s.pieces = state.pieces /\ s.buffer = state.buffer
    BY <2>1, <2>2 DEF Shape
  <2>4. Typed(s)
    <3>1. Typed(state)
      BY <1>1 DEF StateOK
    <3>2. /\ s.pieces = [i \in Slots |-> s.pieces[i]]
          /\ s.current \in SubStates /\ s.needsUpdate \in BOOLEAN /\ s.setIndex \in Nat
          /\ s.topDescriptor \in Nat /\ s.setsTaken \in [Programs -> Nat]
          /\ s.sets \in [Programs -> Nat]
          /\ s.uniformsTaken = [p \in Programs |-> s.uniformsTaken[p]]
          /\ \A p \in Programs : s.uniformsTaken[p] \in [UniformBindings[p] -> Nat]
      BY <2>3, <3>1 DEF Typed
    <3>3. QED
      BY <2>3, <3>1, <3>2, TypedKept
  <2>5. PipesKnown(s) /\ OldHasSet(s)
    BY <1>1, <2>3 DEF StateOK, PipesKnown, OldHasSet
  <2>6. \A i \in Slots : StrayFirst(s, i)
    BY <1>1, <2>3 DEF StateOK, StrayFirst
  <2>7. QED
    BY <1>1, <1>3, <2>3, <2>4, <2>5, <2>6
<1>4. QED
  BY <1>2, <1>3

(* A turn without an image: nothing is recorded in it.                     *)
LEMMA RefusedStep ==
    ASSUME IInv, FenceInv', PrerenderRefused
    PROVE IInv'
<1>1. /\ state' = CreateSwapchain(state) /\ outOfDate' = TRUE /\ PrerenderBegin
      /\ UNCHANGED <<framePingPong, pending, picture, carried>>
      /\ phase = "prerender" /\ phase' = "container"
  BY DEF PrerenderRefused, PrerenderBegin
<1>2. /\ Shape(state') /\ Typed(state') /\ PipesKnown(state') /\ OldHasSet(state')
      /\ \A i \in Slots : StrayFirst(state', i)
      /\ \A i \in pending : PipedIn(state', i) /\ DrawnRight(state', i)
  BY <1>1, SwapchainIs
<1>3. \A i : Shown(i) => Shown(i)'
  BY <1>1 DEF Shown
<1>4. StateOK(state)'
  <2>1. \A i \in Slots : StrayFirst(state, i)'
    BY <1>1, <1>2, <1>3, SameDraws
  <2>2. \A i \in pending' : PipedIn(state, i)' /\ DrawnRight(state, i)'
    BY <1>1, <1>2, <1>3, SameDraws
  <2>3. QED
    BY <1>2, <2>1, <2>2, StateMoves
<1>5. ~On'
  BY <1>1 DEF On
<1>6. RecordingOK(state)' /\ Begun(state)' /\ LeftOver(state)'
  BY <1>5 DEF RecordingOK, Begun, LeftOver
<1>7. F' \notin pending'
  BY <1>1 DEF F, IInv, FenceInv, FenceTellsGPU, Recording, PrerenderBegin
<1>8. outOfDate' \in BOOLEAN
  BY <1>1, Zenon
<1>9. /\ phase' \in Phases /\ picture' \in PictureStates /\ pending' \subseteq Slots
      /\ carried' = [i \in Slots |-> carried'[i]]
  BY <1>1 DEF IInv, Phases
<1>10. QED
  BY <1>4, <1>6, <1>7, <1>8, <1>9 DEF IInv

(* A turn with an image: the buffer, its sets and its pieces start anew,   *)
(* and State still has as `old' what the last buffer ended with.           *)
LEMMA AcquiredStep ==
    ASSUME IInv, FenceInv', PrerenderAcquired
    PROVE IInv'
<1>1. PICK s : s = CreateSwapchain(state)
  OBVIOUS
<1>2. /\ state' = Reset(s) /\ outOfDate' = FALSE /\ PrerenderBegin
      /\ UNCHANGED <<framePingPong, pending, picture>>
      /\ carried' = [carried EXCEPT ![F] = state.old]
      /\ phase = "prerender" /\ phase' = "container"
  BY <1>1 DEF PrerenderAcquired, PrerenderBegin, F
<1>3. /\ Shape(s) /\ Typed(s) /\ PipesKnown(s) /\ OldHasSet(s)
      /\ \A i \in Slots : StrayFirst(s, i)
      /\ \A i \in pending : PipedIn(s, i) /\ DrawnRight(s, i)
      /\ s.old = state.old
  BY <1>1, <1>2, SwapchainIs
<1>4. F' = F /\ F \in Slots /\ F \notin pending
  BY <1>2 DEF F, IInv, FenceInv, FenceTellsGPU, Recording, PrerenderBegin
<1>5. carried' = [i \in Slots |-> carried'[i]] /\ carried'[F] = state.old
      /\ \A i \in Slots : i # F => carried'[i] = carried[i]
  BY <1>2, <1>4 DEF IInv
<1>6. PICK zero : zero = [p \in Programs |-> 0]
  OBVIOUS
<1>7. PICK zeros : zeros = [p \in Programs |-> [b \in UniformBindings[p] |-> 0]]
  OBVIOUS
<1>8. state' = [s EXCEPT !.contents[F] = <<>>, !.pieces[F] = <<>>,
              !.buffer[F] = <<>>, !.pipe = NoPipeline, !.set = <<>>,
              !.needsUpdate = FALSE, !.stamp = 0, !.setsTaken = zero, !.uniformsTaken = zeros]
  BY <1>2, <1>6, <1>7 DEF Reset, F
<1>9. PICK r : r = state'
  OBVIOUS
<1>10. /\ Shape(r)
       /\ r.contents = [s.contents EXCEPT ![F] = <<>>] /\ r.pieces = [s.pieces EXCEPT ![F] = <<>>]
       /\ r.buffer = [s.buffer EXCEPT ![F] = <<>>] /\ r.pipe = NoPipeline
       /\ r.needsUpdate = FALSE /\ r.setsTaken = zero /\ r.uniformsTaken = zeros
       /\ r.current = s.current /\ r.old = s.old /\ r.setIndex = s.setIndex
       /\ r.topDescriptor = s.topDescriptor /\ r.sets = s.sets
       /\ r.pipelines = s.pipelines /\ r.empty = s.empty
  BY <1>3, <1>8, <1>9 DEF Shape
<1>11. /\ r.contents = [i \in Slots |-> r.contents[i]]
       /\ r.pieces = [i \in Slots |-> r.pieces[i]]
       /\ r.buffer = [i \in Slots |-> r.buffer[i]]
       /\ r.buffer[F] = <<>> /\ r.pieces[F] = <<>>
       /\ \A i \in Slots : i # F => /\ r.contents[i] = s.contents[i]
                                    /\ r.pieces[i] = s.pieces[i] /\ r.buffer[i] = s.buffer[i]
  BY <1>3, <1>4, <1>10 DEF Typed
<1>12. Typed(r)
  <2>1. r.needsUpdate \in BOOLEAN
    BY <1>10, Zenon
  <2>2. IsSeq(<<>>)
    BY DEF IsSeq
  <2>3. \A i \in Slots : IsSeq(r.buffer[i])
    BY <1>3, <1>11, <2>2 DEF Typed
  <2>4. /\ r.setsTaken \in [Programs -> Nat]
        /\ r.uniformsTaken = [p \in Programs |-> r.uniformsTaken[p]]
        /\ \A p \in Programs : r.uniformsTaken[p] \in [UniformBindings[p] -> Nat]
    BY <1>6, <1>7, <1>10
  <2>5. /\ r.current \in SubStates /\ r.old \in SubStates /\ r.setIndex \in Nat
        /\ r.topDescriptor \in Nat /\ r.sets \in [Programs -> Nat]
    BY <1>3, <1>10 DEF Typed
  <2>6. QED
    BY <1>11, <2>1, <2>3, <2>4, <2>5, Zenon DEF Typed
<1>13. PipesKnown(r) /\ OldHasSet(r)
  BY <1>3, <1>10 DEF PipesKnown, OldHasSet
<1>14. \A i : Shown(i) => Shown(i)'
  BY <1>2 DEF Shown
<1>15. ASSUME NEW i \in Slots
       PROVE StrayFirst(state, i)'
  <2>1. CASE i = F
    BY <1>9, <1>11, <2>1 DEF StrayFirst
  <2>2. CASE i # F
    <3>1. StrayFirst(r, i)
      BY <1>3, <1>10, <1>11, <2>2 DEF StrayFirst
    <3>2. QED
      BY <1>5, <1>9, <1>14, <2>2, <3>1, SameDraws
  <2>3. QED
    BY <2>1, <2>2
<1>16. ASSUME NEW i \in pending
       PROVE PipedIn(state, i)' /\ DrawnRight(state, i)'
  <2>1. i \in Slots /\ i # F
    BY <1>4 DEF IInv
  <2>2. PipedIn(r, i)
    BY <1>3, <1>10, <1>11, <2>1 DEF PipedIn, Piped
  <2>3. DrawnRight(r, i)
    <3>1. \A x, v : Gives(s, i, x, v) => Gives(r, i, x, v)
      BY <1>11, <2>1 DEF Gives
    <3>2. \A set, want : SetGives(s, i, set, want) => SetGives(r, i, set, want)
      BY <1>11, <2>1, <3>1 DEF SetGives
    <3>3. DrawnRight(s, i)
      BY <1>3
    <3>4. QED
      BY <1>11, <2>1, <3>2, <3>3 DEF DrawnRight
  <2>4. QED
    BY <1>5, <1>9, <1>14, <2>1, <2>2, <2>3, SameDraws
<1>17. StateOK(state)'
  BY <1>2, <1>9, <1>10, <1>12, <1>13, <1>15, <1>16, StateMoves
<1>18. /\ state'.buffer[F] = <<>> /\ state'.pieces[F] = <<>> /\ state'.pipe = NoPipeline
       /\ state'.old = carried'[F]
  BY <1>3, <1>5, <1>9, <1>10, <1>11
<1>19. RecordingOK(state)'
  <2>1. PipeBound(state)' /\ SetsApart(state)' /\ PiecesTaken(state)'
    BY <1>4, <1>18 DEF PipeBound, SetsApart, PiecesTaken
  <2>2. (PipedIn(state, F) /\ DrawnRight(state, F))'
    BY <1>4, <1>18 DEF PipedIn, DrawnRight
  <2>3. QED
    BY <1>4, <1>18, <2>1, <2>2 DEF RecordingOK
<1>20. Begun(state)'
  BY <1>4, <1>6, <1>9, <1>10, <1>18 DEF Begun
<1>21. outOfDate' \in BOOLEAN
  BY <1>2, Zenon
<1>22. phase' \in Phases /\ picture' \in PictureStates /\ pending' \subseteq Slots
       /\ F' \notin pending'
  BY <1>2, <1>4 DEF IInv, Phases
<1>23. QED
  BY <1>2, <1>5, <1>17, <1>19, <1>20, <1>21, <1>22 DEF IInv

(* The turn ends: what was recorded is right when the GPU has it, because  *)
(* the copies of images have been waited for.                              *)
LEMMA RenderStep ==
    ASSUME IInv, FenceInv', RenderNothing \/ RenderSubmit
    PROVE IInv'
<1>1. /\ phase = "interface" /\ phase' = "prerender" /\ state' = EnableDepthTest(state, TRUE)
      /\ picture' = picture /\ carried' = carried
  BY DEF RenderNothing, RenderSubmit, RenderEnd
<1>2. F \in Slots \ pending /\ pending \subseteq Slots /\ Done(state)
  BY <1>1, InTurn
<1>3. \E on \in BOOLEAN : state' = EnableDepthTest(state, on)
  BY <1>1, Zenon
<1>4. SameButCurrent(state, state')
  BY <1>2, <1>3, CurrentKept DEF Done
<1>5. StateOK(state') /\ RecordingOK(state')
  BY <1>2, <1>4 DEF SameButCurrent, Done
<1>6. /\ pending' \subseteq Slots /\ outOfDate' \in BOOLEAN
      /\ \A i \in pending' : i \in pending \/ (i = F /\ On /\ picture # "copying")
  <2>1. CASE RenderNothing
    BY <1>2, <2>1 DEF RenderNothing, IInv
  <2>2. CASE RenderSubmit
    <3>1. pending' = pending \cup {F} /\ ~outOfDate /\ picture # "copying"
      BY <2>2 DEF RenderSubmit, F
    <3>2. outOfDate' \in BOOLEAN
      <4>1. outOfDate' = outOfDate \/ outOfDate' = TRUE
        BY <2>2 DEF RenderSubmit
      <4>2. outOfDate \in BOOLEAN
        BY DEF IInv
      <4>3. QED
        BY <4>1, <4>2, Zenon
    <3>3. QED
      BY <1>2, <3>1, <3>2 DEF On
  <2>3. QED
    BY <2>1, <2>2
<1>7. ASSUME NEW i \in Slots, i \in pending \/ i \notin pending' \/ picture # "copying"
      PROVE Shown(i) => Shown(i)'
  BY <1>1, <1>7 DEF Shown, IInv, PictureStates
<1>8. ASSUME NEW i \in pending'
      PROVE PipedIn(state, i)' /\ DrawnRight(state, i)'
  <2>1. PipedIn(state', i) /\ DrawnRight(state', i)
    BY <1>5, <1>6 DEF StateOK, RecordingOK
  <2>2. i \in Slots /\ (Shown(i) => Shown(i)')
    BY <1>6, <1>7
  <2>3. QED
    BY <1>1, <2>1, <2>2, SameDraws
<1>9. ASSUME NEW i \in Slots
      PROVE StrayFirst(state, i)'
  <2>1. StrayFirst(state', i)
    BY <1>5 DEF StateOK
  <2>2. QED
    BY <1>1, <2>1 DEF StrayFirst
<1>10. StateOK(state)'
  BY <1>5, <1>8, <1>9, StateMoves DEF StateOK
<1>11. phase' \in Phases /\ picture' \in PictureStates /\ carried' = [i \in Slots |-> carried'[i]]
  BY <1>1 DEF IInv, Phases
<1>12. QED
  BY <1>1, <1>6, <1>10, <1>11 DEF IInv

(* An image is loaded, or its copy is finished: draws only see it readier. *)
LEMMA PictureStep ==
    ASSUME IInv, FenceInv', LoadPicture \/ FinishCopy
    PROVE IInv'
<1>1. /\ picture # "ready" /\ picture' # "none" /\ picture' \in PictureStates
      /\ state' = state /\ phase' = phase
      /\ UNCHANGED <<framePingPong, outOfDate, pending, carried>>
  BY DEF LoadPicture, FinishCopy, PictureStates
<1>2. Goes /\ pending \subseteq Slots /\ F \in Slots /\ StateOK(state')
  BY <1>1 DEF Goes, IInv, FenceInv, F
<1>3. StateOK(state)'
  BY <1>1, <1>2, StateGoes
<1>4. ASSUME phase # "prerender"
      PROVE RecordingOK(state)'
  <2>1. RecordingOK(state')
    BY <1>1, <1>4 DEF IInv
  <2>2. QED
    BY <1>1, <1>2, <2>1, StateGoes
<1>5. /\ phase' = "container" => Begun(state)'
      /\ phase' \in {"world", "interface"} => LeftOver(state)'
  BY <1>1 DEF IInv, Begun, LeftOver, F, On
<1>6. /\ phase' \in Phases /\ pending' \subseteq Slots /\ outOfDate' \in BOOLEAN
      /\ carried' = [i \in Slots |-> carried'[i]]
      /\ phase' # "prerender" => F' \notin pending'
  BY <1>1 DEF IInv, F
<1>7. QED
  BY <1>1, <1>3, <1>4, <1>5, <1>6 DEF IInv

(* The GPU finishes a frame, whose commands are gone.                      *)
LEMMA FinishStep ==
    ASSUME IInv, FenceInv', NEW j \in Slots, FinishFrame(j)
    PROVE IInv'
<1>1. /\ phase = "prerender" /\ phase' = phase /\ pending' = pending \ {j}
      /\ state' = [state EXCEPT !.buffer[j] = <<>>]
      /\ UNCHANGED <<framePingPong, outOfDate, picture, carried>>
  BY DEF FinishFrame
<1>2. StateOK(state) /\ Shape(state) /\ Typed(state)
  BY DEF IInv, StateOK
<1>3. PICK r : r = state'
  OBVIOUS
<1>4. /\ Shape(r) /\ r.buffer = [state.buffer EXCEPT ![j] = <<>>]
      /\ r.current = state.current /\ r.old = state.old /\ r.needsUpdate = state.needsUpdate
      /\ r.setIndex = state.setIndex /\ r.topDescriptor = state.topDescriptor
      /\ r.setsTaken = state.setsTaken /\ r.uniformsTaken = state.uniformsTaken
      /\ r.sets = state.sets /\ r.contents = state.contents /\ r.pieces = state.pieces
      /\ r.pipelines = state.pipelines /\ r.empty = state.empty
  BY <1>1, <1>2, <1>3 DEF Shape
<1>5. /\ r.buffer = [i \in Slots |-> r.buffer[i]] /\ r.buffer[j] = <<>>
      /\ \A i \in Slots : i # j => r.buffer[i] = state.buffer[i]
  BY <1>2, <1>4 DEF Typed
<1>6. Typed(r)
  <2>1. IsSeq(<<>>)
    BY DEF IsSeq
  <2>2. \A i \in Slots : IsSeq(r.buffer[i])
    BY <1>2, <1>5, <2>1 DEF Typed
  <2>3. /\ r.contents = [i \in Slots |-> r.contents[i]]
        /\ r.pieces = [i \in Slots |-> r.pieces[i]]
        /\ r.current \in SubStates /\ r.old \in SubStates /\ r.needsUpdate \in BOOLEAN
        /\ r.setIndex \in Nat /\ r.topDescriptor \in Nat
        /\ r.setsTaken \in [Programs -> Nat] /\ r.sets \in [Programs -> Nat]
        /\ r.uniformsTaken = [p \in Programs |-> r.uniformsTaken[p]]
        /\ \A p \in Programs : r.uniformsTaken[p] \in [UniformBindings[p] -> Nat]
    BY <1>2, <1>4 DEF Typed
  <2>4. QED
    BY <1>5, <2>2, <2>3, Zenon DEF Typed
<1>7. PipesKnown(r) /\ OldHasSet(r)
  BY <1>2, <1>4 DEF StateOK, PipesKnown, OldHasSet
<1>8. \A i \in Slots \ {j} : Shown(i) => Shown(i)'
  BY <1>1 DEF Shown
<1>9. ASSUME NEW i \in Slots
      PROVE StrayFirst(state, i)'
  <2>1. CASE i = j
    BY <1>3, <1>5, <2>1 DEF StrayFirst
  <2>2. CASE i # j
    <3>1. StrayFirst(state, i)
      BY <1>2 DEF StateOK
    <3>2. QED
      BY <1>1, <1>3, <1>4, <1>5, <2>2, <3>1 DEF StrayFirst
  <2>3. QED
    BY <2>1, <2>2
<1>10. ASSUME NEW i \in pending'
       PROVE PipedIn(state, i)' /\ DrawnRight(state, i)'
  <2>1. i \in pending /\ i \in Slots /\ i # j
    BY <1>1 DEF IInv
  <2>2. PipedIn(state, i) /\ DrawnRight(state, i)
    BY <1>2, <2>1 DEF StateOK
  <2>3. PipedIn(r, i)
    BY <1>4, <1>5, <2>1, <2>2 DEF PipedIn, Piped
  <2>4. DrawnRight(r, i)
    <3>1. \A x, v : Gives(state, i, x, v) => Gives(r, i, x, v)
      BY <1>4 DEF Gives
    <3>2. \A set, want : SetGives(state, i, set, want) => SetGives(r, i, set, want)
      BY <1>4, <3>1 DEF SetGives
    <3>3. QED
      BY <1>5, <2>1, <2>2, <3>2 DEF DrawnRight
  <2>5. QED
    BY <1>1, <1>3, <1>8, <2>1, <2>3, <2>4, SameDraws
<1>11. StateOK(state)'
  BY <1>3, <1>4, <1>6, <1>7, <1>9, <1>10, StateMoves
<1>12. /\ phase' \in Phases /\ pending' \subseteq Slots /\ outOfDate' \in BOOLEAN
       /\ carried' = [i \in Slots |-> carried'[i]] /\ picture' \in PictureStates
  BY <1>1 DEF IInv
<1>13. QED
  BY <1>1, <1>11, <1>12 DEF IInv

(* Nothing happens.                                                        *)
LEMMA IdleStep ==
    ASSUME IInv, UNCHANGED vars
    PROVE IInv'
<1>1. /\ UNCHANGED <<state, framePingPong, outOfDate, fence, pending, picture, phase, carried>>
  BY DEF vars
<1>2. FenceInv'
  BY <1>1 DEF IInv, FenceInv, FenceTellsGPU, Recording
<1>3. Goes /\ pending \subseteq Slots /\ F \in Slots /\ StateOK(state') /\ picture' = picture
  BY <1>1 DEF Goes, IInv, FenceInv, F
<1>4. StateOK(state)'
  BY <1>3, StateGoes
<1>5. ASSUME phase # "prerender"
      PROVE RecordingOK(state)'
  <2>1. RecordingOK(state')
    BY <1>1, <1>5 DEF IInv
  <2>2. QED
    BY <1>3, <2>1, StateGoes
<1>6. /\ phase' = "container" => Begun(state)'
      /\ phase' \in {"world", "interface"} => LeftOver(state)'
  BY <1>1 DEF IInv, Begun, LeftOver, F, On
<1>7. /\ phase' \in Phases /\ pending' \subseteq Slots /\ outOfDate' \in BOOLEAN
      /\ carried' = [i \in Slots |-> carried'[i]] /\ picture' \in PictureStates
      /\ phase' # "prerender" => F' \notin pending'
  BY <1>1 DEF IInv, F
<1>8. QED
  BY <1>1, <1>2, <1>4, <1>5, <1>6, <1>7 DEF IInv

(* Every step keeps the invariant.                                         *)
LEMMA IInvKept == IInv /\ [Next]_vars => IInv'
<1> SUFFICES ASSUME IInv, [Next]_vars
             PROVE IInv'
  OBVIOUS
<1>1. FenceInv'
  BY FenceInvKept DEF IInv
<1>2. CASE PrerenderRefused
  BY <1>1, <1>2, RefusedStep
<1>3. CASE PrerenderAcquired
  BY <1>1, <1>3, AcquiredStep
<1>4. CASE DrawContainer \/ DrawLine \/ DrawHealthbar \/ DepthOff \/ DrawText \/ DrawBox
           \/ DrawImage
  BY <1>1, <1>4, ObjectsStep
<1>5. CASE RenderNothing \/ RenderSubmit
  BY <1>1, <1>5, RenderStep
<1>6. CASE LoadPicture \/ FinishCopy
  BY <1>1, <1>6, PictureStep
<1>7. CASE \E i \in Slots : FinishFrame(i)
  BY <1>1, <1>7, FinishStep
<1>8. CASE LastTurn \/ UNCHANGED vars
  BY <1>8, IdleStep DEF LastTurn
<1>9. QED
  BY <1>2, <1>3, <1>4, <1>5, <1>6, <1>7, <1>8 DEF Next, Loop, GPU

-----------------------------------------------------------------------------
(* What follows for whoever looks at the frames.                           *)

(* A set that gives a draw of a frame of the GPU what it wants is read so. *)
LEMMA DrawReads ==
    ASSUME NEW i \in pending, NEW d, SetGives(state, i, d.set, d.want)
    PROVE Reads(i, d) = d.want
<1>1. /\ d.set = <<d.set[1], d.set[2]>> /\ d.set \in DOMAIN state.contents[i]
      /\ d.want = [b \in Layout(d.set[1]) |-> d.want[b]]
      /\ \A b \in Layout(d.set[1]) : /\ b \in DOMAIN state.contents[i][d.set]
                                     /\ Gives(state, i, state.contents[i][d.set][b], d.want[b])
  BY DEF SetGives
<1>2. PICK content : content = state.contents[i][d.set]
  OBVIOUS
<1>3. d.set # <<>>
  BY <1>1
<1>4. Reads(i, d) = [b \in DOMAIN content \cap Layout(d.set[1]) |-> Source(i, content[b])]
  BY <1>1, <1>2, <1>3 DEF Reads
<1>5. DOMAIN content \cap Layout(d.set[1]) = Layout(d.set[1])
  BY <1>1, <1>2
<1>6. ASSUME NEW b \in Layout(d.set[1])
      PROVE Source(i, content[b]) = d.want[b]
  <2>1. Gives(state, i, content[b], d.want[b])
    BY <1>1, <1>2
  <2>2. QED
    BY <2>1 DEF Gives, Source, Shown
<1>7. QED
  BY <1>1, <1>4, <1>5, <1>6

(* While the GPU runs a buffer, each draw in it reads just the uniforms and *)
(* images that its object bound, for every scene, every sequence of objects *)
(* and however often the surface refuses: no set, piece or image that it    *)
(* reads has been given to another since.  Excepted are the stray draws.    *)
THEOREM DrawsAlwaysReadTheirOwn == Spec => []DrawsReadTheirOwn
<1>1. IInv => DrawsReadTheirOwn
  <2> SUFFICES ASSUME IInv, NEW i \in pending, NEW k \in DOMAIN state.buffer[i],
                      ~state.buffer[i][k].stray
               PROVE Reads(i, state.buffer[i][k]) = state.buffer[i][k].want
    BY DEF DrawsReadTheirOwn, DrawsOf
  <2>1. SetGives(state, i, state.buffer[i][k].set, state.buffer[i][k].want)
    BY DEF IInv, StateOK, DrawnRight
  <2>2. QED
    BY <2>1, DrawReads
<1>2. QED
  BY InitIInv, IInvKept, <1>1, PTL DEF Spec

(* Only the first draw of a buffer can be stray, and only when its program *)
(* drew last in the buffer before it; the index it uses is one of a set    *)
(* that its own program has.                                               *)
THEOREM StrayDrawsAreFirst == Spec => []StrayOnlyFirst
<1>1. IInv => StrayOnlyFirst
  BY DEF IInv, StateOK, StrayFirst, StrayOnlyFirst
<1>2. QED
  BY InitIInv, IInvKept, <1>1, PTL DEF Spec

(* A draw that the GPU runs has the pipeline of its state, or the state is *)
(* the one that ended the buffer before, or the one for which looking up   *)
(* the layout left an empty entry; of those there is never a second.       *)
THEOREM DrawsAlwaysHavePipelines == Spec => []DrawsHavePipelines
<1>1. IInv => DrawsHavePipelines
  <2> SUFFICES ASSUME IInv
               PROVE DrawsHavePipelines
    OBVIOUS
  <2>1. Cardinality(state.empty) <= 1
    <3>1. \A x, y \in state.empty : x = y
      BY DEF IInv, StateOK, PipesKnown
    <3>2. CASE state.empty = {}
      BY <3>2, FS_EmptySet
    <3>3. CASE state.empty # {}
      <4>1. PICK x : state.empty = {x}
        BY <3>1, <3>3
      <4>2. Cardinality({x}) = 1
        BY FS_Singleton
      <4>3. QED
        BY <4>1, <4>2
    <3>4. QED
      BY <3>2, <3>3
  <2>2. \A i \in pending : \A k \in DOMAIN state.buffer[i] : Piped(state, i, k)
    BY DEF IInv, StateOK, PipedIn
  <2>3. QED
    BY <2>1, <2>2 DEF DrawsHavePipelines, Piped
<1>2. QED
  BY InitIInv, IInvKept, <1>1, PTL DEF Spec


-----------------------------------------------------------------------------
(* How many sets there are.                                                *)

(* What this turn may have taken so far.                                   *)
SoFar(p) == IF phase = "container" THEN 0
            ELSE SetsPerTurn(p, IF phase = "prerender" THEN MaxObjects ELSE objects.now)

SetsInv ==
    /\ refusals \in [now : Nat, most : Nat] /\ refusals.now <= refusals.most
    /\ objects \in [now : Nat, all : Nat] /\ objects.now <= MaxObjects
    /\ \A p \in Programs :
           /\ state.setsTaken[p] <= refusals.now * SetsPerTurn(p, MaxObjects) + SoFar(p)
           /\ state.sets[p] <= (refusals.most + 1) * SetsPerTurn(p, MaxObjects)

(* More objects take no fewer sets.                                        *)
LEMMA PerTurnIs ==
    ASSUME NEW n \in Nat, NEW m \in Nat, n <= m, NEW p \in Programs
    PROVE /\ SetsPerTurn(p, n) \in Nat /\ SetsPerTurn(p, m) \in Nat
          /\ SetsPerTurn(p, n) <= SetsPerTurn(p, m)
<1>1. Len(Chunks) \in Nat
  <2>1. Chunks \in Seq(STRING)
    BY DrawsAssumption
  <2>2. QED
    BY <2>1
<1>2. QED
  BY <1>1 DEF SetsPerTurn

(* As many turns as there were refusals in a row, and one more.            *)
LEMMA Times ==
    ASSUME NEW a \in Nat, NEW b \in Nat, a <= b, NEW k \in Nat
    PROVE /\ a * k \in Nat /\ a * k + k = (a + 1) * k /\ (a + 1) * k <= (b + 1) * k
          /\ (b + 1) * k \in Nat
<1>1. PICK c \in Nat : b = a + c
  <2>1. b - a \in Nat /\ b = a + (b - a)
    OBVIOUS
  <2>2. QED
    BY <2>1
<1>2. (b + 1) * k = (a + 1) * k + c * k /\ c * k \in Nat
  BY <1>1
<1>3. a * k \in Nat /\ (a + 1) * k = a * k + k
  OBVIOUS
<1>4. QED
  BY <1>2, <1>3

(* A turn has never taken more sets than a turn can take.                  *)
LEMMA SoFarIs ==
    ASSUME objects \in [now : Nat, all : Nat], objects.now <= MaxObjects, NEW p \in Programs
    PROVE SoFar(p) \in Nat /\ SoFar(p) <= SetsPerTurn(p, MaxObjects)
<1>1. MaxObjects \in Nat /\ objects.now \in Nat
  BY DrawsAssumption
<1>2. PICK n \in Nat : /\ n = IF phase = "prerender" THEN MaxObjects ELSE objects.now
                       /\ n <= MaxObjects
  BY <1>1
<1>3. SetsPerTurn(p, n) \in Nat /\ SetsPerTurn(p, n) <= SetsPerTurn(p, MaxObjects)
      /\ SetsPerTurn(p, MaxObjects) \in Nat
  BY <1>1, <1>2, PerTurnIs
<1>4. SoFar(p) = 0 \/ SoFar(p) = SetsPerTurn(p, n)
  BY <1>2 DEF SoFar
<1>5. QED
  BY <1>3, <1>4

(* Within a turn sets are taken as the turn goes on.                       *)
LEMMA SetsMove ==
    ASSUME SetsInv, Typed(state), Typed(state'), NEW p, NEW n \in Nat, Takes(state, state', p, n),
           refusals' = refusals, objects' \in [now : Nat, all : Nat], objects'.now <= MaxObjects,
           \A q \in Programs : SoFar(q) + (IF q = p THEN n ELSE 0) <= SoFar(q)'
    PROVE SetsInv'
<1>1. ASSUME NEW q \in Programs
      PROVE /\ state'.setsTaken[q] <= refusals.now * SetsPerTurn(q, MaxObjects) + SoFar(q)'
            /\ state'.sets[q] <= (refusals.most + 1) * SetsPerTurn(q, MaxObjects)
  <2>1. PICK a \in Nat, b \in Nat : a = refusals.now /\ b = refusals.most /\ a <= b
    BY DEF SetsInv
  <2>2. PICK k \in Nat : k = SetsPerTurn(q, MaxObjects)
    BY PerTurnIs, DrawsAssumption
  <2>3. SoFar(q) \in Nat /\ SoFar(q)' \in Nat /\ SoFar(q)' <= k
    <3>1. SoFar(q) \in Nat
      BY SoFarIs DEF SetsInv
    <3>2. (SoFar(q) \in Nat /\ SoFar(q) <= SetsPerTurn(q, MaxObjects))'
      <4>1. MaxObjects \in Nat /\ objects'.now \in Nat
        BY DrawsAssumption
      <4>2. PICK m \in Nat : /\ m = IF phase' = "prerender" THEN MaxObjects ELSE objects'.now
                             /\ m <= MaxObjects
        BY <4>1
      <4>3. SetsPerTurn(q, m) \in Nat /\ SetsPerTurn(q, m) <= SetsPerTurn(q, MaxObjects)
            /\ SetsPerTurn(q, MaxObjects) \in Nat
        BY <4>1, <4>2, PerTurnIs
      <4>4. SoFar(q)' = 0 \/ SoFar(q)' = SetsPerTurn(q, m)
        BY <4>2 DEF SoFar
      <4>5. QED
        BY <4>3, <4>4
    <3>3. QED
      BY <2>2, <3>1, <3>2
  <2>4. PICK x \in Nat, y \in Nat : x = SoFar(q) /\ y = SoFar(q)'
    BY <2>3
  <2>5. x + (IF q = p THEN n ELSE 0) <= y /\ y <= k
    BY <2>2, <2>3, <2>4
  <2>6. PICK t \in Nat, u \in Nat, v \in Nat, w \in Nat :
            /\ t = state.setsTaken[q] /\ u = state'.setsTaken[q]
            /\ v = state.sets[q] /\ w = state'.sets[q]
    BY DEF Typed
  <2>7. u <= t + (IF q = p THEN n ELSE 0) /\ (w <= v \/ w <= u)
    BY <2>6 DEF Takes
  <2>8. t <= a * k + x /\ v <= (b + 1) * k
    BY <2>1, <2>2, <2>4, <2>6 DEF SetsInv
  <2>9. /\ a * k \in Nat /\ a * k + k = (a + 1) * k /\ (a + 1) * k <= (b + 1) * k
        /\ (b + 1) * k \in Nat
    BY <2>1, Times
  <2>10. PICK ak \in Nat, bk \in Nat : ak = a * k /\ bk = (b + 1) * k
    BY <2>9
  <2>11. ak + k <= bk /\ t <= ak + x /\ v <= bk
    BY <2>8, <2>9, <2>10
  <2>12. u <= ak + y /\ w <= bk
    BY <2>5, <2>7, <2>11
  <2>13. QED
    BY <2>1, <2>2, <2>4, <2>6, <2>10, <2>12
<1>2. refusals' \in [now : Nat, most : Nat] /\ refusals'.now <= refusals'.most
  BY DEF SetsInv
<1>3. \A q \in Programs :
           /\ state'.setsTaken[q] <= refusals'.now * SetsPerTurn(q, MaxObjects) + SoFar(q)'
           /\ state'.sets[q] <= (refusals'.most + 1) * SetsPerTurn(q, MaxObjects)
  BY <1>1
<1>4. QED
  BY <1>2, <1>3 DEF SetsInv

(* A step that takes no set.                                               *)
LEMMA SetsSame ==
    ASSUME SetsInv, Typed(state), Typed(state'), SameSets(state, state'),
           refusals' = refusals, objects' = objects,
           phase' = phase \/ phase' = "prerender" \/ (phase = "world" /\ phase' = "interface")
    PROVE SetsInv'
<1>1. MaxObjects \in Nat /\ objects \in [now : Nat, all : Nat] /\ objects.now <= MaxObjects
      /\ objects.now \in Nat
  BY DrawsAssumption DEF SetsInv
<1>2. ASSUME NEW q \in Programs
      PROVE SoFar(q) <= SoFar(q)'
  <2>1. SoFar(q) \in Nat /\ SoFar(q) <= SetsPerTurn(q, MaxObjects)
    BY <1>1, SoFarIs
  <2>2. SoFar(q)' = SoFar(q) \/ SoFar(q)' = SetsPerTurn(q, MaxObjects)
    BY DEF SoFar
  <2>3. QED
    BY <2>1, <2>2
<1>3. ASSUME NEW q \in Programs
      PROVE SoFar(q) + (IF q = "tile" THEN 0 ELSE 0) <= SoFar(q)'
  <2>1. SoFar(q) \in Nat
    BY <1>1, SoFarIs
  <2>2. QED
    BY <1>2, <2>1
<1>4. Takes(state, state', "tile", 0)
  BY TakesNone
<1>5. QED
  BY <1>1, <1>3, <1>4, SetsMove

(* An object after the chunks.                                             *)
LEMMA SetsObject ==
    ASSUME SetsInv, Typed(state), Typed(state'), AnotherObject, refusals' = refusals,
           phase \in {"world", "interface"}, phase' = phase,
           NEW p \in Programs \ {"tile"},
           Takes(state, state', p, IF p = "box" THEN 2 ELSE 1)
    PROVE SetsInv'
<1>1. PICK n \in Nat : n = IF p = "box" THEN 2 ELSE 1
  OBVIOUS
<1>2. PICK m \in Nat : m = objects.now /\ m + 1 <= MaxObjects
  BY DrawsAssumption DEF AnotherObject, SetsInv
<1>3. objects' \in [now : Nat, all : Nat] /\ objects'.now <= MaxObjects /\ objects'.now = m + 1
  BY <1>2 DEF AnotherObject, SetsInv
<1>4. ASSUME NEW q \in Programs
      PROVE SoFar(q) + (IF q = p THEN n ELSE 0) <= SoFar(q)'
  <2>1. SoFar(q) = SetsPerTurn(q, m) /\ SoFar(q)' = SetsPerTurn(q, m + 1)
    BY <1>2, <1>3 DEF SoFar
  <2>2. SetsPerTurn(q, m) \in Nat /\ SetsPerTurn(q, m + 1) \in Nat
    BY PerTurnIs
  <2>3. CASE q = "tile"
    BY <2>1, <2>2, <2>3 DEF SetsPerTurn
  <2>4. CASE q = "box"
    BY <1>1, <2>1, <2>4 DEF SetsPerTurn
  <2>5. CASE q # "tile" /\ q # "box"
    BY <1>1, <2>1, <2>5 DEF SetsPerTurn
  <2>6. QED
    BY <2>3, <2>4, <2>5
<1>5. Takes(state, state', p, n)
  BY <1>1
<1>6. QED
  BY <1>3, <1>4, <1>5, SetsMove

(* A turn begins: without an image the sets of the last turn are not given *)
(* back, and one more turn is counted; with one they all are.              *)
LEMMA SetsBegin ==
    ASSUME SetsInv, IInv, PrerenderRefused \/ PrerenderAcquired
    PROVE SetsInv'
<1>1. /\ phase = "prerender" /\ phase' = "container" /\ objects' = [objects EXCEPT !.now = 0]
  BY DEF PrerenderRefused, PrerenderAcquired, PrerenderBegin
<1>2. PICK s : s = CreateSwapchain(state)
  OBVIOUS
<1>3. Shape(state) /\ Typed(state)
  BY DEF IInv, StateOK
<1>4. Shape(s) /\ s.sets = state.sets /\ s.setsTaken = state.setsTaken
  BY <1>2, <1>3 DEF CreateSwapchain, ResetPipelines, Shape
<1>5. objects' \in [now : Nat, all : Nat] /\ objects'.now <= MaxObjects
  BY <1>1, DrawsAssumption DEF SetsInv
<1>6. PICK a \in Nat, b \in Nat : a = refusals.now /\ b = refusals.most /\ a <= b
  BY DEF SetsInv
<1>7. CASE PrerenderRefused
  <2>1. /\ state' = s /\ refusals' = [now |-> a + 1, most |-> Larger(b, a + 1)]
    BY <1>2, <1>6, <1>7 DEF PrerenderRefused
  <2>2. PICK c \in Nat : c = Larger(b, a + 1) /\ b <= c /\ a + 1 <= c
    BY DEF Larger
  <2>3. refusals'.now = a + 1 /\ refusals'.most = c /\ refusals' \in [now : Nat, most : Nat]
    BY <2>1, <2>2
  <2>4. ASSUME NEW q \in Programs
        PROVE /\ state'.setsTaken[q] <= (a + 1) * SetsPerTurn(q, MaxObjects) + SoFar(q)'
              /\ state'.sets[q] <= (c + 1) * SetsPerTurn(q, MaxObjects)
    <3>1. PICK k \in Nat : k = SetsPerTurn(q, MaxObjects)
      BY PerTurnIs, DrawsAssumption
    <3>2. SoFar(q) = k /\ SoFar(q)' = 0
      BY <1>1, <3>1 DEF SoFar
    <3>3. state.setsTaken[q] <= a * k + k /\ state.sets[q] <= (b + 1) * k
      BY <1>6, <3>1, <3>2 DEF SetsInv
    <3>4. state.setsTaken[q] \in Nat /\ state.sets[q] \in Nat
      BY <1>3 DEF Typed
    <3>5. /\ a * k + k = (a + 1) * k /\ (b + 1) * k <= (c + 1) * k
          /\ (b + 1) * k \in Nat /\ (c + 1) * k \in Nat /\ (a + 1) * k \in Nat
      BY <1>6, <2>2, Times
    <3>6. QED
      BY <1>4, <2>1, <3>1, <3>2, <3>3, <3>4, <3>5
  <2>5. QED
    BY <1>5, <2>2, <2>3, <2>4 DEF SetsInv
<1>8. CASE PrerenderAcquired
  <2>1. state' = Reset(s) /\ refusals' = [refusals EXCEPT !.now = 0]
    BY <1>2, <1>8 DEF PrerenderAcquired
  <2>2. refusals'.now = 0 /\ refusals'.most = b /\ refusals' \in [now : Nat, most : Nat]
    BY <1>6, <2>1 DEF SetsInv
  <2>3. state'.sets = state.sets /\ state'.setsTaken = [p \in Programs |-> 0]
    BY <1>4, <2>1 DEF Reset, Shape
  <2>4. ASSUME NEW q \in Programs
        PROVE /\ state'.setsTaken[q] <= 0 * SetsPerTurn(q, MaxObjects) + SoFar(q)'
              /\ state'.sets[q] <= (b + 1) * SetsPerTurn(q, MaxObjects)
    <3>1. PICK k \in Nat : k = SetsPerTurn(q, MaxObjects)
      BY PerTurnIs, DrawsAssumption
    <3>2. SoFar(q)' = 0 /\ 0 * k = 0
      BY <1>1 DEF SoFar
    <3>3. state.sets[q] <= (b + 1) * k
      BY <1>6, <3>1 DEF SetsInv
    <3>4. QED
      BY <2>3, <3>1, <3>2, <3>3
  <2>5. QED
    BY <1>5, <2>2, <2>4 DEF SetsInv
<1>9. QED
  BY <1>7, <1>8

(* Every step keeps the count.                                             *)
LEMMA SetsKept == SetsInv /\ IInv /\ [Next]_vars => SetsInv'
<1> SUFFICES ASSUME SetsInv, IInv, [Next]_vars
             PROVE SetsInv'
  OBVIOUS
<1>1. Typed(state) /\ Shape(state)
  BY DEF IInv, StateOK
<1>2. Typed(state')
  <2>1. Typed(state)'
    BY IInvKept DEF IInv, StateOK
  <2>2. QED
    BY <2>1 DEF Typed, IsSeq
<1>3. CASE PrerenderRefused \/ PrerenderAcquired
  BY <1>3, SetsBegin
<1>4. CASE DrawContainer
  <2>1. PICK visible \in Views :
            RenderObjects("container", "world", RenderContainer(state, visible))
    BY <1>4 DEF DrawContainer
  <2>2. /\ phase = "container" /\ phase' = "world" /\ state' = RenderContainer(state, visible)
        /\ refusals' = refusals /\ objects' = objects
    BY <1>4, <2>1 DEF RenderObjects, DrawContainer
  <2>3. PICK n : n = 2 * Len(Chunks) + 1
    OBVIOUS
  <2>4. Takes(state, state', "tile", n)
    BY <2>2, <2>3, InTurn, ContainerDone DEF DoneFrom
  <2>5. n \in Nat
    <3>1. Chunks \in Seq(STRING)
      BY DrawsAssumption
    <3>2. QED
      BY <2>3, <3>1
  <2>6. objects' \in [now : Nat, all : Nat] /\ objects'.now <= MaxObjects
    BY <2>2 DEF SetsInv
  <2>7. ASSUME NEW q \in Programs
        PROVE SoFar(q) + (IF q = "tile" THEN n ELSE 0) <= SoFar(q)'
    <3>1. PICK m \in Nat : m = objects.now
      BY DEF SetsInv
    <3>2. SoFar(q) = 0 /\ SoFar(q)' = SetsPerTurn(q, m)
      BY <2>2, <3>1 DEF SoFar
    <3>3. SetsPerTurn(q, m) \in Nat
      BY PerTurnIs
    <3>4. q = "tile" => SetsPerTurn(q, m) = n
      BY <2>3 DEF SetsPerTurn
    <3>5. QED
      BY <2>5, <3>2, <3>3, <3>4
  <2>8. QED
    BY <1>1, <1>2, <2>2, <2>4, <2>5, <2>6, <2>7, SetsMove
<1>5. CASE DrawLine
  <2>1. /\ AnotherObject /\ phase = "world" /\ phase' = phase /\ state' = RenderLine(state)
        /\ refusals' = refusals
    BY <1>5 DEF DrawLine, RenderObjects
  <2>2. Takes(state, state', "line", 1)
    BY <2>1, InTurn, LineDone DEF DoneFrom
  <2>3. QED
    BY <1>1, <1>2, <2>1, <2>2, SetsObject DEF Programs
<1>6. CASE DrawHealthbar
  <2>1. /\ AnotherObject /\ phase = "interface" /\ phase' = phase
        /\ state' = RenderBox(RenderBox(state)) /\ refusals' = refusals
    BY <1>6 DEF DrawHealthbar, RenderObjects
  <2>2. PICK s : s = RenderBox(state)
    OBVIOUS
  <2>3. Takes(state, s, "box", 1) /\ Done(s)
    BY <2>1, <2>2, InTurn, BoxDone DEF DoneFrom
  <2>4. Takes(s, state', "box", 1)
    BY <2>1, <2>2, <2>3, InTurn, BoxDone DEF DoneFrom
  <2>5. Takes(state, state', "box", 1 + 1)
    BY <1>1, <1>2, <2>3, <2>4, TakesMore DEF Done, StateOK
  <2>6. Takes(state, state', "box", 2)
    BY <2>5
  <2>7. QED
    BY <1>1, <1>2, <2>1, <2>6, SetsObject DEF Programs
<1>7. CASE DrawText
  <2>1. PICK t \in Texts : RenderObjects("interface", "interface", RenderText(state, t))
    BY <1>7 DEF DrawText
  <2>2. /\ AnotherObject /\ phase = "interface" /\ phase' = phase
        /\ state' = RenderText(state, t) /\ refusals' = refusals
    BY <1>7, <2>1 DEF DrawText, RenderObjects
  <2>3. Takes(state, state', "text", 1)
    BY <2>2, InTurn, TextDone DEF DoneFrom
  <2>4. QED
    BY <1>1, <1>2, <2>2, <2>3, SetsObject DEF Programs
<1>8. CASE DrawBox
  <2>1. /\ AnotherObject /\ phase = "interface" /\ phase' = phase /\ state' = RenderBox(state)
        /\ refusals' = refusals
    BY <1>8 DEF DrawBox, RenderObjects
  <2>2. Takes(state, state', "box", 1)
    BY <2>1, InTurn, BoxDone DEF DoneFrom
  <2>3. Takes(state, state', "box", 2)
    BY <1>1, <1>2, <2>2, TakesMoreOf
  <2>4. QED
    BY <1>1, <1>2, <2>1, <2>3, SetsObject DEF Programs
<1>9. CASE DrawImage
  <2>1. /\ AnotherObject /\ phase = "interface" /\ phase' = phase /\ state' = RenderImage(state)
        /\ refusals' = refusals /\ picture # "none"
    BY <1>9 DEF DrawImage, RenderObjects
  <2>2. Takes(state, state', "image", 1)
    BY <2>1, InTurn, ImageDone DEF DoneFrom
  <2>3. QED
    BY <1>1, <1>2, <2>1, <2>2, SetsObject DEF Programs
<1>10. CASE DepthOff \/ RenderNothing \/ RenderSubmit
  <2>1. /\ \/ state' = EnableDepthTest(state, FALSE)
           \/ state' = EnableDepthTest(state, TRUE)
        /\ phase' = "prerender" \/ (phase = "world" /\ phase' = "interface")
        /\ objects' = objects /\ refusals' = refusals
    BY <1>10 DEF DepthOff, RenderObjects, RenderNothing, RenderSubmit, RenderEnd
  <2>2. SameSets(state, state')
    BY <1>1, <2>1 DEF EnableDepthTest, Shape, SameSets
  <2>3. QED
    BY <1>1, <1>2, <2>1, <2>2, SetsSame
<1>11. CASE LoadPicture \/ FinishCopy \/ LastTurn \/ UNCHANGED vars
  <2>1. state' = state /\ phase' = phase /\ objects' = objects /\ refusals' = refusals
    BY <1>11 DEF LoadPicture, FinishCopy, LastTurn, vars
  <2>2. QED
    BY <1>1, <1>2, <2>1, SetsSame DEF SameSets
<1>12. CASE \E i \in Slots : FinishFrame(i)
  <2>1. PICK i \in Slots : FinishFrame(i)
    BY <1>12
  <2>2. /\ state' = [state EXCEPT !.buffer[i] = <<>>]
        /\ phase' = phase /\ objects' = objects /\ refusals' = refusals
    BY <2>1 DEF FinishFrame
  <2>3. SameSets(state, state')
    BY <1>1, <2>2 DEF Shape, SameSets
  <2>4. QED
    BY <1>1, <1>2, <2>2, <2>3, SetsSame
<1>13. QED
  BY <1>3, <1>4, <1>5, <1>6, <1>7, <1>8, <1>9, <1>10, <1>11, <1>12 DEF Next, Loop, GPU

(* The sets of a program, which are never freed, are never more than a turn *)
(* can take times one more than the turns in a row that got no image, for   *)
(* every number of chunks and of objects.                                   *)
THEOREM SetsAlwaysBounded == Spec => []SetsBounded
<1>1. Init => SetsInv
  <2> SUFFICES ASSUME Init
               PROVE SetsInv
    OBVIOUS
  <2>1. /\ refusals = [now |-> 0, most |-> 0] /\ objects = [now |-> 0, all |-> 0]
        /\ phase = "prerender"
        /\ state.setsTaken = [p \in Programs |-> 0] /\ state.sets = [p \in Programs |-> 0]
    BY DEF Init
  <2>2. MaxObjects \in Nat
    BY DrawsAssumption
  <2>3. ASSUME NEW p \in Programs
        PROVE /\ state.setsTaken[p] <= 0 * SetsPerTurn(p, MaxObjects) + SoFar(p)
              /\ state.sets[p] <= (0 + 1) * SetsPerTurn(p, MaxObjects)
    <3>1. PICK k \in Nat : k = SetsPerTurn(p, MaxObjects)
      BY <2>2, PerTurnIs
    <3>2. SoFar(p) = k
      BY <2>1, <3>1 DEF SoFar
    <3>3. QED
      BY <2>1, <3>1, <3>2
  <2>4. QED
    BY <2>1, <2>2, <2>3 DEF SetsInv
<1>2. SetsInv => SetsBounded
  BY DEF SetsInv, SetsBounded
<1>3. QED
  BY InitIInv, IInvKept, SetsKept, <1>1, <1>2, PTL DEF Spec

(* The loop's waits for a fence end, and no buffer is recorded while the   *)
(* GPU runs it, whatever is drawn and whenever the surface refuses.        *)
THEOREM FencesTellGPU == Spec => []FenceTellsGPU
<1>1. FenceInv => FenceTellsGPU
  BY DEF FenceInv
<1>2. QED
  BY FenceInvInit, FenceInvKept, <1>1, PTL DEF Spec
=============================================================================
