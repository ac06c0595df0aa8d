----------------------------- MODULE EngineProofs -----------------------------
(***************************************************************************)
(* What the engine does between the player and the game: what is pressed,  *)
(* what is loaded from the carton and what is played of it.                *)
(*                                                                         *)
(* Of any number of playings, and files of any length: the context of      *)
(* every thread is deleted once, and what is heard of a sound is what was  *)
(* read of it, in its order.  For the first, the list of finished threads  *)
(* only matters behind what tick() has deleted already: TickInv relates    *)
(* the two counters of tick(), which it read without the lock, to the list *)
(* as it has become.  For the second, PlayInv says of each thread where    *)
(* its buffers are and which pieces are in them; a thread writes into its  *)
(* own buffers only.                                                       *)
(*                                                                         *)
(* Of any files, addresses and versions, and however the packer writes:    *)
(* what has been loaded is found.  LoadedFound alone is not inductive: in  *)
(* the loop of reload() it holds of the resources the loop has come to,    *)
(* and stays true of them when the next one is entered in the map because  *)
(* no two files have their Metadata at one address.                        *)
(*                                                                         *)
(* Of any sources, pads and scripts that keep to ScriptAssumption: the     *)
(* receivers and the camera believe what the player does.  CameraTruthful  *)
(* and ToldIsHeld speak of the turn after the pad was read, and hold of    *)
(* what has not been excused; InputInv says of every source, at every      *)
(* point, what it was told as last, which for a button of the pad is       *)
(* lastGamepadButtons and for a simulated one axisDPadCounters.  The       *)
(* walks over the binds of a source, the registrations of a script and     *)
(* the buttons of a pad keep it step by step (StepsKeep).                  *)
(***************************************************************************)
EXTENDS Sound, Resources, EngineInput, SequenceTheorems, WellFoundedInduction, TLAPS

(***************************************************************************)
(* Playing sounds.                                                         *)
(***************************************************************************)

Pcs == {"none", "begin", "wait", "loop", "count", "fill", "end", "finish", "gone"}
SourceStates == {"initial", "playing", "stopped", "deleted"}

TypeInv ==
  /\ file \in [full : Nat, rest : BOOLEAN]
  /\ content \in [Buffers -> Int]
  /\ thread \in [Plays -> [pc : Pcs, state : SourceStates, bufferIndex : {-2, -1, 0},
                           next : Int, done : BOOLEAN, popped : Buffers]]
  /\ source \in [Plays -> [queue : Seq(Buffers), processed : Nat, state : SourceStates]]
  /\ finished \in Seq(Plays)
  /\ tick \in [pc : {"idle", "delete"}, size : Nat, deleted : Nat]
  /\ history \in [Plays -> [heard : Seq(Int), dry : BOOLEAN, failed : BOOLEAN, deletions : Nat]]

\* A source has played no more than was queued, and plays only while there is more.
SourceInv ==
  \A t \in Plays :
    /\ source[t].processed <= Len(source[t].queue)
    /\ source[t].state = "playing" => source[t].processed < Len(source[t].queue)

\* Threads only append to the list while tick() is at it.
TickInv ==
  /\ tick.deleted <= tick.size /\ tick.size <= Len(finished)
  /\ tick.pc = "idle" => tick.size = 0

IInv == TypeInv /\ SourceInv /\ TickInv /\ ContextsOnce

\* The two sizes that sound.h defines.
LEMMA CountsAre == SOUND_BUFFER_COUNT = 2 /\ SOUND_BUFFER_CIRCULAR_COUNT = 2
BY DEF SOUND_BUFFER_COUNT, SOUND_BUFFER_CIRCULAR_COUNT

\* The buffers a thread starts with, and the ones that replace them.
LEMMA BuffersAre ==
  /\ Preloaded(1) \in Buffers /\ Preloaded(2) \in Buffers
  /\ \A t \in Plays : <<t, 1>> \in Buffers /\ <<t, 2>> \in Buffers
BY CountsAre DEF Preloaded, Buffers

\* Nothing has been played, and no thread has begun.
LEMMA InitIInv == Init => IInv
<1> SUFFICES ASSUME Init PROVE IInv
  OBVIOUS
<1> USE DEF Init
<1>1. file \in [full : Nat, rest : BOOLEAN] /\ pieces \in Int
  BY SoundAssumption DEF pieces
<1>2. content \in [Buffers -> Int]
  BY <1>1 DEF Buffers, SOUND_BUFFER_COUNT
<1>3. /\ thread \in [Plays -> [pc : Pcs, state : SourceStates, bufferIndex : {-2, -1, 0},
                               next : Int, done : BOOLEAN, popped : Buffers]]
      /\ source \in [Plays -> [queue : Seq(Buffers), processed : Nat, state : SourceStates]]
  BY CountsAre, BuffersAre DEF Pcs, SourceStates
<1>4. /\ finished \in Seq(Plays)
      /\ tick \in [pc : {"idle", "delete"}, size : Nat, deleted : Nat]
      /\ history \in [Plays -> [heard : Seq(Int), dry : BOOLEAN, failed : BOOLEAN, deletions : Nat]]
  OBVIOUS
<1>5. TypeInv
  BY <1>1, <1>2, <1>3, <1>4 DEF TypeInv
<1>6. SourceInv /\ TickInv
  BY DEF SourceInv, TickInv
<1>7. ContextsOnce
  BY DEF ContextsOnce, Awaiting
<1>8. QED
  BY <1>5, <1>6, <1>7 DEF IInv

-----------------------------------------------------------------------------
(* Where the contexts are, step by step.                                   *)

\* What neither ends a thread nor touches the list leaves the contexts where they are.
LEMMA ElsewhereOnce ==
  ASSUME ContextsOnce, finished' = finished, tick.deleted' = tick.deleted,
         \A t \in Plays : history'[t].deletions = history[t].deletions,
         \A t \in Plays : thread'[t].pc = "gone" <=> thread[t].pc = "gone",
         finished \in Seq(Plays)
  PROVE  ContextsOnce'
<1>1. Awaiting' = Awaiting /\ \A i \in Awaiting : finished[i] \in Plays
  BY DEF Awaiting
<1>2. \A t \in Plays : Waiting(t)' <=> Waiting(t)
  BY <1>1 DEF Waiting
<1>3. QED
  BY <1>1, <1>2 DEF ContextsOnce

\* A thread that ends was not in the list, and comes to its end.
LEMMA FinishOnce ==
  ASSUME IInv, NEW t \in Plays, finishThread(t)
  PROVE  ContextsOnce'
<1> USE DEF finishThread, Goes
<1>1. /\ finished \in Seq(Plays) /\ Len(finished) \in Nat /\ tick.deleted \in Nat
      /\ tick.deleted <= Len(finished) /\ tick' = tick /\ history' = history
  BY DEF IInv, TypeInv, TickInv
<1>2. /\ \A u \in Plays : thread'[u].pc = IF u = t THEN "gone" ELSE thread[u].pc
      /\ thread[t].pc = "finish"
  BY DEF IInv, TypeInv
<1>3. DEFINE last == Len(finished) + 1
<1>4. /\ Len(finished') = last /\ finished'[last] = t
      /\ \A i \in 1 .. Len(finished) : finished'[i] = finished[i]
  BY <1>1
<1>5. Awaiting' = Awaiting \cup {last} /\ last \notin Awaiting
  BY <1>1, <1>4 DEF Awaiting
<1>6. \A i \in Awaiting : i \in 1 .. Len(finished) /\ finished[i] \in Plays /\ finished[i] # t
  BY <1>1, <1>2 DEF IInv, ContextsOnce, Awaiting
<1>7. history[t].deletions = 0
  BY <1>2 DEF IInv, ContextsOnce
<1>8. \A i, j \in Awaiting' : finished'[i] = finished'[j] => i = j
  BY <1>4, <1>5, <1>6 DEF IInv, ContextsOnce
<1>9. \A i \in Awaiting' : thread'[finished'[i]].pc = "gone"
  BY <1>2, <1>4, <1>5, <1>6 DEF IInv, ContextsOnce
<1>10. \A u \in Plays : Waiting(u)' <=> u = t \/ Waiting(u)
  BY <1>4, <1>5, <1>6 DEF Waiting
<1>11. QED
  BY <1>1, <1>2, <1>7, <1>8, <1>9, <1>10 DEF IInv, ContextsOnce

\* tick() deletes the context at the next place of the list.
LEMMA DeleteOnce ==
  ASSUME IInv, TickDeletes
  PROVE  ContextsOnce'
<1>1. /\ finished \in Seq(Plays) /\ Len(finished) \in Nat /\ tick.deleted \in Nat /\ tick.size \in Nat
      /\ tick.deleted < tick.size /\ tick.size <= Len(finished)
      /\ tick'.deleted = tick.deleted + 1 /\ finished' = finished /\ thread' = thread
  BY DEF TickDeletes, IInv, TypeInv, TickInv
<1>2. PICK c \in Plays : c = finished[tick.deleted + 1]
  BY <1>1
<1>3. tick.deleted + 1 \in Awaiting /\ Awaiting' = Awaiting \ {tick.deleted + 1}
  BY <1>1 DEF Awaiting
<1>4. \A u \in Plays : history'[u].deletions =
        IF u = c THEN history[u].deletions + 1 ELSE history[u].deletions
  BY <1>2 DEF TickDeletes, IInv, TypeInv
<1>5. Waiting(c)
  BY <1>2, <1>3 DEF Waiting
<1>6. thread[c].pc = "gone" /\ history[c].deletions = 0
  BY <1>2, <1>3, <1>5 DEF IInv, ContextsOnce
<1>7. ~Waiting(c)'
  BY <1>1, <1>2, <1>3 DEF Waiting, IInv, ContextsOnce
<1>8. \A u \in Plays \ {c} : Waiting(u)' <=> Waiting(u)
  BY <1>1, <1>2, <1>3 DEF Waiting
<1>9. QED
  BY <1>1, <1>3, <1>4, <1>6, <1>7, <1>8 DEF IInv, ContextsOnce

\* tick() takes from the list what it has deleted, whatever has come behind it.
LEMMA PopOnce ==
  ASSUME IInv, TickPops
  PROVE  ContextsOnce'
<1>1. /\ finished \in Seq(Plays) /\ Len(finished) \in Nat /\ tick.size \in Nat
      /\ tick.deleted = tick.size /\ tick.size <= Len(finished)
      /\ tick'.deleted = 0 /\ thread' = thread /\ history' = history
      /\ finished' = SubSeq(finished, tick.size + 1, Len(finished))
  BY DEF TickPops, IInv, TypeInv, TickInv
<1>2. /\ Len(finished') = Len(finished) - tick.size
      /\ \A i \in 1 .. Len(finished') : finished'[i] = finished[i + tick.size]
  BY <1>1
<1>3. /\ Awaiting = {i \in 1 .. Len(finished) : i > tick.size}
      /\ Awaiting' = {i \in 1 .. Len(finished') : i > 0}
  BY <1>1 DEF Awaiting
<1>4. ASSUME NEW i \in Awaiting'
      PROVE  i \in Nat /\ i + tick.size \in Awaiting /\ finished'[i] = finished[i + tick.size]
  <2>1. i \in 1 .. Len(finished')
    BY <1>3
  <2>2. i \in Nat /\ i + tick.size \in 1 .. Len(finished) /\ i + tick.size > tick.size
    BY <1>1, <1>2, <2>1
  <2>3. QED
    BY <1>2, <1>3, <2>1, <2>2
<1>5. ASSUME NEW j \in Awaiting
      PROVE  j \in Nat /\ j - tick.size \in Awaiting'
  <2>1. j \in 1 .. Len(finished) /\ j > tick.size
    BY <1>3
  <2>2. j \in Nat /\ j - tick.size \in 1 .. Len(finished') /\ j - tick.size > 0
    BY <1>1, <1>2, <2>1
  <2>3. QED
    BY <1>3, <2>2
<1>6. ASSUME NEW j \in Awaiting
      PROVE  finished'[j - tick.size] = finished[j]
  <2>1. (j - tick.size) + tick.size = j
    BY <1>1, <1>5
  <2>2. QED
    BY <1>4, <1>5, <2>1
<1>7. ASSUME NEW i \in Awaiting', NEW j \in Awaiting', finished'[i] = finished'[j]
      PROVE  i = j
  <2>1. i + tick.size = j + tick.size
    BY <1>4, <1>7 DEF IInv, ContextsOnce
  <2>2. QED
    BY <1>1, <1>4, <2>1
<1>8. \A u \in Plays : Waiting(u)' <=> Waiting(u)
  BY <1>4, <1>5, <1>6 DEF Waiting
<1>9. \A i \in Awaiting' : thread'[finished'[i]].pc = "gone"
  BY <1>1, <1>4 DEF IInv, ContextsOnce
<1>10. QED
  BY <1>1, <1>7, <1>8, <1>9 DEF IInv, ContextsOnce

-----------------------------------------------------------------------------
(* Types, the sources, and the counters of tick().                         *)

ThreadType == [pc : Pcs, state : SourceStates, bufferIndex : {-2, -1, 0},
               next : Int, done : BOOLEAN, popped : Buffers]
SourceType == [queue : Seq(Buffers), processed : Nat, state : SourceStates]
HistoryType == [Plays -> [heard : Seq(Int), dry : BOOLEAN, failed : BOOLEAN, deletions : Nat]]

\* The rest of what a step of a thread has to keep.
RestKept ==
  /\ content' \in [Buffers -> Int] /\ history' \in HistoryType
  /\ file' = file /\ finished' = finished /\ tick' = tick

\* A step of one thread or of its source keeps types and sources if it does so for the
\* one it is about.
LEMMA OneKept ==
  ASSUME TypeInv, SourceInv, TickInv, NEW t \in Plays,
         NEW th \in ThreadType, NEW s \in SourceType,
         thread' = [thread EXCEPT ![t] = th], source' = [source EXCEPT ![t] = s],
         s.processed <= Len(s.queue), s.state = "playing" => s.processed < Len(s.queue),
         RestKept
  PROVE  (TypeInv /\ SourceInv /\ TickInv)'
<1>1. TypeInv'
  BY DEF TypeInv, ThreadType, SourceType, HistoryType, RestKept
<1>2. SourceInv'
  BY DEF SourceInv, TypeInv
<1>3. TickInv'
  BY DEF TickInv, RestKept
<1>4. QED
  BY <1>1, <1>2, <1>3

\* play(), and the steps of a thread up to its end, which leave the list alone.
LEMMA ThreadTypes ==
  ASSUME IInv, NEW t \in Plays,
         \/ play(t) \/ Begins(t) \/ Waits(t) \/ LooksAtState(t) \/ Sleeps(t) \/ Unqueues(t)
         \/ (\E fails \in BOOLEAN : Fills(t, fails)) \/ Ends(t)
  PROVE  (TypeInv /\ SourceInv /\ TickInv)'
<1> USE DEF IInv
<1>1. /\ thread[t] \in ThreadType /\ source[t] \in SourceType
      /\ thread = [thread EXCEPT ![t] = thread[t]] /\ source = [source EXCEPT ![t] = source[t]]
      /\ source[t].processed <= Len(source[t].queue)
      /\ source[t].state = "playing" => source[t].processed < Len(source[t].queue)
      /\ content \in [Buffers -> Int] /\ history \in HistoryType
  BY DEF TypeInv, SourceInv, ThreadType, SourceType, HistoryType
<1>2. /\ source[t].queue \in Seq(Buffers) /\ source[t].processed \in Nat
      /\ thread[t].bufferIndex \in {-2, -1, 0} /\ thread[t].next \in Int
      /\ thread[t].done \in BOOLEAN /\ thread[t].popped \in Buffers
  BY <1>1 DEF ThreadType, SourceType
<1>3. CASE play(t) \/ Waits(t) \/ Sleeps(t)
  <2>1. PICK where \in Pcs : thread' = [thread EXCEPT ![t].pc = where]
    BY <1>3 DEF play, Waits, Sleeps, Goes, Pcs
  <2>2. PICK th : th = [thread[t] EXCEPT !.pc = where]
    OBVIOUS
  <2>3. th \in ThreadType /\ thread' = [thread EXCEPT ![t] = th]
    BY <1>1, <2>1, <2>2 DEF ThreadType
  <2>4. source' = [source EXCEPT ![t] = source[t]] /\ RestKept
    BY <1>1, <1>3 DEF play, Waits, Sleeps, RestKept
  <2>5. QED
    BY <1>1, <2>3, <2>4, OneKept
<1>4. CASE Begins(t)
  <2> DEFINE queued == IF filled THEN SOUND_BUFFER_CIRCULAR_COUNT ELSE bufferCount
             s == [queue |-> [i \in 1 .. queued |-> Preloaded(i)], processed |-> 0, state |-> "playing"]
  <2>1. queued \in {1, 2}
    BY CountsAre DEF filled, bufferCount, TypeInv
  <2>2. s.queue \in Seq(Buffers) /\ Len(s.queue) = queued
    BY <2>1, BuffersAre
  <2>3. s \in SourceType /\ s.processed < Len(s.queue) /\ s.processed <= Len(s.queue)
    BY <2>1, <2>2 DEF SourceType, SourceStates
  <2>4. PICK th : th = [thread[t] EXCEPT !.pc = IF filled THEN "loop" ELSE "wait"]
    OBVIOUS
  <2>5. th \in ThreadType
    BY <1>1, <2>4 DEF ThreadType, Pcs
  <2>6. thread' = [thread EXCEPT ![t] = th] /\ source' = [source EXCEPT ![t] = s] /\ RestKept
    BY <1>1, <1>4, <2>4 DEF Begins, Goes, RestKept
  <2> HIDE DEF s
  <2>7. QED
    BY <2>3, <2>5, <2>6, OneKept
<1>5. CASE LooksAtState(t)
  <2>1. PICK th : th = [thread[t] EXCEPT !.state = source[t].state,
                          !.pc = IF thread[t].state = "playing" THEN "count" ELSE "end"]
    OBVIOUS
  <2>2. th \in ThreadType /\ thread' = [thread EXCEPT ![t] = th]
    <3>1. source[t].state \in SourceStates
      BY <1>1 DEF SourceType
    <3>2. th \in ThreadType
      BY <1>1, <2>1, <3>1 DEF ThreadType, Pcs
    <3>3. thread' = [thread EXCEPT ![t].state = source[t].state,
                             ![t].pc = IF thread[t].state = "playing" THEN "count" ELSE "end"]
      BY <1>5 DEF LooksAtState
    <3>4. thread \in [Plays -> ThreadType]
      BY DEF TypeInv, ThreadType
    <3>5. QED
      BY <1>1, <2>1, <3>2, <3>3, <3>4 DEF ThreadType
  <2>3. source' = [source EXCEPT ![t] = source[t]] /\ RestKept
    BY <1>1, <1>5 DEF LooksAtState, RestKept
  <2>4. QED
    BY <1>1, <2>2, <2>3, OneKept
<1>6. CASE Unqueues(t)
  <2>1. source[t].queue # <<>> /\ source[t].processed > 0
    BY <1>1, <1>2, <1>6 DEF Unqueues
  <2>2. /\ Head(source[t].queue) \in Buffers /\ Tail(source[t].queue) \in Seq(Buffers)
        /\ Len(Tail(source[t].queue)) = Len(source[t].queue) - 1
    BY <1>2, <2>1
  <2>3. Replacement(t) \in Buffers
    <3>1. CASE thread[t].bufferIndex = -2
      <4>1. thread[t].bufferIndex + SOUND_BUFFER_COUNT + 1 = 1
        BY <3>1, CountsAre
      <4>2. Replacement(t) = <<t, 1>>
        BY <3>1, <4>1 DEF Replacement
      <4>3. QED
        BY <4>2, BuffersAre
    <3>2. CASE thread[t].bufferIndex = -1
      <4>1. thread[t].bufferIndex + SOUND_BUFFER_COUNT + 1 = 2
        BY <3>2, CountsAre
      <4>2. Replacement(t) = <<t, 2>>
        BY <3>2, <4>1 DEF Replacement
      <4>3. QED
        BY <4>2, BuffersAre
    <3>3. CASE thread[t].bufferIndex = 0
      BY <3>3, <2>2 DEF Replacement
    <3>4. QED
      BY <1>2, <3>1, <3>2, <3>3
  <2> DEFINE rest == Tail(source[t].queue)
  <2>4. PICK n \in Nat : n = source[t].processed - 1
    BY <1>2, <2>1
  <2>5. PICK s : s = [source[t] EXCEPT !.queue = rest, !.processed = n]
    OBVIOUS
  <2>6. /\ s \in SourceType /\ s.queue = Tail(source[t].queue)
        /\ s.processed = source[t].processed - 1 /\ s.state = source[t].state
    BY <1>1, <2>2, <2>5, <2>4 DEF SourceType
  <2>7. PICK popped \in Buffers : popped = IF thread[t].done THEN thread[t].popped ELSE Replacement(t)
    BY <1>2, <2>3
  <2>8. PICK index \in {-2, -1, 0} : index =
          IF thread[t].bufferIndex < 0 /\ ~thread[t].done THEN thread[t].bufferIndex + 1
          ELSE thread[t].bufferIndex
    BY <1>2
  <2>9. PICK th : th = [thread[t] EXCEPT !.pc = IF thread[t].done THEN "end" ELSE "fill",
                                         !.popped = popped, !.bufferIndex = index]
    OBVIOUS
  <2>10. th \in ThreadType
    BY <1>1, <2>9 DEF ThreadType, Pcs
  <2>11. thread' = [thread EXCEPT ![t] = th] /\ source' = [source EXCEPT ![t] = s] /\ RestKept
    BY <1>1, <1>6, <2>5, <2>7, <2>8, <2>9, <2>4 DEF Unqueues, RestKept
  <2>12. s.processed <= Len(s.queue) /\ (s.state = "playing" => s.processed < Len(s.queue))
    BY <1>1, <1>2, <2>2, <2>6
  <2>13. QED
    BY <2>6, <2>10, <2>11, <2>12, OneKept
<1>7. ASSUME NEW fails \in BOOLEAN, Fills(t, fails)
      PROVE  (TypeInv /\ SourceInv /\ TickInv)'
  <2>1. PICK s : s = [source[t] EXCEPT !.queue = Append(source[t].queue, thread[t].popped)]
    OBVIOUS
  <2>2. Append(source[t].queue, thread[t].popped) \in Seq(Buffers)
    BY <1>2
  <2>3. /\ s \in SourceType /\ s.queue = Append(source[t].queue, thread[t].popped)
        /\ s.processed = source[t].processed /\ s.state = source[t].state
    BY <1>1, <2>1, <2>2 DEF SourceType
  <2>4. s.processed <= Len(s.queue) /\ (s.state = "playing" => s.processed < Len(s.queue))
    BY <1>1, <1>2, <2>3
  <2>5. PICK done \in BOOLEAN : done = (fails \/ EndOfFile(thread[t].next))
    OBVIOUS
  <2>6. PICK next \in Int : next = thread[t].next + 1
    BY <1>2
  <2>7. PICK th : th = [thread[t] EXCEPT !.next = next, !.done = done, !.pc = "loop"]
    OBVIOUS
  <2>8. th \in ThreadType
    BY <1>1, <2>7 DEF ThreadType, Pcs
  <2>9. thread' = [thread EXCEPT ![t] = th] /\ source' = [source EXCEPT ![t] = s]
    BY <1>7, <2>1, <2>5, <2>7, <2>6 DEF Fills
  <2>10. content' \in [Buffers -> Int]
    <3>1. PICK v \in Int : v = IF thread[t].next <= pieces THEN thread[t].next ELSE 0
      BY <1>2
    <3>2. content' = content \/ content' = [content EXCEPT ![thread[t].popped] = v]
      BY <1>7, <3>1 DEF Fills
    <3>3. QED
      BY <1>1, <1>2, <3>2
  <2>11. history' \in HistoryType
    BY <1>1, <1>7 DEF Fills, HistoryType
  <2>12. RestKept
    BY <1>7, <2>10, <2>11 DEF Fills, RestKept
  <2>13. QED
    BY <2>3, <2>4, <2>8, <2>9, <2>12, OneKept
<1>8. CASE Ends(t)
  <2>1. PICK s : s = [source[t] EXCEPT !.state = "deleted"]
    OBVIOUS
  <2>2. PICK th : th = [thread[t] EXCEPT !.pc = "finish"]
    OBVIOUS
  <2>3. s \in SourceType /\ s.processed <= Len(s.queue) /\ s.state # "playing"
    BY <1>1, <2>1 DEF SourceType, SourceStates
  <2>4. th \in ThreadType
    BY <1>1, <2>2 DEF ThreadType, Pcs
  <2>5. thread' = [thread EXCEPT ![t] = th] /\ source' = [source EXCEPT ![t] = s] /\ RestKept
    BY <1>1, <1>8, <2>1, <2>2 DEF Ends, Goes, RestKept
  <2>6. QED
    BY <2>3, <2>4, <2>5, OneKept
<1>9. QED
  BY <1>3, <1>4, <1>5, <1>6, <1>7, <1>8

\* What the device has played is content of a buffer that was in the queue.
LEMMA DeviceTypes ==
  ASSUME IInv, NEW t \in Plays, DevicePlays(t)
  PROVE  (TypeInv /\ SourceInv /\ TickInv)'
<1> USE DEF IInv
<1> DEFINE q == source[t].queue
           n == source[t].processed + 1
<1>1. /\ thread[t] \in ThreadType /\ source[t] \in SourceType
      /\ thread = [thread EXCEPT ![t] = thread[t]]
      /\ content \in [Buffers -> Int] /\ history \in HistoryType
  BY DEF TypeInv, ThreadType, SourceType, HistoryType
<1>2. /\ q \in Seq(Buffers) /\ n \in Nat /\ n \in 1 .. Len(q) /\ Len(q) \in Nat
      /\ source[t].state = "playing"
  BY <1>1 DEF DevicePlays, SourceInv, SourceType
<1>3. content[q[n]] \in Int
  BY <1>1, <1>2
<1>4. PICK state \in SourceStates : state = IF n = Len(q) THEN "stopped" ELSE source[t].state
  BY <1>1 DEF SourceType, SourceStates
<1>5. PICK s : s = [source[t] EXCEPT !.processed = n, !.state = state]
  OBVIOUS
<1>6. s \in SourceType /\ s.queue = q /\ s.processed = n /\ s.state = state
  <2> HIDE DEF q, n
  <2>1. s = [source[t] EXCEPT !.processed = n, !.state = state] /\ n \in Nat /\ state \in SourceStates
    BY <1>2, <1>5
  <2>2. source[t].queue = q
    BY DEF q
  <2>3. QED
    BY <1>1, <2>1, <2>2 DEF SourceType
<1>7. s.processed <= Len(s.queue) /\ (s.state = "playing" => s.processed < Len(s.queue))
  BY <1>2, <1>4, <1>6
<1>8. source' = [source EXCEPT ![t] = s]
  BY <1>4, <1>5 DEF DevicePlays
<1>9. history' \in HistoryType
  <2>1. PICK hearing \in Seq(Int) : hearing =
          IF content[q[n]] = 0 THEN history[t].heard ELSE Append(history[t].heard, content[q[n]])
    <3>1. history[t].heard \in Seq(Int)
      BY <1>1 DEF HistoryType
    <3>2. Append(history[t].heard, content[q[n]]) \in Seq(Int)
      BY <1>3, <3>1
    <3>3. QED
      BY <3>1, <3>2
  <2>2. PICK dry \in BOOLEAN : dry = (history[t].dry \/ (n = Len(q) /\ filled /\ ~thread[t].done))
    BY <1>1 DEF HistoryType
  <2>3. history' = [history EXCEPT ![t].heard = hearing, ![t].dry = dry]
    BY <2>1, <2>2 DEF DevicePlays
  <2>4. QED
    BY <1>1, <2>3 DEF HistoryType
<1>10. RestKept /\ thread' = [thread EXCEPT ![t] = thread[t]]
  BY <1>1, <1>9 DEF DevicePlays, RestKept
<1>11. QED
  BY <1>1, <1>6, <1>7, <1>8, <1>10, OneKept

\* A thread that ends makes the list longer.
LEMMA FinishTypes ==
  ASSUME IInv, NEW t \in Plays, finishThread(t)
  PROVE  (TypeInv /\ SourceInv /\ TickInv)'
<1> USE DEF IInv, finishThread, Goes
<1>1. thread' = [thread EXCEPT ![t].pc = "gone"] /\ "gone" \in Pcs
  BY DEF Pcs
<1>2. thread' \in [Plays -> ThreadType]
  <2>1. thread \in [Plays -> ThreadType]
    BY DEF TypeInv, ThreadType
  <2>2. [thread[t] EXCEPT !.pc = "gone"] \in ThreadType
    BY <1>1, <2>1 DEF ThreadType
  <2>3. QED
    BY <1>1, <2>1, <2>2
<1>3. finished' \in Seq(Plays) /\ Len(finished') = Len(finished) + 1
  <2>1. finished \in Seq(Plays) /\ finished' = Append(finished, t)
    BY DEF TypeInv
  <2>2. QED
    BY <2>1
<1>4. TypeInv'
  BY <1>2, <1>3 DEF TypeInv, ThreadType
<1>5. SourceInv'
  BY DEF SourceInv
<1>6. TickInv'
  BY <1>3 DEF TickInv, TypeInv
<1>7. QED
  BY <1>4, <1>5, <1>6

\* tick() deletes no more than it has counted, and takes no more than it has deleted.
LEMMA TickTypes ==
  ASSUME IInv, TickReadsSize \/ TickDeletes \/ TickPops
  PROVE  (TypeInv /\ SourceInv /\ TickInv)'
<1> USE DEF IInv
<1>1. finished \in Seq(Plays) /\ Len(finished) \in Nat /\ tick.size \in Nat /\ tick.deleted \in Nat
  BY DEF TypeInv
<1>2. SourceInv'
  BY DEF TickReadsSize, TickDeletes, TickPops, SourceInv
<1>3. CASE TickReadsSize
  BY <1>1, <1>2, <1>3 DEF TickReadsSize, TypeInv, TickInv
<1>4. CASE TickDeletes
  <2>1. history' \in HistoryType
    <3>1. PICK c \in Plays : c = finished[tick.deleted + 1]
      BY <1>1, <1>4 DEF TickDeletes, TickInv
    <3>2. history \in HistoryType /\ history[c].deletions + 1 \in Nat
      BY DEF HistoryType, TypeInv
    <3>3. PICK k \in Nat : k = history[c].deletions + 1
      BY <3>2
    <3>4. history' = [history EXCEPT ![c].deletions = k]
      BY <1>4, <3>1, <3>3 DEF TickDeletes
    <3>5. QED
      BY <3>2, <3>4 DEF HistoryType
  <2>2. PICK d \in Nat : d = tick.deleted + 1
    BY <1>1
  <2>3. /\ tick' \in [pc : {"idle", "delete"}, size : Nat, deleted : Nat]
        /\ tick'.deleted = d /\ tick'.size = tick.size /\ tick'.pc = "delete"
    BY <1>4, <2>2 DEF TickDeletes, TypeInv
  <2>4. TypeInv'
    BY <1>4, <2>1, <2>3 DEF TickDeletes, TypeInv, HistoryType
  <2>5. TickInv'
    BY <1>1, <1>4, <2>2, <2>3 DEF TickDeletes, TickInv
  <2>6. QED
    BY <1>2, <2>4, <2>5
<1>5. CASE TickPops
  <2>1. finished' \in Seq(Plays)
    BY <1>1, <1>5 DEF TickPops, TickInv
  <2>2. TypeInv' /\ TickInv'
    BY <1>5, <2>1 DEF TickPops, TypeInv, TickInv
  <2>3. QED
    BY <1>2, <2>2
<1>6. QED
  BY <1>3, <1>4, <1>5

-----------------------------------------------------------------------------
(* What is in the buffers, and what has been heard of it.                  *)

Ended(t) == thread[t].pc \in {"end", "finish", "gone"}
Begun(t) == thread[t].pc \notin {"none", "begin"}

\* What a buffer holds that was filled as the n-th.
Piece(n) == IF n <= pieces THEN n ELSE 0

\* How many buffers have been taken from the queue of a streamed sound, and how many
\* have been played, counted from the beginning of the file.
Taken(t) == IF filled /\ Begun(t) THEN thread[t].next - 1 - Len(source[t].queue) ELSE 0
Played(t) == Taken(t) + source[t].processed

OwnBuffers(t) == {Preloaded(1), Preloaded(2), <<t, 1>>, <<t, 2>>}

\* The shared buffers in front, the thread's own behind them, and from then on those two
\* in turn: which of them are in the queue, and which one is about to be filled.
QueueInv(t) ==
  LET th == thread[t]
      q  == source[t].queue
  IN
  /\ \A i \in 1 .. Len(q) : q[i] \in OwnBuffers(t)
  /\ Len(q) <= 2 /\ th.next >= 3
  /\ ~Begun(t) => /\ q = <<>> /\ source[t].processed = 0 /\ source[t].state = "initial"
                  /\ th.next = 3 /\ th.bufferIndex = -2 /\ ~th.done /\ th.state = "playing"
  /\ Begun(t) /\ ~Ended(t) => source[t].state \in {"playing", "stopped"}
  /\ th.state \in {"playing", "stopped"}
  /\ th.pc = "wait" => ~filled
  /\ th.pc \in {"loop", "count"} =>
       /\ filled /\ Len(q) = 2
       /\ \/ th.bufferIndex = -2 /\ q[1] = Preloaded(1) /\ q[2] = Preloaded(2)
          \/ th.bufferIndex = -1 /\ q[1] = Preloaded(2) /\ q[2] = <<t, 1>>
          \/ th.bufferIndex = 0 /\ q[1] = <<t, 1>> /\ q[2] = <<t, 2>>
          \/ th.bufferIndex = 0 /\ q[1] = <<t, 2>> /\ q[2] = <<t, 1>>
  /\ th.pc = "fill" =>
       /\ filled /\ Len(q) = 1 /\ ~th.done
       /\ \/ th.bufferIndex = -1 /\ q[1] = Preloaded(2) /\ th.popped = <<t, 1>>
          \/ th.bufferIndex = 0 /\ q[1] = <<t, 1>> /\ th.popped = <<t, 2>>
          \/ th.bufferIndex = 0 /\ q[1] = <<t, 2>> /\ th.popped = <<t, 1>>
  /\ ~filled /\ Begun(t) =>
       /\ Len(q) = bufferCount
       /\ source[t].state = "stopped" => source[t].processed = Len(q)
       /\ Ended(t) => source[t].processed = Len(q)

\* The shared buffers keep what the constructor has read.
SharedInv == \A i \in 1 .. 2 : content[Preloaded(i)] = Piece(i)

\* The queue holds the pieces that follow on those taken from it, and what was heard are
\* the pieces in the buffers that were played.
HeardInv(t) ==
  ~history[t].failed =>
    /\ \A i \in 1 .. Len(source[t].queue) : content[source[t].queue[i]] = Piece(Taken(t) + i)
    /\ history[t].heard = [i \in 1 .. Len(history[t].heard) |-> i]
    /\ Len(history[t].heard) = IF Played(t) <= pieces THEN Played(t) ELSE pieces

\* A source that has stopped had played all full pieces, or was left without.
StopInv(t) ==
  filled /\ ~history[t].failed =>
    /\ thread[t].done => thread[t].next - 1 > file.full
    /\ source[t].state = "stopped" \/ thread[t].state = "stopped" \/ Ended(t) =>
         history[t].dry \/ Played(t) >= file.full

PlayInv == SharedInv /\ \A t \in Plays : QueueInv(t) /\ HeardInv(t) /\ StopInv(t)

\* The owners of the buffers: a thread has its own, and none of another's.
LEMMA Owners ==
  /\ Preloaded(1)[1] = "sound" /\ Preloaded(2)[1] = "sound"
  /\ \A t \in Plays : \A b \in OwnBuffers(t) : b \in Buffers /\ b[1] \in {t, "sound"}
BY BuffersAre DEF OwnBuffers, Preloaded

\* What one thread does leaves the others with what they have.
LEMMA OthersPlay ==
  ASSUME TypeInv, PlayInv, NEW t \in Plays, file' = file,
         \A u \in Plays \ {t} : /\ thread'[u] = thread[u] /\ source'[u] = source[u]
                                /\ history'[u] = history[u],
         \A b \in Buffers : b[1] # t => content'[b] = content[b]
  PROVE  SharedInv' /\ \A u \in Plays \ {t} : QueueInv(u)' /\ HeardInv(u)' /\ StopInv(u)'
<1>1. pieces' = pieces /\ filled' = filled /\ bufferCount' = bufferCount /\ \A n : Piece(n)' = Piece(n)
  BY DEF pieces, filled, bufferCount, Piece
<1>2. SharedInv'
  <2>1. \A i \in 1 .. 2 : Preloaded(i) \in Buffers /\ Preloaded(i)[1] # t
    BY BuffersAre, Owners, SoundAssumption
  <2>2. QED
    BY <1>1, <2>1 DEF SharedInv, PlayInv
<1>3. ASSUME NEW u \in Plays \ {t}
      PROVE  QueueInv(u)' /\ HeardInv(u)' /\ StopInv(u)'
  <2>1. thread'[u] = thread[u] /\ source'[u] = source[u] /\ history'[u] = history[u]
    OBVIOUS
  <2>2. Taken(u)' = Taken(u) /\ Played(u)' = Played(u) /\ Begun(u)' = Begun(u) /\ Ended(u)' = Ended(u)
    BY <1>1, <2>1 DEF Taken, Played, Begun, Ended
  <2>3. QueueInv(u)'
    BY <1>1, <2>1, <2>2 DEF QueueInv, PlayInv, OwnBuffers, Preloaded
  <2>4. \A i \in 1 .. Len(source[u].queue) :
          content'[source[u].queue[i]] = content[source[u].queue[i]]
    <3>1. ASSUME NEW i \in 1 .. Len(source[u].queue)
          PROVE  content'[source[u].queue[i]] = content[source[u].queue[i]]
      <4>1. source[u].queue[i] \in OwnBuffers(u)
        BY DEF PlayInv, QueueInv
      <4>2. QED
        BY <4>1, Owners, SoundAssumption
    <3>2. QED
      BY <3>1
  <2>5. HeardInv(u)'
    BY <1>1, <2>1, <2>2, <2>4 DEF HeardInv, PlayInv
  <2>6. StopInv(u)'
    BY <1>1, <2>1, <2>2 DEF StopInv, PlayInv
  <2>7. QED
    BY <2>3, <2>5, <2>6
<1>4. QED
  BY <1>2, <1>3

\* What is known of one thread, its source and what was heard of it.
LEMMA OneTyped ==
  ASSUME IInv, NEW t \in Plays
  PROVE  /\ thread[t] \in ThreadType /\ source[t] \in SourceType
         /\ source[t].queue \in Seq(Buffers) /\ source[t].processed \in Nat
         /\ Len(source[t].queue) \in Nat
         /\ source[t].state \in SourceStates /\ thread[t].pc \in Pcs
         /\ thread[t].next \in Int /\ thread[t].done \in BOOLEAN
         /\ history[t].heard \in Seq(Int) /\ history[t].dry \in BOOLEAN /\ history[t].failed \in BOOLEAN
         /\ source[t].processed <= Len(source[t].queue)
         /\ source[t].state = "playing" => source[t].processed < Len(source[t].queue)
         /\ file.full \in Nat /\ pieces \in Nat /\ pieces \in {file.full, file.full + 1}
         /\ filled \in BOOLEAN /\ (filled <=> file.full >= 2) /\ bufferCount = file.full + 1
BY CountsAre DEF IInv, TypeInv, SourceInv, ThreadType, SourceType, pieces, filled, bufferCount

\* The constructor has filled the shared buffers, and no thread has a queue.
LEMMA InitPlay == Init => PlayInv
<1> SUFFICES ASSUME Init PROVE PlayInv
  OBVIOUS
<1>1. SharedInv
  <2>1. \A i \in 1 .. 2 : Preloaded(i) \in Buffers /\ Preloaded(i)[1] = "sound" /\ Preloaded(i)[2] = i
    BY BuffersAre DEF Preloaded
  <2>2. QED
    BY <2>1 DEF Init, SharedInv, Piece
<1>2. ASSUME NEW t \in Plays
      PROVE  QueueInv(t) /\ HeardInv(t) /\ StopInv(t)
  <2>1. /\ thread[t].pc = "none" /\ thread[t].next = 3 /\ thread[t].bufferIndex = -2
        /\ thread[t].done = FALSE /\ thread[t].state = "playing"
        /\ source[t].queue = <<>> /\ source[t].processed = 0 /\ source[t].state = "initial"
        /\ history[t].heard = <<>>
    BY CountsAre DEF Init
  <2>2. ~Begun(t) /\ ~Ended(t) /\ Taken(t) = 0 /\ Played(t) = 0
    BY <2>1 DEF Begun, Ended, Taken, Played
  <2>3. QueueInv(t)
    BY <2>1, <2>2 DEF QueueInv
  <2>4. file.full \in Nat /\ pieces \in Nat
    BY SoundAssumption DEF Init, pieces
  <2>5. HeardInv(t)
    BY <2>1, <2>2, <2>4 DEF HeardInv
  <2>6. StopInv(t)
    BY <2>1, <2>2 DEF StopInv
  <2>7. QED
    BY <2>3, <2>5, <2>6
<1>3. QED
  BY <1>1, <1>2 DEF PlayInv

\* What the file is does not change with the steps.
LEMMA SameFile ==
  ASSUME file' = file
  PROVE  /\ pieces' = pieces /\ filled' = filled /\ bufferCount' = bufferCount
         /\ \A n : Piece(n)' = Piece(n)
BY DEF pieces, filled, bufferCount, Piece

\* A step of one thread keeps what is heard, if it does so for its own.
LEMMA OneHeard ==
  ASSUME TypeInv, PlayInv, NEW t \in Plays, NEW th, NEW s, NEW h, file' = file,
         thread' = [thread EXCEPT ![t] = th], source' = [source EXCEPT ![t] = s],
         history' = [history EXCEPT ![t] = h],
         \A b \in Buffers : b[1] # t => content'[b] = content[b],
         QueueInv(t)' /\ HeardInv(t)' /\ StopInv(t)'
  PROVE  PlayInv'
<1>1. \A u \in Plays \ {t} : /\ thread'[u] = thread[u] /\ source'[u] = source[u]
                             /\ history'[u] = history[u]
  BY DEF TypeInv
<1>2. QED
  BY <1>1, OthersPlay DEF PlayInv

\* The steps of a thread, or of tick(), that touch neither its queue nor what was heard.
LEMMA QuietPlay ==
  ASSUME IInv, PlayInv, NEW t \in Plays,
         play(t) \/ Waits(t) \/ LooksAtState(t) \/ Sleeps(t) \/ Ends(t) \/ finishThread(t)
  PROVE  PlayInv'
<1> DEFINE th == thread[t]
<1>1. /\ file' = file /\ content' = content /\ history' = history
      /\ pieces' = pieces /\ filled' = filled /\ bufferCount' = bufferCount
      /\ \A n : Piece(n)' = Piece(n)
  BY SameFile DEF play, Waits, LooksAtState, Sleeps, Ends, finishThread, Goes
<1>2. /\ thread[t] \in ThreadType /\ source[t] \in SourceType
      /\ thread = [thread EXCEPT ![t] = thread[t]] /\ source = [source EXCEPT ![t] = source[t]]
      /\ history = [history EXCEPT ![t] = history[t]]
  BY OneTyped DEF IInv, TypeInv
<1>3. /\ \E th2 : thread' = [thread EXCEPT ![t] = th2]
      /\ \E s : source' = [source EXCEPT ![t] = s]
  BY <1>2 DEF play, Waits, LooksAtState, Sleeps, Ends, finishThread, Goes
<1>4. /\ thread'[t].next = thread[t].next /\ thread'[t].done = thread[t].done
      /\ thread'[t].bufferIndex = thread[t].bufferIndex /\ thread'[t].popped = thread[t].popped
      /\ thread'[t].state = IF LooksAtState(t) THEN source[t].state ELSE thread[t].state
  <2>1. CASE LooksAtState(t)
    BY <2>1 DEF LooksAtState, IInv, TypeInv
  <2>2. CASE ~LooksAtState(t)
    BY <2>2 DEF play, Waits, Sleeps, Ends, finishThread, Goes, IInv, TypeInv
  <2>3. QED
    BY <2>1, <2>2
<1>5. /\ source'[t].queue = source[t].queue /\ source'[t].processed = source[t].processed
      /\ source'[t].state = IF Ends(t) THEN "deleted" ELSE source[t].state
  BY DEF play, Waits, LooksAtState, Sleeps, Ends, finishThread, IInv, TypeInv
<1>6. /\ thread[t].pc = "none" => thread'[t].pc = "begin"
      /\ thread[t].pc = "wait" => thread'[t].pc = (IF source[t].state = "playing" THEN "wait" ELSE "end")
      /\ thread[t].pc = "loop" => thread'[t].pc = (IF thread[t].state = "playing" THEN "count" ELSE "end")
      /\ thread[t].pc = "count" => thread'[t].pc = "loop"
      /\ thread[t].pc = "end" => thread'[t].pc = "finish"
      /\ thread[t].pc = "finish" => thread'[t].pc = "gone"
      /\ thread[t].pc \in {"none", "wait", "loop", "count", "end", "finish"}
      /\ LooksAtState(t) <=> thread[t].pc = "loop"
      /\ Ends(t) <=> thread[t].pc = "end"
  <2>1. CASE LooksAtState(t)
    BY <2>1 DEF LooksAtState, Ends, IInv, TypeInv
  <2>2. CASE ~LooksAtState(t)
    BY <2>2 DEF play, Waits, Sleeps, Ends, finishThread, Goes, IInv, TypeInv
  <2>3. QED
    BY <2>1, <2>2
<1>7. Begun(t)' = Begun(t)
  BY <1>6 DEF Begun
<1>8. Taken(t)' = Taken(t) /\ Played(t)' = Played(t)
  BY <1>1, <1>4, <1>5, <1>7 DEF Taken, Played
<1>9. QueueInv(t)'
  <2>1. QueueInv(t)
    BY DEF PlayInv
  <2>2. /\ \A i \in 1 .. Len(source'[t].queue) : source'[t].queue[i] \in OwnBuffers(t)
        /\ Len(source'[t].queue) <= 2 /\ thread'[t].next >= 3
    BY <2>1, <1>4, <1>5 DEF QueueInv
  <2>3. ~Begun(t)' =>
          /\ source'[t].queue = <<>> /\ source'[t].processed = 0 /\ source'[t].state = "initial"
          /\ thread'[t].next = 3 /\ thread'[t].bufferIndex = -2 /\ ~thread'[t].done
          /\ thread'[t].state = "playing"
    BY <2>1, <1>4, <1>5, <1>6, <1>7 DEF QueueInv, Begun
  <2>4. /\ Begun(t)' /\ ~Ended(t)' => source'[t].state \in {"playing", "stopped"}
        /\ thread'[t].state \in {"playing", "stopped"}
        /\ thread'[t].pc = "wait" => ~filled'
    BY <2>1, <1>1, <1>4, <1>5, <1>6, <1>7 DEF QueueInv, Begun, Ended
  <2>5. thread'[t].pc \in {"loop", "count"} => thread[t].pc \in {"loop", "count"}
    BY <1>6
  <2>6. thread'[t].pc # "fill"
    BY <1>6
  <2>7. ~filled /\ Begun(t)' =>
          /\ Len(source'[t].queue) = bufferCount'
          /\ source'[t].state = "stopped" => source'[t].processed = Len(source'[t].queue)
          /\ Ended(t)' => source'[t].processed = Len(source'[t].queue)
    BY <2>1, <1>1, <1>4, <1>5, <1>6, <1>7 DEF QueueInv, Begun, Ended
  <2>8. QED
    BY <2>1, <2>2, <2>3, <2>4, <2>5, <2>6, <2>7, <1>1, <1>4, <1>5 DEF QueueInv, OwnBuffers, Preloaded
<1>10. HeardInv(t)'
  BY <1>1, <1>5, <1>8 DEF HeardInv, PlayInv
<1>11. StopInv(t)'
  <2>1. QueueInv(t) /\ StopInv(t)
    BY DEF PlayInv
  <2>2. source'[t].state = "stopped" \/ thread'[t].state = "stopped" \/ Ended(t)' =>
          \/ source[t].state = "stopped" \/ thread[t].state = "stopped" \/ Ended(t) \/ ~filled
    BY <2>1, <1>4, <1>5, <1>6 DEF QueueInv, Ended, Begun
  <2>3. QED
    BY <2>1, <2>2, <1>1, <1>4, <1>8 DEF StopInv
<1>12. QED
  BY <1>1, <1>2, <1>3, <1>9, <1>10, <1>11, OneHeard DEF IInv

\* tick() has nothing to do with what is heard.
LEMMA TickPlay ==
  ASSUME IInv, PlayInv, TickReadsSize \/ TickDeletes \/ TickPops
  PROVE  PlayInv'
<1>1. /\ file' = file /\ content' = content /\ thread' = thread /\ source' = source
      /\ pieces' = pieces /\ filled' = filled /\ bufferCount' = bufferCount
      /\ \A n : Piece(n)' = Piece(n)
  BY SameFile DEF TickReadsSize, TickDeletes, TickPops
<1>2. ASSUME NEW t \in Plays
      PROVE  /\ history'[t].failed = history[t].failed /\ history'[t].heard = history[t].heard
             /\ history'[t].dry = history[t].dry
  <2>1. history \in HistoryType
    BY DEF IInv, TypeInv, HistoryType
  <2>2. CASE TickDeletes
    <3>1. PICK c, k : history' = [history EXCEPT ![c].deletions = k]
      BY <2>2 DEF TickDeletes
    <3>2. QED
      BY <2>1, <3>1 DEF HistoryType
  <2>3. QED
    BY <2>2 DEF TickReadsSize, TickPops
<1>3. ASSUME NEW t \in Plays
      PROVE  /\ Taken(t)' = Taken(t) /\ Played(t)' = Played(t)
             /\ Begun(t)' = Begun(t) /\ Ended(t)' = Ended(t)
  BY <1>1 DEF Taken, Played, Begun, Ended
<1>4. SharedInv'
  BY <1>1 DEF SharedInv, PlayInv, Preloaded
<1>5. ASSUME NEW t \in Plays
      PROVE  QueueInv(t)' /\ HeardInv(t)' /\ StopInv(t)'
  <2>1. QueueInv(t) /\ HeardInv(t) /\ StopInv(t)
    BY DEF PlayInv
  <2>2. QueueInv(t)'
    BY <2>1, <1>1, <1>3 DEF QueueInv, OwnBuffers, Preloaded
  <2>3. HeardInv(t)' /\ StopInv(t)'
    BY <2>1, <1>1, <1>2, <1>3 DEF HeardInv, StopInv
  <2>4. QED
    BY <2>2, <2>3
<1>6. QED
  BY <1>4, <1>5 DEF PlayInv

\* A thread begins with the shared buffers, which hold the first pieces.
LEMMA BeginPlay ==
  ASSUME IInv, PlayInv, NEW t \in Plays, Begins(t)
  PROVE  PlayInv'
<1> DEFINE queued == IF filled THEN SOUND_BUFFER_CIRCULAR_COUNT ELSE bufferCount
           s == [queue |-> [i \in 1 .. queued |-> Preloaded(i)], processed |-> 0, state |-> "playing"]
<1>1. /\ file' = file /\ content' = content /\ history' = history
      /\ pieces' = pieces /\ filled' = filled /\ bufferCount' = bufferCount
      /\ \A n : Piece(n)' = Piece(n)
      /\ source' = [source EXCEPT ![t] = s]
  BY SameFile DEF Begins
<1>2. queued \in {1, 2} /\ (filled => queued = 2) /\ (~filled => queued = bufferCount)
  BY OneTyped, CountsAre
<1>3. PICK th : th = [thread[t] EXCEPT !.pc = IF filled THEN "loop" ELSE "wait"]
  OBVIOUS
<1>4. /\ thread' = [thread EXCEPT ![t] = th] /\ thread[t] \in ThreadType
      /\ history' = [history EXCEPT ![t] = history[t]]
  BY <1>1, <1>3, OneTyped DEF Begins, Goes, IInv, TypeInv
<1>5. /\ thread'[t].pc = (IF filled THEN "loop" ELSE "wait")
      /\ thread'[t].next = thread[t].next /\ thread'[t].done = thread[t].done
      /\ thread'[t].bufferIndex = thread[t].bufferIndex /\ thread'[t].state = thread[t].state
  BY DEF Begins, Goes, IInv, TypeInv
<1>6. /\ Len(source'[t].queue) = queued
      /\ \A i \in 1 .. queued : source'[t].queue[i] = Preloaded(i)
      /\ source'[t].processed = 0 /\ source'[t].state = "playing"
  BY <1>1, <1>2 DEF IInv, TypeInv
<1> HIDE DEF queued, s
<1>7. QueueInv(t) /\ ~Begun(t) /\ ~Ended(t) /\ ~Ended(t)' /\ Begun(t)'
  BY <1>5 DEF PlayInv, Begun, Ended, Begins
<1>8. /\ thread[t].next = 3 /\ thread[t].bufferIndex = -2 /\ ~thread[t].done
      /\ thread[t].state = "playing" /\ source[t].processed = 0
  BY <1>7 DEF QueueInv
<1>9. Taken(t) = 0 /\ Taken(t)' = 0 /\ Played(t) = 0 /\ Played(t)' = 0
  <2>1. Taken(t) = 0
    BY <1>7 DEF Taken
  <2>2. thread'[t].next = 3 /\ (filled => Len(source'[t].queue) = 2)
    BY <1>2, <1>5, <1>6, <1>8
  <2>3. Taken(t)' = 0
    BY <1>1, <1>7, <2>2 DEF Taken
  <2>4. QED
    BY <2>1, <2>3, <1>6, <1>8 DEF Played
<1>10. QueueInv(t)'
  <2>1. \A i \in 1 .. queued : source'[t].queue[i] \in OwnBuffers(t)'
    <3>1. \A i \in 1 .. queued : i \in {1, 2}
      BY <1>2
    <3>2. Preloaded(1) \in OwnBuffers(t)' /\ Preloaded(2) \in OwnBuffers(t)'
      BY DEF OwnBuffers, Preloaded
    <3>3. QED
      BY <1>6, <3>1, <3>2
  <2>2. thread'[t].pc \in {"loop", "count"} =>
          /\ filled /\ source'[t].queue[1] = Preloaded(1) /\ source'[t].queue[2] = Preloaded(2)
          /\ Len(source'[t].queue) = 2
    BY <1>2, <1>5, <1>6
  <2>3. QED
    BY <2>1, <2>2, <1>1, <1>2, <1>5, <1>6, <1>7, <1>8 DEF QueueInv, Preloaded
<1>11. HeardInv(t)'
  <2>1. \A i \in 1 .. queued : content'[source'[t].queue[i]] = Piece(i)'
    BY <1>1, <1>2, <1>6 DEF PlayInv, SharedInv
  <2>2. HeardInv(t)
    BY DEF PlayInv
  <2>3. \A i \in 1 .. queued : 0 + i = i
    BY <1>2
  <2>4. QED
    BY <2>1, <2>2, <2>3, <1>1, <1>6, <1>9 DEF HeardInv
<1>12. StopInv(t)'
  BY <1>5, <1>6, <1>7, <1>8 DEF StopInv
<1>13. QED
  BY <1>1, <1>4, <1>10, <1>11, <1>12, OneHeard DEF IInv

\* One more of a sequence that counts.
LEMMA CountOn ==
  ASSUME NEW n \in Nat, NEW c \in Seq(Int), c = [i \in 1 .. Len(c) |-> i], Len(c) = n
  PROVE  /\ Len(Append(c, n + 1)) = n + 1
         /\ Append(c, n + 1) = [i \in 1 .. Len(Append(c, n + 1)) |-> i]
OBVIOUS

\* The device plays the piece that follows on what was heard.
LEMMA DevicePlay ==
  ASSUME IInv, PlayInv, NEW t \in Plays, DevicePlays(t)
  PROVE  PlayInv'
<1> DEFINE q == source[t].queue
           p == source[t].processed
           piece == content[q[p + 1]]
           stops == p + 1 = Len(q)
<1>1. /\ file' = file /\ content' = content /\ thread' = thread
      /\ pieces' = pieces /\ filled' = filled /\ bufferCount' = bufferCount
      /\ \A n : Piece(n)' = Piece(n)
      /\ source[t].state = "playing"
  BY SameFile DEF DevicePlays
<1>2. /\ q \in Seq(Buffers) /\ p \in Nat /\ p < Len(q) /\ Len(q) \in Nat /\ p + 1 \in 1 .. Len(q)
      /\ thread[t].next \in Int /\ history[t].heard \in Seq(Int)
      /\ pieces \in Nat /\ file.full \in Nat /\ file.full <= pieces
  BY <1>1, OneTyped
<1>3. QueueInv(t) /\ HeardInv(t) /\ StopInv(t)
  BY DEF PlayInv
<1>4. /\ source'[t].queue = q /\ source'[t].processed = p + 1
      /\ source'[t].state = (IF stops THEN "stopped" ELSE "playing")
  BY <1>1 DEF DevicePlays, IInv, TypeInv
<1>5. PICK hearing : hearing = IF piece = 0 THEN history[t].heard ELSE Append(history[t].heard, piece)
  OBVIOUS
<1>6. PICK dry \in BOOLEAN : dry = (history[t].dry \/ (stops /\ filled /\ ~thread[t].done))
  BY OneTyped
<1>7. history' = [history EXCEPT ![t].heard = hearing, ![t].dry = dry]
  BY <1>5, <1>6 DEF DevicePlays
<1>8. /\ history'[t].heard = hearing /\ history'[t].dry = dry
      /\ history'[t].failed = history[t].failed
  BY <1>7 DEF IInv, TypeInv
<1>9. /\ Begun(t)' = Begun(t) /\ Ended(t)' = Ended(t) /\ Taken(t)' = Taken(t)
      /\ Taken(t) \in Nat /\ Played(t) = Taken(t) + p /\ Played(t)' = Played(t) + 1
  <2>1. Begun(t)' = Begun(t) /\ Ended(t)' = Ended(t) /\ Taken(t)' = Taken(t)
    BY <1>1, <1>4 DEF Begun, Ended, Taken
  <2>2. Taken(t) \in Nat
    <3>1. thread[t].next >= 3 /\ Len(source[t].queue) <= 2
      BY <1>3 DEF QueueInv
    <3>2. thread[t].next \in Int /\ Len(source[t].queue) \in Nat
      BY <1>2
    <3>3. thread[t].next - 1 - Len(source[t].queue) \in Nat
      BY <3>1, <3>2
    <3>4. QED
      BY <3>3 DEF Taken
  <2>3. Played(t) = Taken(t) + p /\ Played(t)' = Taken(t)' + source'[t].processed
    BY DEF Played
  <2>4. Taken(t)' + (p + 1) = (Taken(t) + p) + 1
    BY <1>2, <2>1, <2>2
  <2>5. QED
    BY <1>4, <2>1, <2>2, <2>3, <2>4
<1> HIDE DEF q, p, piece, stops
<1>10. QueueInv(t)'
  <2>1. Begun(t)
    BY <1>1, <1>3 DEF QueueInv
  <2>2. ~filled /\ Begun(t) =>
          /\ Len(source[t].queue) = bufferCount
          /\ source'[t].state = "stopped" => p + 1 = Len(q)
          /\ ~Ended(t)
    BY <1>2, <1>3, <1>4 DEF QueueInv, q, p, stops
  <2>3. QED
    BY <1>1, <1>3, <1>4, <1>9, <2>1, <2>2 DEF QueueInv, OwnBuffers, Preloaded, q
<1>11. HeardInv(t)'
  <2>1. SUFFICES ASSUME ~history[t].failed
                 PROVE  /\ hearing = [i \in 1 .. Len(hearing) |-> i]
                        /\ Len(hearing) = IF Played(t) + 1 <= pieces THEN Played(t) + 1 ELSE pieces
    BY <1>1, <1>3, <1>4, <1>8, <1>9 DEF HeardInv, q
  <2>2. piece = Piece(Played(t) + 1)
    <3>1. \A i \in 1 .. Len(q) : content[q[i]] = Piece(Taken(t) + i)
      BY <1>3, <2>1 DEF HeardInv, q
    <3>2. piece = Piece(Taken(t) + (p + 1))
      BY <1>2, <3>1 DEF piece
    <3>3. Taken(t) + (p + 1) = Played(t) + 1
      BY <1>2, <1>9
    <3>4. QED
      BY <3>2, <3>3
  <2>3. /\ history[t].heard = [i \in 1 .. Len(history[t].heard) |-> i]
        /\ Len(history[t].heard) = IF Played(t) <= pieces THEN Played(t) ELSE pieces
    BY <1>3, <2>1 DEF HeardInv
  <2>4. Played(t) \in Nat
    BY <1>2, <1>9
  <2>5. CASE Played(t) + 1 <= pieces
    <3>1. piece = Played(t) + 1 /\ piece # 0 /\ Len(history[t].heard) = Played(t)
      BY <1>2, <2>2, <2>3, <2>4, <2>5 DEF Piece
    <3>2. hearing = Append(history[t].heard, Played(t) + 1)
      BY <1>5, <3>1
    <3>3. QED
      BY <1>2, <2>3, <2>4, <2>5, <3>1, <3>2, CountOn
  <2>6. CASE ~(Played(t) + 1 <= pieces)
    <3>1. piece = 0 /\ Len(history[t].heard) = pieces
      BY <1>2, <2>2, <2>3, <2>4, <2>6 DEF Piece
    <3>2. QED
      BY <1>5, <2>3, <2>6, <3>1
  <2>7. QED
    BY <2>5, <2>6
<1>12. StopInv(t)'
  <2>1. SUFFICES ASSUME filled, ~history[t].failed,
                        source'[t].state = "stopped" \/ thread[t].state = "stopped" \/ Ended(t)
                 PROVE  dry \/ Played(t) + 1 >= file.full
    BY <1>1, <1>3, <1>8, <1>9 DEF StopInv
  <2>2. thread[t].done => thread[t].next - 1 > file.full
    BY <1>3, <2>1 DEF StopInv
  <2>3. /\ p \in Nat /\ Taken(t) \in Nat /\ Played(t) = Taken(t) + p
        /\ thread[t].next \in Int /\ file.full \in Nat
    BY <1>2, <1>9
  <2>4. CASE stops
    <3>1. Begun(t) /\ Taken(t) = thread[t].next - 1 - Len(q)
      BY <1>1, <1>3, <2>1 DEF QueueInv, Taken, q
    <3>2. Len(q) = p + 1
      BY <2>4 DEF stops
    <3> HIDE DEF q, p
    <3>3. Played(t) + 1 = thread[t].next - 1
      <4>1. Taken(t) = thread[t].next - 1 - (p + 1)
        BY <3>1, <3>2
      <4>2. QED
        BY <2>3, <4>1
    <3>4. CASE thread[t].done
      <4>1. thread[t].next - 1 > file.full
        BY <2>2, <3>4
      <4>2. Played(t) + 1 >= file.full
        BY <2>3, <3>3, <4>1
      <4>3. QED
        BY <4>2
    <3>5. CASE ~thread[t].done
      BY <1>6, <2>1, <2>4, <3>5, Zenon
    <3>6. QED
      BY <3>4, <3>5
  <2>5. CASE ~stops
    <3>1. history[t].dry \/ Played(t) >= file.full
      BY <1>1, <1>3, <1>4, <2>1, <2>5 DEF StopInv
    <3>2. CASE history[t].dry
      BY <1>6, <3>2, Zenon
    <3>3. CASE Played(t) >= file.full
      <4>1. Played(t) + 1 >= file.full
        BY <2>3, <3>3
      <4>2. QED
        BY <4>1
    <3>4. QED
      BY <3>1, <3>2, <3>3
  <2>6. QED
    BY <2>4, <2>5
<1>13. PICK h : h = [history[t] EXCEPT !.heard = hearing, !.dry = dry]
  OBVIOUS
<1>14. PICK s : s = [source[t] EXCEPT !.processed = @ + 1, !.state = IF stops THEN "stopped" ELSE @]
  OBVIOUS
<1>15. /\ history' = [history EXCEPT ![t] = h] /\ source' = [source EXCEPT ![t] = s]
       /\ thread' = [thread EXCEPT ![t] = thread[t]]
  BY <1>1, <1>7, <1>13, <1>14 DEF DevicePlays, IInv, TypeInv, stops, p, q
<1>16. QED
  BY <1>1, <1>10, <1>11, <1>12, <1>15, OneHeard DEF IInv

\* A buffer that is taken from the queue was played; the one to fill is not in the queue.
LEMMA UnqueuePlay ==
  ASSUME IInv, PlayInv, NEW t \in Plays, Unqueues(t)
  PROVE  PlayInv'
<1> DEFINE q == source[t].queue
           rest == Tail(q)
           done == thread[t].done
<1>1. /\ file' = file /\ content' = content /\ history' = history
      /\ pieces' = pieces /\ filled' = filled /\ bufferCount' = bufferCount
      /\ \A n : Piece(n)' = Piece(n)
      /\ thread[t].pc = "count" /\ source[t].processed > 0
  BY SameFile DEF Unqueues
<1>2. QueueInv(t) /\ HeardInv(t) /\ StopInv(t)
  BY DEF PlayInv
<1>3. /\ filled /\ Len(q) = 2 /\ Begun(t) /\ ~Ended(t) /\ thread[t].next >= 3
      /\ q[1] \in OwnBuffers(t) /\ q[2] \in OwnBuffers(t)
      /\ source[t].state \in {"playing", "stopped"} /\ thread[t].state \in {"playing", "stopped"}
      /\ \/ thread[t].bufferIndex = -2 /\ q[1] = Preloaded(1) /\ q[2] = Preloaded(2)
         \/ thread[t].bufferIndex = -1 /\ q[1] = Preloaded(2) /\ q[2] = <<t, 1>>
         \/ thread[t].bufferIndex = 0 /\ q[1] = <<t, 1>> /\ q[2] = <<t, 2>>
         \/ thread[t].bufferIndex = 0 /\ q[1] = <<t, 2>> /\ q[2] = <<t, 1>>
  <2>1. Begun(t) /\ ~Ended(t) /\ thread[t].pc \in {"loop", "count"}
    BY <1>1 DEF Begun, Ended
  <2>2. filled /\ Len(q) = 2
    BY <1>2, <2>1 DEF QueueInv
  <2>3. q[1] \in OwnBuffers(t) /\ q[2] \in OwnBuffers(t)
    BY <1>2, <2>2 DEF QueueInv
  <2>4. QED
    BY <1>2, <2>1, <2>2, <2>3 DEF QueueInv
<1>4. /\ q \in Seq(Buffers) /\ source[t].processed \in Nat /\ thread[t].next \in Int
      /\ done \in BOOLEAN /\ file.full \in Nat
  BY OneTyped
<1>5. Len(rest) = 1 /\ rest[1] = q[2]
  BY <1>3, <1>4
<1>6. /\ source'[t].queue = rest /\ source'[t].processed = source[t].processed - 1
      /\ source'[t].state = source[t].state
  BY DEF Unqueues, IInv, TypeInv
<1>7. /\ thread'[t].pc = (IF done THEN "end" ELSE "fill")
      /\ thread'[t].popped = (IF done THEN thread[t].popped ELSE Replacement(t))
      /\ thread'[t].bufferIndex = (IF thread[t].bufferIndex < 0 /\ ~done
                                   THEN thread[t].bufferIndex + 1 ELSE thread[t].bufferIndex)
      /\ thread'[t].next = thread[t].next /\ thread'[t].done = done
      /\ thread'[t].state = thread[t].state
  BY DEF Unqueues, IInv, TypeInv
<1> HIDE DEF rest
<1>8. /\ Begun(t)' /\ Ended(t)' = done
      /\ Taken(t) = thread[t].next - 3 /\ Taken(t)' = Taken(t) + 1
      /\ Taken(t) \in Nat /\ Played(t)' = Played(t) /\ Played(t) = Taken(t) + source[t].processed
  <2>1. Begun(t)' /\ Ended(t)' = done
    BY <1>4, <1>7 DEF Begun, Ended
  <2>2. Taken(t) = thread[t].next - 3
    BY <1>3, <1>4 DEF Taken
  <2>3. thread'[t].next = thread[t].next /\ Len(source'[t].queue) = 1 /\ filled'
    BY <1>1, <1>3, <1>5, <1>6, <1>7
  <2>4. Taken(t)' = thread[t].next - 2
    BY <1>4, <2>1, <2>3 DEF Taken
  <2>5. Taken(t) \in Nat /\ Taken(t)' = Taken(t) + 1
    BY <1>3, <1>4, <2>2, <2>4
  <2>6. Played(t)' = Taken(t)' + source'[t].processed /\ Played(t) = Taken(t) + source[t].processed
    BY DEF Played
  <2>7. Played(t)' = Played(t)
    <3>1. source[t].processed \in Nat /\ source'[t].processed = source[t].processed - 1
      BY <1>4, <1>6
    <3>2. QED
      BY <2>5, <2>6, <3>1
  <2>8. QED
    BY <2>1, <2>2, <2>5, <2>6, <2>7
<1>9. ~done => Replacement(t) =
        CASE thread[t].bufferIndex = -2 -> <<t, 1>>
          [] thread[t].bufferIndex = -1 -> <<t, 2>>
          [] OTHER -> q[1]
  <2>1. CASE thread[t].bufferIndex = -2
    BY <2>1, CountsAre DEF Replacement
  <2>2. CASE thread[t].bufferIndex = -1
    BY <2>2, CountsAre DEF Replacement
  <2>3. CASE thread[t].bufferIndex = 0
    BY <2>3, <1>3, <1>4 DEF Replacement
  <2>4. QED
    BY <1>3, <2>1, <2>2, <2>3
<1>10. QueueInv(t)'
  <2>1. /\ \A i \in 1 .. Len(source'[t].queue) : source'[t].queue[i] \in OwnBuffers(t)'
        /\ Len(source'[t].queue) = 1 /\ thread'[t].next >= 3
    <3>1. OwnBuffers(t)' = OwnBuffers(t)
      BY DEF OwnBuffers, Preloaded
    <3>2. \A i \in 1 .. 1 : i = 1
      OBVIOUS
    <3>3. QED
      BY <1>3, <1>5, <1>6, <1>7, <3>1, <3>2
  <2>2. thread'[t].pc = "fill" =>
          \/ thread'[t].bufferIndex = -1 /\ rest[1] = Preloaded(2) /\ thread'[t].popped = <<t, 1>>
          \/ thread'[t].bufferIndex = 0 /\ rest[1] = <<t, 1>> /\ thread'[t].popped = <<t, 2>>
          \/ thread'[t].bufferIndex = 0 /\ rest[1] = <<t, 2>> /\ thread'[t].popped = <<t, 1>>
    BY <1>3, <1>5, <1>7, <1>9
  <2>3. /\ thread'[t].state \in {"playing", "stopped"} /\ source'[t].state \in {"playing", "stopped"}
        /\ thread'[t].pc \in {"end", "fill"} /\ (thread'[t].pc = "fill" => ~done)
        /\ Begun(t)' /\ filled' /\ thread'[t].done = done /\ source'[t].queue = rest
    BY <1>1, <1>3, <1>4, <1>6, <1>7, <1>8
  <2>4. QED
    BY <2>1, <2>2, <2>3 DEF QueueInv
<1>11. HeardInv(t)'
  <2>1. SUFFICES ASSUME ~history[t].failed
                 PROVE  content[rest[1]] = Piece(Taken(t) + 1 + 1)
    <3>1. \A i \in 1 .. 1 : i = 1
      OBVIOUS
    <3>2. /\ history[t].heard = [i \in 1 .. Len(history[t].heard) |-> i] \/ history[t].failed
          /\ Len(history[t].heard) = (IF Played(t) <= pieces THEN Played(t) ELSE pieces) \/ history[t].failed
      BY <1>2 DEF HeardInv
    <3>3. history[t].failed \in BOOLEAN
      BY OneTyped
    <3>4. SUFFICES ASSUME ~history[t].failed
                   PROVE  content'[rest[1]] = Piece(Taken(t) + 1 + 1)
      BY <1>1, <1>5, <1>6, <1>8, <3>1, <3>2, <3>3 DEF HeardInv
    <3>5. QED
      BY <1>1, <3>4
  <2>2. content[q[2]] = Piece(Taken(t) + 2)
    BY <1>2, <1>3, <2>1 DEF HeardInv
  <2>3. Taken(t) + 1 + 1 = Taken(t) + 2
    BY <1>8
  <2>4. QED
    BY <1>5, <2>2, <2>3
<1>12. StopInv(t)'
  <2>1. SUFFICES ASSUME ~history[t].failed, done
                 PROVE  Played(t) >= file.full
    BY <1>1, <1>2, <1>3, <1>4, <1>6, <1>7, <1>8 DEF StopInv
  <2>2. thread[t].next - 1 > file.full
    BY <1>2, <1>3, <2>1 DEF StopInv
  <2>3. QED
    BY <1>1, <1>4, <1>8, <2>2
<1>13. /\ \E th : thread' = [thread EXCEPT ![t] = th]
       /\ \E s : source' = [source EXCEPT ![t] = s]
       /\ history' = [history EXCEPT ![t] = history[t]]
  BY <1>1 DEF Unqueues, IInv, TypeInv
<1>14. QED
  BY <1>1, <1>10, <1>11, <1>12, <1>13, OneHeard DEF IInv

\* A queue of one that becomes a queue of two.
LEMMA OneMore ==
  ASSUME NEW S, NEW q \in Seq(S), NEW b \in S, Len(q) = 1
  PROVE  Len(Append(q, b)) = 2 /\ Append(q, b)[1] = q[1] /\ Append(q, b)[2] = b
<1>1. /\ Len(Append(q, b)) = Len(q) + 1 /\ Append(q, b)[Len(q) + 1] = b
      /\ \A i \in 1 .. Len(q) : Append(q, b)[i] = q[i]
  OBVIOUS
<1>2. Len(q) + 1 = 2 /\ 1 \in 1 .. Len(q)
  OBVIOUS
<1>3. QED
  BY <1>1, <1>2

\* The buffer behind the queue gets the next piece, and no other buffer changes.
LEMMA FillPlay ==
  ASSUME IInv, PlayInv, NEW t \in Plays, NEW fails \in BOOLEAN, Fills(t, fails)
  PROVE  PlayInv'
<1> DEFINE q == source[t].queue
           popped == thread[t].popped
           n == thread[t].next
           more == Append(q, popped)
<1>1. /\ file' = file /\ thread[t].pc = "fill"
      /\ pieces' = pieces /\ filled' = filled /\ bufferCount' = bufferCount
      /\ \A k : Piece(k)' = Piece(k)
  BY SameFile DEF Fills
<1>2. QueueInv(t) /\ HeardInv(t) /\ StopInv(t)
  BY DEF PlayInv
<1>3. /\ q \in Seq(Buffers) /\ source[t].processed \in Nat /\ n \in Int /\ popped \in Buffers
      /\ file.full \in Nat /\ pieces \in Nat
  BY OneTyped DEF ThreadType
<1>4. /\ filled /\ Len(q) = 1 /\ ~thread[t].done /\ Begun(t) /\ ~Ended(t) /\ n >= 3
      /\ q[1] \in OwnBuffers(t) /\ popped \in OwnBuffers(t) /\ popped[1] = t /\ popped # q[1]
      /\ source[t].state \in {"playing", "stopped"} /\ thread[t].state \in {"playing", "stopped"}
      /\ \/ thread[t].bufferIndex = -1 /\ q[1] = Preloaded(2) /\ popped = <<t, 1>>
         \/ thread[t].bufferIndex = 0 /\ q[1] = <<t, 1>> /\ popped = <<t, 2>>
         \/ thread[t].bufferIndex = 0 /\ q[1] = <<t, 2>> /\ popped = <<t, 1>>
  <2>1. Begun(t) /\ ~Ended(t)
    BY <1>1 DEF Begun, Ended
  <2>2. /\ filled /\ Len(q) = 1 /\ ~thread[t].done /\ n >= 3
        /\ source[t].state \in {"playing", "stopped"} /\ thread[t].state \in {"playing", "stopped"}
    BY <1>1, <1>2, <2>1 DEF QueueInv
  <2>3. \/ thread[t].bufferIndex = -1 /\ q[1] = Preloaded(2) /\ popped = <<t, 1>>
        \/ thread[t].bufferIndex = 0 /\ q[1] = <<t, 1>> /\ popped = <<t, 2>>
        \/ thread[t].bufferIndex = 0 /\ q[1] = <<t, 2>> /\ popped = <<t, 1>>
    BY <1>1, <1>2 DEF QueueInv
  <2>4. popped[1] = t /\ popped \in OwnBuffers(t) /\ q[1] \in OwnBuffers(t)
    BY <2>3 DEF OwnBuffers
  <2>5. popped # q[1]
    BY <2>3, SoundAssumption DEF Preloaded
  <2>6. QED
    BY <2>1, <2>2, <2>3, <2>4, <2>5
<1>5. Len(more) = 2 /\ more[1] = q[1] /\ more[2] = popped
  <2>1. q \in Seq(Buffers) /\ popped \in Buffers /\ Len(q) = 1
    BY <1>3, <1>4
  <2>2. QED
    BY <2>1, OneMore
<1>6. /\ source'[t].queue = more /\ source'[t].processed = source[t].processed
      /\ source'[t].state = source[t].state
  BY DEF Fills, IInv, TypeInv
<1>7. /\ thread'[t].pc = "loop" /\ thread'[t].next = n + 1
      /\ thread'[t].done = (fails \/ EndOfFile(n))
      /\ thread'[t].bufferIndex = thread[t].bufferIndex /\ thread'[t].state = thread[t].state
  BY DEF Fills, IInv, TypeInv
<1>8. /\ history'[t].heard = history[t].heard /\ history'[t].dry = history[t].dry
      /\ history'[t].failed = (history[t].failed \/ fails)
  BY DEF Fills, IInv, TypeInv
<1>9. /\ \A b \in Buffers : b # popped => content'[b] = content[b]
      /\ ~fails => content'[popped] = Piece(n)
  BY <1>3 DEF Fills, IInv, TypeInv, Piece
<1> HIDE DEF more
<1>10. /\ Begun(t)' /\ ~Ended(t)' /\ Taken(t) = n - 2 /\ Taken(t)' = Taken(t) /\ Taken(t) \in Nat
       /\ Played(t)' = Played(t)
  <2>1. Begun(t)' /\ ~Ended(t)'
    BY <1>7 DEF Begun, Ended
  <2>2. Taken(t) = n - 2
    BY <1>3, <1>4 DEF Taken
  <2>3. thread'[t].next = n + 1 /\ Len(source'[t].queue) = 2 /\ filled'
    BY <1>1, <1>4, <1>5, <1>6, <1>7
  <2>4. Taken(t)' = n - 2
    BY <1>3, <2>1, <2>3 DEF Taken
  <2>5. Played(t)' = Played(t)
    BY <1>6, <2>2, <2>4 DEF Played
  <2>6. QED
    BY <1>3, <1>4, <2>1, <2>2, <2>4, <2>5
<1>11. QueueInv(t)'
  <2>1. /\ \A i \in 1 .. Len(source'[t].queue) : source'[t].queue[i] \in OwnBuffers(t)'
        /\ Len(source'[t].queue) = 2
    <3>1. \A i \in 1 .. 2 : i \in {1, 2}
      OBVIOUS
    <3>2. OwnBuffers(t)' = OwnBuffers(t)
      BY DEF OwnBuffers, Preloaded
    <3>3. QED
      BY <1>4, <1>5, <1>6, <3>1, <3>2
  <2>2. \/ thread'[t].bufferIndex = -1 /\ more[1] = Preloaded(2) /\ more[2] = <<t, 1>>
        \/ thread'[t].bufferIndex = 0 /\ more[1] = <<t, 1>> /\ more[2] = <<t, 2>>
        \/ thread'[t].bufferIndex = 0 /\ more[1] = <<t, 2>> /\ more[2] = <<t, 1>>
    BY <1>4, <1>5, <1>7
  <2>3. n + 1 >= 3
    BY <1>3, <1>4
  <2>4. QED
    BY <2>1, <2>2, <2>3, <1>1, <1>4, <1>6, <1>7, <1>10 DEF QueueInv, Preloaded
<1>12. HeardInv(t)'
  <2>1. SUFFICES ASSUME ~history[t].failed, ~fails
                 PROVE  content'[q[1]] = Piece(Taken(t) + 1) /\ content'[popped] = Piece(Taken(t) + 2)
    <3>1. \A i \in 1 .. 2 : i \in {1, 2}
      OBVIOUS
    <3>2. QED
      BY <1>1, <1>2, <1>5, <1>6, <1>8, <1>10, <3>1 DEF HeardInv
  <2>2. content[q[1]] = Piece(Taken(t) + 1)
    BY <1>2, <1>4, <2>1 DEF HeardInv
  <2>3. q[1] \in Buffers
    BY <1>4, Owners
  <2>4. Taken(t) + 2 = n
    BY <1>3, <1>10
  <2>5. QED
    BY <1>4, <1>9, <2>1, <2>2, <2>3, <2>4
<1>13. StopInv(t)'
  <2>1. SUFFICES ASSUME ~history'[t].failed
                 PROVE  /\ thread'[t].done => thread'[t].next - 1 > file'.full
                        /\ source'[t].state = "stopped" \/ thread'[t].state = "stopped" =>
                             history'[t].dry \/ Played(t)' >= file'.full
    BY <1>10 DEF StopInv
  <2>2. ~history[t].failed /\ ~fails
    BY <1>8, <2>1
  <2>3. source[t].state = "stopped" \/ thread[t].state = "stopped" =>
          history[t].dry \/ Played(t) >= file.full
    BY <1>2, <1>4, <2>2 DEF StopInv
  <2>4. source'[t].state = "stopped" \/ thread'[t].state = "stopped" =>
          history'[t].dry \/ Played(t)' >= file'.full
    BY <1>1, <1>6, <1>7, <1>8, <1>10, <2>3
  <2>5. thread'[t].done => EndOfFile(n)
    BY <1>7, <2>2
  <2>6. EndOfFile(n) => n + 1 - 1 > file.full
    BY <1>3 DEF EndOfFile
  <2>7. thread'[t].done => thread'[t].next - 1 > file'.full
    <3>1. thread'[t].next = n + 1 /\ file'.full = file.full
      BY <1>1, <1>7
    <3>2. ASSUME thread'[t].done
          PROVE  thread'[t].next - 1 > file'.full
      <4>1. n + 1 - 1 > file.full
        BY <2>5, <2>6, <3>2
      <4>2. QED
        BY <1>3, <3>1, <4>1
    <3>3. QED
      BY <3>2
  <2>8. QED
    BY <2>4, <2>7
<1>14. /\ \E th : thread' = [thread EXCEPT ![t] = th]
       /\ \E s : source' = [source EXCEPT ![t] = s]
       /\ \E h : history' = [history EXCEPT ![t] = h]
  BY DEF Fills, IInv, TypeInv
<1>15. \A b \in Buffers : b[1] # t => content'[b] = content[b]
  BY <1>4, <1>9
<1>16. QED
  BY <1>1, <1>11, <1>12, <1>13, <1>14, <1>15, OneHeard DEF IInv

-----------------------------------------------------------------------------
(* The invariant, and what it is for.                                      *)

\* Until it ends, a thread leaves the contexts of all of them where they are; so do the
\* device, and tick() when it counts what is in the list.
LEMMA LeaveContexts ==
  ASSUME IInv,
         \/ TickReadsSize
         \/ \E t \in Plays :
              \/ play(t) \/ Begins(t) \/ Waits(t) \/ LooksAtState(t) \/ Sleeps(t) \/ Unqueues(t)
              \/ (\E fails \in BOOLEAN : Fills(t, fails)) \/ Ends(t) \/ DevicePlays(t)
  PROVE  ContextsOnce'
<1> USE DEF IInv
<1>1. CASE TickReadsSize
  <2>1. tick.deleted = 0
    BY <1>1 DEF TickReadsSize, TickInv, TypeInv
  <2>2. QED
    BY <1>1, <2>1, ElsewhereOnce DEF TickReadsSize, TypeInv
<1>2. ASSUME NEW t \in Plays,
             \/ play(t) \/ Begins(t) \/ Waits(t) \/ LooksAtState(t) \/ Sleeps(t) \/ Unqueues(t)
             \/ (\E fails \in BOOLEAN : Fills(t, fails)) \/ Ends(t) \/ DevicePlays(t)
      PROVE  ContextsOnce'
  <2>1. finished' = finished /\ tick' = tick /\ finished \in Seq(Plays)
    BY <1>2 DEF play, Begins, Waits, LooksAtState, Sleeps, Unqueues, Fills, Ends, DevicePlays, TypeInv
  <2>2. \A u \in Plays : history'[u].deletions = history[u].deletions
    <3> history \in HistoryType
      BY DEF TypeInv, HistoryType
    <3>1. CASE DevicePlays(t)
      <4>1. PICK hearing, dry : history' = [history EXCEPT ![t].heard = hearing, ![t].dry = dry]
        BY <3>1 DEF DevicePlays
      <4>2. QED
        BY <4>1 DEF HistoryType
    <3>2. CASE \E fails \in BOOLEAN : Fills(t, fails)
      <4>1. PICK failed : history' = [history EXCEPT ![t].failed = failed]
        BY <3>2 DEF Fills
      <4>2. QED
        BY <4>1 DEF HistoryType
    <3>3. QED
      BY <1>2, <3>1, <3>2 DEF play, Begins, Waits, LooksAtState, Sleeps, Unqueues, Ends
  <2>3. \A u \in Plays : thread'[u].pc = "gone" <=> thread[u].pc = "gone"
    <3> thread \in [Plays -> ThreadType]
      BY DEF TypeInv, ThreadType
    <3>1. thread[t].pc # "gone" \/ thread' = thread
      BY <1>2 DEF play, Begins, Waits, LooksAtState, Sleeps, Unqueues, Fills, Ends, DevicePlays
    <3>2. CASE play(t) \/ Begins(t) \/ Waits(t) \/ Sleeps(t) \/ Ends(t) \/ DevicePlays(t)
      <4>1. PICK where : (where # "gone" /\ thread' = [thread EXCEPT ![t].pc = where]) \/ thread' = thread
        BY <3>2 DEF play, Begins, Waits, Sleeps, Ends, DevicePlays, Goes
      <4>2. QED
        BY <3>1, <4>1 DEF ThreadType
    <3>3. CASE LooksAtState(t)
      <4>1. PICK where, state : where # "gone" /\ thread' = [thread EXCEPT ![t].state = state, ![t].pc = where]
        BY <3>3 DEF LooksAtState
      <4>2. QED
        BY <3>1, <4>1 DEF ThreadType
    <3>4. CASE Unqueues(t)
      <4>1. PICK where, popped, index : /\ where # "gone"
              /\ thread' = [thread EXCEPT ![t].pc = where, ![t].popped = popped, ![t].bufferIndex = index]
        BY <3>4 DEF Unqueues
      <4>2. QED
        BY <3>1, <4>1 DEF ThreadType
    <3>5. CASE \E fails \in BOOLEAN : Fills(t, fails)
      <4>1. PICK fails \in BOOLEAN : Fills(t, fails)
        BY <3>5
      <4>2. PICK done \in BOOLEAN : done = (fails \/ EndOfFile(thread[t].next))
        OBVIOUS
      <4>3. thread' = [thread EXCEPT ![t].next = thread[t].next + 1, ![t].done = done, ![t].pc = "loop"]
        BY <4>1, <4>2 DEF Fills
      <4>4. QED
        BY <3>1, <4>3 DEF ThreadType
    <3>6. QED
      BY <1>2, <3>2, <3>3, <3>4, <3>5
  <2>4. QED
    BY <2>1, <2>2, <2>3, ElsewhereOnce
<1>3. QED
  BY <1>1, <1>2

\* A step of a thread, of the device or of tick() keeps it.
LEMMA NextIInv == IInv /\ [Next]_vars => IInv'
<1> SUFFICES ASSUME IInv, [Next]_vars PROVE IInv'
  OBVIOUS
<1>1. ASSUME NEW t \in Plays, play(t) \/ _play(t) \/ DevicePlays(t)
      PROVE  IInv'
  <2>1. CASE finishThread(t)
    BY <2>1, FinishTypes, FinishOnce DEF IInv
  <2>2. CASE DevicePlays(t)
    BY <2>2, DeviceTypes, LeaveContexts DEF IInv
  <2>3. CASE ~finishThread(t) /\ ~DevicePlays(t)
    <3>1. \/ play(t) \/ Begins(t) \/ Waits(t) \/ LooksAtState(t) \/ Sleeps(t) \/ Unqueues(t)
          \/ (\E fails \in BOOLEAN : Fills(t, fails)) \/ Ends(t)
      BY <1>1, <2>3 DEF _play
    <3>2. QED
      BY <3>1, ThreadTypes, LeaveContexts DEF IInv
  <2>4. QED
    BY <2>1, <2>2, <2>3
<1>2. CASE TickReadsSize
  BY <1>2, TickTypes, LeaveContexts DEF IInv
<1>3. CASE TickDeletes
  BY <1>3, TickTypes, DeleteOnce DEF IInv
<1>4. CASE TickPops
  BY <1>4, TickTypes, PopOnce DEF IInv
<1>5. CASE UNCHANGED vars
  BY <1>5 DEF vars, IInv, TypeInv, SourceInv, TickInv, ContextsOnce, Awaiting, Waiting
<1>6. QED
  BY <1>1, <1>2, <1>3, <1>4, <1>5 DEF Next

\* The context of a thread is deleted once and after the thread has ended, though tick()
\* reads the list and its size without the lock while threads append to it.
THEOREM ContextsAlwaysOnce == Spec => []ContextsOnce
<1>1. IInv => ContextsOnce
  BY DEF IInv
<1>2. QED
  BY InitIInv, NextIInv, <1>1, PTL DEF Spec

\* Every step keeps what is in the buffers and what was heard.
LEMMA NextPlay == IInv /\ PlayInv /\ [Next]_vars => PlayInv'
<1> SUFFICES ASSUME IInv, PlayInv, [Next]_vars PROVE PlayInv'
  OBVIOUS
<1>1. ASSUME NEW t \in Plays, play(t) \/ _play(t) \/ DevicePlays(t)
      PROVE  PlayInv'
  BY <1>1, QuietPlay, BeginPlay, UnqueuePlay, FillPlay, DevicePlay DEF _play
<1>2. CASE TickReadsSize \/ TickDeletes \/ TickPops
  BY <1>2, TickPlay
<1>3. CASE UNCHANGED vars
  <2>1. /\ pieces' = pieces /\ filled' = filled /\ bufferCount' = bufferCount
        /\ \A n : Piece(n)' = Piece(n)
    BY <1>3, SameFile DEF vars
  <2>2. ASSUME NEW t \in Plays
        PROVE  /\ Taken(t)' = Taken(t) /\ Played(t)' = Played(t)
               /\ Begun(t)' = Begun(t) /\ Ended(t)' = Ended(t)
    BY <1>3, <2>1 DEF vars, Taken, Played, Begun, Ended
  <2>3. ASSUME NEW t \in Plays
        PROVE  QueueInv(t)' /\ HeardInv(t)' /\ StopInv(t)'
    <3>1. QueueInv(t) /\ HeardInv(t) /\ StopInv(t)
      BY DEF PlayInv
    <3>2. QueueInv(t)'
      BY <1>3, <2>1, <2>2, <3>1 DEF vars, QueueInv, OwnBuffers, Preloaded
    <3>3. HeardInv(t)' /\ StopInv(t)'
      BY <1>3, <2>1, <2>2, <3>1 DEF vars, HeardInv, StopInv
    <3>4. QED
      BY <3>2, <3>3
  <2>4. SharedInv'
    BY <1>3, <2>1 DEF vars, SharedInv, PlayInv, Preloaded
  <2>5. QED
    BY <2>3, <2>4 DEF PlayInv
<1>4. QED
  BY <1>1, <1>2, <1>3 DEF Next

\* Every playing of a sound is heard from the beginning of the file, its pieces in order
\* and none twice, and to its last full piece, unless a read failed or the source ran
\* dry; though all playings share their first buffers, and the device goes on while
\* buffers are filled.
THEOREM AlwaysHeardAsRead == Spec => []HeardAsRead
<1>1. ASSUME IInv, PlayInv
      PROVE  HeardAsRead
  <2>1. HeardInOrder
    BY <1>1 DEF HeardInOrder, PlayInv, HeardInv
  <2>2. ASSUME NEW t \in Plays, Ended(t), ~history[t].failed, ~history[t].dry
        PROVE  Len(history[t].heard) >= (IF filled THEN file.full ELSE pieces)
    <3>1. QueueInv(t) /\ HeardInv(t) /\ StopInv(t)
      BY <1>1 DEF PlayInv
    <3>2. Begun(t)
      BY <2>2 DEF Begun, Ended
    <3>3. Len(history[t].heard) = IF Played(t) <= pieces THEN Played(t) ELSE pieces
      BY <2>2, <3>1 DEF HeardInv
    <3>4. file.full \in Nat /\ pieces \in {file.full, file.full + 1} /\ bufferCount = file.full + 1
      BY <1>1, OneTyped
    <3>5. CASE filled
      <4>1. Played(t) >= file.full
        BY <2>2, <3>1, <3>5 DEF StopInv
      <4>2. QED
        BY <3>3, <3>4, <3>5, <4>1
    <3>6. CASE ~filled
      <4>1. Played(t) = 0 + (file.full + 1)
        BY <2>2, <3>1, <3>2, <3>4, <3>6 DEF QueueInv, Played, Taken
      <4>2. QED
        BY <3>3, <3>4, <3>6, <4>1
    <3>7. QED
      BY <3>5, <3>6
  <2>3. FullPiecesHeard
    BY <2>2 DEF FullPiecesHeard, Ended
  <2>4. QED
    BY <2>1, <2>3 DEF HeardAsRead
<1>2. QED
  BY InitIInv, NextIInv, InitPlay, NextPlay, <1>1, PTL DEF Spec

(***************************************************************************)
(* Loading and reloading resources.                                        *)
(***************************************************************************)

ResourcesTypeInv ==
  /\ address \in [Files -> Addresses]
  /\ metadataToResource \in [Addresses -> Files \cup {Null}]
  /\ metadata \in [Files -> Addresses \cup {Null}]
  /\ objects \in SUBSET Files
  /\ todo \in SUBSET objects

Apart == \A f, g \in Files : f # g => address[f] # address[g]

LoopedFound ==
  \A f \in objects \ todo :
    metadata[f] = address[f] /\ (f \notin Streamed => metadataToResource[address[f]] = f)

TodoInLoop == pc # "objects" => todo = {}

ResourcesInv == ResourcesTypeInv /\ Apart /\ LoopedFound /\ TodoInLoop

\* The map of the first carton has the script, and nothing else is loaded but sounds.
LEMMA InitResources == ResourcesInit => ResourcesInv
<1> SUFFICES ASSUME ResourcesInit PROVE ResourcesInv
  OBVIOUS
<1> USE DEF ResourcesInit
<1>1. Script \in Files /\ address \in Databases /\ Streamed \subseteq Files
  BY ResourcesAssumption
<1>2. ResourcesTypeInv
  BY <1>1 DEF ResourcesTypeInv, Databases
<1>3. Apart
  BY <1>1 DEF Apart, Databases
<1>4. LoopedFound
  BY <1>1 DEF LoopedFound, Databases
<1>5. QED
  BY <1>2, <1>3, <1>4 DEF ResourcesInv, TodoInLoop

\* The packer, time and tick() leave the resources alone, and tick() does not enter the
\* loop of reload() itself.
LEMMA KeepsResources ==
  ASSUME ResourcesInv, UNCHANGED cartonVars, pc' # "objects" => pc # "objects" \/ todo = {}
  PROVE  ResourcesInv'
BY DEF ResourcesInv, ResourcesTypeInv, Apart, LoopedFound, TodoInLoop, cartonVars

\* A new carton has its Metadata apart, and every resource still to do.
LEMMA OpenKeepsResources == ResourcesInv /\ openCarton => ResourcesInv'
<1> SUFFICES ASSUME ResourcesInv, openCarton PROVE ResourcesInv'
  OBVIOUS
<1> USE DEF ResourcesInv, openCarton
<1>1. ResourcesTypeInv'
  BY DEF ResourcesTypeInv, Databases
<1>2. Apart'
  BY DEF Apart, Databases
<1>3. LoopedFound' /\ TodoInLoop'
  BY DEF LoopedFound, TodoInLoop
<1>4. QED
  BY <1>1, <1>2, <1>3

\* Entering a resource at its own address takes no other's, done or not.
LEMMA EnterKeepsResources ==
  ASSUME NEW f \in Files, ResourcesInv,
         objects' = objects \cup {f}, todo' = todo \ {f}, address' = address, pc' = pc,
         metadata' = [metadata EXCEPT ![f] = address[f]],
         metadataToResource' = [metadataToResource EXCEPT ![address[f]] = f]
  PROVE  ResourcesInv'
<1> USE DEF ResourcesInv
<1>1. ResourcesTypeInv'
  BY DEF ResourcesTypeInv
<1>2. Apart' /\ TodoInLoop'
  BY DEF Apart, TodoInLoop
<1>3. LoopedFound'
  <2> SUFFICES ASSUME NEW g \in objects' \ todo'
               PROVE  /\ metadata'[g] = address'[g]
                      /\ g \notin Streamed => metadataToResource'[address'[g]] = g
    BY DEF LoopedFound
  <2>1. g \in Files /\ address[g] \in Addresses /\ address[f] \in Addresses
    BY DEF ResourcesTypeInv
  <2>2. CASE g = f
    BY <2>1, <2>2 DEF ResourcesTypeInv
  <2>3. CASE g # f
    <3>1. g \in objects \ todo /\ address[g] # address[f]
      BY <2>1, <2>3 DEF Apart
    <3>2. metadata[g] = address[g] /\ (g \notin Streamed => metadataToResource[address[g]] = g)
      BY <3>1 DEF LoopedFound
    <3>3. QED
      BY <2>1, <2>3, <3>1, <3>2 DEF ResourcesTypeInv
  <2>4. QED
    BY <2>2, <2>3
<1>4. QED
  BY <1>1, <1>2, <1>3

\* Every step of the loop, of tick() and of the packer preserves the invariant.
LEMMA NextResources == ResourcesInv /\ [ResourcesNext]_resourcesVars => ResourcesInv'
<1> SUFFICES ASSUME ResourcesInv, [ResourcesNext]_resourcesVars PROVE ResourcesInv'
  OBVIOUS
<1>1. CASE StartWrite \/ EndWrite \/ Replace \/ Wait
  BY <1>1, KeepsResources DEF StartWrite, EndWrite, Replace, Wait, ResourcesInv, TodoInLoop
<1>2. CASE managerTick \/ hotReload
  BY <1>2, KeepsResources DEF managerTick, readEvents, md5hash, compare, hotReload, ResourcesInv, TodoInLoop
<1>3. CASE openCarton
  BY <1>3, OpenKeepsResources
<1>4. ASSUME NEW f \in Files, reloadObject(f)
      PROVE  ResourcesInv'
  <2>1. objects' = objects \cup {f}
    BY <1>4 DEF reloadObject, ResourcesInv, ResourcesTypeInv
  <2>2. QED
    BY <1>4, <2>1, EnterKeepsResources DEF reloadObject
<1>5. CASE onReload
  BY <1>5 DEF onReload, ResourcesInv, ResourcesTypeInv, Apart, LoopedFound, TodoInLoop
<1>6. ASSUME NEW f \in Files, loadResource(f)
      PROVE  ResourcesInv'
  <2>1. todo' = todo \ {f}
    BY <1>6 DEF loadResource, ResourcesInv, ResourcesTypeInv
  <2>2. QED
    BY <1>6, <2>1, EnterKeepsResources DEF loadResource
<1>7. CASE UNCHANGED resourcesVars
  BY <1>7, KeepsResources DEF resourcesVars, cartonVars, ResourcesInv, TodoInLoop
<1>8. QED
  BY <1>1, <1>2, <1>3, <1>4, <1>5, <1>6, <1>7 DEF ResourcesNext, reload

\* A file that has been loaded is found as the resource that was made for it, and every
\* resource points to the Metadata of the carton there is.
THEOREM ResourcesFound == ResourcesSpec => []LoadedFound
<1>1. ResourcesInv => LoadedFound
  BY DEF ResourcesInv, LoopedFound, TodoInLoop, LoadedFound, lookUp
<1>2. QED
  BY <1>1, InitResources, NextResources, PTL DEF ResourcesSpec

(***************************************************************************)
(* What the player presses.                                                *)
(***************************************************************************)

Four     == 1 .. Len(Axes)
Held     == Keys \cup MouseButtons
Pads     == [has : BOOLEAN, axes : [Four -> Int], buttons : SUBSET Buttons]
Hearings == [told : SUBSET Sources, odd : SUBSET Sources, twice : BOOLEAN, since : Nat]
Cameras  == [moves : SUBSET Directions, zoomLevel : Int, zoomInRepeating : 0 .. 2,
             zoomOutRepeating : 0 .. 2, zoomInTimer : Nat, zoomOutTimer : Nat,
             xAxis : Int, yAxis : Int, zoomAxis : Int]
Counters == {f \in [Four -> DPads \cup {INVALID_BUTTON}] :
               \A i \in Four : f[i] \in DPad(i) \cup {INVALID_BUTTON}}
Sts      == [camera : Cameras, heard : Hearings, excused : SUBSET Sources, counters : Counters,
             pad : Pads]
Names    == {d[2] : d \in Defaults} \cup {scripts[i].bind : i \in 1 .. Len(scripts)}
Tables   == [binds : [Sources -> Seq(Names)],
             callbacks : SUBSET (Names \X (Objects \cup {NoObject}) \X STRING)]

InputTypeInv ==
  /\ phase \in {"poll", "tick"} /\ team \in BOOLEAN
  /\ held \subseteq Held /\ lastGamepadButtons \subseteq Buttons
  /\ pointer \in [over : {"page", "button"}, pressed : BOOLEAN]
  /\ St \in Sts

\* The first n registrations have been made on top of the defaults: a source has the binds
\* that were given to it, each once, and a callback is of one that named it.
Registers(t, n) ==
  /\ \A s \in Sources :
       /\ \A i \in 1 .. Len(t.binds[s]) :
            \/ <<s, t.binds[s][i]>> \in Defaults
            \/ \E j \in 1 .. n : scripts[j].key = s /\ scripts[j].bind = t.binds[s][i]
       /\ \A i, j \in 1 .. Len(t.binds[s]) : t.binds[s][i] = t.binds[s][j] => i = j
       /\ \A d \in Defaults : d[1] = s => \E i \in 1 .. Len(t.binds[s]) : t.binds[s][i] = d[2]
  /\ \A c \in t.callbacks : \E j \in 1 .. n :
       c = <<scripts[j].bind, scripts[j].object, scripts[j].callback>>

TableNow == [binds |-> binds, callbacks |-> callbacks]

TablesInv ==
  /\ TableNow \in Tables
  /\ Registers(TableNow, IF team THEN Len(scripts) ELSE Len(InitScripts))

\* Which of its binds the camera takes for pressed, and the keys that give them.
Commands     == Directions \cup {"camera.zoomIn"}
On(c, d)     == IF d = "camera.zoomIn" THEN c.zoomInRepeating # 0 ELSE d \in c.moves
KeysOf(d)    == {s \in Sources : <<s, d>> \in Defaults}

\* What has been told is what is down, but for what was kept back; a simulated button
\* is down when it is the one recorded for its axis.
ToldOf(st, down, last) ==
  /\ \A s \in Held \ st.excused : s \in st.heard.told <=> s \in down
  /\ \A b \in Buttons : b \notin st.excused /\ (b \in st.heard.told <=> b \in last)
  /\ \A i \in Four : \A s \in DPad(i) :
       /\ s \in st.heard.told => st.counters[i] = s
       /\ st.counters[i] = s /\ s \notin st.excused => s \in st.heard.told

CameraOf(st, down) ==
  /\ \A d \in Commands : KeysOf(d) \cap st.excused = {} =>
       (On(st.camera, d) <=> KeysOf(d) \cap down # {})
  /\ st.camera.zoomInTimer = st.heard.since
  /\ st.camera.zoomInRepeating = 2 => st.camera.zoomInTimer > RepeatDelay

StOK(st, down, last) ==
  /\ st \in Sts
  /\ ToldOf(st, down, last) /\ CameraOf(st, down)
  /\ st.heard.odd = {} /\ ~st.heard.twice

\* After the pad was read, until the next poll.
ReadInv ==
  phase = "tick" /\ pad.has =>
    /\ lastGamepadButtons = pad.buttons
    /\ \A i \in Four : axisDPadCounters[i] = Tilt(pad, i)
    /\ camera.xAxis = AxisValue(pad, 1) /\ camera.yAxis = AxisValue(pad, 2)

InputInv == InputTypeInv /\ TablesInv /\ StOK(St, held, lastGamepadButtons) /\ ReadInv

-----------------------------------------------------------------------------
(* Walks over a list. *)

\* A set of numbers has a least one.
LEMMA LeastNumber ==
  ASSUME NEW S \in SUBSET Nat, S # {}
  PROVE  \E n \in S : \A m \in S : n <= m
<1> DEFINE R == {ss \in Nat \X Nat : ss[1] < ss[2]}
<1>1. R = OpToRel(<, Nat)
  BY DEF OpToRel
<1>2. IsWellFoundedOn(R, Nat)
  BY <1>1, NatLessThanWellFounded
<1> HIDE DEF R
<1>3. PICK n \in S : \A m \in S : <<m, n>> \notin R
  BY <1>2, WFMin
<1>4. ASSUME NEW m \in S PROVE n <= m
  <2>1. m \in Nat /\ n \in Nat /\ <<m, n>> \notin R
    BY <1>3
  <2>2. m < n => <<m, n>> \in R
    BY <2>1 DEF R
  <2>3. QED
    BY <2>1, <2>2
<1>5. QED
  BY <1>4

\* What holds of 0, and of each number when it does of the one before, holds up to N.
LEMMA UpTo ==
  ASSUME NEW N \in Nat, NEW T, 0 \in T,
         \A n \in 1 .. N : n - 1 \in T => n \in T
  PROVE  \A n \in 0 .. N : n \in T
<1> SUFFICES ASSUME NEW k \in 0 .. N, k \notin T PROVE FALSE
  OBVIOUS
<1> DEFINE S == {n \in 0 .. N : n \notin T}
<1>1. S \in SUBSET Nat /\ S # {}
  OBVIOUS
<1>2. PICK n \in S : \A m \in S : n <= m
  BY <1>1, LeastNumber
<1>3. n \in 1 .. N /\ n - 1 \in 0 .. N /\ n \in Nat
  OBVIOUS
<1>4. n - 1 \notin S
  BY <1>2, <1>3
<1>5. QED
  BY <1>3, <1>4

\* f is x before the first step, and g[n] of itself after the nth.
Steps(f, N, x, g) == f[0] = x /\ \A n \in 1 .. N : f[n] = g[n][f[n - 1]]

\* Steps on a set can be taken one after the other.
LEMMA StepsExist ==
  ASSUME NEW N \in Nat, NEW S, NEW x \in S, NEW g \in [1 .. N -> [S -> S]]
  PROVE  \E f \in [0 .. N -> S] : Steps(f, N, x, g)
<1> DEFINE T == {m \in 0 .. N : \E f \in [0 .. m -> S] : Steps(f, m, x, g)}
<1>1. 0 \in T
  <2> DEFINE f == [i \in 0 .. 0 |-> x]
  <2>1. f \in [0 .. 0 -> S] /\ Steps(f, 0, x, g)
    BY DEF Steps
  <2>2. QED
    BY <2>1
<1>2. ASSUME NEW n \in 1 .. N, n - 1 \in T PROVE n \in T
  <2>1. PICK f \in [0 .. n - 1 -> S] : Steps(f, n - 1, x, g)
    BY <1>2
  <2> DEFINE h == [i \in 0 .. n |-> IF i = n THEN g[n][f[n - 1]] ELSE f[i]]
  <2>2. f[n - 1] \in S /\ g[n] \in [S -> S]
    OBVIOUS
  <2>3. h \in [0 .. n -> S]
    <3>1. ASSUME NEW i \in 0 .. n PROVE (IF i = n THEN g[n][f[n - 1]] ELSE f[i]) \in S
      <4>1. CASE i = n
        BY <2>2, <4>1
      <4>2. CASE i # n
        BY <4>2
      <4>3. QED
        BY <4>1, <4>2
    <3>2. QED
      BY <3>1
  <2>4. h[0] = x
    BY <2>1 DEF Steps
  <2>5. ASSUME NEW k \in 1 .. n PROVE h[k] = g[k][h[k - 1]]
    <3>1. h[k - 1] = f[k - 1]
      OBVIOUS
    <3>2. CASE k = n
      BY <3>1, <3>2
    <3>3. CASE k # n
      <4>1. k \in 1 .. n - 1 /\ h[k] = f[k]
        BY <3>3
      <4>2. QED
        BY <2>1, <3>1, <4>1 DEF Steps
    <3>4. QED
      BY <3>2, <3>3
  <2> HIDE DEF h
  <2>6. Steps(h, n, x, g)
    BY <2>4, <2>5 DEF Steps
  <2>7. QED
    BY <2>3, <2>6
<1> HIDE DEF T
<1>3. \A n \in 0 .. N : n \in T
  BY <1>1, <1>2, UpTo
<1>4. N \in T
  BY <1>3
<1>5. QED
  BY <1>4 DEF T

\* What each step keeps, they all keep: I[n] is what holds after the nth.
LEMMA StepsKeep ==
  ASSUME NEW N \in Nat, NEW f, NEW I, f[0] \in I[0],
         \A n \in 1 .. N : f[n - 1] \in I[n - 1] => f[n] \in I[n]
  PROVE  f[N] \in I[N]
<1> DEFINE T == {n \in 0 .. N : f[n] \in I[n]}
<1>1. 0 \in T
  OBVIOUS
<1>2. ASSUME NEW n \in 1 .. N, n - 1 \in T PROVE n \in T
  BY <1>2
<1> HIDE DEF T
<1>3. \A n \in 0 .. N : n \in T
  BY <1>1, <1>2, UpTo
<1>4. N \in T
  BY <1>3
<1>5. QED
  BY <1>4 DEF T

-----------------------------------------------------------------------------
(* Names. *)

\* The simulated buttons of the four axes are eight, and none is the invalid one.
LEMMA DPadNames ==
  /\ Four = 1 .. 4 /\ Len(Axes) = 4
  /\ DPad(1) = {"left-joystick-d-pad-right", "left-joystick-d-pad-left"}
  /\ DPad(2) = {"left-joystick-d-pad-down", "left-joystick-d-pad-up"}
  /\ DPad(3) = {"right-joystick-d-pad-right", "right-joystick-d-pad-left"}
  /\ DPad(4) = {"right-joystick-d-pad-down", "right-joystick-d-pad-up"}
BY DEF Four, Axes, DPad, axisToBinding

LEMMA DPadsApart ==
  /\ \A i, j \in Four : \A s \in DPad(i) : s \in DPad(j) => i = j
  /\ \A i \in Four : DPad(i) \subseteq DPads /\ DPad(i) \cap CameraKeys = {} /\ INVALID_BUTTON \notin DPad(i)
  /\ \A s \in DPads : \E i \in Four : s \in DPad(i)
<1>1. \A i, j \in Four : \A s \in DPad(i) : s \in DPad(j) => i = j
  <2>1. SUFFICES ASSUME NEW i \in 1 .. 4, NEW j \in 1 .. 4, NEW s \in DPad(i), s \in DPad(j) PROVE i = j
    BY DPadNames
  <2>2. (i = 1 \/ i = 2 \/ i = 3 \/ i = 4) /\ (j = 1 \/ j = 2 \/ j = 3 \/ j = 4)
    OBVIOUS
  <2>3. CASE i = 1
    BY <2>1, <2>2, <2>3, DPadNames
  <2>4. CASE i = 2
    BY <2>1, <2>2, <2>4, DPadNames
  <2>5. CASE i = 3
    BY <2>1, <2>2, <2>5, DPadNames
  <2>6. CASE i = 4
    BY <2>1, <2>2, <2>6, DPadNames
  <2>7. QED
    BY <2>2, <2>3, <2>4, <2>5, <2>6
<1>2. ASSUME NEW i \in Four PROVE DPad(i) \cap CameraKeys = {} /\ INVALID_BUTTON \notin DPad(i)
  <2>1. i = 1 \/ i = 2 \/ i = 3 \/ i = 4
    BY DPadNames
  <2>2. QED
    BY <2>1, DPadNames DEF CameraKeys, INVALID_BUTTON
<1>3. DPads = UNION {DPad(i) : i \in Four}
  BY DEF DPads, Four
<1>4. QED
  BY <1>1, <1>2, <1>3

\* What a stick is recorded as is one of its own buttons or none.
LEMMA TiltIs ==
  ASSUME NEW p, NEW i \in Four
  PROVE  Tilt(p, i) \in DPad(i) \cup {INVALID_BUTTON}
BY DEF Tilt, TiltButton, DPad

\* The three kinds of sources.
LEMMA SourcesApart ==
  /\ Sources = Held \cup Buttons \cup DPads
  /\ Held \cap Buttons = {} /\ Held \cap DPads = {} /\ Buttons \cap DPads = {}
BY InputAssumption DEF Sources, Held

\* The buttons of the pad, in their order.
LEMMA ButtonsAre ==
  /\ Len(gamepadButtons) \in Nat
  /\ Buttons = {gamepadButtons[i] : i \in 1 .. Len(gamepadButtons)}
  /\ \A i, j \in 1 .. Len(gamepadButtons) : gamepadButtons[i] = gamepadButtons[j] => i = j
  /\ \A i \in 1 .. Len(gamepadButtons) : gamepadButtons[i] \in STRING
<1>1. Len(gamepadButtons) \in Nat /\ DOMAIN gamepadButtons = 1 .. Len(gamepadButtons)
      /\ \A i \in 1 .. Len(gamepadButtons) : gamepadButtons[i] \in STRING
  BY InputAssumption, LenProperties, ElementOfSeq
<1>2. QED
  BY <1>1, InputAssumption DEF Buttons, Range

\* One key has each command of the camera, and nothing else has.
LEMMA KeysAre ==
  /\ \A d \in Commands : \A s, t \in KeysOf(d) : s = t
  /\ \A d \in Commands : KeysOf(d) \cap (Buttons \cup DPads) = {}
<1>1. \A d \in Commands : \A s, t \in KeysOf(d) : s = t
  BY DEF Commands, Directions, KeysOf, Defaults
<1>2. \A d \in Commands : KeysOf(d) \subseteq CameraKeys
  BY DEF Commands, Directions, KeysOf, Defaults, CameraKeys
<1>3. CameraKeys \cap DPads = {}
  BY DPadsApart
<1>4. CameraKeys \cap Buttons = {}
  BY InputAssumption
<1>5. QED
  BY <1>1, <1>2, <1>3, <1>4

-----------------------------------------------------------------------------
(* Binds. *)

\* A registration of a script.
LEMMA ScriptsAre ==
  /\ scripts \in Seq(Registration) /\ Len(scripts) = Len(InitScripts) + Len(TeamScripts)
  /\ Len(InitScripts) \in Nat /\ Len(TeamScripts) \in Nat /\ Len(scripts) \in Nat
  /\ \A i \in 1 .. Len(InitScripts) : scripts[i] = InitScripts[i]
  /\ \A i \in 1 .. Len(TeamScripts) : scripts[Len(InitScripts) + i] = TeamScripts[i]
  /\ \A i \in 1 .. Len(scripts) : scripts[i] \in Registration
<1>1. InitScripts \in Seq(Registration) /\ TeamScripts \in Seq(Registration)
  BY ScriptAssumption
<1>2. Len(InitScripts) \in Nat /\ Len(TeamScripts) \in Nat
  BY <1>1, LenProperties
<1>3. scripts \in Seq(Registration) /\ Len(scripts) = Len(InitScripts) + Len(TeamScripts)
      /\ \A i \in 1 .. Len(scripts) : scripts[i] = IF i <= Len(InitScripts) THEN InitScripts[i]
                                                   ELSE TeamScripts[i - Len(InitScripts)]
  BY <1>1, ConcatProperties DEF scripts
<1>4. \A i \in 1 .. Len(scripts) : scripts[i] \in Registration
  BY <1>3, ElementOfSeq
<1>5. ASSUME NEW i \in 1 .. Len(TeamScripts) PROVE scripts[Len(InitScripts) + i] = TeamScripts[i]
  <2>1. Len(InitScripts) + i \in 1 .. Len(scripts) /\ ~(Len(InitScripts) + i <= Len(InitScripts))
        /\ Len(InitScripts) + i - Len(InitScripts) = i
    BY <1>2, <1>3
  <2>2. QED
    BY <1>3, <2>1
<1>6. \A i \in 1 .. Len(InitScripts) : scripts[i] = InitScripts[i]
  BY <1>2, <1>3
<1>7. QED
  BY <1>2, <1>3, <1>4, <1>5, <1>6

\* No default is given twice.
LEMMA DefaultsAre ==
  /\ \A d, e \in Defaults : d[1] = e[1] => d = e
  /\ \A d \in Defaults : d = <<d[1], d[2]>> /\ d[2] \in Names
<1>1. \A d, e \in Defaults : d[1] = e[1] => d[2] = e[2]
  BY DEF Defaults
<1>2. \A d \in Defaults : d = <<d[1], d[2]>>
  BY DEF Defaults
<1>3. \A d \in Defaults : d[2] \in Names
  BY DEF Names
<1>4. QED
  BY <1>1, <1>2, <1>3

\* Before the first script.
LEMMA DefaultsRegister ==
  LET t == [binds |-> DefaultBinds, callbacks |-> {}]
  IN t \in Tables /\ Registers(t, 0)
<1> DEFINE t == [binds |-> DefaultBinds, callbacks |-> {}]
           Given(s) == {d[2] : d \in {e \in Defaults : e[1] = s}}
<1>1. ASSUME NEW s \in Sources
      PROVE  /\ DefaultBinds[s] \in Seq(Names)
             /\ \A i \in 1 .. Len(DefaultBinds[s]) : <<s, DefaultBinds[s][i]>> \in Defaults
             /\ \A i, j \in 1 .. Len(DefaultBinds[s]) : i = j
             /\ \A d \in Defaults : d[1] = s => \E i \in 1 .. Len(DefaultBinds[s]) : DefaultBinds[s][i] = d[2]
  <2>1. CASE Given(s) = {}
    <3>1. DefaultBinds[s] = <<>>
      BY <2>1 DEF DefaultBinds
    <3>2. \A d \in Defaults : d[1] # s
      BY <2>1
    <3>3. QED
      BY <3>1, <3>2, EmptySeq
  <2>2. CASE Given(s) # {}
    <3> DEFINE b == CHOOSE b \in Given(s) : TRUE
    <3>1. DefaultBinds[s] = <<b>> /\ b \in Given(s)
      BY <2>2 DEF DefaultBinds
    <3> HIDE DEF b
    <3>2. PICK d \in Defaults : d[1] = s /\ d[2] = b
      BY <3>1
    <3>3. b \in Names /\ <<s, b>> \in Defaults /\ \A e \in Defaults : e[1] = s => e[2] = b
      BY <3>2, DefaultsAre
    <3>4. DefaultBinds[s] \in Seq(Names)
      BY <3>1, <3>3
    <3>5. Len(DefaultBinds[s]) = 1 /\ DefaultBinds[s][1] = b
      BY <3>1
    <3>6. \A i \in 1 .. Len(DefaultBinds[s]) : i = 1
      BY <3>5
    <3>7. 1 \in 1 .. Len(DefaultBinds[s])
      BY <3>5
    <3>8. QED
      BY <3>3, <3>4, <3>5, <3>6, <3>7
  <2>3. QED
    BY <2>1, <2>2
<1>2. t \in Tables
  <2>1. DefaultBinds \in [Sources -> Seq(Names)]
    BY <1>1 DEF DefaultBinds
  <2>2. QED
    BY <2>1 DEF Tables
<1>3. QED
  BY <1>1, <1>2 DEF Registers

\* A registration puts its bind at the end of the list of its key, if that is a source.
LEMMA TablesKept ==
  ASSUME NEW t \in Tables, NEW i \in 1 .. Len(scripts)
  PROVE  registerTSKeybind(t, scripts[i]) \in Tables
<1> DEFINE r == scripts[i]
<1>1. r \in Registration /\ r.bind \in Names
  BY ScriptsAre DEF Names
<1>2. t.binds \in [Sources -> Seq(Names)]
      /\ t.callbacks \in SUBSET (Names \X (Objects \cup {NoObject}) \X STRING)
  BY DEF Tables
<1>3. ASSUME r.key \in Sources
      PROVE  [t.binds EXCEPT ![r.key] = Append(t.binds[r.key], r.bind)] \in [Sources -> Seq(Names)]
  <2>1. t.binds[r.key] \in Seq(Names)
    BY <1>2, <1>3
  <2>2. Append(t.binds[r.key], r.bind) \in Seq(Names)
    BY <1>1, <2>1, AppendProperties
  <2>3. QED
    BY <1>2, <2>2
<1>4. t.callbacks \cup {<<r.bind, r.object, r.callback>>}
        \in SUBSET (Names \X (Objects \cup {NoObject}) \X STRING)
  BY <1>1, <1>2 DEF Registration
<1>5. QED
  BY <1>2, <1>3, <1>4 DEF registerTSKeybind, Tables

LEMMA RegistersKept ==
  ASSUME NEW t \in Tables, NEW n \in Nat, n < Len(scripts), Registers(t, n)
  PROVE  Registers(registerTSKeybind(t, scripts[n + 1]), n + 1)
<1> DEFINE r == scripts[n + 1]
           u == registerTSKeybind(t, r)
<1>1. n + 1 \in 1 .. Len(scripts) /\ n + 1 \in 1 .. n + 1 /\ 1 .. n \subseteq 1 .. n + 1
      /\ n + 1 \notin 1 .. n /\ 1 .. n \subseteq 1 .. Len(scripts)
  BY ScriptsAre
<1>2. ASSUME NEW c \in u.callbacks
      PROVE  \E j \in 1 .. n + 1 : c = <<scripts[j].bind, scripts[j].object, scripts[j].callback>>
  <2>1. c \in t.callbacks \/ c = <<r.bind, r.object, r.callback>>
    BY <1>2 DEF registerTSKeybind
  <2>2. CASE c \in t.callbacks
    BY <1>1, <2>2 DEF Registers
  <2>3. CASE c = <<r.bind, r.object, r.callback>>
    BY <1>1, <2>3
  <2>4. QED
    BY <2>1, <2>2, <2>3
<1>3. ASSUME NEW s \in Sources
      PROVE  /\ \A i \in 1 .. Len(u.binds[s]) :
                  \/ <<s, u.binds[s][i]>> \in Defaults
                  \/ \E j \in 1 .. n + 1 : scripts[j].key = s /\ scripts[j].bind = u.binds[s][i]
             /\ \A i, j \in 1 .. Len(u.binds[s]) : u.binds[s][i] = u.binds[s][j] => i = j
             /\ \A d \in Defaults : d[1] = s => \E i \in 1 .. Len(u.binds[s]) : u.binds[s][i] = d[2]
  <2> DEFINE bs == t.binds[s]
             cs == u.binds[s]
  <2>1. bs \in Seq(Names) /\ Len(bs) \in Nat
    BY LenProperties DEF Tables
  <2>2. /\ \A i \in 1 .. Len(bs) :
             \/ <<s, bs[i]>> \in Defaults
             \/ \E j \in 1 .. n : scripts[j].key = s /\ scripts[j].bind = bs[i]
        /\ \A i, j \in 1 .. Len(bs) : bs[i] = bs[j] => i = j
        /\ \A d \in Defaults : d[1] = s => \E i \in 1 .. Len(bs) : bs[i] = d[2]
    BY DEF Registers
  <2>3. CASE s = r.key
    <3>1. cs = Append(bs, r.bind)
      BY <2>3 DEF registerTSKeybind, Tables
    <3>2. r.bind \in Names
      BY <1>1 DEF Names
    <3> HIDE DEF bs, cs
    <3>3. /\ Len(cs) = Len(bs) + 1 /\ cs[Len(bs) + 1] = r.bind
          /\ \A i \in 1 .. Len(bs) : cs[i] = bs[i]
      BY <2>1, <3>1, <3>2, AppendProperties
    <3>4. \A i \in 1 .. Len(cs) : i \in 1 .. Len(bs) \/ i = Len(bs) + 1
      BY <2>1, <3>3
    <3>5. ASSUME NEW i \in 1 .. Len(bs) PROVE bs[i] # r.bind
      <4>1. CASE <<s, bs[i]>> \in Defaults
        BY <1>1, <2>3, <4>1, ScriptAssumption
      <4>2. CASE \E j \in 1 .. n : scripts[j].key = s /\ scripts[j].bind = bs[i]
        <5>1. PICK j \in 1 .. n : scripts[j].key = s /\ scripts[j].bind = bs[i]
          BY <4>2
        <5>2. j # n + 1 /\ j \in 1 .. Len(scripts)
          BY <1>1
        <5>3. QED
          BY <1>1, <2>3, <5>1, <5>2, ScriptAssumption
      <4>3. QED
        BY <2>2, <4>1, <4>2
    <3>6. ASSUME NEW i \in 1 .. Len(cs)
          PROVE  \/ <<s, cs[i]>> \in Defaults
                 \/ \E j \in 1 .. n + 1 : scripts[j].key = s /\ scripts[j].bind = cs[i]
      <4>1. CASE i \in 1 .. Len(bs)
        BY <1>1, <2>2, <3>3, <4>1
      <4>2. CASE i = Len(bs) + 1
        BY <1>1, <2>3, <3>3, <4>2
      <4>3. QED
        BY <3>4, <4>1, <4>2
    <3>7. ASSUME NEW i \in 1 .. Len(cs), NEW j \in 1 .. Len(cs), cs[i] = cs[j] PROVE i = j
      BY <2>2, <3>3, <3>4, <3>5, <3>7
    <3>8. ASSUME NEW d \in Defaults, d[1] = s PROVE \E i \in 1 .. Len(cs) : cs[i] = d[2]
      <4>1. PICK i \in 1 .. Len(bs) : bs[i] = d[2]
        BY <2>2, <3>8
      <4>2. i \in 1 .. Len(cs)
        BY <2>1, <3>3
      <4>3. QED
        BY <3>3, <4>1, <4>2
    <3>9. QED
      BY <3>6, <3>7, <3>8 DEF cs
  <2>4. CASE s # r.key
    <3>1. cs = bs
      BY <2>4 DEF registerTSKeybind, Tables
    <3> HIDE DEF bs, cs
    <3>2. QED
      BY <1>1, <2>2, <3>1 DEF cs
  <2>5. QED
    BY <2>3, <2>4
<1>4. QED
  BY <1>2, <1>3 DEF Registers

\* A script registers all of its own, after those before it.
LEMMA RegisteredAre ==
  ASSUME NEW n \in Nat, NEW rs, Len(rs) \in Nat, n + Len(rs) <= Len(scripts),
         \A i \in 1 .. Len(rs) : rs[i] = scripts[n + i],
         NEW t \in Tables, Registers(t, n)
  PROVE  Registered(t, rs) \in Tables /\ Registers(Registered(t, rs), n + Len(rs))
<1> DEFINE N == Len(rs)
           h == CHOOSE f : f = [i \in 0 .. N |->
                  IF i = 0 THEN t ELSE registerTSKeybind(f[i - 1], rs[i])]
           g == [i \in 1 .. N |-> [y \in Tables |-> registerTSKeybind(y, rs[i])]]
           I == [i \in 0 .. N |-> {y \in Tables : Registers(y, n + i)}]
<1>1. Registered(t, rs) = h[N]
  BY DEF Registered
<1>2. ASSUME NEW i \in 1 .. N, NEW y \in Tables PROVE registerTSKeybind(y, rs[i]) \in Tables
  <2>1. n + i \in 1 .. Len(scripts) /\ rs[i] = scripts[n + i]
    BY ScriptsAre
  <2>2. QED
    BY <2>1, TablesKept
<1>3. g \in [1 .. N -> [Tables -> Tables]]
  BY <1>2
<1>4. PICK f \in [0 .. N -> Tables] : Steps(f, N, t, g)
  <2> HIDE DEF g
  <2>1. QED
    BY <1>3, StepsExist
<1>5. f = [i \in 0 .. N |-> IF i = 0 THEN t ELSE registerTSKeybind(f[i - 1], rs[i])]
  <2>1. ASSUME NEW i \in 0 .. N
        PROVE  f[i] = IF i = 0 THEN t ELSE registerTSKeybind(f[i - 1], rs[i])
    <3>1. CASE i = 0
      BY <1>4, <3>1 DEF Steps
    <3>2. CASE i # 0
      <4>1. i \in 1 .. N /\ f[i - 1] \in Tables
        BY <3>2
      <4>2. f[i] = g[i][f[i - 1]]
        BY <1>4, <4>1 DEF Steps
      <4>3. QED
        BY <3>2, <4>1, <4>2
    <3>3. QED
      BY <3>1, <3>2
  <2>2. QED
    BY <2>1
<1>6. h = [i \in 0 .. N |-> IF i = 0 THEN t ELSE registerTSKeybind(h[i - 1], rs[i])]
  BY <1>5
<1> HIDE DEF h, g
<1>7. h[0] \in I[0]
  BY <1>6
<1>8. ASSUME NEW i \in 1 .. N, h[i - 1] \in I[i - 1] PROVE h[i] \in I[i]
  <2>1. i \in 0 .. N /\ i - 1 \in 0 .. N /\ i # 0
    OBVIOUS
  <2>2. h[i - 1] \in Tables /\ Registers(h[i - 1], n + (i - 1))
    BY <1>8, <2>1
  <2>3. /\ n + (i - 1) \in Nat /\ n + (i - 1) < Len(scripts) /\ n + (i - 1) + 1 = n + i
        /\ n + i \in 1 .. Len(scripts)
    BY ScriptsAre
  <2>4. h[i] = registerTSKeybind(h[i - 1], scripts[n + i])
    BY <1>6, <2>1
  <2>5. Registers(h[i], n + i)
    BY <2>2, <2>3, <2>4, RegistersKept
  <2>6. h[i] \in Tables
    BY <2>2, <2>3, <2>4, TablesKept
  <2>7. QED
    BY <2>1, <2>5, <2>6
<1> HIDE DEF I
<1>9. h[N] \in I[N]
  BY <1>7, <1>8, StepsKeep
<1>10. QED
  BY <1>1, <1>9 DEF I

-----------------------------------------------------------------------------
(* Telling the receivers. *)

\* A source has a command of the camera exactly if it was given it by default.
LEMMA GivenCommands ==
  ASSUME TablesInv, NEW s \in Sources, NEW d \in Commands
  PROVE  (\E i \in 1 .. Len(binds[s]) : binds[s][i] = d) <=> s \in KeysOf(d)
<1>1. PICK n \in 0 .. Len(scripts) : Registers(TableNow, n)
  <2>1. Len(scripts) \in 0 .. Len(scripts) /\ Len(InitScripts) \in 0 .. Len(scripts)
    BY ScriptsAre
  <2>2. QED
    BY <2>1 DEF TablesInv
<1>2. 1 .. n \subseteq 1 .. Len(scripts)
  BY ScriptsAre
<1>3. ASSUME NEW i \in 1 .. Len(binds[s]), binds[s][i] = d PROVE s \in KeysOf(d)
  <2>1. \A j \in 1 .. Len(scripts) : scripts[j].bind # d
    BY ScriptAssumption DEF CameraBinds, Commands
  <2>2. TableNow.binds = binds
    BY DEF TableNow
  <2>3. \/ <<s, binds[s][i]>> \in Defaults
        \/ \E j \in 1 .. n : scripts[j].key = s /\ scripts[j].bind = binds[s][i]
    BY <1>1, <2>2 DEF Registers
  <2>4. <<s, d>> \in Defaults
    BY <1>2, <1>3, <2>1, <2>3
  <2>5. QED
    BY <2>4 DEF KeysOf
<1>4. ASSUME s \in KeysOf(d) PROVE \E i \in 1 .. Len(binds[s]) : binds[s][i] = d
  <2>1. <<s, d>> \in Defaults
    BY <1>4 DEF KeysOf
  <2>2. <<s, d>>[1] = s /\ <<s, d>>[2] = d
    OBVIOUS
  <2>3. QED
    BY <1>1, <2>1, <2>2 DEF Registers, TableNow
<1>5. QED
  BY <1>3, <1>4

\* No two binds of a source call the same function.
LEMMA CalledOnce ==
  ASSUME TablesInv, NEW s \in Sources, NEW i \in 1 .. Len(binds[s]), NEW j \in 1 .. Len(binds[s]), i < j
  PROVE  binds[s][i] # binds[s][j] /\ Called(binds[s][i]) \cap Called(binds[s][j]) = {}
<1>1. PICK n \in 0 .. Len(scripts) : Registers(TableNow, n)
  <2>1. Len(scripts) \in 0 .. Len(scripts) /\ Len(InitScripts) \in 0 .. Len(scripts)
    BY ScriptsAre
  <2>2. QED
    BY <2>1 DEF TablesInv
<1>2. 1 .. n \subseteq 1 .. Len(scripts) /\ i # j
  BY ScriptsAre
<1>3. binds[s][i] # binds[s][j]
  BY <1>1, <1>2 DEF Registers, TableNow
<1>4. ASSUME NEW c \in callbacks, NEW d \in callbacks, c[2] = d[2], c[3] = d[3] PROVE c[1] = d[1]
  <2>1. PICK k \in 1 .. n : c = <<scripts[k].bind, scripts[k].object, scripts[k].callback>>
    BY <1>1 DEF Registers, TableNow
  <2>2. PICK l \in 1 .. n : d = <<scripts[l].bind, scripts[l].object, scripts[l].callback>>
    BY <1>1 DEF Registers, TableNow
  <2>3. scripts[k].object = scripts[l].object /\ scripts[k].callback = scripts[l].callback
    BY <1>4, <2>1, <2>2
  <2>4. scripts[k].bind = scripts[l].bind
    BY <1>2, <2>3, ScriptAssumption
  <2>5. QED
    BY <2>1, <2>2, <2>4
<1>5. ASSUME NEW x \in Called(binds[s][i]), x \in Called(binds[s][j]) PROVE FALSE
  <2>1. PICK c \in callbacks : c[1] = binds[s][i] /\ x = <<c[2], c[3]>>
    BY <1>5 DEF Called
  <2>2. PICK d \in callbacks : d[1] = binds[s][j] /\ x = <<d[2], d[3]>>
    BY <1>5 DEF Called
  <2>3. c[2] = d[2] /\ c[3] = d[3]
    BY <2>1, <2>2
  <2>4. QED
    BY <1>3, <1>4, <2>1, <2>2, <2>3
<1>6. QED
  BY <1>3, <1>5

LEMMA ZoomLevels ==
  ASSUME NEW l \in Int
  PROVE  setZoomLevel(l) \in Int
BY InputAssumption DEF setZoomLevel

\* What the camera makes of one bind: a command is on when it is pressed, and the timer
\* starts when zooming in does.
LEMMA BindIs ==
  ASSUME NEW c \in Cameras, NEW bind, NEW pressed \in BOOLEAN
  PROVE  LET r == OnBind(c, bind, pressed) IN
         /\ r \in Cameras /\ r.xAxis = c.xAxis /\ r.yAxis = c.yAxis
         /\ \A d \in Commands : On(r, d) <=> IF bind = d THEN pressed ELSE On(c, d)
         /\ IF bind = "camera.zoomIn" /\ pressed THEN r.zoomInTimer = 0 /\ r.zoomInRepeating = 1
            ELSE r.zoomInTimer = c.zoomInTimer /\ r.zoomInRepeating \in {0, c.zoomInRepeating}
<1> DEFINE r == OnBind(c, bind, pressed)
<1>1. c.zoomLevel - 1 \in Int /\ c.zoomLevel + 1 \in Int
  BY DEF Cameras
<1>2. setZoomLevel(c.zoomLevel - 1) \in Int /\ setZoomLevel(c.zoomLevel + 1) \in Int
  BY <1>1, ZoomLevels
<1>3. CASE bind = "camera.zoomIn"
  <2>1. r = IF pressed THEN [c EXCEPT !.zoomLevel = setZoomLevel(c.zoomLevel - 1),
                                     !.zoomInRepeating = 1, !.zoomInTimer = 0]
            ELSE [c EXCEPT !.zoomInRepeating = 0]
    BY <1>3 DEF OnBind
  <2> HIDE DEF r
  <2>2. r \in Cameras /\ r.xAxis = c.xAxis /\ r.yAxis = c.yAxis /\ r.moves = c.moves
    <3>1. CASE pressed
      <4>1. PICK l \in Int : l = setZoomLevel(c.zoomLevel - 1)
        BY <1>2
      <4>2. r = [c EXCEPT !.zoomLevel = l, !.zoomInRepeating = 1, !.zoomInTimer = 0]
        BY <2>1, <3>1, <4>1
      <4>3. c \in Cameras /\ [c EXCEPT !.zoomLevel = l] \in Cameras
        BY DEF Cameras
      <4>4. \A y \in Cameras : [y EXCEPT !.zoomInRepeating = 1] \in Cameras
        BY DEF Cameras
      <4>5. \A y \in Cameras : [y EXCEPT !.zoomInTimer = 0] \in Cameras
        BY DEF Cameras
      <4>6. r = [[[c EXCEPT !.zoomLevel = l] EXCEPT !.zoomInRepeating = 1] EXCEPT !.zoomInTimer = 0]
        BY <4>2 DEF Cameras
      <4>7. r \in Cameras
        BY <4>3, <4>4, <4>5, <4>6
      <4>8. QED
        BY <4>2, <4>7 DEF Cameras
    <3>2. CASE ~pressed
      BY <2>1, <3>2 DEF Cameras
    <3>3. QED
      BY <3>1, <3>2
  <2>3. IF pressed THEN r.zoomInTimer = 0 /\ r.zoomInRepeating = 1
        ELSE r.zoomInTimer = c.zoomInTimer /\ r.zoomInRepeating = 0
    BY <1>2, <2>1 DEF Cameras
  <2>4. \A d \in Commands : On(r, d) <=> IF bind = d THEN pressed ELSE On(c, d)
    BY <1>3, <2>2, <2>3 DEF On
  <2>5. QED
    BY <1>3, <2>2, <2>3, <2>4 DEF r
<1>4. CASE bind = "camera.zoomOut"
  <2>1. r = IF pressed THEN [c EXCEPT !.zoomLevel = setZoomLevel(c.zoomLevel + 1),
                                     !.zoomOutRepeating = 1, !.zoomOutTimer = 0]
            ELSE [c EXCEPT !.zoomOutRepeating = 0]
    BY <1>4 DEF OnBind
  <2> HIDE DEF r
  <2>2. r \in Cameras /\ r.xAxis = c.xAxis /\ r.yAxis = c.yAxis /\ r.moves = c.moves
        /\ r.zoomInTimer = c.zoomInTimer /\ r.zoomInRepeating = c.zoomInRepeating
    <3>1. CASE pressed
      <4>1. PICK l \in Int : l = setZoomLevel(c.zoomLevel + 1)
        BY <1>2
      <4>2. r = [c EXCEPT !.zoomLevel = l, !.zoomOutRepeating = 1, !.zoomOutTimer = 0]
        BY <2>1, <3>1, <4>1
      <4>3. c \in Cameras /\ [c EXCEPT !.zoomLevel = l] \in Cameras
        BY DEF Cameras
      <4>4. \A y \in Cameras : [y EXCEPT !.zoomOutRepeating = 1] \in Cameras
        BY DEF Cameras
      <4>5. \A y \in Cameras : [y EXCEPT !.zoomOutTimer = 0] \in Cameras
        BY DEF Cameras
      <4>6. r = [[[c EXCEPT !.zoomLevel = l] EXCEPT !.zoomOutRepeating = 1] EXCEPT !.zoomOutTimer = 0]
        BY <4>2 DEF Cameras
      <4>7. r \in Cameras
        BY <4>3, <4>4, <4>5, <4>6
      <4>8. QED
        BY <4>2, <4>7 DEF Cameras
    <3>2. CASE ~pressed
      BY <2>1, <3>2 DEF Cameras
    <3>3. QED
      BY <3>1, <3>2
  <2>3. bind \notin Commands
    BY <1>4 DEF Commands, Directions
  <2>4. \A d \in Commands : On(r, d) <=> IF bind = d THEN pressed ELSE On(c, d)
    BY <2>2, <2>3 DEF On
  <2>5. QED
    BY <1>4, <2>2, <2>4 DEF r
<1>5. CASE bind \in Directions
  <2>1. bind # "camera.zoomIn" /\ bind # "camera.zoomOut" /\ "camera.zoomIn" \notin Directions
    BY <1>5 DEF Directions
  <2>2. r = [c EXCEPT !.moves = IF pressed THEN c.moves \cup {bind} ELSE c.moves \ {bind}]
    BY <1>5, <2>1 DEF OnBind
  <2> HIDE DEF r
  <2>3. r \in Cameras /\ r.xAxis = c.xAxis /\ r.yAxis = c.yAxis
        /\ r.moves = (IF pressed THEN c.moves \cup {bind} ELSE c.moves \ {bind})
        /\ r.zoomInTimer = c.zoomInTimer /\ r.zoomInRepeating = c.zoomInRepeating
    BY <1>5, <2>2 DEF Cameras
  <2>4. \A d \in Commands : On(r, d) <=> IF bind = d THEN pressed ELSE On(c, d)
    BY <2>1, <2>3 DEF On
  <2>5. QED
    BY <2>1, <2>3, <2>4 DEF r
<1>6. CASE bind # "camera.zoomIn" /\ bind # "camera.zoomOut" /\ bind \notin Directions
  BY <1>6 DEF OnBind, Commands
<1>7. QED
  BY <1>3, <1>4, <1>5, <1>6

\* And of all the binds of a source, in whatever order.
LEMMA BindsAre ==
  ASSUME NEW c \in Cameras, NEW bs, Len(bs) \in Nat, NEW pressed \in BOOLEAN
  PROVE  LET r == OnBinds(c, bs, pressed)
             Has(d) == \E i \in 1 .. Len(bs) : bs[i] = d
         IN
         /\ r \in Cameras /\ r.xAxis = c.xAxis /\ r.yAxis = c.yAxis
         /\ \A d \in Commands : On(r, d) <=> IF Has(d) THEN pressed ELSE On(c, d)
         /\ IF Has("camera.zoomIn") /\ pressed THEN r.zoomInTimer = 0 /\ r.zoomInRepeating = 1
            ELSE r.zoomInTimer = c.zoomInTimer /\ r.zoomInRepeating \in {0, c.zoomInRepeating}
<1> DEFINE N == Len(bs)
           Has(n, d) == \E i \in 1 .. n : bs[i] = d
           h == CHOOSE f : f = [i \in 0 .. N |-> IF i = 0 THEN c ELSE OnBind(f[i - 1], bs[i], pressed)]
           g == [i \in 1 .. N |-> [y \in Cameras |-> OnBind(y, bs[i], pressed)]]
           Good(y, n) ==
             /\ y.xAxis = c.xAxis /\ y.yAxis = c.yAxis
             /\ \A d \in Commands : On(y, d) <=> IF Has(n, d) THEN pressed ELSE On(c, d)
             /\ IF Has(n, "camera.zoomIn") /\ pressed THEN y.zoomInTimer = 0 /\ y.zoomInRepeating = 1
                ELSE y.zoomInTimer = c.zoomInTimer /\ y.zoomInRepeating \in {0, c.zoomInRepeating}
           I == [n \in 0 .. N |-> {y \in Cameras : Good(y, n)}]
<1>1. OnBinds(c, bs, pressed) = h[N]
  BY DEF OnBinds
<1>2. g \in [1 .. N -> [Cameras -> Cameras]]
  BY BindIs
<1>3. PICK f \in [0 .. N -> Cameras] : Steps(f, N, c, g)
  <2> HIDE DEF g
  <2>1. QED
    BY <1>2, StepsExist
<1>4. f = [i \in 0 .. N |-> IF i = 0 THEN c ELSE OnBind(f[i - 1], bs[i], pressed)]
  <2>1. ASSUME NEW i \in 0 .. N
        PROVE  f[i] = IF i = 0 THEN c ELSE OnBind(f[i - 1], bs[i], pressed)
    <3>1. CASE i = 0
      BY <1>3, <3>1 DEF Steps
    <3>2. CASE i # 0
      <4>1. i \in 1 .. N /\ f[i - 1] \in Cameras
        BY <3>2
      <4>2. f[i] = g[i][f[i - 1]]
        BY <1>3, <4>1 DEF Steps
      <4>3. QED
        BY <3>2, <4>1, <4>2
    <3>3. QED
      BY <3>1, <3>2
  <2>2. QED
    BY <2>1
<1>5. h = [i \in 0 .. N |-> IF i = 0 THEN c ELSE OnBind(h[i - 1], bs[i], pressed)]
  BY <1>4
<1> HIDE DEF h, g
<1>6. h[0] \in I[0]
  <2>1. h[0] = c /\ \A d : ~Has(0, d)
    BY <1>5
  <2>2. QED
    BY <2>1
<1>7. ASSUME NEW n \in 1 .. N, h[n - 1] \in I[n - 1] PROVE h[n] \in I[n]
  <2> DEFINE y == h[n - 1]
             r == h[n]
  <2>1. n \in 0 .. N /\ n - 1 \in 0 .. N /\ n # 0
    OBVIOUS
  <2>2. y \in Cameras /\ Good(y, n - 1)
    BY <1>7, <2>1
  <2>3. r = OnBind(y, bs[n], pressed)
    BY <1>5, <2>1
  <2>4. \A d : Has(n, d) <=> Has(n - 1, d) \/ bs[n] = d
    <3>1. \A i \in 1 .. n : i \in 1 .. n - 1 \/ i = n
      OBVIOUS
    <3>2. 1 .. n - 1 \subseteq 1 .. n /\ n \in 1 .. n
      OBVIOUS
    <3>3. QED
      BY <3>1, <3>2
  <2>5. /\ r \in Cameras /\ r.xAxis = y.xAxis /\ r.yAxis = y.yAxis
        /\ \A d \in Commands : On(r, d) <=> IF bs[n] = d THEN pressed ELSE On(y, d)
        /\ IF bs[n] = "camera.zoomIn" /\ pressed THEN r.zoomInTimer = 0 /\ r.zoomInRepeating = 1
           ELSE r.zoomInTimer = y.zoomInTimer /\ r.zoomInRepeating \in {0, y.zoomInRepeating}
    BY <2>2, <2>3, BindIs
  <2> HIDE DEF y, r, Has
  <2>6. r.xAxis = c.xAxis /\ r.yAxis = c.yAxis
    BY <2>2, <2>5
  <2>7. \A d \in Commands : On(r, d) <=> IF Has(n, d) THEN pressed ELSE On(c, d)
    BY <2>2, <2>4, <2>5
  <2>8. IF Has(n, "camera.zoomIn") /\ pressed THEN r.zoomInTimer = 0 /\ r.zoomInRepeating = 1
        ELSE r.zoomInTimer = c.zoomInTimer /\ r.zoomInRepeating \in {0, c.zoomInRepeating}
    <3>1. "camera.zoomIn" \in Commands
      BY DEF Commands
    <3>2. pressed /\ Has(n - 1, "camera.zoomIn") => y.zoomInTimer = 0 /\ y.zoomInRepeating = 1
      BY <2>2
    <3>3. pressed /\ bs[n] = "camera.zoomIn" => r.zoomInTimer = 0 /\ r.zoomInRepeating = 1
      BY <2>5
    <3>4. r.zoomInRepeating # 0 <=> IF bs[n] = "camera.zoomIn" THEN pressed ELSE y.zoomInRepeating # 0
      BY <2>5, <3>1 DEF On
    <3>5. QED
      BY <2>2, <2>4, <2>5, <3>2, <3>3, <3>4
  <2>9. Good(r, n)
    BY <2>6, <2>7, <2>8
  <2> HIDE DEF Good
  <2>10. QED
    BY <2>1, <2>5, <2>9 DEF r
<1> HIDE DEF I, Good
<1>8. h[N] \in I[N]
  BY <1>6, <1>7, StepsKeep
<1>9. h[N] \in Cameras /\ Good(h[N], N)
  BY <1>8 DEF I
<1>10. QED
  BY <1>1, <1>9 DEF Good


\* r is st after the receivers of s have been told that it is pressed or let go of.
Told(st, s, pressed, r) ==
  /\ r \in Sts /\ r.counters = st.counters /\ r.pad = st.pad
  /\ r.excused = st.excused \ {s}
  /\ r.heard.told = IF pressed THEN st.heard.told \cup {s} ELSE st.heard.told \ {s}
  /\ (pressed <=> s \notin st.heard.told) \/ s \in st.excused => r.heard.odd = st.heard.odd
  /\ r.heard.twice = st.heard.twice
  /\ r.camera.xAxis = st.camera.xAxis /\ r.camera.yAxis = st.camera.yAxis
  /\ \A d \in Commands : On(r.camera, d) <=> IF s \in KeysOf(d) THEN pressed ELSE On(st.camera, d)
  /\ st.camera.zoomInTimer = st.heard.since => r.camera.zoomInTimer = r.heard.since
  /\ (st.camera.zoomInRepeating = 2 => st.camera.zoomInTimer > RepeatDelay)
       => (r.camera.zoomInRepeating = 2 => r.camera.zoomInTimer > RepeatDelay)

\* What a source's event does to what the game and the camera believe.
LEMMA AnnounceIs ==
  ASSUME TablesInv, NEW st \in Sts, NEW s \in Sources, NEW pressed \in BOOLEAN
  PROVE  Told(st, s, pressed, Announce(st, s, pressed))
<1> DEFINE bs    == binds[s]
           h     == st.heard
           c     == OnBinds(st.camera, bs, pressed)
           told  == IF pressed THEN h.told \cup {s} ELSE h.told \ {s}
           odd   == IF (pressed <=> s \in h.told) /\ s \notin st.excused
                    THEN h.odd \cup {s} ELSE h.odd
           again == \E i, j \in 1 .. Len(bs) :
                      i < j /\ (bs[i] = bs[j] \/ Called(bs[i]) \cap Called(bs[j]) # {})
           since == IF pressed /\ "camera.zoomIn" \in Range(bs) THEN 0 ELSE h.since
           r     == Announce(st, s, pressed)
           Has(d) == \E i \in 1 .. Len(bs) : bs[i] = d
<1>1. Len(bs) \in Nat /\ DOMAIN bs = 1 .. Len(bs)
  <2>1. bs \in Seq(Names)
    BY DEF TablesInv, Tables, TableNow
  <2>2. QED
    BY <2>1, LenProperties
<1>2. "camera.zoomIn" \in Range(bs) <=> Has("camera.zoomIn")
  BY <1>1 DEF Range
<1>3. h \in Hearings /\ st.camera \in Cameras
  BY DEF Sts
<1>4. ~again
  <2> HIDE DEF h
  <2>1. QED
    BY CalledOnce
<1>5. h.twice \in BOOLEAN /\ (h.twice \/ again) = h.twice
  BY <1>3, <1>4 DEF Hearings
<1>6. r = [st EXCEPT !.camera = c,
                     !.heard = [told |-> told, odd |-> odd, twice |-> h.twice \/ again, since |-> since],
                     !.excused = st.excused \ {s}]
  BY DEF Announce
<1>7. /\ c \in Cameras /\ c.xAxis = st.camera.xAxis /\ c.yAxis = st.camera.yAxis
      /\ \A d \in Commands : On(c, d) <=> IF Has(d) THEN pressed ELSE On(st.camera, d)
      /\ IF Has("camera.zoomIn") /\ pressed THEN c.zoomInTimer = 0 /\ c.zoomInRepeating = 1
         ELSE c.zoomInTimer = st.camera.zoomInTimer /\ c.zoomInRepeating \in {0, st.camera.zoomInRepeating}
  <2> HIDE DEF bs
  <2>1. QED
    BY <1>1, <1>3, BindsAre
<1>8. \A d \in Commands : Has(d) <=> s \in KeysOf(d)
  BY GivenCommands
<1>9. told \in SUBSET Sources /\ odd \in SUBSET Sources /\ since \in Nat /\ st.excused \ {s} \in SUBSET Sources
  BY <1>3 DEF Hearings, Sts
<1>10. since = IF pressed /\ Has("camera.zoomIn") THEN 0 ELSE h.since
  BY <1>2
<1>11. told = (IF pressed THEN h.told \cup {s} ELSE h.told \ {s})
       /\ ((pressed <=> s \notin h.told) \/ s \in st.excused => odd = h.odd)
  OBVIOUS
<1> HIDE DEF bs, c, told, odd, again, since, Has, r
<1>12. r = [st EXCEPT !.camera = c,
                      !.heard = [told |-> told, odd |-> odd, twice |-> h.twice, since |-> since],
                      !.excused = st.excused \ {s}]
  BY <1>5, <1>6
<1>13. /\ r \in Sts /\ r.counters = st.counters /\ r.pad = st.pad
       /\ r.excused = st.excused \ {s} /\ r.camera = c
       /\ r.heard = [told |-> told, odd |-> odd, twice |-> h.twice, since |-> since]
  <2>1. [told |-> told, odd |-> odd, twice |-> h.twice, since |-> since] \in Hearings
    BY <1>5, <1>9 DEF Hearings
  <2>2. QED
    BY <1>7, <1>9, <1>12, <2>1 DEF Sts
<1>14. r.heard.told = told /\ r.heard.odd = odd /\ r.heard.twice = h.twice /\ r.heard.since = since
  BY <1>13
<1>15. h = st.heard
  OBVIOUS
<1> HIDE DEF h
<1>16. \A d \in Commands : On(r.camera, d) <=> IF s \in KeysOf(d) THEN pressed ELSE On(st.camera, d)
  BY <1>7, <1>8, <1>13
<1>17. st.camera.zoomInTimer = st.heard.since => r.camera.zoomInTimer = r.heard.since
  BY <1>7, <1>10, <1>13, <1>14, <1>15
<1>18. (st.camera.zoomInRepeating = 2 => st.camera.zoomInTimer > RepeatDelay)
         => (r.camera.zoomInRepeating = 2 => r.camera.zoomInTimer > RepeatDelay)
  BY <1>7, <1>13
<1>19. r.camera.xAxis = st.camera.xAxis /\ r.camera.yAxis = st.camera.yAxis
  BY <1>7, <1>13
<1>20. QED
  BY <1>11, <1>13, <1>14, <1>15, <1>16, <1>17, <1>18, <1>19 DEF Told, r

-----------------------------------------------------------------------------
(* What an event leaves in order. *)

\* A command of the camera has one key.
LEMMA OneKey ==
  ASSUME NEW s, NEW d \in Commands, s \in KeysOf(d)
  PROVE  KeysOf(d) = {s}
BY KeysAre

\* A key or a mouse button that the player presses or lets go of, and the game is told of.
LEMMA KeyTold ==
  ASSUME TablesInv, NEW st, NEW down, NEW last, StOK(st, down, last), NEW s \in Held,
         NEW pressed \in BOOLEAN, pressed <=> s \notin down
  PROVE  StOK(Announce(st, s, pressed), IF pressed THEN down \cup {s} ELSE down \ {s}, last)
<1> DEFINE r == Announce(st, s, pressed)
           now == IF pressed THEN down \cup {s} ELSE down \ {s}
<1>1. st \in Sts /\ ToldOf(st, down, last) /\ CameraOf(st, down) /\ st.heard.odd = {} /\ ~st.heard.twice
  BY DEF StOK
<1>2. s \in Sources /\ s \notin Buttons /\ \A i \in Four : s \notin DPad(i)
  BY SourcesApart, DPadsApart
<1>3. \A x : x \in now <=> IF x = s THEN pressed ELSE x \in down
  OBVIOUS
<1>4. Told(st, s, pressed, r)
  BY <1>1, <1>2, AnnounceIs
<1> HIDE DEF r, now
<1>5. \A x : x \in r.heard.told <=> IF x = s THEN pressed ELSE x \in st.heard.told
  BY <1>4 DEF Told
<1>6. r.heard.odd = {}
  BY <1>1, <1>4 DEF Told, ToldOf
<1>7. ToldOf(r, now, last)
  BY <1>1, <1>2, <1>3, <1>4, <1>5 DEF Told, ToldOf
<1>8. ASSUME NEW d \in Commands, KeysOf(d) \cap r.excused = {}
      PROVE  On(r.camera, d) <=> KeysOf(d) \cap now # {}
  <2>1. CASE s \in KeysOf(d)
    <3>1. KeysOf(d) = {s}
      BY <2>1, OneKey
    <3>2. On(r.camera, d) <=> pressed
      BY <1>4, <2>1 DEF Told
    <3>3. QED
      BY <1>3, <3>1, <3>2
  <2>2. CASE s \notin KeysOf(d)
    <3>1. KeysOf(d) \cap st.excused = {} /\ KeysOf(d) \cap now = KeysOf(d) \cap down
      BY <1>3, <1>4, <1>8, <2>2 DEF Told
    <3>2. On(r.camera, d) <=> On(st.camera, d)
      BY <1>4, <2>2 DEF Told
    <3>3. QED
      BY <1>1, <3>1, <3>2 DEF CameraOf
  <2>3. QED
    BY <2>1, <2>2
<1>9. CameraOf(r, now)
  BY <1>1, <1>4, <1>8 DEF Told, CameraOf
<1>10. QED
  BY <1>1, <1>4, <1>6, <1>7, <1>9 DEF Told, StOK, r, now

\* And one that it is kept from.
LEMMA KeyKept ==
  ASSUME NEW st, NEW down, NEW now, NEW last, StOK(st, down, last), NEW s \in Held,
         \A x : x # s => (x \in now <=> x \in down)
  PROVE  StOK(Withheld(st, s), now, last)
<1> DEFINE r == Withheld(st, s)
<1>1. st \in Sts /\ ToldOf(st, down, last) /\ CameraOf(st, down) /\ st.heard.odd = {} /\ ~st.heard.twice
  BY DEF StOK
<1>2. s \in Sources /\ s \notin Buttons /\ \A i \in Four : s \notin DPad(i)
  BY SourcesApart, DPadsApart
<1>3. /\ r \in Sts /\ r.counters = st.counters /\ r.heard = st.heard /\ r.camera = st.camera
      /\ r.excused = st.excused \cup {s}
  BY <1>1, <1>2 DEF Withheld, Sts
<1> HIDE DEF r
<1>4. ToldOf(r, now, last)
  <2>1. \A x \in Held \ r.excused : x \in r.heard.told <=> x \in now
    <3>1. \A x \in Held \ r.excused : x # s /\ x \in Held \ st.excused
      BY <1>3
    <3>2. QED
      BY <1>1, <1>3, <3>1 DEF ToldOf
  <2>2. \A b \in Buttons : b \notin r.excused /\ (b \in r.heard.told <=> b \in last)
    BY <1>1, <1>2, <1>3 DEF ToldOf
  <2>3. \A i \in Four : \A x \in DPad(i) :
          /\ x \in r.heard.told => r.counters[i] = x
          /\ r.counters[i] = x /\ x \notin r.excused => x \in r.heard.told
    BY <1>1, <1>3 DEF ToldOf
  <2>4. QED
    BY <2>1, <2>2, <2>3 DEF ToldOf
<1>5. ASSUME NEW d \in Commands, KeysOf(d) \cap r.excused = {}
      PROVE  On(r.camera, d) <=> KeysOf(d) \cap now # {}
  <2>1. KeysOf(d) \cap st.excused = {} /\ KeysOf(d) \cap now = KeysOf(d) \cap down
    BY <1>3, <1>5
  <2>2. QED
    BY <1>1, <1>3, <2>1 DEF CameraOf
<1>6. CameraOf(r, now)
  BY <1>1, <1>3, <1>5 DEF CameraOf
<1>7. QED
  BY <1>1, <1>3, <1>4, <1>6 DEF StOK, r

\* A button of the pad that is not as it was.
LEMMA ButtonTold ==
  ASSUME TablesInv, NEW st, NEW down, NEW last, StOK(st, down, last), NEW b \in Buttons,
         NEW pressed \in BOOLEAN, pressed <=> b \notin last,
         NEW now, \A x : x \in now <=> IF x = b THEN pressed ELSE x \in last
  PROVE  StOK(Announce(st, b, pressed), down, now)
<1> DEFINE r == Announce(st, b, pressed)
<1>1. st \in Sts /\ ToldOf(st, down, last) /\ CameraOf(st, down) /\ st.heard.odd = {} /\ ~st.heard.twice
  BY DEF StOK
<1>2. b \in Sources /\ b \notin Held /\ \A i \in Four : b \notin DPad(i)
  BY SourcesApart, DPadsApart
<1>3. b \notin st.excused /\ (b \in st.heard.told <=> b \in last)
  BY <1>1 DEF ToldOf
<1>4. \A d \in Commands : b \notin KeysOf(d)
  BY KeysAre
<1>5. Told(st, b, pressed, r)
  BY <1>1, <1>2, AnnounceIs
<1> HIDE DEF r
<1>6. r.excused = st.excused /\ r.heard.odd = {}
  <2>1. pressed <=> b \notin st.heard.told
    BY <1>3
  <2>2. r.heard.odd = st.heard.odd
    BY <1>5, <2>1 DEF Told
  <2>3. r.excused = st.excused
    BY <1>3, <1>5 DEF Told
  <2>4. QED
    BY <1>1, <2>2, <2>3
<1>7. \A x : x \in r.heard.told <=> IF x = b THEN pressed ELSE x \in st.heard.told
  BY <1>5 DEF Told
<1>8. ToldOf(r, down, now)
  <2>1. \A s \in Held \ r.excused : s \in r.heard.told <=> s \in down
    BY <1>1, <1>2, <1>6, <1>7 DEF ToldOf
  <2>2. \A x \in Buttons : x \notin r.excused /\ (x \in r.heard.told <=> x \in now)
    BY <1>1, <1>6, <1>7 DEF ToldOf
  <2>3. \A i \in Four : \A s \in DPad(i) :
          /\ s \in r.heard.told => r.counters[i] = s
          /\ r.counters[i] = s /\ s \notin r.excused => s \in r.heard.told
    BY <1>1, <1>2, <1>5, <1>6, <1>7 DEF Told, ToldOf
  <2>4. QED
    BY <2>1, <2>2, <2>3 DEF ToldOf
<1>9. CameraOf(r, down)
  BY <1>1, <1>4, <1>5, <1>6 DEF Told, CameraOf
<1>10. QED
  BY <1>1, <1>5, <1>6, <1>8, <1>9 DEF Told, StOK, r

-----------------------------------------------------------------------------
(* The pad. *)

\* What is not touched when the pad's buttons are announced.
SameAxes(r, st) == r.pad = st.pad /\ r.camera.xAxis = st.camera.xAxis /\ r.camera.yAxis = st.camera.yAxis

\* A stick lets its old button go and presses the new one, or keeps the press back.
LEMMA DPadStep ==
  ASSUME TablesInv, NEW st, NEW down, NEW last, StOK(st, down, last), NEW i \in Four
  PROVE  /\ StOK(SimulateDPad(st, i), down, last)
         /\ SimulateDPad(st, i).counters = [st.counters EXCEPT ![i] = Tilt(st.pad, i)]
         /\ SameAxes(SimulateDPad(st, i), st)
<1> DEFINE old == st.counters[i]
           b   == Tilt(st.pad, i)
           rel == Announce(st, old, FALSE)
           told == IF b = old THEN st
                   ELSE IF old = INVALID_BUTTON THEN Announce(st, b, TRUE)
                   ELSE IF b = INVALID_BUTTON THEN rel
                   ELSE Withheld(rel, b)
           r   == Recorded(told, i, b)
<1>1. SimulateDPad(st, i) = r
  BY DEF SimulateDPad
<1>2. st \in Sts /\ ToldOf(st, down, last) /\ CameraOf(st, down) /\ st.heard.odd = {} /\ ~st.heard.twice
  BY DEF StOK
<1>3. /\ b \in DPad(i) \cup {INVALID_BUTTON}
      /\ old \in DPad(i) \cup {INVALID_BUTTON}
      /\ INVALID_BUTTON \notin DPad(i)
      /\ \A s \in DPad(i) : s \in Sources /\ s \notin Held /\ s \notin Buttons
      /\ \A s \in DPad(i) : \A j \in Four : s \in DPad(j) => j = i
      /\ \A s \in DPad(i) : \A d \in Commands : s \notin KeysOf(d)
  <2>1. st.counters \in Counters
    BY <1>2 DEF Sts
  <2>2. QED
    BY <2>1, TiltIs, DPadsApart, SourcesApart, KeysAre DEF Counters
<1>4. st.counters \in [Four -> DPads \cup {INVALID_BUTTON}] /\ \A j \in Four : st.counters[j] \in DPad(j) \cup {INVALID_BUTTON}
  BY <1>2 DEF Sts, Counters
<1> HIDE DEF b
\* Told is in order but for the button of axis i.
<1>5. /\ told \in Sts /\ told.counters = st.counters /\ SameAxes(told, st)
      /\ told.heard.odd = {} /\ ~told.heard.twice
      /\ \A s : s \notin DPad(i) => (s \in told.heard.told <=> s \in st.heard.told)
                                    /\ (s \in told.excused <=> s \in st.excused)
      /\ \A s \in DPad(i) : /\ s \in told.heard.told => s = b
                            /\ s = b /\ s \notin told.excused => s \in told.heard.told
      /\ \A d \in Commands : On(told.camera, d) <=> On(st.camera, d)
      /\ told.camera.zoomInTimer = told.heard.since
      /\ told.camera.zoomInRepeating = 2 => told.camera.zoomInTimer > RepeatDelay
  <2>1. CASE b = old
    BY <1>2, <1>3, <2>1 DEF ToldOf, CameraOf, SameAxes
  <2>2. CASE b # old /\ old = INVALID_BUTTON
    <3> DEFINE q == Announce(st, b, TRUE)
    <3>1. b \in DPad(i) /\ b \in Sources
      BY <1>3, <2>2
    <3>2. told = q
      BY <2>2
    <3>3. Told(st, b, TRUE, q)
      BY <1>2, <3>1, AnnounceIs
    <3> HIDE DEF q, told
    <3>4. \A s \in DPad(i) : s \notin st.heard.told
      BY <1>2, <1>3, <2>2 DEF ToldOf
    <3>5. \A d \in Commands : On(q.camera, d) <=> On(st.camera, d)
      BY <1>3, <3>1, <3>3 DEF Told
    <3>6. q.heard.odd = {} /\ ~q.heard.twice
      BY <1>2, <3>1, <3>3, <3>4 DEF Told
    <3>7. \A s : (s \in q.heard.told <=> s = b \/ s \in st.heard.told) /\ (s \in q.excused <=> s # b /\ s \in st.excused)
      BY <3>3 DEF Told
    <3>8. /\ q \in Sts /\ q.counters = st.counters /\ SameAxes(q, st)
          /\ q.camera.zoomInTimer = q.heard.since
          /\ q.camera.zoomInRepeating = 2 => q.camera.zoomInTimer > RepeatDelay
      BY <1>2, <3>3 DEF Told, SameAxes, CameraOf
    <3>9. QED
      BY <3>1, <3>2, <3>4, <3>5, <3>6, <3>7, <3>8
  <2>3. CASE b # old /\ old # INVALID_BUTTON
    <3>1. old \in DPad(i) /\ old \in Sources
      BY <1>3, <2>3
    <3>2. told = IF b = INVALID_BUTTON THEN rel ELSE Withheld(rel, b)
      BY <2>3
    <3>3. Told(st, old, FALSE, rel)
      BY <1>2, <3>1, AnnounceIs
    <3>4. \A s \in DPad(i) : s \in st.heard.told => s = old
      BY <1>2 DEF ToldOf
    <3>5. old \in st.heard.told \/ old \in st.excused
      BY <1>2, <3>1 DEF ToldOf
    <3> HIDE DEF told, old, rel
    <3>6. \A d \in Commands : On(rel.camera, d) <=> On(st.camera, d)
      BY <1>3, <3>1, <3>3 DEF Told
    <3>7. rel.heard.odd = {} /\ ~rel.heard.twice
      BY <1>2, <3>3, <3>5 DEF Told
    <3>8. \A s : (s \in rel.heard.told <=> s # old /\ s \in st.heard.told) /\ (s \in rel.excused <=> s # old /\ s \in st.excused)
      BY <3>3 DEF Told
    <3>9. /\ rel \in Sts /\ rel.counters = st.counters /\ SameAxes(rel, st)
          /\ rel.camera.zoomInTimer = rel.heard.since
          /\ rel.camera.zoomInRepeating = 2 => rel.camera.zoomInTimer > RepeatDelay
      BY <1>2, <3>3 DEF Told, SameAxes, CameraOf
    <3>10. \A s \in DPad(i) : s \notin rel.heard.told
      BY <3>4, <3>8
    <3>11. CASE b = INVALID_BUTTON
      <4>1. told = rel /\ b \notin DPad(i)
        BY <1>3, <3>2, <3>11
      <4>2. QED
        BY <3>1, <3>6, <3>7, <3>8, <3>9, <3>10, <4>1
    <3>12. CASE b # INVALID_BUTTON
      <4>1. b \in DPad(i) /\ b \in Sources
        BY <1>3, <3>12
      <4>2. told = Withheld(rel, b)
        BY <3>2, <3>12
      <4>3. /\ told \in Sts /\ told.counters = rel.counters /\ told.heard = rel.heard
            /\ told.camera = rel.camera /\ told.pad = rel.pad /\ told.excused = rel.excused \cup {b}
        BY <3>9, <4>1, <4>2 DEF Withheld, Sts
      <4>4. SameAxes(told, st)
        BY <3>9, <4>3 DEF SameAxes
      <4>5. QED
        BY <3>1, <3>6, <3>7, <3>8, <3>9, <3>10, <4>1, <4>3, <4>4
    <3>13. QED
      BY <3>11, <3>12
  <2>4. QED
    BY <2>1, <2>2, <2>3
<1> HIDE DEF old, rel, told
<1>6. [st.counters EXCEPT ![i] = b] \in Counters
  BY <1>3, <1>4, DPadsApart DEF Counters
<1>7. /\ r \in Sts /\ r.counters = [st.counters EXCEPT ![i] = b]
      /\ r.camera = told.camera /\ r.heard = told.heard /\ r.excused = told.excused /\ r.pad = told.pad
  BY <1>5, <1>6 DEF Recorded, Sts
<1> HIDE DEF r
<1>8. SameAxes(r, st)
  BY <1>5, <1>7 DEF SameAxes
<1>9. ToldOf(r, down, last)
  <2>1. \A s \in Held \ r.excused : s \in r.heard.told <=> s \in down
    <3>1. \A s \in Held : s \notin DPad(i)
      BY <1>3
    <3>2. QED
      BY <1>2, <1>5, <1>7, <3>1 DEF ToldOf
  <2>2. \A x \in Buttons : x \notin r.excused /\ (x \in r.heard.told <=> x \in last)
    <3>1. \A s \in Buttons : s \notin DPad(i)
      BY <1>3
    <3>2. QED
      BY <1>2, <1>5, <1>7, <3>1 DEF ToldOf
  <2>3. ASSUME NEW j \in Four, NEW s \in DPad(j)
        PROVE  /\ s \in r.heard.told => r.counters[j] = s
               /\ r.counters[j] = s /\ s \notin r.excused => s \in r.heard.told
    <3>1. CASE j = i
      <4>1. r.counters[j] = b
        BY <1>4, <1>7, <3>1
      <4>2. QED
        BY <1>5, <1>7, <2>3, <3>1, <4>1
    <3>2. CASE j # i
      <4>1. r.counters[j] = st.counters[j]
        BY <1>4, <1>7, <3>2
      <4>2. s \notin DPad(i)
        BY <1>3, <3>2
      <4>3. (s \in r.heard.told <=> s \in st.heard.told) /\ (s \in r.excused <=> s \in st.excused)
        BY <1>5, <1>7, <4>2
      <4>4. QED
        BY <1>2, <4>1, <4>3 DEF ToldOf
    <3>3. QED
      BY <3>1, <3>2
  <2>4. QED
    BY <2>1, <2>2, <2>3 DEF ToldOf
<1>10. CameraOf(r, down)
  <2>1. ASSUME NEW d \in Commands, KeysOf(d) \cap r.excused = {}
        PROVE  On(r.camera, d) <=> KeysOf(d) \cap down # {}
    <3>1. \A s \in KeysOf(d) : s \notin DPad(i)
      BY <1>3
    <3>2. KeysOf(d) \cap st.excused = {}
      BY <1>5, <1>7, <2>1, <3>1
    <3>3. QED
      BY <1>2, <1>5, <1>7, <3>2 DEF CameraOf
  <2>2. QED
    BY <1>5, <1>7, <2>1 DEF CameraOf
<1>11. StOK(r, down, last)
  BY <1>5, <1>7, <1>9, <1>10 DEF StOK
<1>12. QED
  BY <1>1, <1>7, <1>8, <1>11 DEF b

\* The sticks move the camera.
LEMMA AxesMoved ==
  ASSUME NEW st, NEW down, NEW last, StOK(st, down, last)
  PROVE  LET r == MoveAxes(st) IN
         /\ StOK(r, down, last) /\ r.pad = st.pad /\ r.counters = st.counters
         /\ r.camera.xAxis = AxisValue(st.pad, 1) /\ r.camera.yAxis = AxisValue(st.pad, 2)
<1> DEFINE r == MoveAxes(st)
           c == OnAxes(st.camera, AxisValue(st.pad, 1), AxisValue(st.pad, 2), AxisValue(st.pad, 4))
<1>1. st \in Sts /\ ToldOf(st, down, last) /\ CameraOf(st, down) /\ st.heard.odd = {} /\ ~st.heard.twice
  BY DEF StOK
<1>2. ASSUME NEW i \in Four PROVE AxisValue(st.pad, i) \in Int
  <2>1. st.pad.axes[i] \in Int
    BY <1>1 DEF Sts, Pads
  <2>2. -st.pad.axes[i] \in Int /\ 0 \in Int
    BY <2>1
  <2>3. QED
    BY <2>1, <2>2 DEF AxisValue
<1>3. PICK x \in Int, y \in Int, z \in Int :
        x = AxisValue(st.pad, 1) /\ y = AxisValue(st.pad, 2) /\ z = AxisValue(st.pad, 4)
  BY <1>2, DPadNames
<1>4. PICK w \in Int : w = IF z > 20 THEN ((z - 20) * 100) \div 80
                           ELSE IF z < -20 THEN -(((-z - 20) * 100) \div 80) ELSE 0
  <2>1. ((z - 20) * 100) \div 80 \in Int /\ -(((-z - 20) * 100) \div 80) \in Int
    OBVIOUS
  <2>2. QED
    BY <2>1
<1>5. c = [st.camera EXCEPT !.xAxis = x, !.yAxis = y, !.zoomAxis = w]
  BY <1>3, <1>4 DEF OnAxes
<1>6. r = [st EXCEPT !.camera = c]
  BY DEF MoveAxes
<1> HIDE DEF c, r
<1>7. st.camera \in Cameras
  BY <1>1 DEF Sts
<1>8. /\ c \in Cameras /\ c.moves = st.camera.moves /\ c.xAxis = x /\ c.yAxis = y
      /\ c.zoomInTimer = st.camera.zoomInTimer /\ c.zoomInRepeating = st.camera.zoomInRepeating
  BY <1>5, <1>7 DEF Cameras
<1>9. /\ r \in Sts /\ r.camera = c /\ r.heard = st.heard /\ r.excused = st.excused
      /\ r.counters = st.counters /\ r.pad = st.pad
  BY <1>1, <1>6, <1>8 DEF Sts
<1>10. \A d : On(r.camera, d) <=> On(st.camera, d)
  BY <1>8, <1>9 DEF On
<1>11. ToldOf(r, down, last)
  BY <1>1, <1>9 DEF ToldOf
<1>12. CameraOf(r, down)
  BY <1>1, <1>8, <1>9, <1>10 DEF CameraOf
<1>13. QED
  BY <1>1, <1>3, <1>8, <1>9, <1>11, <1>12 DEF StOK, r

\* Being a member of a set is a boolean.
LEMMA Membership ==
  ASSUME NEW x, NEW S
  PROVE  \E p \in BOOLEAN : p = (x \in S)
<1>1. CASE x \in S
  <2>1. TRUE = (x \in S)
    BY <1>1
  <2>2. QED
    BY <2>1
<1>2. CASE x \notin S
  <2>1. FALSE = (x \in S)
    BY <1>2
  <2>2. QED
    BY <2>1
<1>3. QED
  BY <1>1, <1>2

\* After the loop over the buttons the game has been told of all that have changed.
LEMMA ButtonsTold ==
  ASSUME TablesInv, NEW st, NEW down, StOK(st, down, lastGamepadButtons),
         lastGamepadButtons \subseteq Buttons
  PROVE  LET r == ButtonEdges(st) IN
         StOK(r, down, st.pad.buttons) /\ SameAxes(r, st) /\ r.counters = st.counters
<1> DEFINE N == Len(gamepadButtons)
           Same(n) == gamepadButtons[n] \in st.pad.buttons <=> gamepadButtons[n] \in lastGamepadButtons
           Step(y, n) == IF Same(n) THEN y
                         ELSE Announce(y, gamepadButtons[n], gamepadButtons[n] \in st.pad.buttons)
           h == CHOOSE f : f = [i \in 0 .. N |-> IF i = 0 THEN st ELSE Step(f[i - 1], i)]
           g == [i \in 1 .. N |-> [y \in Sts |-> Step(y, i)]]
           LastAt(n) == {b \in Buttons : IF \E k \in 1 .. n : gamepadButtons[k] = b
                                         THEN b \in st.pad.buttons ELSE b \in lastGamepadButtons}
           Good(y, n) == StOK(y, down, LastAt(n)) /\ SameAxes(y, st) /\ y.counters = st.counters
           I == [n \in 0 .. N |-> {y \in Sts : Good(y, n)}]
<1>1. ButtonEdges(st) = h[N]
  BY DEF ButtonEdges
<1>2. st \in Sts /\ st.pad.buttons \subseteq Buttons
  BY DEF StOK, Sts, Pads
<1>3. ASSUME NEW i \in 1 .. N, NEW y \in Sts PROVE Step(y, i) \in Sts
  <2>1. CASE Same(i)
    BY <2>1
  <2>2. CASE ~Same(i)
    <3>1. PICK p \in BOOLEAN : p = (gamepadButtons[i] \in st.pad.buttons)
      BY Membership
    <3>2. gamepadButtons[i] \in Sources
      BY ButtonsAre, SourcesApart
    <3>3. Step(y, i) = Announce(y, gamepadButtons[i], p)
      BY <2>2, <3>1
    <3>4. Told(y, gamepadButtons[i], p, Announce(y, gamepadButtons[i], p))
      BY <3>2, AnnounceIs
    <3>5. QED
      BY <3>3, <3>4 DEF Told
  <2>3. QED
    BY <2>1, <2>2
<1>4. g \in [1 .. N -> [Sts -> Sts]]
  <2> HIDE DEF Step
  <2>1. QED
    BY <1>3
<1>5. PICK f \in [0 .. N -> Sts] : Steps(f, N, st, g)
  <2>1. N \in Nat
    BY ButtonsAre
  <2> HIDE DEF g, N
  <2>2. QED
    BY <1>2, <1>4, <2>1, StepsExist
<1> HIDE DEF Step
<1>6. f = [i \in 0 .. N |-> IF i = 0 THEN st ELSE Step(f[i - 1], i)]
  <2>1. ASSUME NEW i \in 0 .. N
        PROVE  f[i] = IF i = 0 THEN st ELSE Step(f[i - 1], i)
    <3>1. CASE i = 0
      BY <1>5, <3>1 DEF Steps
    <3>2. CASE i # 0
      <4>1. i \in 1 .. N /\ f[i - 1] \in Sts
        BY <3>2, ButtonsAre
      <4>2. f[i] = g[i][f[i - 1]]
        BY <1>5, <4>1 DEF Steps
      <4>3. QED
        BY <3>2, <4>1, <4>2
    <3>3. QED
      BY <3>1, <3>2
  <2>2. QED
    BY <2>1
<1>7. h = [i \in 0 .. N |-> IF i = 0 THEN st ELSE Step(h[i - 1], i)]
  BY <1>6
<1> HIDE DEF h, g, Good
<1>8. h[0] \in I[0]
  <2>1. h[0] = st /\ 0 \in 0 .. N
    BY <1>7, ButtonsAre
  <2>2. LastAt(0) = lastGamepadButtons
    OBVIOUS
  <2>3. Good(st, 0)
    BY <2>2 DEF Good, SameAxes
  <2>4. QED
    BY <1>2, <2>1, <2>3
<1>9. ASSUME NEW n \in 1 .. N, h[n - 1] \in I[n - 1] PROVE h[n] \in I[n]
  <2> DEFINE y == h[n - 1]
             b == gamepadButtons[n]
  <2>1. n \in 0 .. N /\ n - 1 \in 0 .. N /\ n # 0
    BY ButtonsAre
  <2>2. y \in Sts /\ Good(y, n - 1)
    BY <1>9, <2>1
  <2>3. h[n] = Step(y, n)
    BY <1>7, <2>1
  <2>4. /\ b \in Buttons
        /\ \A k \in 1 .. n - 1 : gamepadButtons[k] # b
        /\ \A x : (\E k \in 1 .. n : gamepadButtons[k] = x)
                    <=> x = b \/ \E k \in 1 .. n - 1 : gamepadButtons[k] = x
    <3>1. \A k \in 1 .. n : k \in 1 .. n - 1 \/ k = n
      OBVIOUS
    <3>2. 1 .. n - 1 \subseteq 1 .. n /\ n \in 1 .. n /\ 1 .. n - 1 \subseteq 1 .. N /\ n \notin 1 .. n - 1
      BY ButtonsAre
    <3>3. QED
      BY <3>1, <3>2, ButtonsAre
  <2>5. \A x : x \in LastAt(n) <=> IF x = b THEN b \in st.pad.buttons ELSE x \in LastAt(n - 1)
    BY <2>4
  <2>6. b \in LastAt(n - 1) <=> b \in lastGamepadButtons
    BY <2>4
  <2> HIDE DEF y, b, LastAt
  <2>7. StOK(y, down, LastAt(n - 1)) /\ SameAxes(y, st) /\ y.counters = st.counters
    BY <2>2 DEF Good
  <2>8. Step(y, n) \in Sts
    BY <1>3, <2>2
  <2>9. Good(Step(y, n), n)
    <3>1. CASE Same(n)
      <4>1. Step(y, n) = y
        BY <3>1 DEF Step
      <4>2. LastAt(n) = LastAt(n - 1)
        BY <2>5, <2>6, <3>1 DEF b
      <4>3. QED
        BY <2>7, <4>1, <4>2 DEF Good
    <3>2. CASE ~Same(n)
      <4>1. PICK p \in BOOLEAN : p = (b \in st.pad.buttons)
        BY Membership
      <4>2. Step(y, n) = Announce(y, b, p)
        BY <3>2, <4>1 DEF Step, b
      <4>3. p <=> b \notin LastAt(n - 1)
        BY <2>6, <3>2, <4>1 DEF b
      <4>4. \A x : x \in LastAt(n) <=> IF x = b THEN p ELSE x \in LastAt(n - 1)
        <5>1. p <=> b \in st.pad.buttons
          BY <4>1
        <5>2. QED
          BY <2>5, <5>1
      <4>5. StOK(Announce(y, b, p), down, LastAt(n))
        BY <2>4, <2>7, <4>3, <4>4, ButtonTold
      <4>6. Told(y, b, p, Announce(y, b, p))
        BY <2>2, <2>4, SourcesApart, AnnounceIs
      <4>7. QED
        BY <2>7, <4>2, <4>5, <4>6 DEF Good, Told, SameAxes
    <3>3. QED
      BY <3>1, <3>2
  <2>10. QED
    BY <2>1, <2>3, <2>8, <2>9
<1>10. LastAt(N) = st.pad.buttons
  <2>1. \A b \in Buttons : \E k \in 1 .. N : gamepadButtons[k] = b
    BY ButtonsAre
  <2>2. QED
    BY <1>2, <2>1
<1> HIDE DEF I, LastAt
<1>11. h[N] \in I[N]
  <2>1. N \in Nat
    BY ButtonsAre
  <2> HIDE DEF N
  <2>2. QED
    BY <1>8, <1>9, <2>1, StepsKeep
<1>12. Good(h[N], N)
  <2>1. N \in 0 .. N
    BY ButtonsAre
  <2>2. QED
    BY <1>11, <2>1 DEF I
<1>13. QED
  BY <1>1, <1>10, <1>12 DEF Good

\* A turn's reading of a pad that is there.
LEMMA PadHandled ==
  ASSUME TablesInv, NEW st, NEW down, StOK(st, down, lastGamepadButtons),
         lastGamepadButtons \subseteq Buttons
  PROVE  LET r == HandlePad(st) IN
         /\ StOK(r, down, st.pad.buttons) /\ r.pad = st.pad
         /\ \A i \in Four : r.counters[i] = Tilt(st.pad, i)
         /\ r.camera.xAxis = AxisValue(st.pad, 1) /\ r.camera.yAxis = AxisValue(st.pad, 2)
<1> DEFINE a0 == MoveAxes(st)
           a1 == SimulateDPad(a0, 1)
           a2 == SimulateDPad(a1, 2)
           a3 == SimulateDPad(a2, 3)
           a4 == SimulateDPad(a3, 4)
           r  == ButtonEdges(a4)
           OK(a) == StOK(a, down, lastGamepadButtons) /\ a.pad = st.pad
                    /\ a.camera.xAxis = AxisValue(st.pad, 1) /\ a.camera.yAxis = AxisValue(st.pad, 2)
<1>1. HandlePad(st) = r
  BY DEF HandlePad
<1>2. OK(a0)
  <2> HIDE DEF a0
  <2>1. /\ StOK(a0, down, lastGamepadButtons) /\ a0.pad = st.pad
        /\ a0.camera.xAxis = AxisValue(st.pad, 1) /\ a0.camera.yAxis = AxisValue(st.pad, 2)
    BY AxesMoved DEF a0
  <2>2. QED
    BY <2>1
<1>3. ASSUME NEW a, OK(a), NEW i \in Four
      PROVE  OK(SimulateDPad(a, i))
             /\ SimulateDPad(a, i).counters = [a.counters EXCEPT ![i] = Tilt(st.pad, i)]
  <2>1. /\ StOK(SimulateDPad(a, i), down, lastGamepadButtons)
        /\ SimulateDPad(a, i).counters = [a.counters EXCEPT ![i] = Tilt(a.pad, i)]
        /\ SameAxes(SimulateDPad(a, i), a)
    BY <1>3, DPadStep
  <2>2. QED
    BY <1>3, <2>1 DEF SameAxes
<1>4. DOMAIN a0.counters = Four
  <2> HIDE DEF a0
  <2>1. QED
    BY <1>2 DEF StOK, Sts, Counters
<1>5. 1 \in Four /\ 2 \in Four /\ 3 \in Four /\ 4 \in Four
  BY DPadNames
<1> HIDE DEF a0, OK
<1>6. OK(a1) /\ a1.counters = [a0.counters EXCEPT ![1] = Tilt(st.pad, 1)]
  BY <1>2, <1>3, <1>5
<1> HIDE DEF a1
<1>7. OK(a2) /\ a2.counters = [a1.counters EXCEPT ![2] = Tilt(st.pad, 2)]
  BY <1>3, <1>6, <1>5
<1> HIDE DEF a2
<1>8. OK(a3) /\ a3.counters = [a2.counters EXCEPT ![3] = Tilt(st.pad, 3)]
  BY <1>3, <1>7, <1>5
<1> HIDE DEF a3
<1>9. OK(a4) /\ a4.counters = [a3.counters EXCEPT ![4] = Tilt(st.pad, 4)]
  BY <1>3, <1>8, <1>5
<1> HIDE DEF a4
<1>10. \A i \in Four : a4.counters[i] = Tilt(st.pad, i)
  <2>1. \A i \in Four : i = 1 \/ i = 2 \/ i = 3 \/ i = 4
    BY DPadNames
  <2>2. a4.counters[1] = Tilt(st.pad, 1) /\ a4.counters[2] = Tilt(st.pad, 2)
        /\ a4.counters[3] = Tilt(st.pad, 3) /\ a4.counters[4] = Tilt(st.pad, 4)
    BY <1>4, <1>6, <1>7, <1>8, <1>9, <1>5
  <2>3. QED
    BY <2>1, <2>2
<1>11. StOK(r, down, a4.pad.buttons) /\ SameAxes(r, a4) /\ r.counters = a4.counters
  BY <1>9, ButtonsTold DEF OK
<1> HIDE DEF r
<1>12. QED
  BY <1>1, <1>9, <1>10, <1>11 DEF OK, SameAxes

-----------------------------------------------------------------------------
(* The actions. *)

\* What has to be seen to when the camera, the history and the pad are as st says.
LEMMA NowIs ==
  ASSUME NEW st \in Sts, camera' = st.camera, heard' = st.heard, excused' = st.excused,
         axisDPadCounters' = st.counters, pad' = st.pad
  PROVE  St' = st
<1>1. st = [camera |-> st.camera, heard |-> st.heard, excused |-> st.excused,
            counters |-> st.counters, pad |-> st.pad]
  BY DEF Sts
<1>2. QED
  BY <1>1 DEF St

\* The tables are only changed when a script registers.
LEMMA TablesStay ==
  ASSUME TablesInv, UNCHANGED <<binds, callbacks, team>>
  PROVE  TablesInv'
<1>1. binds' = binds /\ callbacks' = callbacks /\ team' = team
  OBVIOUS
<1>2. TableNow' = TableNow
  BY <1>1 DEF TableNow
<1>3. QED
  BY <1>1, <1>2 DEF TablesInv

LEMMA InitInput == InputInit => InputInv
<1> SUFFICES ASSUME InputInit PROVE InputInv
  OBVIOUS
<1>1. TablesInv
  <2> DEFINE d == [binds |-> DefaultBinds, callbacks |-> {}]
             t == Registered(d, InitScripts)
  <2>1. d \in Tables /\ Registers(d, 0)
    BY DefaultsRegister
  <2>2. binds = t.binds /\ callbacks = t.callbacks /\ team = FALSE
    BY DEF InputInit
  <2> HIDE DEF d
  <2>3. /\ 0 \in Nat /\ Len(InitScripts) \in Nat /\ 0 + Len(InitScripts) <= Len(scripts)
        /\ 0 + Len(InitScripts) = Len(InitScripts)
        /\ \A i \in 1 .. Len(InitScripts) : InitScripts[i] = scripts[0 + i]
    BY ScriptsAre
  <2>4. t \in Tables /\ Registers(t, 0 + Len(InitScripts))
    BY <2>1, <2>3, RegisteredAre
  <2> HIDE DEF t
  <2>5. TableNow = t
    BY <2>2, <2>4 DEF TableNow, Tables
  <2>6. QED
    BY <2>2, <2>3, <2>4, <2>5 DEF TablesInv
<1>2. NoPad \in Pads
  BY DEF NoPad, Pads, Four
<1>3. axisDPadCounters \in Counters
  BY DEF InputInit, Counters, Four
<1>4. camera \in Cameras
  <2>1. setZoomLevel(3) \in Int
    BY ZoomLevels
  <2>2. QED
    BY <2>1 DEF InputInit, Cameras
<1>5. St \in Sts
  BY <1>2, <1>3, <1>4 DEF InputInit, Sts, Hearings, St
<1>6. InputTypeInv
  BY <1>5 DEF InputInit, InputTypeInv
<1>7. ToldOf(St, held, lastGamepadButtons)
  <2>1. \A i \in Four : axisDPadCounters[i] = INVALID_BUTTON
    BY DEF InputInit, Four
  <2>2. QED
    <3>1. /\ St.heard.told = {} /\ St.excused = {} /\ St.counters = axisDPadCounters
          /\ held = {} /\ lastGamepadButtons = {}
      BY DEF InputInit, St
    <3>2. \A i \in Four : \A s \in DPad(i) : s # INVALID_BUTTON
      BY DPadsApart
    <3>3. QED
      BY <2>1, <3>1, <3>2 DEF ToldOf
<1>8. CameraOf(St, held)
  BY DEF InputInit, CameraOf, St, On
<1>9. StOK(St, held, lastGamepadButtons)
  BY <1>5, <1>7, <1>8 DEF StOK, InputInit, St
<1>10. ReadInv
  BY DEF InputInit, ReadInv
<1>11. QED
  BY <1>1, <1>6, <1>9, <1>10 DEF InputInv

\* A key or a mouse button: pressed, repeated or let go of, and the game told or not.
LEMMA HeldMoves ==
  ASSUME InputInv, NEW s \in Held, NEW action \in {"press", "repeat", "release"}, Moved(s, action),
         \/ action = "repeat" /\ Tells(St)
         \/ Kept(s)
         \/ action # "repeat" /\ Tells(Announce(St, s, action = "press")),
         UNCHANGED padVars
  PROVE  StOK(St', held', lastGamepadButtons') /\ held' \subseteq Held
<1>1. /\ StOK(St, held, lastGamepadButtons) /\ TablesInv /\ held \subseteq Held /\ St \in Sts
      /\ lastGamepadButtons' = lastGamepadButtons /\ axisDPadCounters' = axisDPadCounters /\ pad' = pad
  BY DEF InputInv, InputTypeInv, padVars
<1>2. held' = (IF action = "press" THEN held \cup {s} ELSE IF action = "release" THEN held \ {s} ELSE held)
      /\ (action = "press" <=> s \notin held)
  BY DEF Moved
<1>3. CASE action = "repeat" /\ Tells(St)
  <2>1. St' = St
    BY <1>1, <1>3 DEF Tells, St
  <2>2. held' = held
    BY <1>2, <1>3
  <2>3. QED
    BY <1>1, <2>1, <2>2
<1>4. CASE Kept(s)
  <2> DEFINE st == Withheld(St, s)
  <2>1. \A x : x # s => (x \in held' <=> x \in held)
    BY <1>2
  <2>2. StOK(st, held', lastGamepadButtons)
    BY <1>1, <2>1, KeyKept
  <2>3. st.counters = axisDPadCounters /\ st.pad = pad
    BY <1>1 DEF Withheld, St
  <2>4. Tells(st)
    BY <1>4 DEF Kept
  <2> HIDE DEF st
  <2>5. st \in Sts
    BY <2>2 DEF StOK
  <2>6. St' = st
    BY <1>1, <2>3, <2>4, <2>5, NowIs DEF Tells
  <2>7. QED
    BY <1>1, <1>2, <2>2, <2>6
<1>5. CASE action # "repeat" /\ Tells(Announce(St, s, action = "press"))
  <2>1. PICK pressed \in BOOLEAN : pressed = (action = "press")
    <3>1. CASE action = "press"
      <4>1. TRUE = (action = "press")
        BY <3>1
      <4>2. QED
        BY <4>1
    <3>2. CASE action # "press"
      <4>1. FALSE = (action = "press")
        BY <3>2
      <4>2. QED
        BY <4>1
    <3>3. QED
      BY <3>1, <3>2
  <2> DEFINE st == Announce(St, s, pressed)
  <2>2. Tells(st)
    BY <1>5, <2>1
  <2>3. pressed <=> s \notin held
    BY <1>2, <2>1
  <2>4. held' = IF pressed THEN held \cup {s} ELSE held \ {s}
    BY <1>2, <1>5, <2>1
  <2>5. StOK(st, held', lastGamepadButtons)
    BY <1>1, <2>3, <2>4, KeyTold
  <2>6. st.counters = St.counters /\ st.pad = St.pad /\ st \in Sts
    <3>1. Told(St, s, pressed, st)
      BY <1>1, SourcesApart, AnnounceIs
    <3> HIDE DEF st
    <3>2. QED
      BY <3>1 DEF Told
  <2> HIDE DEF st
  <2>7. St.counters = axisDPadCounters /\ St.pad = pad
    BY DEF St
  <2>8. St' = st
    BY <1>1, <2>2, <2>6, <2>7, NowIs DEF Tells
  <2>9. QED
    BY <1>1, <1>2, <2>5, <2>8
<1>6. QED
  BY <1>3, <1>4, <1>5

\* A poll, refused or not, of which p is what is left in the pad.
LEMMA PadReads ==
  ASSUME InputInv, NEW p \in Pads, ReadPad(p)
  PROVE  InputInv'
<1> DEFINE st == [St EXCEPT !.pad = p]
           r  == IF p.has THEN HandlePad(st) ELSE st
<1>1. /\ StOK(St, held, lastGamepadButtons) /\ TablesInv /\ InputTypeInv
      /\ lastGamepadButtons \subseteq Buttons /\ St \in Sts
  BY DEF InputInv, InputTypeInv
<1>2. /\ st \in Sts /\ st.camera = St.camera /\ st.heard = St.heard /\ st.excused = St.excused
      /\ st.counters = St.counters /\ st.pad = p
  BY <1>1 DEF Sts
<1>3. StOK(st, held, lastGamepadButtons)
  <2> HIDE DEF st
  <2>1. QED
    BY <1>1, <1>2 DEF StOK, ToldOf, CameraOf
<1>4. /\ phase' = "tick" /\ pad' = p /\ held' = held /\ binds' = binds /\ callbacks' = callbacks
      /\ team' = team /\ pointer' = pointer
      /\ lastGamepadButtons' = (IF p.has THEN p.buttons ELSE lastGamepadButtons)
  BY DEF ReadPad, tables, world
<1>5. Tells(r) /\ axisDPadCounters' = r.counters
  <2>1. CASE p.has
    BY <2>1 DEF ReadPad
  <2>2. CASE ~p.has
    <3>1. Tells(St) /\ axisDPadCounters' = St.counters
      BY <2>2 DEF ReadPad
    <3>2. r = st
      BY <2>2
    <3> HIDE DEF st, r
    <3>3. QED
      BY <1>2, <3>1, <3>2 DEF Tells
  <2>3. QED
    BY <2>1, <2>2
<1>6. TablesInv'
  BY <1>1, <1>4, TablesStay
<1>7. StOK(r, held, lastGamepadButtons') /\ r.pad = p
      /\ (p.has => /\ \A i \in Four : r.counters[i] = Tilt(p, i)
                   /\ r.camera.xAxis = AxisValue(p, 1) /\ r.camera.yAxis = AxisValue(p, 2))
  <2>1. CASE p.has
    <3>1. r = HandlePad(st)
      BY <2>1
    <3> HIDE DEF st, r
    <3>2. /\ StOK(r, held, st.pad.buttons) /\ r.pad = st.pad
          /\ \A i \in Four : r.counters[i] = Tilt(st.pad, i)
          /\ r.camera.xAxis = AxisValue(st.pad, 1) /\ r.camera.yAxis = AxisValue(st.pad, 2)
      BY <1>1, <1>3, <3>1, PadHandled
    <3>3. lastGamepadButtons' = p.buttons
      BY <1>4, <2>1
    <3>4. QED
      BY <1>2, <3>2, <3>3
  <2>2. CASE ~p.has
    <3>1. r = st /\ lastGamepadButtons' = lastGamepadButtons
      BY <1>4, <2>2
    <3> HIDE DEF st, r
    <3>2. QED
      BY <1>2, <1>3, <2>2, <3>1
  <2>3. QED
    BY <2>1, <2>2
<1> HIDE DEF st, r
<1>8. r \in Sts
  BY <1>7 DEF StOK
<1>9. St' = r
  BY <1>4, <1>5, <1>7, <1>8, NowIs DEF Tells
<1>10. InputTypeInv'
  <2>1. p.buttons \subseteq Buttons
    BY DEF Pads
  <2>2. lastGamepadButtons' \subseteq Buttons
    BY <1>1, <1>4, <2>1
  <2>3. QED
    BY <1>1, <1>4, <1>8, <1>9, <2>2 DEF InputTypeInv
<1>11. ReadInv'
  <2>1. axisDPadCounters' = r.counters /\ camera' = r.camera
    BY <1>5 DEF Tells
  <2>2. ASSUME p.has
        PROVE  /\ lastGamepadButtons' = pad'.buttons
               /\ \A i \in Four : axisDPadCounters'[i] = Tilt(pad', i)
               /\ camera'.xAxis = AxisValue(pad', 1) /\ camera'.yAxis = AxisValue(pad', 2)
    BY <1>4, <1>7, <2>1, <2>2
  <2>3. QED
    BY <1>4, <2>2 DEF ReadInv
<1>12. StOK(St', held', lastGamepadButtons')
  BY <1>4, <1>7, <1>9
<1>13. QED
  BY <1>6, <1>10, <1>11, <1>12 DEF InputInv

\* A turn of the camera: the timers of the game and of the history go on together.
LEMMA CameraSees ==
  ASSUME NEW c \in Cameras, NEW dt \in Nat
  PROVE  LET r == See(c, dt) IN
         /\ r \in Cameras /\ r.moves = c.moves /\ r.xAxis = c.xAxis /\ r.yAxis = c.yAxis
         /\ r.zoomInTimer = Later(c.zoomInTimer, dt)
         /\ r.zoomInRepeating = Repeats(c.zoomInRepeating, Later(c.zoomInTimer, dt))
<1> DEFINE in  == Later(c.zoomInTimer, dt)
           out == Later(c.zoomOutTimer, dt)
           i   == Repeats(c.zoomInRepeating, in)
           o   == Repeats(c.zoomOutRepeating, out)
           z   == [c EXCEPT !.zoomInTimer = in, !.zoomInRepeating = i,
                            !.zoomOutTimer = out, !.zoomOutRepeating = o]
<1>1. c.zoomInTimer \in Nat /\ c.zoomOutTimer \in Nat /\ c.zoomInRepeating \in 0 .. 2 /\ c.zoomOutRepeating \in 0 .. 2
      /\ c.zoomLevel \in Int
  BY DEF Cameras
<1>2. in \in Nat /\ out \in Nat
  BY <1>1 DEF Later, RepeatDelay
<1>3. i \in 0 .. 2 /\ o \in 0 .. 2
  <2> HIDE DEF in, out
  <2>1. QED
    BY <1>1 DEF Repeats
<1>4. See(c, dt) = [z EXCEPT !.zoomLevel = Zoomed(z, dt)]
  BY DEF See
<1> HIDE DEF in, out, i, o
<1>5. z \in Cameras /\ z.moves = c.moves /\ z.xAxis = c.xAxis /\ z.yAxis = c.yAxis
      /\ z.zoomInTimer = in /\ z.zoomInRepeating = i
  <2>1. [c EXCEPT !.zoomInTimer = in] \in Cameras
    BY <1>2 DEF Cameras
  <2>2. \A y \in Cameras : [y EXCEPT !.zoomInRepeating = i] \in Cameras
    BY <1>3 DEF Cameras
  <2>3. \A y \in Cameras : [y EXCEPT !.zoomOutTimer = out] \in Cameras
    BY <1>2 DEF Cameras
  <2>4. \A y \in Cameras : [y EXCEPT !.zoomOutRepeating = o] \in Cameras
    BY <1>3 DEF Cameras
  <2>5. z = [[[[c EXCEPT !.zoomInTimer = in] EXCEPT !.zoomInRepeating = i]
                  EXCEPT !.zoomOutTimer = out] EXCEPT !.zoomOutRepeating = o]
    BY DEF Cameras
  <2>6. z \in Cameras
    <3> HIDE DEF z
    <3>1. QED
      BY <2>1, <2>2, <2>3, <2>4, <2>5
  <2>7. QED
    BY <2>6 DEF Cameras
<1> HIDE DEF z
<1>6. Zoomed(z, dt) \in Int
  <2> DEFINE l == IF z.zoomInRepeating = 2 THEN setZoomLevel(z.zoomLevel - dt)
                  ELSE IF z.zoomOutRepeating = 2 THEN setZoomLevel(z.zoomLevel + dt) ELSE z.zoomLevel
  <2>1. z.zoomLevel \in Int
    BY <1>5 DEF Cameras
  <2>2. \A m \in Int : m - dt \in Int /\ m + dt \in Int
    OBVIOUS
  <2>3. l \in Int
    BY <2>1, <2>2, ZoomLevels
  <2>4. Zoomed(z, dt) = IF z.zoomAxis > 10 THEN setZoomLevel(l - dt)
                        ELSE IF z.zoomAxis < -10 THEN setZoomLevel(l + dt) ELSE l
    BY DEF Zoomed
  <2> HIDE DEF l
  <2>5. QED
    BY <2>2, <2>3, <2>4, ZoomLevels
<1>7. PICK l \in Int : l = Zoomed(z, dt)
  BY <1>6
<1>8. See(c, dt) = [z EXCEPT !.zoomLevel = l]
  BY <1>4, <1>7
<1>9. /\ See(c, dt) \in Cameras /\ See(c, dt).moves = z.moves /\ See(c, dt).xAxis = z.xAxis
      /\ See(c, dt).yAxis = z.yAxis /\ See(c, dt).zoomInTimer = z.zoomInTimer
      /\ See(c, dt).zoomInRepeating = z.zoomInRepeating
  BY <1>5, <1>8 DEF Cameras
<1>10. QED
  BY <1>5, <1>9 DEF in, i

LEMMA SeeKeeps ==
  ASSUME InputInv, NEW deltaTime \in DeltaTimes, see(deltaTime)
  PROVE  InputInv'
<1>1. PICK dt \in Nat : camera' = See(camera, dt) /\ heard' = [heard EXCEPT !.since = Later(heard.since, dt)]
  <2>1. deltaTime \in Nat /\ 0 \in Nat
    BY InputAssumption
  <2>2. CASE deltaTime > 4
    BY <2>1, <2>2 DEF see
  <2>3. CASE ~(deltaTime > 4)
    BY <2>1, <2>3 DEF see
  <2>4. QED
    BY <2>2, <2>3
<1>2. /\ phase' = "poll" /\ UNCHANGED <<binds, callbacks, team>> /\ held' = held /\ pointer' = pointer
      /\ pad' = pad /\ lastGamepadButtons' = lastGamepadButtons
      /\ axisDPadCounters' = axisDPadCounters /\ excused' = excused
  BY DEF see, tables, world, padVars
<1>3. /\ StOK(St, held, lastGamepadButtons) /\ TablesInv /\ InputTypeInv /\ St \in Sts
  BY DEF InputInv, InputTypeInv
<1>4. /\ St.camera = camera /\ St.heard = heard /\ St.excused = excused
      /\ St.counters = axisDPadCounters /\ St.pad = pad
  BY DEF St
<1>5. camera \in Cameras /\ heard \in Hearings
  BY <1>3, <1>4 DEF Sts
<1>6. /\ camera' \in Cameras /\ camera'.moves = camera.moves
      /\ camera'.zoomInTimer = Later(camera.zoomInTimer, dt)
      /\ camera'.zoomInRepeating = Repeats(camera.zoomInRepeating, Later(camera.zoomInTimer, dt))
  BY <1>1, <1>5, CameraSees
<1>7. /\ heard' \in Hearings /\ heard'.told = heard.told /\ heard'.odd = heard.odd
      /\ heard'.twice = heard.twice /\ heard'.since = Later(heard.since, dt)
  <2>1. PICK t \in Nat : t = Later(heard.since, dt)
    BY <1>5 DEF Hearings, Later, RepeatDelay
  <2>2. QED
    BY <1>1, <1>5, <2>1 DEF Hearings
<1>8. /\ St'.camera = camera' /\ St'.heard = heard' /\ St'.excused = excused
      /\ St'.counters = axisDPadCounters /\ St'.pad = pad
  BY <1>2 DEF St
<1>9. St' \in Sts
  BY <1>2, <1>3, <1>4, <1>6, <1>7 DEF St, Sts
<1>10. ToldOf(St', held', lastGamepadButtons')
  <2>1. ToldOf(St, held, lastGamepadButtons)
    BY <1>3 DEF StOK
  <2>2. St'.heard.told = St.heard.told /\ St'.excused = St.excused /\ St'.counters = St.counters
    BY <1>4, <1>7, <1>8
  <2>3. QED
    BY <1>2, <2>1, <2>2 DEF ToldOf
<1>11. CameraOf(St', held')
  <2>1. CameraOf(St, held)
    BY <1>3 DEF StOK
  <2>2. camera.zoomInRepeating \in 0 .. 2 /\ camera.zoomInTimer \in Nat
    BY <1>5 DEF Cameras
  <2>3. camera'.zoomInRepeating # 0 <=> camera.zoomInRepeating # 0
    BY <1>6, <2>2 DEF Repeats
  <2>4. \A d \in Commands : On(St'.camera, d) <=> On(St.camera, d)
    BY <1>4, <1>6, <1>8, <2>3 DEF On
  <2>5. camera'.zoomInRepeating = 2 => camera'.zoomInTimer > RepeatDelay
    BY <1>4, <1>6, <2>1, <2>2 DEF CameraOf, Repeats, Later, RepeatDelay
  <2>6. camera'.zoomInTimer = heard'.since
    BY <1>4, <1>6, <1>7, <2>1 DEF CameraOf
  <2>7. QED
    BY <1>2, <1>4, <1>8, <2>1, <2>4, <2>5, <2>6 DEF CameraOf
<1>12. StOK(St', held', lastGamepadButtons')
  BY <1>3, <1>4, <1>7, <1>8, <1>9, <1>10, <1>11 DEF StOK
<1>13. InputTypeInv'
  BY <1>2, <1>3, <1>9 DEF InputTypeInv
<1>14. TablesInv'
  BY <1>2, <1>3, TablesStay
<1>15. ReadInv'
  BY <1>2 DEF ReadInv
<1>16. QED
  BY <1>12, <1>13, <1>14, <1>15 DEF InputInv

LEMMA TeamInitKeeps ==
  ASSUME InputInv, teamInit
  PROVE  InputInv'
<1> DEFINE t == Registered(TableNow, TeamScripts)
           n == Len(InitScripts)
<1>1. TableNow \in Tables /\ Registers(TableNow, n) /\ ~team
  BY DEF InputInv, TablesInv, teamInit
<1>2. /\ n \in Nat /\ Len(TeamScripts) \in Nat /\ n + Len(TeamScripts) <= Len(scripts)
      /\ n + Len(TeamScripts) = Len(scripts)
      /\ \A i \in 1 .. Len(TeamScripts) : TeamScripts[i] = scripts[n + i]
  BY ScriptsAre
<1>3. binds' = t.binds /\ callbacks' = t.callbacks /\ team' = TRUE
  BY DEF teamInit, TableNow
<1> HIDE DEF n
<1>4. t \in Tables /\ Registers(t, n + Len(TeamScripts))
  BY <1>1, <1>2, RegisteredAre
<1> HIDE DEF t
<1>5. TableNow' = t
  BY <1>3, <1>4 DEF TableNow, Tables
<1>6. TablesInv'
  BY <1>2, <1>3, <1>4, <1>5 DEF TablesInv
<1>7. /\ phase' = phase /\ held' = held /\ pointer' = pointer /\ pad' = pad
      /\ lastGamepadButtons' = lastGamepadButtons /\ axisDPadCounters' = axisDPadCounters
      /\ camera' = camera /\ heard' = heard /\ excused' = excused
  BY DEF teamInit, world, padVars
<1>8. St' = St
  BY <1>7 DEF St
<1>9. InputTypeInv'
  BY <1>3, <1>7, <1>8 DEF InputInv, InputTypeInv
<1>10. ReadInv'
  BY <1>7 DEF InputInv, ReadInv
<1>11. QED
  BY <1>6, <1>7, <1>8, <1>9, <1>10 DEF InputInv

\* A step that touches neither the tables nor what the game and the camera were told.
LEMMA NothingTold ==
  ASSUME InputInv, UNCHANGED <<phase, binds, callbacks, team, held, padVars, camera, heard, excused>>,
         pointer' \in [over : {"page", "button"}, pressed : BOOLEAN]
  PROVE  InputInv'
<1>1. /\ phase' = phase /\ held' = held /\ pad' = pad /\ team' = team
      /\ lastGamepadButtons' = lastGamepadButtons /\ axisDPadCounters' = axisDPadCounters
      /\ camera' = camera /\ heard' = heard /\ excused' = excused
  BY DEF padVars
<1>2. St' = St
  BY <1>1 DEF St
<1>3. TablesInv'
  BY TablesStay DEF InputInv
<1>4. InputTypeInv'
  BY <1>1, <1>2 DEF InputInv, InputTypeInv
<1>5. ReadInv'
  BY <1>1 DEF InputInv, ReadInv
<1>6. QED
  BY <1>1, <1>2, <1>3, <1>4, <1>5 DEF InputInv

LEMMA NextInput == InputInv /\ [InputNext]_inputVars => InputInv'
<1> SUFFICES ASSUME InputInv, [InputNext]_inputVars PROVE InputInv'
  OBVIOUS
<1>1. ASSUME NEW k \in Keys, NEW action \in {"press", "repeat", "release"}, onKeyPress(k, action)
      PROVE  InputInv'
  <2>1. StOK(St', held', lastGamepadButtons') /\ held' \subseteq Held
    <3>1. k \in Held
      BY DEF Held
    <3>2. CASE action = "repeat"
      BY <1>1, <3>1, <3>2, HeldMoves DEF onKeyPress
    <3>3. CASE action # "repeat" /\ focused
      BY <1>1, <3>1, <3>3, HeldMoves DEF onKeyPress
    <3>4. CASE action # "repeat" /\ ~focused
      BY <1>1, <3>1, <3>4, HeldMoves DEF onKeyPress
    <3>5. QED
      BY <3>2, <3>3, <3>4
  <2>2. /\ phase' = phase /\ phase = "poll" /\ UNCHANGED <<binds, callbacks, team>> /\ pointer' = pointer
        /\ lastGamepadButtons' = lastGamepadButtons
    BY <1>1 DEF onKeyPress, tables, padVars
  <2>3. TablesInv'
    BY <2>2, TablesStay DEF InputInv
  <2>4. InputTypeInv'
    BY <2>1, <2>2 DEF InputInv, InputTypeInv, StOK
  <2>5. ReadInv'
    BY <2>2 DEF ReadInv
  <2>6. QED
    BY <2>1, <2>3, <2>4, <2>5 DEF InputInv
<1>2. ASSUME NEW b \in MouseButtons, NEW action \in {"press", "release"}, onMousePress(b, action)
      PROVE  InputInv'
  <2>1. StOK(St', held', lastGamepadButtons') /\ held' \subseteq Held
    <3>1. b \in Held /\ action \in {"press", "repeat", "release"} /\ action # "repeat"
      BY <1>2 DEF Held, onMousePress
    <3>2. CASE Clicks(action) \/ focused
      BY <1>2, <3>1, <3>2, HeldMoves DEF onMousePress
    <3>3. CASE ~(Clicks(action) \/ focused)
      BY <1>2, <3>1, <3>3, HeldMoves DEF onMousePress
    <3>4. QED
      BY <3>2, <3>3
  <2>2. /\ phase' = phase /\ phase = "poll" /\ UNCHANGED <<binds, callbacks, team>>
        /\ lastGamepadButtons' = lastGamepadButtons
        /\ pointer' = [pointer EXCEPT !.pressed = action = "press" /\ pointer.over = "button"]
    BY <1>2 DEF onMousePress, tables, padVars
  <2>3. TablesInv'
    BY <2>2, TablesStay DEF InputInv
  <2>4. pointer' \in [over : {"page", "button"}, pressed : BOOLEAN]
    <3>1. (action = "press" /\ pointer.over = "button") \in BOOLEAN
      OBVIOUS
    <3>2. QED
      BY <2>2, <3>1 DEF InputInv, InputTypeInv
  <2>5. InputTypeInv'
    BY <2>1, <2>2, <2>4 DEF InputInv, InputTypeInv, StOK
  <2>6. ReadInv'
    BY <2>2 DEF ReadInv
  <2>7. QED
    BY <2>1, <2>3, <2>5, <2>6 DEF InputInv
<1>3. ASSUME NEW e \in {"page", "button"}, onMouseMove(e) PROVE InputInv'
  BY <1>3, NothingTold DEF onMouseMove, tables
<1>4. CASE Focus
  BY <1>4, NothingTold DEF Focus, tables, InputInv, InputTypeInv
<1>5. CASE Poll
  <2>1. CASE ReadPad(NoPad)
    <3>1. NoPad \in Pads
      BY DEF NoPad, Pads, Four
    <3>2. QED
      BY <2>1, <3>1, PadReads
  <2>2. ASSUME NEW axes \in Sticks, NEW buttons \in SUBSET Buttons,
               ReadPad([has |-> TRUE, axes |-> axes, buttons |-> buttons])
        PROVE  InputInv'
    <3>1. axes \in [Four -> Int]
      <4>1. axes \in [Four -> -100 .. 100]
        BY InputAssumption DEF Four
      <4>2. -100 .. 100 \subseteq Int
        OBVIOUS
      <4>3. QED
        BY <4>1, <4>2
    <3>2. [has |-> TRUE, axes |-> axes, buttons |-> buttons] \in Pads
      BY <3>1 DEF Pads
    <3>3. QED
      BY <2>2, <3>2, PadReads
  <2>3. QED
    BY <1>5, <2>1, <2>2 DEF Poll
<1>6. CASE RefusedPoll
  <2>1. pad \in Pads
    BY DEF InputInv, InputTypeInv, Sts, St
  <2>2. QED
    BY <1>6, <2>1, PadReads DEF RefusedPoll
<1>7. CASE teamInit
  BY <1>7, TeamInitKeeps
<1>8. ASSUME NEW o \in Objects, deleteObject(o) PROVE InputInv'
  BY <1>8, NothingTold DEF deleteObject, world, InputInv, InputTypeInv
<1>9. ASSUME NEW dt \in DeltaTimes, see(dt) PROVE InputInv'
  BY <1>9, SeeKeeps
<1>10. CASE UNCHANGED inputVars
  BY <1>10, NothingTold DEF inputVars, padVars, InputInv, InputTypeInv
<1>11. QED
  BY <1>1, <1>2, <1>3, <1>4, <1>5, <1>6, <1>7, <1>8, <1>9, <1>10 DEF InputNext


-----------------------------------------------------------------------------
(* What the player can count on. *)

\* A command of the camera is bound to its key.
LEMMA BoundToKeys ==
  ASSUME TablesInv, NEW d \in Commands
  PROVE  BoundTo(d) = KeysOf(d)
<1>1. ASSUME NEW s \in Sources PROVE d \in Range(binds[s]) <=> s \in KeysOf(d)
  <2>1. binds[s] \in Seq(Names)
    BY DEF TablesInv, TableNow, Tables
  <2>2. DOMAIN binds[s] = 1 .. Len(binds[s])
    BY <2>1, LenProperties
  <2>3. QED
    BY <2>2, GivenCommands DEF Range
<1>2. QED
  BY <1>1 DEF BoundTo, KeysOf

\* Camera::onBind(), onAxis() and see() together: after every turn in which the pad was
\* read, each direction and the zoom are on exactly while the key they are bound to is
\* down, unless the console kept its last event from the game, and zooming in repeats no
\* earlier than the delay after the press.
THEOREM CameraAlwaysTruthful == InputSpec => []CameraTruthful
<1>1. InputInv => CameraTruthful
  <2>1. SUFFICES ASSUME InputInv, phase = "tick" PROVE CameraTruthful
    BY DEF CameraTruthful
  <2>2. TablesInv /\ CameraOf(St, held) /\ ReadInv
    BY <2>1 DEF InputInv, StOK
  <2>3. St.camera = camera /\ St.heard = heard /\ St.excused = excused
    BY DEF St
  <2>4. ASSUME NEW d \in Commands, ~Excused(d)
        PROVE  On(camera, d) <=> BoundTo(d) \cap held # {}
    <3>1. BoundTo(d) = KeysOf(d)
      BY <2>2, BoundToKeys
    <3>2. QED
      BY <2>2, <2>3, <2>4, <3>1 DEF CameraOf, Excused
  <2>5. ASSUME NEW d \in Directions, ~Excused(d)
        PROVE  d \in camera.moves <=> BoundTo(d) \cap held # {}
    <3>1. d \in Commands /\ d # "camera.zoomIn"
      BY DEF Commands, Directions
    <3>2. QED
      BY <2>4, <2>5, <3>1 DEF On
  <2>6. ASSUME ~Excused("camera.zoomIn")
        PROVE  camera.zoomInRepeating # 0 <=> BoundTo("camera.zoomIn") \cap held # {}
    <3>1. "camera.zoomIn" \in Commands
      BY DEF Commands
    <3>2. QED
      BY <2>4, <2>6, <3>1 DEF On
  <2>7. camera.zoomInRepeating = 2 => heard.since > RepeatDelay
    BY <2>2, <2>3 DEF CameraOf
  <2>8. pad.has => camera.xAxis = AxisValue(pad, 1) /\ camera.yAxis = AxisValue(pad, 2)
    BY <2>1, <2>2 DEF ReadInv
  <2>9. QED
    BY <2>5, <2>6, <2>7, <2>8 DEF CameraTruthful
<1>2. QED
  BY <1>1, InitInput, NextInput, PTL DEF InputSpec

\* Whatever a pad that comes and goes, a stick pushed right over, a click the page kept or
\* the console did, nobody who listens to a source is told of two presses in a row or of
\* the release of one that was not pressed.
THEOREM EventsAlwaysAlternate == InputSpec => []EventsAlternate
<1>1. InputInv => EventsAlternate
  BY DEF InputInv, StOK, EventsAlternate, St
<1>2. QED
  BY <1>1, InitInput, NextInput, PTL DEF InputSpec

\* What Engine::tick() has told of as pressed is what GLFW reports as down: the keys, the
\* buttons of a pad that is there, and at most the one simulated button its stick is
\* tilted to.
THEOREM ToldAlwaysHeld == InputSpec => []ToldIsHeld
<1>1. InputInv => ToldIsHeld
  <2>1. SUFFICES ASSUME InputInv, phase = "tick" PROVE ToldIsHeld
    BY DEF ToldIsHeld
  <2>2. ToldOf(St, held, lastGamepadButtons) /\ ReadInv /\ St \in Sts
    BY <2>1 DEF InputInv, StOK
  <2>3. St.heard = heard /\ St.excused = excused /\ St.counters = axisDPadCounters /\ St.pad = pad
    BY DEF St
  <2>4. \A s \in Held \ excused : s \in heard.told <=> s \in held
    BY <2>2, <2>3 DEF ToldOf
  <2>5. ASSUME pad.has PROVE heard.told \cap Buttons = pad.buttons
    <3>1. pad.buttons \subseteq Buttons
      BY <2>2, <2>3 DEF Sts, Pads
    <3>2. \A b \in Buttons : b \in heard.told <=> b \in pad.buttons
      BY <2>1, <2>2, <2>3, <2>5 DEF ToldOf, ReadInv
    <3>3. QED
      BY <3>1, <3>2
  <2>6. ASSUME pad.has, NEW i \in 1 .. Len(Axes), NEW s \in DPad(i) \cap heard.told
        PROVE  s = Tilt(pad, i)
    <3>1. i \in Four
      BY DEF Four
    <3>2. axisDPadCounters[i] = s
      BY <2>2, <2>3, <2>6, <3>1 DEF ToldOf
    <3>3. axisDPadCounters[i] = Tilt(pad, i)
      BY <2>1, <2>2, <2>6, <3>1 DEF ReadInv
    <3>4. QED
      BY <3>2, <3>3
  <2>7. QED
    BY <2>4, <2>5, <2>6 DEF ToldIsHeld, Held
<1>2. QED
  BY <1>1, InitInput, NextInput, PTL DEF InputSpec

\* No press or release calls a callback twice, whichever objects scripts made and deleted
\* and whatever teamInit() has added.
THEOREM AlwaysOncePerEvent == InputSpec => []OncePerEvent
<1>1. InputInv => OncePerEvent
  BY DEF InputInv, StOK, OncePerEvent, St
<1>2. QED
  BY <1>1, InitInput, NextInput, PTL DEF InputSpec
=============================================================================
