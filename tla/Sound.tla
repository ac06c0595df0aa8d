-------------------------------- MODULE Sound --------------------------------
(***************************************************************************)
(* One sound and the threads that play it.  Each call of play() detaches a *)
(* thread that feeds a source of OpenAL: it queues the buffers that every  *)
(* playing of the sound shares, and from then on takes what the source has *)
(* played from the front of the queue, fills it with the next piece of the *)
(* file and puts it at the back.  When it ends it hands its context to a   *)
(* list, which the engine's loop empties with little locking.              *)
(*                                                                         *)
(* A piece is what one buffer holds; a piece that has been heard was heard *)
(* to its end.  OpenAL is external: a source that has played all it has in *)
(* its queue stops, and what is queued later does not start it again.      *)
(***************************************************************************)
EXTENDS Integers, Sequences

CONSTANTS
  Plays,    \* the calls of play(), each with its thread, source and context
  MaxFull   \* bound: the most full pieces the file has

ASSUME SoundAssumption ==
  /\ MaxFull \in Nat
  /\ "sound" \notin Plays   \* it is the owner of the shared buffers

SOUND_BUFFER_COUNT          == 2
SOUND_BUFFER_CIRCULAR_COUNT == 2

Buffers == (Plays \cup {"sound"}) \X (1 .. SOUND_BUFFER_COUNT)
Preloaded(i) == <<"sound", i>>

VARIABLES
  file,      \* its full pieces, and whether a shorter one follows them
  content,   \* the number of the piece in each buffer, 0 for no sound
  thread,    \* _play(): where it is, and its locals
  source,    \* the source of each thread: its queue, what it has played of it
  finished,  \* finishedThreads
  tick,      \* Engine::tick: where it is, the size it has read, what it has deleted
  history    \* pieces heard, whether a source ran dry or a read failed, contexts deleted

vars == <<file, content, thread, source, finished, tick, history>>

pieces == file.full + (IF file.rest THEN 1 ELSE 0)
filled == file.full >= SOUND_BUFFER_COUNT
bufferCount == file.full + 1   \* unless filled

\* The constructor has read the first pieces.
Init ==
  /\ file \in [full : 0 .. MaxFull, rest : BOOLEAN]
  /\ content = [b \in Buffers |-> IF b[1] = "sound" /\ b[2] <= pieces THEN b[2] ELSE 0]
  /\ thread = [t \in Plays |->
       [pc |-> "none", state |-> "playing", bufferIndex |-> -SOUND_BUFFER_COUNT,
        next |-> SOUND_BUFFER_COUNT + 1, done |-> FALSE, popped |-> Preloaded(1)]]
  /\ source = [t \in Plays |-> [queue |-> <<>>, processed |-> 0, state |-> "initial"]]
  /\ finished = <<>>
  /\ tick = [pc |-> "idle", size |-> 0, deleted |-> 0]
  /\ history = [t \in Plays |->
       [heard |-> <<>>, dry |-> FALSE, failed |-> FALSE, deletions |-> 0]]

Goes(t, pc) == thread' = [thread EXCEPT ![t].pc = pc]

\* play(), from the loop of the engine.
play(t) ==
  /\ thread[t].pc = "none"
  /\ Goes(t, "begin")
  /\ UNCHANGED <<file, content, source, finished, tick, history>>

\* The thread up to its loop: buffers are queued and the source plays.
Begins(t) ==
  LET queued == IF filled THEN SOUND_BUFFER_CIRCULAR_COUNT ELSE bufferCount IN
  /\ thread[t].pc = "begin"
  /\ source' = [source EXCEPT ![t] = [queue |-> [i \in 1 .. queued |-> Preloaded(i)],
                                      processed |-> 0, state |-> "playing"]]
  /\ Goes(t, IF filled THEN "loop" ELSE "wait")
  /\ UNCHANGED <<file, content, finished, tick, history>>

\* The device has played the next buffer of a source to its end.
DevicePlays(t) ==
  LET s == source[t]
      piece == content[s.queue[s.processed + 1]]
      stops == s.processed + 1 = Len(s.queue)
  IN
  /\ s.state = "playing"
  /\ source' = [source EXCEPT ![t].processed = @ + 1, ![t].state = IF stops THEN "stopped" ELSE @]
  /\ history' = [history EXCEPT
       ![t].heard = IF piece = 0 THEN @ ELSE Append(@, piece),
       ![t].dry   = @ \/ (stops /\ filled /\ ~thread[t].done)]
  /\ UNCHANGED <<file, content, thread, finished, tick>>

\* The loop of a sound that its preloaded buffers hold.
Waits(t) ==
  /\ thread[t].pc = "wait"
  /\ Goes(t, IF source[t].state = "playing" THEN "wait" ELSE "end")
  /\ UNCHANGED <<file, content, source, finished, tick, history>>

\* Mutant: the state is what it was when the source began.
LooksAtState_Once(t) ==
  /\ thread[t].pc = "loop"
  /\ Goes(t, "count")
  /\ UNCHANGED <<file, content, source, finished, tick, history>>

\* The head of the streaming loop, and the state for the next time it is tested.
LooksAtState(t) ==
  /\ thread[t].pc = "loop"
  /\ thread' = [thread EXCEPT
       ![t].state = source[t].state,
       ![t].pc = IF thread[t].state = "playing" THEN "count" ELSE "end"]
  /\ UNCHANGED <<file, content, source, finished, tick, history>>

\* Nothing has been played since: the thread sleeps.
Sleeps(t) ==
  /\ thread[t].pc = "count" /\ source[t].processed = 0
  /\ Goes(t, "loop")
  /\ UNCHANGED <<file, content, source, finished, tick, history>>

\* The buffer to fill: the first ones to be taken from the queue are shared, and
\* buffers of the thread's own go in their place.
Replacement(t) ==
  LET i == thread[t].bufferIndex IN
  IF i < 0 THEN <<t, i + SOUND_BUFFER_COUNT + 1>> ELSE Head(source[t].queue)

Unqueues(t) ==
  /\ thread[t].pc = "count" /\ source[t].processed > 0
  /\ source' = [source EXCEPT ![t].queue = Tail(@), ![t].processed = @ - 1]
  /\ thread' = [thread EXCEPT
       ![t].pc = IF thread[t].done THEN "end" ELSE "fill",
       ![t].popped = IF thread[t].done THEN @ ELSE Replacement(t),
       ![t].bufferIndex = IF @ < 0 /\ ~thread[t].done THEN @ + 1 ELSE @]
  /\ UNCHANGED <<file, content, finished, tick, history>>

\* Mutant: the last full piece is taken for the end.
EndOfFile_OneEarly(n) == n >= file.full

EndOfFile(n) == n > file.full

\* readIntoBuffer(), alBufferData() and alSourceQueueBuffers().  Less than a buffer, or
\* nothing, is the end of the file.  So is an error, since the result is unsigned: its
\* size is refused by alBufferData(), and the buffer goes back with what it held.
Fills(t, fails) ==
  LET n == thread[t].next IN
  /\ thread[t].pc = "fill"
  /\ content' = IF fails THEN content
                ELSE [content EXCEPT ![thread[t].popped] = IF n <= pieces THEN n ELSE 0]
  /\ source' = [source EXCEPT ![t].queue = Append(@, thread[t].popped)]
  /\ thread' = [thread EXCEPT ![t].next = @ + 1, ![t].done = fails \/ EndOfFile(n),
                              ![t].pc = "loop"]
  /\ history' = [history EXCEPT ![t].failed = @ \/ fails]
  /\ UNCHANGED <<file, finished, tick>>

\* alDeleteSources(), whatever is still in the queue.
Ends(t) ==
  /\ thread[t].pc = "end"
  /\ source' = [source EXCEPT ![t].state = "deleted"]
  /\ Goes(t, "finish")
  /\ UNCHANGED <<file, content, finished, tick, history>>

\* finishThread(), under the lock.
finishThread(t) ==
  /\ thread[t].pc = "finish"
  /\ finished' = Append(finished, t)
  /\ Goes(t, "gone")
  /\ UNCHANGED <<file, content, source, tick, history>>

-----------------------------------------------------------------------------
(* Engine::tick: the size and the contexts are read without the lock.      *)

TickReadsSize ==
  /\ tick.pc = "idle"
  /\ tick' = [pc |-> "delete", size |-> Len(finished), deleted |-> 0]
  /\ UNCHANGED <<file, content, thread, source, finished, history>>

TickDeletes ==
  /\ tick.pc = "delete" /\ tick.deleted < tick.size
  /\ tick' = [tick EXCEPT !.deleted = @ + 1]
  /\ history' = [history EXCEPT ![finished[tick.deleted + 1]].deletions = @ + 1]
  /\ UNCHANGED <<file, content, thread, source, finished>>

\* Mutant: the list is cleared.
TickPops_All ==
  /\ tick.pc = "delete" /\ tick.deleted = tick.size
  /\ finished' = <<>>
  /\ tick' = [pc |-> "idle", size |-> 0, deleted |-> 0]
  /\ UNCHANGED <<file, content, thread, source, history>>

\* The lock is held for all of it.
TickPops ==
  /\ tick.pc = "delete" /\ tick.deleted = tick.size
  /\ finished' = SubSeq(finished, tick.size + 1, Len(finished))
  /\ tick' = [pc |-> "idle", size |-> 0, deleted |-> 0]
  /\ UNCHANGED <<file, content, thread, source, history>>

_play(t) ==
  \/ Begins(t)
  \/ Waits(t)
  \/ LooksAtState(t)
  \/ Sleeps(t)
  \/ Unqueues(t)
  \/ \E fails \in BOOLEAN : Fills(t, fails)
  \/ Ends(t)
  \/ finishThread(t)

Next ==
  \/ \E t \in Plays : play(t) \/ _play(t) \/ DevicePlays(t)
  \/ TickReadsSize
  \/ TickDeletes
  \/ TickPops

(* The threads and the device run; the engine calls tick() in every turn.  *)
Fairness ==
  /\ \A t \in Plays : WF_vars(_play(t)) /\ WF_vars(DevicePlays(t))
  /\ WF_vars(TickReadsSize \/ TickDeletes \/ TickPops)

Spec == Init /\ [][Next]_vars /\ Fairness

-----------------------------------------------------------------------------
(* Properties. *)

\* Every thread hears the file from its beginning, piece after piece and none twice,
\* though all of them begin with the same buffers, and each fills and queues its own
\* while the others are heard: until a read fails, whose buffer holds an older piece.
HeardInOrder ==
  \A t \in Plays :
    ~history[t].failed => history[t].heard = [i \in 1 .. Len(history[t].heard) |-> i]

\* A thread that ends has let every full piece be heard to its end, unless its source
\* ran dry while it slept; a short file is always heard as a whole.  The shorter piece
\* at the end of a long file is cut off: the loop ends when the one before it is over.
FullPiecesHeard ==
  \A t \in Plays :
    thread[t].pc \in {"end", "finish", "gone"} /\ ~history[t].failed =>
      \/ history[t].dry
      \/ Len(history[t].heard) >= (IF filled THEN file.full ELSE pieces)

\* What is heard of a file: its pieces in order, none twice, and all of the full ones.
HeardAsRead == HeardInOrder /\ FullPiecesHeard

\* The places in the list that tick() has not deleted yet.
Awaiting == {i \in 1 .. Len(finished) : i > tick.deleted}
Waiting(t) == \E i \in Awaiting : finished[i] = t

\* A context is deleted once, and only when its thread has ended; until then it waits in
\* the list, once, whatever threads append to it between the unlocked reads of tick().
ContextsOnce ==
  /\ \A i, j \in Awaiting : finished[i] = finished[j] => i = j
  /\ \A i \in Awaiting : thread[finished[i]].pc = "gone"
  /\ \A t \in Plays :
       history[t].deletions = IF thread[t].pc = "gone" /\ ~Waiting(t) THEN 1 ELSE 0

\* Every playing of a sound ends and gives its context back.
PlayingEnds == \A t \in Plays : thread[t].pc # "none" ~> history[t].deletions = 1
=============================================================================
