------------------------------ MODULE Resources ------------------------------
(***************************************************************************)
(* ResourceManager: the carton (the one file the game's data is packed     *)
(* in), the resources loaded from it, and the hot reload, which tick()     *)
(* starts when the carton's hash is not that of the file, and scripts with *)
(* hotReload().  The packer writes the file whenever it likes: in place,   *)
(* which inotify reports, or as a new file put in its place, which ends    *)
(* the watch.                                                              *)
(*                                                                         *)
(* The carton's reader, inotify and the packer are external.  A version    *)
(* stands for the content of every file in the carton and for its md5; a   *)
(* carton that is being written is a version of its own.  Every version    *)
(* has the same files.                                                     *)
(***************************************************************************)
EXTENDS Integers, FiniteSets

CONSTANTS
  Files,       \* the files in the carton
  Reloading,   \* those whose resource implements reload(): HTML, CSS, scripts, texts
  Streamed,    \* sounds, which the sound engine makes itself and the loop does not look up
  Script,      \* scripts/main.egg, which onReload() executes
  Addresses,   \* where the carton's Metadata can be allocated
  Versions,
  Partial,     \* the version of a carton that is being written
  Null,
  MaxWrites    \* bound: how often the file is written

ASSUME ResourcesAssumption ==
  /\ Reloading \subseteq Files /\ Script \in Reloading
  /\ Streamed \subseteq Files \ Reloading
  /\ Partial \notin Versions /\ Null \notin Files /\ Null \notin Addresses

VARIABLES
  disk,        \* the version in the file
  watched,     \* the watch is on the file that has the name
  event,       \* inotify has an event to read
  writes,
  pc,          \* of the loop: "idle", "hash", "compare", "open", "objects"
  quiet,       \* 100 ms have passed since lastEvent
  hash, hashed,
  cartonHash,  \* carton->hash
  address,     \* the carton's database: the Metadata of each file
  objects,     \* the files whose resource has been made; callers load each once
  metadata,    \* ResourceObject::metadata
  contents,    \* the version the data of a resource is from
  todo,        \* resources the loop of reload() has not come to
  metadataToResource,
  executed,    \* the version of the script that was executed last
  rewritten    \* history: a version was written again while the carton had it

fileVars == <<disk, watched, writes, rewritten>>
hashVars == <<quiet, hash, hashed>>
cartonVars == <<cartonHash, address, objects, metadata, contents, todo, metadataToResource, executed>>
resourcesVars == <<fileVars, event, pc, hashVars, cartonVars>>

Databases == {a \in [Files -> Addresses] : \A f, g \in Files : f # g => a[f] # a[g]}

\* metadataToResources() of a query for the name: a file that was never loaded finds
\* what the map has for its address, which an older carton may have put there.
lookUp(f) == metadataToResource[address[f]]

\* init(), the sounds made, and main.egg loaded and executed.  Making a sound enters it
\* in the set of objects and not in the map.
ResourcesInit ==
  /\ disk \in Versions /\ watched = TRUE /\ event = FALSE /\ writes = 0 /\ rewritten = FALSE
  /\ pc = "idle" /\ quiet = TRUE /\ hash = disk /\ hashed = FALSE
  /\ cartonHash = disk /\ address \in Databases
  /\ objects = Streamed \cup {Script}
  /\ metadata = [f \in Files |-> IF f \in objects THEN address[f] ELSE Null]
  /\ contents = [f \in Files |-> IF f \in objects THEN disk ELSE Null]
  /\ todo = {}
  /\ metadataToResource = [a \in Addresses |-> IF a = address[Script] THEN Script ELSE Null]
  /\ executed = disk

------------------------------------------------------------------------------
(* The packer, and time.                                                   *)

Write(v) == disk' = v /\ writes' = writes + 1 /\ rewritten' = (rewritten \/ v = cartonHash)

StartWrite ==
  /\ disk # Partial /\ writes < MaxWrites
  /\ Write(Partial)
  /\ event' = (event \/ watched)
  /\ UNCHANGED <<watched, pc, hashVars, cartonVars>>

EndWrite ==
  /\ disk = Partial
  /\ \E v \in Versions : Write(v)
  /\ event' = (event \/ watched)
  /\ UNCHANGED <<watched, pc, hashVars, cartonVars>>

\* The file that was watched goes; that the watch has ended is an event too, which
\* comes when nothing has the old file open.
Replace ==
  /\ disk # Partial /\ writes < MaxWrites
  /\ \E v \in Versions : Write(v)
  /\ watched' = FALSE
  /\ event' \in {event, event \/ watched}
  /\ UNCHANGED <<pc, hashVars, cartonVars>>

Wait ==
  /\ pc = "idle" /\ ~quiet
  /\ quiet' = TRUE
  /\ UNCHANGED <<fileVars, event, pc, hash, hashed, cartonVars>>

------------------------------------------------------------------------------
(* tick().                                                                 *)

\* A file that has been hashed once is known.
readEvents_KeepsHashed ==
  /\ pc = "idle" /\ pc' = "hash"
  /\ event' = FALSE
  /\ quiet' = (quiet /\ ~event)
  /\ UNCHANGED <<fileVars, hash, hashed, cartonVars>>

readEvents ==
  /\ pc = "idle" /\ pc' = "hash"
  /\ event' = FALSE
  /\ IF event THEN quiet' = FALSE /\ hashed' = FALSE ELSE UNCHANGED <<quiet, hashed>>
  /\ UNCHANGED <<fileVars, hash, cartonVars>>

md5hash ==
  /\ pc = "hash" /\ pc' = "compare"
  /\ IF quiet /\ ~hashed THEN hash' = disk /\ hashed' = TRUE ELSE UNCHANGED <<hash, hashed>>
  /\ UNCHANGED <<fileVars, event, quiet, cartonVars>>

compare ==
  /\ pc = "compare"
  /\ pc' = IF cartonHash = hash THEN "idle" ELSE "open"
  /\ UNCHANGED <<fileVars, event, hashVars, cartonVars>>

\* A script, in esTick().
hotReload ==
  /\ pc = "idle" /\ pc' = "open"
  /\ UNCHANGED <<fileVars, event, hashVars, cartonVars>>

------------------------------------------------------------------------------
(* reload().  Deleting the carton frees its Metadata, so that the new ones *)
(* can have the same addresses, in any order; the map keeps the old keys.  *)

openCarton ==
  /\ pc = "open" /\ pc' = "objects"
  /\ cartonHash' = disk
  /\ address' \in Databases
  /\ todo' = objects
  /\ UNCHANGED <<fileVars, event, hashVars, objects, metadata, contents, metadataToResource, executed>>

\* A resource whose Metadata is where it was is left as it is.
reloadObject_IfMoved(f) ==
  /\ pc = "objects" /\ f \in todo
  /\ todo' = todo \ {f}
  /\ metadataToResource' = [metadataToResource EXCEPT ![address[f]] = f]
  /\ metadata' = [metadata EXCEPT ![f] = address[f]]
  /\ contents' = IF f \in Reloading /\ metadata[f] # address[f]
                 THEN [contents EXCEPT ![f] = disk] ELSE contents
  /\ UNCHANGED <<fileVars, event, pc, hashVars, cartonHash, address, objects, executed>>

\* Only an address that is new to the map is written to it.
reloadObject_IfUnknown(f) ==
  /\ pc = "objects" /\ f \in todo
  /\ todo' = todo \ {f}
  /\ metadataToResource' =
       IF lookUp(f) = Null THEN [metadataToResource EXCEPT ![address[f]] = f] ELSE metadataToResource
  /\ metadata' = [metadata EXCEPT ![f] = address[f]]
  /\ contents' = IF f \in Reloading THEN [contents EXCEPT ![f] = disk] ELSE contents
  /\ UNCHANGED <<fileVars, event, pc, hashVars, cartonHash, address, objects, executed>>

\* One resource, in the order of the set of pointers; its data is read from the file as
\* it is now.
reloadObject(f) ==
  /\ pc = "objects" /\ f \in todo
  /\ todo' = todo \ {f}
  /\ metadataToResource' = [metadataToResource EXCEPT ![address[f]] = f]
  /\ metadata' = [metadata EXCEPT ![f] = address[f]]
  /\ contents' = IF f \in Reloading THEN [contents EXCEPT ![f] = disk] ELSE contents
  /\ UNCHANGED <<fileVars, event, pc, hashVars, cartonHash, address, objects, executed>>

\* onReload() looks the script up and executes it, which loads nothing (the new carton
\* has no handlers yet, so that a file it loaded would find no resource).
onReload ==
  /\ pc = "objects" /\ todo = {} /\ pc' = "idle"
  /\ executed' = contents[lookUp(Script)]
  /\ UNCHANGED <<fileVars, event, hashVars, cartonHash, address, objects, metadata, contents,
                 todo, metadataToResource>>

\* loadResources(), for a file its callers have not loaded before.
loadResource(f) ==
  /\ pc = "idle" /\ f \notin objects
  /\ objects' = objects \cup {f}
  /\ metadata' = [metadata EXCEPT ![f] = address[f]]
  /\ contents' = [contents EXCEPT ![f] = disk]
  /\ metadataToResource' = [metadataToResource EXCEPT ![address[f]] = f]
  /\ UNCHANGED <<fileVars, event, pc, hashVars, cartonHash, address, todo, executed>>

managerTick == readEvents \/ md5hash \/ compare
reload == openCarton \/ onReload \/ \E f \in Files : reloadObject(f)

ResourcesNext ==
  \/ StartWrite \/ EndWrite \/ Replace \/ Wait
  \/ managerTick \/ hotReload \/ reload
  \/ \E f \in Files : loadResource(f)

\* The packer ends what it starts, time passes, the loop turns and a reload ends.
ResourcesFairness ==
  /\ WF_resourcesVars(EndWrite) /\ SF_resourcesVars(Wait)
  /\ WF_resourcesVars(managerTick) /\ WF_resourcesVars(reload)

ResourcesSpec == ResourcesInit /\ [][ResourcesNext]_resourcesVars /\ ResourcesFairness

------------------------------------------------------------------------------
\* A file that has been loaded is found as the resource that was made for it, and every
\* resource points to the Metadata of the carton there is, although a reload frees them
\* all and their addresses may be dealt out again to other files.
LoadedFound ==
  pc # "objects" =>
    \A f \in objects : metadata[f] = address[f] /\ (f \notin Streamed => lookUp(f) = f)

Fresh == \A f \in objects \cap Reloading : contents[f] = disk

\* Once the packer rests, what can be reloaded is what the file has, and so is the
\* script that was executed last: a file that changes again between the hash, the
\* carton and its resources is caught by the next event.  The exceptions are a file
\* that is not watched any more, and a version that is written again while the carton
\* has it: the hashes agree, and what was read in between stays.
FreshInTheEnd ==
  <>[](watched /\ ~rewritten => disk # Partial /\ (pc = "idle" => Fresh /\ executed = disk))

\* Reloading comes to an end while the file is watched and scripts do not ask for it:
\* the carton's hash and the hash of the file meet.
ReloadsEnd == <>[](watched => pc # "open") \/ []<><<hotReload>>_resourcesVars
==============================================================================
