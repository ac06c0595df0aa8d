# A verification of eggine in TLA+

eggine is a game engine in C++ with one game on top of it: a turn-based tactics
game on isometric tiles. This directory holds TLA+ models of the parts of it
whose control is hard to test, the TLC configurations that check them on small
instances, and proofs, checked by TLAPS, that the main properties hold for every
size. Paths below are relative to the repository.

Contents: [the system](#the-system), [the plan](#the-plan),
[GPU memory](#gpu-memory-memorypage), [packets](#packets-packethandler),
[connections](#connections-connections),
[replication](#replication-replication), [shared packets](#shared-packets-sharedpackets),
[vertex buffers](#vertex-buffers-vertexbuffer), [drawing](#drawing-draws),
[input](#input-engineinput), [the game](#the-game-battle), [sound](#sound-sound),
[resources](#resources-resources), [the runs](#the-runs),
[the proofs](#the-proofs), [what is not modelled](#what-is-not-modelled).

## The system

Everything runs in one loop, `Engine::tick` (`src/engine/engine.cc`). One turn of
it is, in this order:

    network.receive  ->  sound tick  ->  prerender  ->  gamepad, scripts (esTick)
      ->  camera, UI  ->  render  ->  network.tick (server)  ->  resource manager tick

There are few other threads, and all of the locking problems are about them: the
thread that accepts sockets (`Network::acceptServer`), one detached thread for
the initial data of each client that joins (`Network::sendInitialData`), and one
for each sound that is streamed (`Sound::_play`). Whatever is only touched by the
loop can be modelled one call at a time; whatever these threads touch cannot.

| component | state | operations | meets | what makes it correct |
|---|---|---|---|---|
| GPU memory (`renderer/memory.cc`) | per page: a list of pieces, free or allocated, and a list of pieces to be deallocated; per manager: pages by heap | `allocate`, `deallocate`, `requestDeallocate`, `processDeallocationLists` | buffers, textures and shaders hold pieces; the window drains the lists each frame | the list is a partition of the page, pieces do not overlap, a piece held by anyone is alive and allocated, free neighbours are merged |
| Vertex and uniform buffers (`vertexBuffer.cc`, `vertexAttributes.cc`) | two buffers each (ping-pong), a state per buffer, a set of buffers out of date | `setData`, `setSubData`, `handleOutOfDateBuffer`, `destroyBuffer` | window: fences, frame index; manager: memory | the GPU never reads what the CPU writes; what is drawn is the newest data in the end |
| Window (`window*.cc`) | fences, swapchain, frame index | `prerender`, `render` | all of the above | a frame's resources are reused after its fence |
| State and programs (`state.cc`, `program.cc`) | what is bound, what was bound last, pipelines, descriptor sets and uniform pieces with the indices in use | `bindProgram`, `bindUniform`, `bindTexture`, `draw`, `reset` | every object that draws; the window resets it | a draw runs with its own pipeline, uniforms and images |
| Packets (`network/packetHandler.cc`) | sequence numbers, ack mask, list of sent packets | `readPacket`, `sendPacket`, `ackPacket`, `resendPacket` | Connection and Client inherit it | acks are of sent packets, masks are true, verdicts are right, the list is what is unanswered |
| Connections (`connection.cc`, `network.cc`, `recv.cc.tmpl`) | handshake per connection, vector of connections, maps by secret and by address | `receiveTCP`, `receiveUDP`, `initializeUDP`, `removeConnection`, `acceptServer`, `receive`, `tick` | client, three kinds of threads | registries agree, a client joins once and only with the right checksum |
| Client (`client.cc`) | secret, initialized | `open`, `receive`, `handlePacket` | server by TCP and UDP, remote objects | never reads a packet before it knows its numbers; survives bad chunks |
| Replication (`basic/remoteObject.cc`, `stream.cc`, `network.cc`) | update masks, ids, chunks | `writeUpdateMask`, `pack`, `unpack`, `addRemoteObject` | tick, sendInitialData, client | clients converge to the server's objects |
| Tiles and layers (`test/layer.cc`, `interweavedTile.cc`, `util/sortedArray.h`) | sorted arrays per layer | `add`, `remove`, `update` | chunks | draw order |
| Chunks (`test/chunk.cc`, `chunkContainer.cc`, `tileMath.cc`) | tiles, rotation, positions of characters | `setRotation`, `addChunk`, `setTile`, `updateCharacterPosition`, `selectCharacter` | characters, map files | rotation is a bijection, one character per position, selection is consistent |
| Path finding (`test/tileSet.cc`, `util/minHeap.h`) | open and closed sets | `pathfind`, destinations | units | shortest path within the set |
| Characters and units (`test/character.cc`, `unit.cc`, `team.cc`) | position, health, path, destinations | `setPosition`, `move`, `updateMovement`, `setHealth`, `kill` | container, scripts | map of positions agrees with units; health in range |
| Game rules (`resources/scripts/*.egg`) | action points, abilities, turn order | `use`, `onTurn`, overwatch | units and teams | points are never negative, turns alternate |
| Sound (`sound/*.cc`) | OpenAL queue per stream, list of finished threads | `play`, `_play`, `finishThread`, `tick` | streaming threads, a list read without its lock | the pieces are heard in order, contexts are freed once |
| Resources (`resources/resourceManager.cc`, `resourceObject.cc`) | carton, objects, leases, hash of the file | `tick`, `reload`, leases | inotify, every resource | the newest content is loaded in the end, and found under its name |
| Engine loop, key binds (`engine/*.cc`), camera (`basic/camera.cc`) | binds of each source, callbacks of each bind, the pad of the last turn, what the camera was told | `tick`, `onKeyPress`, `onGamepadButton`, `registerTSKeybind`, `onBind` | everything | what receivers believe to be pressed is pressed |
| DOM, text, camera, rays, maps, developer interface, console, utilities, build tools | see `PROJECT.json` | | | |

### What is hard

* **Interleaving**: the accepting thread publishes a connection before its secret
  is in the map; the thread of the initial data and the loop number packets of the
  same connection and clear the same update masks; sound threads append to a list
  that the loop reads without their lock.
* **Unreliable delivery**: UDP loses, repeats and reorders; masks are shifted by
  unsigned differences, numbers wrap, nothing is ever sent again.
* **Stale pointers**: pieces wait in a list while their neighbours merge;
  connections leave `nullptr` behind in two maps, and are erased from a vector
  while a loop walks it; characters overwrite each other's positions.
* **Frames in flight**: buffers that the GPU reads are replaced by the CPU.
* **Things kept from turn to turn**: what was bound last, the sets and pieces of a
  turn that got no image, the pad as it was, a release that never came, the hash of
  a file that was written again meanwhile.
* **Boundaries**: alignment at the end of a page, pieces of length zero, the wrap
  of 32 bits, `1 <<` of an `int`, the dead zones of
  a stick.

`PROJECT.json` lists each of these under "hazards", at its line, with the
properties that would catch it.

## The plan

In this order, the most important behaviour first:

| step | modules | abstract specification, composition | runs and bounds | theorems |
|---|---|---|---|---|
| 1 (done) | `MemoryPage` | implements `AllocatorSpec`: disjoint regions | a page of 8 units, 3 requests | type, all safety invariants, refinement |
| 2 (done) | `PacketHandler`: two ends and UDP | | numbers mod 16, masks of 4 bits, 5 and 3 datagrams | type, all safety invariants |
| 3 (done) | `Connections`: handshake, registries, threads | | 3 clients | the registries agree, handshakes go in order, when deleted connections are used |
| 4 (done) | `VertexBuffer`: double buffers and the frame loop | | 2 frames in flight, 2 sizes, 5 versions | type, all safety properties |
| 5 (done) | `Replication`: masks, initial data, clients; `SharedPackets`: one packet in several lists | | 2 objects, 2 clients | what a client holds when it has read everything, and what it keeps when it drops part of a packet; the last connection decides |
| 6 (done) | `Battle`: units, positions, selections, points, abilities, overwatch | | 3 units, 3 tiles | type, all safety properties, why overwatch is lost |
| 7 (done) | `Sound`: streaming threads | | 2 threads | contexts are freed once, sounds are heard as read |
| 8 (done) | `Resources`: hot reload | | 3 files, 2 writes | a loaded file is found |
| 9 (done) | `Draws`: from binding to submission, over State, the programs and the window | | 3 turns, 2 chunks | all safety properties |
| 10 (done) | `EngineInput`: keys, mouse, pad, binds, camera | | 4 sources, 3 positions of the sticks | all safety properties |
| 11 | `TileMath`, `PathFinding`: pure algorithms, without state | reference definitions | sizes to 6; grids of 3 by 3 | rotations cancel |

Everything that is to be proved about is written without `RECURSIVE`, with its
parameters as constants and their assumptions named.

## GPU memory: `MemoryPage`

One `Page` of `src/renderer/memory.cc`. The list of pieces is modelled with the
pointers it has: `head`, `next`, `prev`, and per piece `start`, `end`,
`allocated`; `live` is the set of pieces not deleted, `deallocations` the list
that `requestDeallocate` fills and `processDeallocationList` empties. A call that
loops, which `allocate` and `combinePieces` do, is a sequence of steps with a
program counter, so that the invariants are checked in the middle of a search
and of a merge; a call is not interrupted by another one, because only the loop
of the renderer calls them. `held` is what the callers hold.

| action | code |
|---|---|
| `BeginAllocate`, `SearchNext`, `SearchFails` | `allocate`: size rounded up, first-fit walk, `nullptr` |
| `TakeWholePage`, `Split`, `SplitPadded` | its three ways of handing out a piece: the empty page, a piece cut in two, a piece with padding in front |
| `Deallocate`, `GiveBack`, `DeallocateReturns` | `Piece::deallocate`, `Page::deallocate` |
| `BeginCombine`, `Absorb`, `WalkOn`, `CombineReturns` | `combinePieces` |
| `RequestDeallocate`, `BeginDrain`, `DrainOne`, `EndDrain` | the deferred way |

`AllocatorSpec` is what a user of the page relies on: a set of regions within the
page, aligned and apart, that grows by `Grant` and shrinks by `Release`.
`MemoryPage` implements it with `Regions` as the refinement mapping.

Not obvious from the code, and found by the model: an exact fit leaves a free
piece of length zero behind the one handed out. Such pieces are harmless because
they sit between two allocated pieces or at the end; the invariant
`EmptyPiecesApart` of the proof says where they may be.

`Piece::requestDeallocate` has no caller in the repository; it is modelled
because the drain that the window runs each frame is. `Piece::deallocate` reads
its own members after the merge may have deleted it (memory.cc:71-74): what it finds
in `parent` and `buffer` decides whether a buffer is destroyed, and which, and it
writes `valid`. `DeallocateReturns` therefore ends the call in one of two ways when the piece
given back was absorbed: as if the memory were as it was, or in
`pc = "undefined"`, after which nothing is known and the model stops. `CallsReturn` allows both.

## Packets: `PacketHandler`

The two ends of a connection that has been established. `readPacket` and
`sendPacket` are operators with the end as a parameter; `Tick`, `ServerReceives`
and `ClientReceives` are the callers: the server sends when objects have changed
and never in answer, the client answers each datagram.

| variable | code |
|---|---|
| `lastSequenceSent`, `lastSequenceReceived`, `lastHighestAckReceived` | the members of that name, numbers mod `SeqMod` = 2^32 |
| `ackMask` | the member, as the set of its 1 bits; `ShiftLeft` loses bits above `MaskBits` = 64, and takes its count mod 64 as the processor does |
| `head` | the list of sent packets, as the set of their numbers (a list never holds a number twice) |
| `net` | every datagram ever sent to an end; reading does not remove it, so it may be lost, repeated, reordered or delayed |
| `stuck` | the loop of `readPacket` that never ends when 2^32-1 is acknowledged (`NeverReturns`): it takes every packet out of the list on its way, and the end answers no more |
| `start`, `got`, `answered`, `orderly` | history, for the properties only |

`OneShifted` is `1 << checkBit` as it is compiled: an `int`, shifted mod 32 and
extended with its sign. That is why `VerdictsRight` is stated for bits below
`IntBits - 1`: above them the code does not say what was received. `MasksTrueInOrder`
is stated for ends that have read in order so far, with gaps of fewer than
`MaskBits`: a late datagram takes `lastSequenceReceived` back (line 60) and the mask
with it. `ListIsTheUnanswered` and `AcksAreOfSentPackets` (proved, and no longer run) need no such condition;
`ListIsTheUnanswered` is stated up to the wrap of the numbers, where the walk finds nothing
(line 41) and the list keeps what it holds.

The model begins with the handshake just done. Packets that `tick` sent to a
connection before that went nowhere; they are the same as packets lost.

Each number is used for one packet. That one `Packet` is shared by all
connections (`network.cc:234`) needs several connections to show: that is
`SharedPackets`.

## Connections: `Connections`

How clients join and leave: `acceptServer` in its thread, `receive` (the datagrams,
then a walk over the connections) and `tick` in the loop, `sendInitialData` in its
threads, and the clients. What a thread does to data that another one uses as well is not
one step: it is under way between two, and a step of the other thread that needs the same
data meanwhile either is early or late enough, or crashes the server. A client stands for its connection, its secret (64
random bits) and its address as well: each opens one connection.

| variable | code |
|---|---|
| `socket`, `secret`, `initialized` | the client: its process, `secret` and `hasSecret`, `initialized` |
| `toServer`, `toClient` | the TCP streams, in order |
| `udp`, `updates` | datagrams ever sent, either way: may be lost, repeated, delayed |
| `slots`, `size` | the memory of the vector `connections`: `erase` moves elements forward and leaves the last slot as it is |
| `walk`, `at`, `last` | the range-for over `connections` in `receive`, and the one in `tick`, which took their end before they began |
| `handshake` | the enum, with "none" before `new` and "deleted" after `delete` |
| `secretToConnection`, `udpAddressToConnection` | the maps: `Absent` is no entry, `Null` an entry that is `nullptr` |
| `accepting` | from `push_back` to the end of the insertion of the secret |
| `joining` | from the start of a thread of initial data to its end |
| `crash` | undefined behaviour has happened; the model stops there, since nothing is known of the program after it |

There are four kinds of it: a deleted connection or `nullptr` was used (`UsesOfDeleted`); `push_back` moved the
vector under one of the walks (`VectorPushed`); the insertion of a secret moved the map under a
look-up of `receive` or of a destructor (`MapUsed`); the engine and a thread of initial data were in
`sendPacket` or `readPacket` of one connection at once (`ConnectionUsed`). Each is possible and
none is certain, so each of the steps also goes on without.

The walks are one action per element (`Visit` for `receive`, `TickVisit` for `tick`), so the
accepting thread, the clients and the threads of initial data come in between. With three connections the walk
does what libstdc++ makes of it: when the first is erased, the second is skipped
and the third visited twice, the second time in a slot behind the end; when that
one was deleted as well, freed memory is used.

`RegistriesAgree` (the vector holds the connections there are, and an address leads
to none that is not ready) and `HandshakeInOrder` (a client joins once, knows its
numbers before its first packet, and is served only if it matches) hold in every interleaving. `FreedNeedsLoss` is about
the use of what was deleted. It takes a client that has left or was turned away, however
late or often datagrams are read; and for `receive` to come upon a deleted connection
in the walk that deletes, it takes two: one erasure shifts the elements under the walk and
leaves a stale slot behind the end, but the only deleted connection is then never in a slot
that is yet to be visited, wherever the accepting thread is. The other three kinds of undefined
behaviour need no client to leave, and no property says otherwise. `HandshakeEnds` is the liveness property; it is
stated for a client whose secret is in the map before the client knows it,
because when the accepting thread is delayed between its two steps the datagram
is discarded as unknown and never sent again.

Fairness: `StartSweep`, `Visit` and `TickVisit` (weak) because the engine calls `receive` and `tick` in
every turn of its loop; `ClientReceivesTCP` (weak) because the client does the same;
the arrival of the secret (strong, since the walk disables it again and again)
because each turn reads the datagrams first. It is the assumption that the one
datagram is not lost.

Taken out: clients that speak anything but this protocol (the branches of
`receiveTCP` for a length other than 34 and for a message in `WAIT_FOR_SECRET`); the
Windows build, whose `receiveTCP` never deletes; the masks and objects that `tick` packs,
which are the subject of `Replication`.

## Replication: `Replication`

The server's objects, the masks that say which properties have changed, the two
threads that send them, and what the clients make of what arrives. Server and
clients run the same `main`, so they have the same objects under the same ids
before they meet. A value is the number of the change that brought it.

| variable | code |
|---|---|
| `alive`, `value`, `updateMask` | `remoteObjects`, the properties of each object, its mask as the set of its 1 bits (`update` says whether it is empty) |
| `thread` | per connection, its `sendInitialData`: where it is in `remoteObjects`, what it has packed |
| `net`, `read` | the datagrams sent to a client, and which of them it has read: any of them, in any order, any number of times |
| `copy`, `idToRemoteObject`, `strays` | the client: what it knows of each object, which ids it still has, and the objects that were made under another id |
| `own` | what a client has changed itself since it was last sent a value of it |
| `missed`, `dropped`, `changes`, `packets` | history, and what the bounds count |

| action | code |
|---|---|
| `Set` | a setter, up to its `writeUpdateMask` |
| `AddUnmarked` | what changes and writes no mask: `addHealth`, `addMaxHealth`, and the moves that the scripts set |
| `Kill`, `ClientKills` | `~RemoteObject` and `removeRemoteObject`, at either side |
| `ClientSets` | a change that a client makes to its own object: it runs the same scripts and takes the same input as the server, and no call asks which of the two it is at |
| `Tick` | `Network::tick`: the objects with an update, packed, their masks cleared, one packet to every connection |
| `Join`, `InitialWrites`, `InitialZeroes`, `InitialSends` | `initializeUDP` and the thread: per object, `pack` writes everything and then clears the mask; the packet goes out at the end |
| `ClientReceives` | `Client::receiveUDP` and `handlePacket`, chunk by chunk, up to the first that throws |

`CopiesConsistent` says that masks, ids and copies are of their types, and how far a client that lost nothing can be behind, and names what puts
it there. Each of these is in the code, and without any one of them the run fails:

* the thread of another client's initial data clears a bit that `tick` has not sent
  (`pack` clears the mask of the object for everyone);
* a bit set between the writing and the clearing of the client's own initial data;
* an update that `tick` sends while the client's initial data are being packed
  arrives before them and is taken back by the older value they hold;
* a change that writes no mask: every shot and grenade;
* a change of the client's own (`own`), which nothing takes back until the server sends the
  property again. The bits that a setter sets at a client are never read.

The death of an object is not sent at all, so the property speaks of the objects
that both have. A client that has lost an object of its own and receives its creation
once more makes a new one, which registers itself under an id of its own
(`addRemoteObject`), and only its member `remoteId` is set to the server's: later
updates still throw. The model keeps it as a stray. The generated `switch` of
`instantiateRemoteObject` has no `break`, so that one object of every later class
is made as well; they are strays like it and are not counted.

Behind a chunk that throws, the rest of the packet is lost. That happens for an object that
the client itself has lost, again with every packet that has an update of it, and for a
value that its setter refuses. `DropsSpareTheFront` is what is left to such a client: the
objects in front of the first that it has lost, or that it was ever sent a refused value of,
are as up to date as `CopiesConsistent` says, through any number of packets cut
short. It rests on the order of `remoteObjects`, which all packets keep.

`crash = "walk"` is an object that dies while a thread iterates over the vector it is
erased from. Left out: `unpacking` stays set after a throw, so later calls of the
setters are checked as if they came from the network; that `setMaxHealth` raises
`health` (properties are independent here); chunk sizes in bytes, which no reader uses.
Two calls of `sendPacket` for one connection at once are taken one after the other.

## Shared packets: `SharedPackets`

`tick` makes one `Packet` and hands it to every connection. Each writes its own
number into the header, sends it, and puts a pointer to it in its own list. After
that the packet has the number of the last connection only.

| variable | code |
|---|---|
| `packets` | every `Packet`: the number in it, the connections it went through, whether it was deleted |
| `head` | the list of each connection, newest first |
| `lastSequenceSent`, `lastHighestAckReceived` | the members |
| `received` | what each client has read; it acknowledges after any of its reads |
| `usedDeleted` | a walk has looked at a deleted packet: the model stops |

`Unlinked` is `deleteNodeFromList` and `deleteNodeAndPacketFromList` (`acked`): the first
node is tested, and then the nodes behind what is now the first, so one call can
unlink two nodes with one number. `Walked` calls it for each number up to the one
acknowledged.

`LastConnectionDecides` has three parts. `OnlyTheLastForgets`: the lists of all connections but the last keep every packet
of `tick` for ever. `DeletedByTheLast`: the acknowledgement of the last client
deletes the packet, though it stays in the other lists, whose next walk then reads
freed memory (`usedDeleted`). Both are stated for numbers that are far apart, as random
numbers of 32 bits are; `DeletedOnlyIfShared` holds however they lie. With one
client, none of this happens. `ConnectionsProofs` extends this module and `Connections`, so its
specification has names of its own (`SharedSpec`, `TickSends`, ...).

## Vertex buffers: `VertexBuffer`

One dynamic `render::VertexBuffer` of the Vulkan backend, and the two calls that
the engine makes around everything that draws: `Window::prerender` and
`Window::render`. Two frames are in flight; the buffer has a slot for each, and a
slot that falls behind is brought up to date when its turn comes.

| variable | code |
|---|---|
| `pp`, `fence`, `swapchainOutOfDate` | `framePingPong`, `frameFence`, the member of that name |
| `phase` | whether the loop is between `prerender` and `render` |
| `gpu` | what the GPU does with the last frame of each turn (external) |
| `slot` | `dynamicBuffers`, with their `state` and their piece of memory |
| `size`, `oldSize`, `dynamicBufferInitialized`, `OutOfDateBuffers` | the members; the sets of the window, as the turns whose set holds this buffer |
| `drawn` | the buffer is bound in the commands of this turn |
| `version`, `latest`, `given`, `resized` | history: data is the number of the `setData` that brought it |

| action | code |
|---|---|
| `PrerenderAcquires`, `PrerenderRefused` | `prerender`: wait for the fence (a guard), then acquire an image and reset the fence, or note that the swapchain is out of date and leave the fence signaled |
| `SetData`, `SetNothing` | `setData`, and its early return for no bytes |
| `Draw`, `DrawFails` | `getVulkanBuffers`, when the attributes are bound |
| `Delete` | the destructor |
| `RenderSkips`, `RenderRefused`, `RenderFlips`, `RenderFails` | the four ways through `render`: nothing to draw, the image cannot be presented, the turn is passed on after the buffers out of date were handled, and the same with a fault |
| `GPUFinishes` | a frame is done and its fence signaled; in any order |

A fault stops the model: `null` (a buffer without data is bound), `empty` (a
piece of no bytes is asked for) and `overflow` (more is copied than one of the
pieces holds). The last one is possible: data of one size in a turn, then data of
another size before the turn is passed on, leaves the other slot marked as having
the old data of the right size. `OverflowNeedsTwoSizes` says that this is the only
way. Whether `setData` is called so is decided by the callers; `Layer` and `Text` may.

`TurnLeavesGPUAlone` is stated for steps between `prerender` and the end of `render`,
and for buffers that are not deleted. Outside of them it does not hold: a client
unpacks objects in `network.receive`, before the fence of the turn is waited for,
and what they call reaches `setData`; and the destructor frees both slots at once.

`TurnsGoOn` assumes weak fairness of `prerender` and `render`, which
the loop calls in every turn, and of `GPUFinishes`. It is not obvious: a turn
that is refused at its end is not passed on, and its fence is waited for again.

Left out: static buffers, whose size never changes; `setSubData`; uniform buffers,
which have the same structure; how the pieces are allocated, which is `MemoryPage`.

## Drawing: `Draws`

How a turn becomes a command buffer. Objects bind a program, uniforms, textures and
vertex attributes to `render::State`, and draw; `State` makes pipelines and
descriptor sets as they are needed and binds only what differs from what it bound
last; the window records one of two buffers while the GPU runs the other.

`state` is one record, because an object changes it many times before it returns:
`BindProgram`, `BindUniform`, `BindTexture`, `BindPipeline`, `Draw` and `Reset` take a
state and give the next, and `RenderChunk`, `RenderBox` and the others are what the
objects call, in their order.

| part of `state` | code |
|---|---|
| `current`, `old` | the members: program, attributes, depth test and stencil, as they are asked for and as they were bound last |
| `needsUpdate`, `setIndex`, `topDescriptor`, `descriptorWrites` | `descriptorSetState`, `descriptorSetIndex`, `topDescriptor`, `descriptorWrites` |
| `setsTaken`, `uniformsTaken`, `pipelines`, `empty` | the static tables `DescriptorSetIndex`, `UniformIndex` and the pipeline cache, with the entries that `[]` left empty |
| `sets` | how many sets each `Program` has made |
| `contents`, `pieces` | of each of the two slots: what its sets point to, and what the uniform buffers hold |
| `buffer`, `pipe`, `set` | the two command buffers, and what is bound in the one being recorded |
| `want`, `stamp`, `setProgram` | history: what the object that draws has bound itself |

| variable, action | code |
|---|---|
| `framePingPong`, `outOfDate`, `fence`, `pending`, `picture` | the turn, `swapchainOutOfDate`, `frameFence`, what the GPU has, the image of the document |
| `PrerenderRefused`, `PrerenderAcquired` | `prerender`, with `createSwapchain` when it is due |
| `DrawContainer` | `ChunkContainer::render`: the chunks in view, then their units through the walls |
| `DrawLine`, `DepthOff`, `DrawHealthbar`, `DrawText`, `DrawBox`, `DrawImage` | the other objects of the world; then the interface, without a depth test: healthbars (healthbar.cc:7), texts and the document |
| `RenderNothing`, `RenderSubmit` | `render` |
| `LoadPicture`, `FinishCopy`, `FinishFrame` | `Texture::load`, and the GPU |

`DrawsReadTheirOwn` is about what the GPU finds when it runs a buffer: every value that is
bound has a number of its own, so a set, a piece of uniforms or an image that
anything else took in the meantime shows. Three things the code leaves possible are
named by the properties, and each run fails without the exception:

* `reset()` empties the command buffer and does not clear `old` (state.cc:253). A buffer
  that begins with the state the last one ended with binds no pipeline. In the game the
  chunks come first and the document last, so it takes a turn in which neither is seen.
  `DrawsHavePipelines` says that this is the only way, but for the empty entry that
  `pipelineLayout[...]` makes for such a draw, and later draws of that state bind.
* A program that was bound and given uniforms without a draw (the chunks, all out of
  sight) has taken a set. When the next program is the one that drew last,
  `bindProgram` does not ask for a new set, and the index of the other program's set is used
  (state.cc:65, :476). `StrayOnlyFirst`: it can only be the first draw of a buffer, and the
  index is of a set that exists.
* A turn without an image does not reach `reset()`, so the indices go on rising:
  `SetsBounded` says by how much, from what a turn takes of each program (`SetsPerTurn`).

`FenceTellsGPU` is what both sides of the window rest on.

The GPU finishes frames and copies between the turns in the model: the loop sees
it at the fences only, and to finish in the middle of a turn would only take away
what a draw could still read wrongly. Left out: `drawIndexed` and the other backends,
the clearing of attachments, resizing by the player (the swapchain is refused, which
is what it does to the turn), and textures that are replaced while frames use
them. Seen on the way and not modelled: the height of a swapchain is clamped with the
width (windowVulkan.cc:206); the depth image of an old swapchain is not freed; the
commands that change the layout of a texture are submitted without a fence
(texture.cc:238, :269) and freed by the next `render` (window.cc:430), which waits for the copies only.

## Input: `EngineInput`

What the player presses on its way through a turn: GLFW's callbacks while
`prerender` polls, the pad that the loop reads after it, the binds of a source, the
receivers of a bind, and the camera, which moves by what it was last told.

| variable | code |
|---|---|
| `binds` | `keyToKeybind`, `buttonToMousebind` and `gamepadToBind`, by the names that scripts use |
| `callbacks`, `alive` | `bindToTSCallback` and `bindToTSObjectCallback`; objects whose wrapper is not null |
| `pad`, `lastGamepadButtons`, `axisDPadCounters` | the members of the window and the engine |
| `camera` | `keyMapping` and the zoom level |
| `UnusedKeys` (a constant) | names in the tables of sources that the player of an instance leaves alone: a script's callbacks for them are registered all the same, the lists of their binds are left out |
| `gamepadButtons` (a constant) | the buttons of the pad, in the order in which the loop compares them (engine.cc:451) |
| `focused`, `pointer` | a window of the console has the focus; the page button under the mouse |
| `heard`, `excused` | history: what receivers have been told is pressed, told twice or out of turn; which sources an event was kept from |

| action | code |
|---|---|
| `onKeyPress`, `onMousePress`, `onMouseMove` | the callbacks, with their early returns |
| `Focus` | the console is opened or left |
| `Poll`, `RefusedPoll` | the end of `prerender` and the gamepad part of `Engine::tick`: axes, the simulated buttons of sticks (`SimulateDPad`), buttons; a refused frame polls nothing and hands out the same pad |
| `teamInit` | `team.egg` registers its keys after 100 ms |
| `deleteObject` | a script deletes an object that has callbacks: at any time, since scripts also run from within a poll |
| `see` | `Camera::see` |

The properties hold up to what the code keeps from the game, and each of these is in it:

* the focus of the console swallows a release (callbacks.cc:36): the camera keeps moving
  until the key is pressed again;
* a click on a button of the page swallows the release of the mouse button (callbacks.cc:93);
* a stick that goes from one side to the other within a turn releases the old button,
  records the new one without a press, and releases it later (engine.cc:436);
* a pad that is pulled out leaves its axes and buttons as they were, until a pad is there.

`OncePerEvent` needs scripts that register a bind once for a key, as those of the
game do: a second registration pushes the bind again, and every callback of it is called twice.
`ScriptAssumption` says so of what the scripts register, and also that none names one callback with two
binds, or gives a bind of the camera to a key of its own; neither is seen to by the code. `InitScripts` is what
`main.egg` registers before the first turn (lines 72 to 88), `TeamScripts` what `teamInit` does (team.egg:70-73).
No script of the game registers a bind from a callback, so registrations come before
the first turn or with the scheduled calls of a tick.
Also seen: a script's bind of an axis is stored and never called; one name in the
table of keys is misspelled ("left shirt", engine.cc).

Fairness: the loop comes to its next phase (`WF_phase`), since nothing in a turn blocks;
the player need do nothing. `StopsWhenLetGo` is checked under it: a camera everybody
has let go of comes to rest. A zoom step is a step of the repeat here; panning,
positions and matrices are floating point and left out.

## The game: `Battle`

The rules of the game are scripts (`resources/scripts/*.egg`) that share state with
C++: the container holds the map of positions and the selected character, the
scripts hold the target and the chosen ability, and the interface shows what it was
last told. Every input of the player is one call from the loop; deaths happen in the
middle of one.

`game` is one record, because a handler changes it many times before it returns:
`Moved`, `Shot`, `Thrown`, `Selected` and the others take a game and give the next, in the order
of the calls in the code (a shot is paid for, which refreshes the interface, and
then rolled). The actions are the inputs: a click, a right click, the gamepad's two
buttons, the icons and buttons of the interface, and the key that restores points.

| part of `game` | code |
|---|---|
| `unit` | per unit: position, `health`, `ap`, `overwatch`, whether its `abilities` still have the grenade; `walked` and `met` are history. A unit that dies becomes `Dead`: nothing of it can be asked for |
| `positionToCharacter`, `selected` | the members of `ChunkContainer` |
| `target`, `chosen` | `$Unit::SelectedTarget`, `$Unit::SelectedAbility` (with its owner, whom a grenade asks for points and position) |
| `ability`, `button` | `selectedAbility` of the selected character, and whether the button that uses it is shown |
| `aim` | `selectedPosition` of the chosen grenade |

`moves` and `sprintMoves` follow from the points. Who is in full cover from where, how
far tiles are apart and where a grenade can be thrown are constants; the tile
editor, which could change them, is not modelled.

`MapConsistent` matters because the map holds plain pointers. Its second half has a
condition, since nothing keeps a unit from moving onto another's tile: the second to
come takes the entry, and whoever leaves or dies first removes it; the other
can then not be clicked, and no grenade finds it. `met` marks these units.
`SelectionsValid` covers every way to die while selected or aimed at.
`ButtonTruthful` is what `AbilityUseButtonElement` relies on, since it does not ask
again. `WalkedWithinSprint` bounds all moves between two restorations of points.
`OverwatchLostTo` says when overwatch ends, and shows a case that is hardly
meant: a unit of the second team that dies moving has no team when the
loop of `fireOverwatch` comes to its own, whose members then spend their overwatch on it.

Other things the model makes plain, and no property asks for: a right click on the
unit's own tile costs a point, and triggers overwatch even without points; a
grenade's aim is carried over to the next unit, and is kept while the thrower
moves, so that the range is not checked again; one action of the
interface (`endTurn`) restores the points of both teams and another (`SwitchTeam`)
passes the turn.

Assumed of the interpreter, which is not in the repository: a reference to a deleted
object reads as null, and calls on null do nothing. The scripts rely on it:
`isObject($Unit::SelectedTarget)` after a use, `if(!%this.targetIcon)` after its deletion.
Left out: the path cache of a unit (`getPath`), which can refuse a move in reach until another
tile has been pointed at, and so only adds steps that change nothing; positions
that come from the network, which set the position and the map only; icons of units
that are not selected.

## Sound: `Sound`

`Sound::play` detaches a thread that streams the file through an OpenAL source
(`_play`), and the loop frees what the threads leave behind (`sound::Engine::tick`).
Every playing of a sound begins with the same two buffers, read when it was made.

| variable | code |
|---|---|
| `file` | how many buffers the file fills, and whether something shorter follows |
| `content` | what each buffer holds: the two of the sound, and the two (`newBuffers`) of each thread |
| `thread` | `_play`: where it is, `state`, `bufferIndex`, `done`, the reader's position |
| `source` | the OpenAL source (external): queue, how much of it is played, whether it plays |
| `finished`, `tick` | `finishedThreads`; the loop between its unlocked reads and the locked removal |
| `history` | what was heard to its end; whether the source ran dry, or a read failed; deletions |

A thread reads the state of its source, then how much was played, then takes a buffer
from the queue, fills it and puts it back: `LooksAtState`, `Sleeps` or `Unqueues`,
`Fills`, with the device (`DevicePlays`) and the other thread in between. `TickReadsSize`,
`TickDeletes` and `TickPops` are one call of `tick`.

`HeardAsRead` says two things. `HeardInOrder` depends on `bufferIndex`: it replaces the shared buffers by the
thread's own when they come back first. `FullPiecesHeard` is what the loop achieves: the
last, shorter piece of a long file is queued, and cut off when the one before it
has been played (sound.cc:118); and a thread whose source ran dry while it slept for 250 ms
queues one more piece, which nothing starts, and leaves. A read that fails
returns -1, which is unsigned: the test for an error (line 131) never holds, the data are
refused for their size, and the buffer goes back with the older piece in it.
`ContextsOnce` holds although `tick` reads the list without the lock, because it removes
as many as it counted; that the accesses themselves are data races of a `deque` is not
modelled. `PlayingEnds` assumes that each thread, the device and the loop go on
(weak fairness). `newBuffers` is never deleted.

## Resources: `Resources`

The packer writes the carton whenever it likes; `ResourceManager::tick` hashes the file
100 ms after the last event of inotify and reloads when the hash is not the carton's. A version
stands for the content of the file and for its md5; `Partial` is a carton that
is being written.

| variable | code |
|---|---|
| `disk`, `watched`, `event` | the file, the inotify watch on it, an event that can be read (external) |
| `quiet`, `hash`, `hashed` | `lastEvent` is 100 ms ago; the members |
| `cartonHash`, `address` | `carton->hash`, and where each file's `Metadata` is |
| `Streamed` (a constant) | the sounds: the sound engine makes them itself (sound/engine.cc:31, :37), so they are among the `objects` and have no entry in the map until a reload enters them |
| `objects`, `metadata`, `contents`, `metadataToResource` | `objects`, and what each resource points to and holds; the map keeps the keys of all cartons |
| `pc`, `todo` | between which steps of `tick` and `reload` the packer comes |
| `executed`, `rewritten` | the version of the script that was executed last; history |

| action | code |
|---|---|
| `StartWrite`, `EndWrite`, `Replace`, `Wait` | the packer writes in place, or renames a new file over the old one, which ends the watch; the clock |
| `readEvents`, `md5hash`, `compare` | `tick` (`managerTick`, since `tick` in `Sound` is that of the engine's loop) |
| `hotReload` | the script function of that name |
| `openCarton`, `reloadObject`, `onReload` | `reload`: a new carton, each resource read from the file as it is then, and the script executed again |
| `loadResource` | `loadResources` |

`LoadedFound` is not obvious because the keys of the map are pointers to freed
`Metadata`, and new ones get their addresses for other files. It holds because
`reload` enters every resource again. Of a sound it says that its metadata are those of its file, since nobody
looks a sound up. A file that was *not* loaded may be
found as another one, by a key of an old carton; the property does not speak of it.

`FreshInTheEnd` and `ReloadsEnd` name what they except:

* a file put in the place of the old one is not watched. If a script then reloads, the
  carton has the new hash and `hash` the old one: every turn reloads again, for ever;
* a version that is written again while the carton has it (back and forth, during
  one reload) leaves what was read in between.

Fairness: the packer ends a write, time passes (strong, since `tick` takes the loop
out of the state in which it is awaited), the loop turns and a reload ends.

The reloaded script runs before the new carton has its handlers for extensions
(resourceManager.cc:236-255); it loads nothing then, so that `onReload` needs no handler.

Left out: `lease` and `release`; the types that do not implement `reload` (images,
sprite sheets, sounds, maps, shaders keep their first content), which `Reloading` tells apart;
HTML and CSS are reloaded into the resource, and the document made from them is not
made again. That the carton is whole when it is read is not in the code: a `Partial`
carton is opened like any other, and here has the same files; the real one may lack
one, and `exec()[0]` of an empty result is undefined.

## The runs

| run | bounds | checks |
|---|---|---|
| `memory_page` | a page of 8 units, three live requests out of sizes and alignments that leave padding, exact fits and remainders | the safety of the list in the middle of every call, first fit, `CallsReturn` (every call returns, if the renderer's thread runs), `Implements` |
| `packet_handler` | numbers mod 16 that start at 1 or at 13 (and wrap), masks of 4 bits tested with an `int` of 3, 5 datagrams from the server and 3 from the client | more datagrams than bits in the mask, more bits than the `int` has, a wrap at both ends |
| `connections` | 2 clients of the server's build, 1 of another | three connections, so that an erasure leaves two behind and the stale slot is reached, with two clients lost and with one; the accepting thread and the threads of initial data between any two steps of both walks; `HandshakeEnds` under the fairness given above |
| `replication` | 2 clients, 2 objects of one property that has also unmarked changes, 2 changes at either end, the second of which a client refuses, 1 death at either end, 3 packets, 2 reads each | a client joins before, during and after the other's initial data, with an update in each gap; objects die before, between and after |
| `shared_packets` | 2 connections that start 10 or 1 apart, either way round, 4 packets, 2 reads each | packets of `tick` and of initial data mixed in both lists, acknowledged in any order |
| `vertex_buffer` | 2 sizes, 5 calls of `setData` | each slot falls behind and catches up more than once, with equal and with different sizes, drawn and not drawn, with every way a turn can end |
| `buffer_sizes` | 2 sizes, 4 calls | violated: a slot of an old size is marked as having old data only |
| `battle` | 1 player, 2 aliens; two tiles a step apart, a third out of reach of both and in cover from one; a move of 1, a sprint of 2; every hit kills | moving onto each other, dying selected, aimed at, on overwatch, by one's own grenade, and as the first of two aliens |
| `sound` | 2 threads; a file of 0 to 4 full pieces, with and without a rest | files that the preloaded buffers hold, files that reuse each buffer, sources that run dry at any step, reads that fail, threads that end between the steps of `tick` |
| `draws` | 2 chunks, one with a unit; the camera sees both or none; 3 turns, 2 objects in a turn after the chunks and 3 in all | a buffer recorded while the other is run, and recorded again; a turn without an image between two with one; a picture copied meanwhile; every program after every other |
| `engine_input` | 2 keys and 2 that stay unused, a mouse button, a button of the pad, 3 positions of the sticks; turns of 0.75 s and of more than a second | an object deleted in the middle of a poll; a source with three binds, one of them given later, a callback of an object and one of none; sticks pushed right over; the repeat of the zoom passed and not passed |
| `resources` | 3 files, a sound among them, at 3 addresses, 2 versions, 2 writes | a write in place in two pieces, or a replacement, between any two steps of `tick` and `reload`; Metadata that change places |

The sizes are small because what matters is relative: a mask shorter than the
sequence of datagrams, an `int` shorter than the mask, a page in which two pieces
and a padding fit. The theorems below do not depend on them. `battle`,
`sound`, `draws`, `engine_input` and `resources` check for deadlock: the others may stop, when their bounds are used up, when all
clients have left, or when the code hangs (`stuck`) or its behaviour is undefined
(`crash`, `pc = "undefined"`).

`CallsReturn` assumes weak fairness of the steps of a call and nothing else: one
thread runs each call to its end.

### Disagreements with the documentation

* `packetHandler.cc:40` says that packets the other end did not get are re-sent.
  `resendPacket` (line 87) removes them from the list and does nothing else.
* `recv.cc.tmpl:13` says that a packet is discarded if its secret cannot be found.
  `removeConnection` (network.cc:322) assigns `nullptr` instead of erasing, so the
  secret of a connection that is gone is found.

* `vertexBuffer.cc:181` says that how the other slot is out of date is determined
  there: its data or its size. Line 182 leaves a slot that is out of date already
  as it is, so one with old data keeps that state when the size changes after it.

## The proofs

Proved by TLAPS, for all values of the constants under the assumptions named in
the modules (`PageAssumption`, `PacketAssumption`, `ConnectionAssumption`, `SharedAssumption`,
`ReplicationAssumption`, `BufferAssumption`, `DrawsAssumption`, `BattleAssumption`, `ResourcesAssumption`, `SoundAssumption`, `InputAssumption`,
`ScriptAssumption`). They say that the
constants are of their kind, that the names for "nothing" are none of the things, and
what the code takes for granted of its data: the teams of `Battle` are apart and
start on different tiles, a path has no steps only if it ends where it begins; the names of keys,
mouse buttons and buttons of a pad are apart, and no script gives a key a bind it has
(`ScriptAssumption`, true of main.egg:72-88 and team.egg:70-73, see below).

* `MemoryPageProofs`: the type invariant, that no two pieces share a unit, and all the
  safety properties that `memory_page` checks (`ListSound`, `HandlesUsable`, `SearchRight`), and that `MemoryPage` implements `AllocatorSpec`. The
  inductive invariant is `TypeOK` and `ListInv` (links, order, coverage),
  `SearchInv` and `CombineInv` (what holds in the middle of a call), `RestInv`
  (between calls), and `HandlesUsable`. `ListInv` needs `EmptyPiecesApart`: without it
  two pieces of length zero could start at one offset, and the order of the
  list would no longer follow from the offsets. Any page size, any set of requests.
* `PacketHandlerProofs`: the type invariant, all three properties of
  `packet_handler` and `AcksAreOfSentPackets`, for any width of numbers, masks and `int`, and any number of
  datagrams such that `MaskBits + MaxSent[e] <= SeqMod`: fewer than 2^32 - 64 packets
  in one direction. Each distance is measured from the number an end started with,
  so the wrap does not appear. The inductive invariant adds to the properties that
  everything on its way was sent (`SentInv`), that what was read was sent and the
  newest of it is remembered (`GotInv`), and where the next walk begins
  (`AnsweredInv`). What a step does to an end is stated once (`StepEffect`: it reads
  or is idle, then sends or is silent) and each part of the invariant is shown from
  that.

* `VertexBufferProofs`: the type invariant, the three safety properties of
  `vertex_buffer` and `StaleIsListed`, for any set of sizes and any number of calls. The inductive
  invariant adds: `FenceInv`, a turn's fence is signaled only when its frame is
  done, and its own frame is idle between the wait and the submission; `DrawnInv`,
  what is bound is up to date; `DataInv`, a slot in use has the newest data and at
  least one always is, or nothing was ever set; `SizeInv`, which relates the size
  of each piece to `size` and `oldSize` until two sizes have come in one turn.
  `DrawnIsNewest` needs `DataInv` because the copy takes what the other slot has.

* `ConnectionsProofs`, of `Connections`: the type invariant and all three safety properties of `connections`, for any
  set of clients and any interleaving of the accepting thread, the loop and the threads
  that send initial data. `VectorInv` says where the connections are while the loop swaps and
  erases (`Counted` turns it into the count that `RegistriesAgree` asks for), `MapsInv` that an
  entry is of its own connection and `nullptr` only of a deleted one. `JoinInv` follows a
  client back along the messages: who was let in has sent its secret, and so was told
  it; `StreamInv` adds that only clients of the server's build are told. By it, who
  was deleted was turned away or has left, which is the first half of `FreedNeedsLoss`. The second half is
  `LoopInv`: until something is deleted the walk of `receive` ends within the vector, and
  while at most one client is lost everything from `at` to `last` is alive. The step that
  matters erases the element the walk is at (`Erased` says where the others go), after which
  the last slot repeats its neighbour, alive as well, or the walk was at it and ends.
* `ConnectionsProofs`, of `SharedPackets`: `LastConnectionDecides`, for at least one connection, any
  number of packets and any order of the acknowledgements. `SharedInv` adds to it the types,
  that a connection has numbered no more packets than there are (`NumbersInv`), and that
  a packet has the number which the last of its connections gave it, in order, and is in the lists of its
  connections only (`PacketsInv`). If numbers are apart, a number of connection c is found
  only in a packet that c wrote last (`NumberTells`), so a call of `Unlinked` takes that one
  from the list and no second (`UnlinkedForgets`), and the walk of c leaves all that others
  wrote (`WalkedKeeps`). If they are not, what is left is `DeletedOnlyIfShared`, which needs
  only that a walk deletes packets of its own list (`UnlinkedKeeps`).
* `ReplicationProofs`: `CopiesConsistent` and `DropsSpareTheFront`, for any number of clients, objects,
  properties, changes and packets, and any loss, repetition and order of them. `CopiesConsistent`
  compares the two ends of a connection, which no step of either compares, so the argument
  goes through the datagrams. `SentInv`: the last one sent to a client with a value of a
  property has the newest, unless its bit is set or the value was missed. It needs
  `WalkInv` for a client that joins: what the thread has packed so far is still the newest,
  with the same exceptions, until it is put behind all that `tick()` has sent meanwhile.
  `CopyInv`: a client that reads in order holds what it has read last, but for what it has
  changed since (`own`), of the objects whose chunks it has all handled (`Spared`): all of them if it has dropped
  nothing, and in any case those in front, since no chunk of theirs throws (`FrontThrowsNot`). There is only one
  last (`LastOnce`), so when everything was read the two agree (`SparedNewest`); both theorems
  follow from this. Of the three races, each
  is the step of one lemma, which shows that what is not in `missed` was not disturbed:
  `TickKeeps` (an update overtakes the initial data), `ZeroesKeeps` (`pack()` clears bits
  of others) and `AddKeeps` (a change without its bit). `ClientSetsKeeps` is why a client's own change harms nothing
  but the property it is of.
* `DrawsProofs`: all five safety properties of `draws`, for any scene, any number of turns, and
  any images refused. `FenceInv` stands alone: `FenceTellsGPU` with the ranges of `fence` and
  `framePingPong`. The rest is about `State`. An object is a composition of its functions, so
  the invariant is one of a state `s`, and each function is given its effect once (`Wrote`,
  `BoundTo`, `BoundPipeline`, `Drew`, ...), from which follows what it keeps. `StateOK` holds always, also of the buffers the GPU has: every
  draw in them is right (`DrawnRight`), has a pipeline (`PipedIn`), or is the stray first
  one (`StrayFirst`). `RecordingOK` holds of the buffer being recorded, and is why a
  draw stays right: the set that is being filled was drawn with by none before
  (`SetsApart`), and a piece of uniforms that is taken is above all taken (`PiecesTaken`). Between binding and drawing, `BoundBy`
  lists what the object has bound so far. `Begun` and `LeftOver` are the start of a turn and what
  the chunks leave to the objects after them. `SetsBounded` is by counting: each draw
  takes at most one set, two for a box (`Takes`), `SetsInv` says how many draws the turn has had, and a
  refused turn adds one turn's worth.
* `BattleProofs`: the type invariant, the four safety properties of `battle` and `OverwatchLostTo`,
  for any tiles, teams, damage and ranges. Since a step composes helpers that take a game
  and give the next, the invariant `AllOK` is one of a game, and each helper has
  its lemma. `MapConsistent` is not inductive: when a unit leaves a tile on which
  another stands, the entry goes; `BoardOK` adds that two on one tile have both met.
  `WalkedWithinSprint` needs a bound for each number of points (`WalkOK`: one point left means a
  walk of at most `MaxMoves`). `Truthful`, of the button, may fail within a use when
  the target dies, and what follows each use (`AfterUse`) mends it: until then it is only
  asked for while the target lives. `OverwatchLostTo` goes over the units in the order
  they fire.
* `EngineProofs`, of `Sound`: `ContextsOnce` and `HeardAsRead`, for any number of playings and files of any
  length. For `ContextsOnce` the
  inductive invariant adds the types; `TickInv`, which relates the two counters of
  `tick()` to the list as it has become since they were read; and `SourceInv`, a source
  has played no more than was queued, without which the buffer that is taken from the
  queue, or heard, would be none. The argument is about the places of the list behind
  the ones that `tick()` has deleted (`Awaiting`): a thread that ends adds one, a deletion
  takes the first, and the removal only shifts them. `HeardAsRead` needs `PlayInv`: the
  shared buffers keep the first two pieces (`SharedInv`), which buffers are queued at each
  value of `bufferIndex` (`QueueInv`), that the queue holds the pieces that follow on
  those taken from it (`HeardInv`), and that a source has stopped only when all full
  pieces were played or it ran dry (`StopInv`). `OthersPlay` is why threads do not
  disturb each other: none writes into a buffer that is not its own.
* `EngineProofs`, of `Resources`: `LoadedFound`, for any files,
  addresses and versions. It is not inductive: within the loop of `reload` it holds of the
  resources that the loop has come to (`LoopedFound`), and survives the next entry because
  no two files have their `Metadata` at one address (`Apart`); sounds are in the loop like the others. The module extends `Sound`,
  `Resources` and `EngineInput`, so the specifications of the latter two have names of their own
  (`ResourcesSpec`, `InputSpec`, ...).
* `EngineProofs`, of `EngineInput`: all four safety properties of `engine_input`, for any keys,
  mouse buttons and buttons of the pad, any positions of the sticks, any objects, and any
  registrations that keep to `ScriptAssumption`. The properties speak of the turn after the pad
  was read; the invariant `InputInv` has to hold also while GLFW's callbacks run and within
  the reading. Most of it is about a state `st` that one event takes to the next (`StOK`): `ToldOf`
  says what each source was last told, in the terms of the code's own memory of it (the keys that are
  down, `lastGamepadButtons`, the button in `axisDPadCounters`), and `CameraOf` that a command of
  the camera is on while its key is down; a source whose event was kept back is excepted until
  its next one. `TablesInv` relates the lists of binds to the registrations: a bind is
  in a list once, a callback is of one bind, and a command of the camera has only its default
  key, which is why one event calls nothing twice (`CalledOnce`) and the order of binds does
  not matter to the camera (`BindsAre`). `Told` is the effect of announcing a source, from which
  follow that of a key (`KeyTold`), of one kept back (`KeyKept`), of a button (`ButtonTold`) and
  of a stick (`DPadStep`: the three ways its simulated button changes). `ReadInv` is what is left between reading
  the pad and the next poll.

Four of the models have helpers that are recursive functions: what the chunks draw one after
another (`ForVisible`), who fires in overwatch, the walk over a list of sent packets (`Walked`), and
in `EngineInput` the registrations of a script, the binds of a source and the buttons of a pad
(`Registered`, `OnBinds`, `ButtonEdges`). The induction theorems of the library
cannot be cited here, so what holds at every place of such a walk is shown
by a least counterexample: the set of places where it fails, if not empty, has a
least member, whose predecessor contradicts it (`WellFoundedInduction` gives the least one).
In `EngineProofs` this is done once: a function that takes the steps exists (`StepsExist`), and
what each of them keeps they all keep (`StepsKeep`).

Model-checked only are the liveness properties (`CallsReturn`, `HandshakeEnds`, `TurnsGoOn`, `PlayingEnds`,
`StopsWhenLetGo`, `FreshInTheEnd`, `ReloadsEnd`), which the prover does not reach. Every other property that a
passing run checks is stated by a theorem.

## What is not modelled

* **Path finding and tile sets** (`tileSet.cc`, `minHeap.h`) and **tile arithmetic**
  (`tileMath.cc`, rotations of chunks): sequential functions of their arguments, with
  no interleaving and no state but the path cache. A stale path only refuses a move that is within reach, and lets
  none through (`Battle` counts the points again), so which moves it refuses is left out. A model
  would compare them with a reference on small grids, as a unit test does; they are
  the last step of the plan.
* **Tiles, layers, interweaved tiles** (`layer.cc`): sorted arrays of bytes; what happens to
  the vertex buffers they fill is `VertexBuffer`.
* **Rays and lines of sight**, positions and matrices of the **camera**: floating-point
  geometry, outside of what TLC computes with. `Battle` takes cover, distances and
  throws as constants.
* **Leases** of resources, **maps**, decoding of files, layout of HTML, the widgets of the
  developer interface, console output and the build tools: conversions, libraries or
  single calls with no state that others race for.
* The Nintendo Switch build (deko3d) and the OpenGL backend differ in the renderer and are
  left aside, except that `processDeallocationLists` is called by the former alone.

`PROJECT.json` gives the status of each component.
