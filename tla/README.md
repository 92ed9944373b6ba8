# heat-gun: a specification

heat-gun is a networked 2D game in Rust: an authoritative server, a client, and
an engine written for them. This directory holds TLA+ models of the parts that
carry state between threads, ticks and machines, the TLC runs that check them
on small instances, and proofs, checked by TLAPS, of the invariants that matter
most for instances of any size.

All paths below are relative to the repository; `common` stands for
`src/engine/hg-engine-common/src`.

## Inventory

| Component | State | Operations | Interacts with | Hard behaviour |
|---|---|---|---|---|
| rpc server, `common/rpc/server.rs` | nodes and their ids, peers, two visibility sets per node, an action queue | `register_*`, `replicate`, `de_replicate`, `broadcast`, `recv_packet`, `disconnect`, `flush`, `sys_flush_rpc_server` | called by the game, the groups and MpServer; sends through MpServer | calls take effect at once, packets leave at the next flush; entities die in between |
| rpc client, `common/rpc/client.rs`, `common/mp/client.rs` | known ids, three queues per kind, errors, `frozen` | `reset`, `recv_packet`, `freeze`, the queries | fed by MpClient, read by the game's systems | a tick's packets lose their order; errors act a tick later |
| rpc groups, `common/rpc/groups.rs` | nodes followed, peers | `add_node`, `add_peer`, `remove_peer`, `unregister` | rpc server | the set of peers is pruned lazily |
| multiplayer server, `common/mp/server.rs` | sessions, two signals | `process`, `process_recv` | transport, rpc server, groups, game | all events of a tick first, all joins after that |
| game server, `src/hg-server` | players, positions | `world_tick`, `world_flush`, `spawn_player`, `SetPos` | all of the above | order of logins, spawns, departures and flushes |
| QUIC transports, `common/net/backends` | peer map, kicked flags, event queue, per connection a reading and a writing task | `process`, `peer_send`, `peer_kick`, the tasks | tokio tasks on other threads, quinn | interleaving of tasks with the main thread; how a connection ends |
| back-pressure, `common/net/back_pressure.rs` | a counter and a published waker, all atomics | `start`, `wait`, dropping a task guard | transports; guards travel with events to the main thread | lock-free hand-over of a raw waker |
| framing, `common/net/codec.rs`, `serialize.rs` | a byte buffer | encode, decode | transports | frames in pieces |
| deferred signals, `src/engine/hg-ecs/src/signal.rs` | a list, `frozen` | `reset`, `fire`, `freeze`, `reader` | MpServer | |
| entity store, `src/engine/hg-ecs/src/{entity,archetype,query}.rs` | entity tree, components, archetypes, cached members, queues of deferred operations | `new`, `set_parent`, `add`, `remove`, `remove_now`, `destroy`, `destroy_now`, `flush` | everything | what is visible when; indices cached between flushes |
| world, `src/engine/hg-ecs/src/world.rs` | resources, borrow tokens | `fetch`, `bind!` | everything | checked by the compiler |
| collisions, `common/collide`, `common/utils/math/bvh.rs` | colliders with handles into a bounding volume tree | `register`, `unregister`, `set_aabb`, `lookup`, `cast_hull`, `sys_update_colliders`, `sys_flush_colliders` | kinematics, the flush | tree rotations; colliders follow positions a system later |
| kinematics, `common/kinematic.rs`, `common/utils/math` | positions, velocities | `sys_apply_kinematics`, hull casts, MoveAndSlide | collisions | fractions, thresholds and corners |
| tile maps, `common/tile` | palette, chunks, the current chunk | `get`, `set` | collisions, drawing | reading moves chunks |
| game client, `src/hg-client` | level, players bound to nodes | `world_tick`, `world_update`, `sys_update_players` | rpc client, collisions, entity store | three systems change what the fourth reads |
| 2d drawing context, `src/engine/hg-ctx2d` | brushes, transforms, epochs and depths; dynamic buffers with staging chunks; a map of assets | `draw`, `set_*`, `finish`, `reclaim`; `extend`, `clear`, `flush`; `load`, `fetch`, `reap`, drop | wgpu, which executes later | caches on caches; chunks that return by callback; assets loaded and dropped on several threads |
| client graphics, `src/engine/hg-engine-client` | cameras, sprites | drawing | entity store | |
| run loop, `common/time/run_loop.rs` | last tick | `wait_for_tick` | driver | |
| utilities, `src/engine/hg-utils` | | merge iterators, mapped `Arc` | | |

`src/exp` holds experiments and `src/engine/hg-engine-server` is empty; neither
is part of the program.

What makes each part correct:

* **rpc server**: a peer is told exactly what the calls said, in their order:
  no node twice, no message about an unknown node, no lost update; nothing is
  sent to a session that is gone; the queue never points into freed memory.
* **rpc client**: whatever tick a packet falls into, the game ends up with what
  the server meant; errors end the connection.
* **groups, sessions, game**: every player is visible to every member and to
  nobody else; only its owner moves it; a kick is final; nothing of a peer
  outlives it; the tick never panics.
* **transports**: events of a peer are a conversation (connected, data,
  disconnected); every connection ends; one peer cannot take the others down.
* **back-pressure**: the waiter wakes when, and only if, it should; the waker is
  freed once; capacity is conserved.
* **entity store**: the cached member lists agree with the components at every
  query; deferred operations happen exactly once, at the next flush.
* **collisions, buffers, assets, tiles**: the incremental structure equals the
  one computed from scratch.

## Modules

| Module | Role |
|---|---|
| `RpcServer` | the rpc server with its flush and the world flush, cut into loop iterations |
| `Replication` | what the rpc server promises, without queue and flush |
| `RpcServerRefines` | `RpcServer` implements `Replication` |
| `RpcServerProofs` | their proofs: the queue and the packets; the refinement |
| `RpcClient` | the rpc client within MpClient::process, a component |
| `RpcLink`, `RpcLinkProofs` | `Replication`, an ordered stream, `RpcClient` and the players of the client's game |
| `GameServer`, `GameServerProofs` | transport events, MpServer, the group, sessions, players, the main loop |
| `BackPressureAsync`, `BackPressureAsyncProofs` | the lock-free counter with a waker |
| `FrameLink` | what a transport promises for one direction |
| `QuicConn`, `QuicConnProofs` | one connection, both ends: workers, tasks, queues, main loops; each direction implements `FrameLink` |
| `ArchetypeStore` | the archetypes, their shortcuts and the merge that a query begins with, as operators on a value |
| `EntityStore`, `EntityStoreProofs` | the entity tree, components, deferred destruction, the member lists and the queries; uses `ArchetypeStore` |
| `Aabb` | boxes and hull casts on whole numbers |
| `Bvh` | the bounding volume tree, as operators on a value |
| `TileMap`, `TileGrid` | the chunks of a tile map, and the function it promises to be |
| `ClientWorld` | the client's frames: level, colliders, players, movement; composes `Bvh`, `TileMap`, `Aabb`, and its map implements `TileGrid` |
| `DynamicBuffers` | growable gpu buffers with their staging belt, as operators on a value |
| `Canvas` | the calls of a frame, the commands made of them and the gpu that executes them; uses `DynamicBuffers` |
| `AssetManager`, `AssetManagerProofs` | the asset map, its loaders and the retainer, on several threads |
| `MC...` | the values and symmetry TLC needs |

### RpcServer

One action per call (`RegisterNode`, `Replicate`, `DeReplicate`,
`BroadcastUpdate`, `RecvPacket`, `Disconnect`, ...) and one per iteration of the
loops of `flush` and `sys_flush_rpc_server`. The program is single threaded
there; `phase` keeps calls out while a loop runs. The payload of a packet is a
version number of the node's state: enough to tell a lost or repeated update.
`wire` records all that was handed to the transport. Entities have a life
(`none, live, condemned, unregistered, dead`) because `destroy` only takes
effect at the next world flush, and components can be used until then.

### RpcClient and RpcLink

`RpcClient` has the actions of one tick: `Reset`, `Recv` per packet, `Freeze`.
`RpcLink` takes the server for what `rpc_server` shows it to be,
`Replication`, adds the game and lets server, stream and client run at their own
pace. A player is two nodes: its own, whose creation has the position, and a
follower, which names it (`Target`) and brings the moves (`Move`). In the
program the follower is the puppet or, for the owner, a node that brings no
moves; a peer is shown one of them, and the players here are those of others.
In which order the two nodes are shown is open, as it is in `add_peer`.
`ClientUpdate` is the part of `sys_update_players` that reads packets: the
players that were added (`Spawned`), then the followers, each of which looks its
player up and is bound to it, or reports an error (`Refused`) and stays unbound;
then the messages, then the removals. A message for a follower that is not bound,
or whose player is gone, panics, and so does a follower whose player is gone
(`Panics`, `ClientPanics`): `crashed` ends the client. `torn` is a history of the
followers that came without their player. Disconnecting is a request to the
transport's worker, so packets may still arrive after it. `Again = FALSE` keeps
the server from showing a node again to a peer it was hidden from, which the
game never does and the client cannot handle (see Findings).

### GameServer

The transport is what the main thread sees of it: a peer map, kicked flags and
one event queue, changed by tasks between any two steps. Every event handler is
a step, then joins, quits and the world flush. The rpc server is used through
`Replication`: `shown` and `log` are its `visible_to` and what the peer is told
now or at the next flush; that this is the same is what `RpcServerRefines` checks.
`log` is what is handed to the transport, which still drops it for a kicked peer.

### BackPressureAsync

One step per access to an atomic. `clones` counts the waker clones that exist,
`seen` what a guard's drop loaded as the vtable. Memory is sequentially
consistent in the model: the code's fences are meant to make it so, and
reorderings beyond that are not checked. The vtable is null until the first wait
that sleeps has stored it. A drop that has loaded null and then obtains the waker
uses it (`WakeNull`), which is undefined in Rust; the model has what the build
does, a fault at a small address, and `crashed` stops everything. So `WaitEnds`
has two parts: every wait ends or the process is killed, and no wait that begins
after a vtable was stored, with no drop left that loaded null, meets the latter.

### EntityStore and ArchetypeStore

The game's calls (`New`, `SetParent`, `Add`, `Destroy`) happen between flushes
and inside the handler that a flush runs; the flush is cut into the iterations
of its loops, and takes the hash set and the hash map at the end in any order.
`archetypes` is the store that `Add` looks its target up in: shortcut, then map,
then a new archetype that joins the list of each of its components. A query
(`Query`) merges those lists by number and steps through the columns of each
archetype it finds; `QueriesExact` says that it lists each entity that had the
components at the last flush once. (In a second round of the handler, when the
first has killed, the lists still hold the dead; no handler of the program
queries.) `Original` is the archetype whose lists still hold the entity,
`removed` is what `query_removed` returns, and `late` is a history variable for
components that a handler adds. `Reckless = FALSE` keeps the game from
destroying what it has reshaped since the last flush, which the code gets wrong
(see Findings).

### QuicConn and FrameLink

Both ends run the same program: a worker that connects or accepts, spawns its
two tasks, joins them and reports; `Rx` and `Tx` with one step per await; a
main loop that takes events, sends, kicks or leaves. The quinn connection is
external: pieces of frames, header and body, in a stream with a window; close;
loss at any step. `cause` is how a worker ended and `told` what its main loop
has heard. `ToClient` and `ToServer` map the two directions to `FrameLink`:
what is handed over are the frames sent, in order, with none missing and
nothing after the end. A frame is its length in bytes, between none and more than
the decoder's limit. What waits for a main loop weighs as many bytes as its
payloads have (`Outstanding`), so empty frames are decoded and handed on like any
other and weigh nothing. A receiver's wait is over when the weight is back within
the capacity, which `back_pressure_async` shows of every wait but the first that
sleeps.

### ClientWorld, Bvh, Aabb, TileMap

A frame is: flush (the handler unregisters the colliders of the dying), the
packets (players are added, bound to an owner or a puppet, moved, removed), the
kinematics of the owned player in steps of MoveAndSlide, the update of the
colliders. Geometry is on whole numbers; a fraction of a move is kept as
numerator and denominator; the infinite box of the tile map is there, and with
it the infinite and NaN costs of the tree (`FPlus`, `FLess`). Operations that
search the tree return the set of trees they may leave, because a binary heap
yields equals in any order. `stale` is a history of the branches whose kids a
rotation exchanged. Reading a tile is an action on the map (`MapAfterCast`),
because it moves chunks. The displacement of a frame is a free choice.

### Canvas and DynamicBuffers

A call either draws again into the run of the last draw, into a known brush and
transform, or into a new one (`DrawAgain`, `DrawKnown`, `DrawNew`); `FinishRaw`
flushes the buffers and replays the commands. The encoder's commands are
executed by the gpu later and in order, after which chunks are mapped and come
back over a channel. `shown` is what the last executed frame drew, next to the
calls it was made of: `DrawnAsCalled` compares the two through all caches,
offsets, ranges, chunks and copies. A cell of a buffer is one instance, with its
call and depth, or one uniform block.

A pass begins with cleared depths, every pipeline writes the depth and passes
what is greater, whatever its blending, and a new epoch starts the depths of its
draws at the bottom again. `Passed` is what is left of the instances that cover
one pixel, for any set of calls that do. `PaintersOrder` has two parts: of calls
without blending the latest is seen (`LatestOnTop`), and blended calls come to
the depth test in their order (`BlendedInOrder`). That the test lets them pass
is `BlendedVisible`, which TLC refutes (see Findings).

### AssetManager

One step per section under the lock, per initialisation of a `OnceLock` and per
change of a reference count; each thread has a stack of the calls it is in,
because loaders load and drops drop. A key stands for a key with its loader, so
hashing and comparing are abstracted. What a loader loads for itself is dropped
when it returns; a panic leaves the cell empty for the next thread. Loading
under `new_untracked` and the drop of the manager itself are left out. The
repository's own programs load from one thread so far; the types are `Send` and
`Sync`, and the code takes locks for it.

## Runs

| Run | Instance | What it shows |
|---|---|---|
| `rpc_server` | 1 node, 2 peers, 1 update, fair | the queue and the two visibility sets agree and are symmetric; queued actions have their queue; the packets are a legal conversation in which no update is lost or repeated (`PeersUpToDate`); nothing is sent to the dead; `RpcServer` implements `Replication`; what is shown is announced and what is destroyed is taken back |
| `rpc_link` | a player with its puppet and a node of an unknown kind, 2 moves, 5 packets, fair | from end to end, ticks falling anywhere: the players are where the packets lead and, with nothing left to read, where the server has them; errors come only of an unknown kind or of a tick that ends between a puppet and its player, panics only of the latter; after an error the client leaves or has panicked |

| `back_pressure_async` | 3 guards, sizes 0 to 2, fair | all interleavings of waiter and guards from the first wait on: no lost wake-up, one owner per waker; a wait ends, but for a null vtable in the first that sleeps |
| `back_pressure_vtable` | the same | expected violation: in that first wait a drop may wake through a null vtable |
| `game_server` | 2 peers, 2 packets each, a queue of 4 | the whole server program: presence agrees everywhere, everyone sees everyone, watchers are current, only owners move |
| `game_server_live` | 2 peers, fair | logins are told, departures leave nothing |
| `game_server_hasty` | 1 peer | expected violation: a login and a departure within one call stop the server |
| `quic_conn` | 2 frames of 1 or 2 bytes to the server, 1 of 0 or 1 to the client, with a limit of 1 and a capacity of 0, fair | each direction is a `FrameLink`; the bytes of the packets that wait for a main loop are bounded (the number of empty packets is not); events are bracketed and each end knows why it ended; every end is told; frames arrive |
| `entity_store` | the root and 2 entities, 2 components | after and in the middle of any flush: tree, cached positions, lists, queries and components agree; what dies was announced; a flush kills all that is condemned |
| `client_world` | 2 players, a wall, the ground, a tile | the tree stays linked and its boxes bound but for what a rotation spoils; an insertion finds the cheapest sibling; colliders follow; casts keep their distance from what lookups find; the tile map implements `TileGrid` |
| `canvas` | 2 brushes, 2 transforms, 5 calls, 3 frames, chunks of a draw and a half | every call is drawn once, with its brush and transform, and the first call of a run with its blending, scissor and clip (a later one gets the run's); without blending the latest call is seen, with it the draws come in their order; chunks and buffers are neither lost nor overwritten |

| `assets` | 2 threads, 2 assets, 3 loads, 1 panic, fair | a key has one live asset; what is held is loaded, once, with what it needs; the retainer keeps two frames; every call ends |

Many of the properties are conjunctions of named parts (`PresenceAgrees`,
`EndsInOrder`, `BuffersKept`, ...): each part has its own comment, and most have
their own mutant.

Bounds. Node ids and peers are never reused and unrelated nodes share only the
queue and the log; one node and two peers of which either may join, leave or be
shown the node at any step meet in every operation on the two visibility sets, and
`MaxWire` is long enough for creation, update, and deletion or a second showing,
with a flush between any two of them. All that `rpc_server` checks, but its
liveness, is also proved for any numbers. In `GameServer` two packets per peer allow a login
followed by a move, a forged move or garbage. In `RpcLink` five packets are a
player with its puppet in either order, two moves and a deletion, or another
node's creation between them, with the end of a tick anywhere. Three guards in
`BackPressureAsync`, of sizes between nothing and more than the capacity, let the
counter cross zero in one drop or in two, and again while an earlier drop is
still waking. In `QuicConn` a window of one piece makes both writers wait in the
middle of a frame, and with a capacity of zero a receiver waits for its main loop
after every byte and goes on after an empty frame; the client also sends frames
over the limit. Two frames one way are one that waits behind another. In
`EntityStore` the
root may have components too, which makes the smallest list with a dead entity
on either side of a living one, the case that trimming and swap-removal are
about, and two components make all four archetypes, in every order. In
`ClientWorld` the ground, a wall and two players make a tree of seven nodes,
deep enough to rotate; players move by both axes or by one, in a window of four
by eight. In `Canvas` five calls are enough to return to a brush and transform
after another one with blending switched in between, a chunk holds one draw and
a half so that draws straddle chunks, and three frames let a chunk come back
late. In `AssetManager` three loads are a load, its drop and the load that
revives the key while another thread does the same.

Runs switch `CHECK_DEADLOCK` off where the bounds, or users that have stopped,
end a behaviour; `entity_store` and `client_world` check it, so a flush or a
frame never gets stuck. In `assets` blocking is what `CallsEnd` is about.

Fairness. The server's main loop flushes every tick, so flushes that can begin
do, and loops run to their end (`RpcServer`, `GameServer`); the client's loop
alternates MpClient and game every frame until the game panics (`RpcLink`);
tokio runs ready tasks, and guards are dropped because the main loop drains the
event queue (`BackPressureAsync`), as long as the process is not killed. In
`QuicConn` the executor runs workers and tasks that can go on, main loops drain
their events, and quinn carries a close, or the loss of the connection, to the
other end (its idle timeout); nobody is assumed to send, kick or leave. In
`AssetManager` a call that has begun goes on, and which calls are made is up to
the users. Peers, packets and ends of connections are never assumed, but for a
kicked peer, whose connection run_conn_tx closes.

## Proofs

Each theorem holds for every value of the constants, from the assumptions the
modules name. Every inductive invariant was first checked by TLC on an instance
of its run.

`RpcServerProofs`: `TypeCorrect`, `VisibilityCorrect`, `QueueCorrect`,
`QueueSafe` and `SendSafe`. The inductive invariant `IInv` joins the type, the
symmetry of the two visibility sets, the agreement of the lagging set with the
queue, and that queued actions have their queue; it needs besides that sets of
unregistered nodes are empty, that a node is registered exactly while its
DestroyNode has not been queued, and that during a flush only connected peers
are left in the lagging set. The proof follows the actions, one lemma for what
appending and taking an action does to `WillSee`.

In the same module `ToldCorrectly`, that is `PeersUpToDate`. `WireInv`
follows two things along the queue: whether a peer sees a node at the moment an
action will be performed (then creations and destructions alternate), and the
state the node has at that moment (`StateAt`), from which the first update
queued after it leads on. The last packet of a log about a node then gives the
state at the head of the queue, and, with the queue empty, the server's own.

Its third part is `ServerImplements`, the refinement of `Replication`.
The log of a peer is its wire followed by what the queue owes it (`Pending`,
defined by the rank of the actions that reach the peer, so that it can be
reasoned about without recursion). A call pushes one packet to the end of what
the peers it reaches are owed; a step of flush moves the first packet owed to
the wire, which no log notices; a peer that leaves keeps what was sent, the
prefix that `Leave` of `Replication` chooses.

`RpcLinkProofs`: `ClientFaithful`, that is `ReplicaFaithful`, for `Again = FALSE`
(the other value refutes it, see Findings), and peers who see one follower of each
player (`OneFollower`). Of the log `LinkInv` says that a node is created first, once,
and not heard of after its deletion (`ToldOnce`), that a follower is not shown after
its player went nor a move told before its player was (`ToldTogether`), and that
the log leads to where the server has the players (`LogMirrors`). Of the client,
that it knows the nodes of known kinds that it has read of, and that the three
queues, read list by list, lead where the packets lead in their order
(`GameFollows`): every packet that matters is about one player, so a packet that
is read is last about its player, and the others keep theirs. Errors and panics
need more: a follower that is known is bound, waits to be added in this tick, or
was torn (`FollowersBound`), and the player of a queued follower or move is there
when the game gets to it, or was never known (`PlayersAlive`).

`GameServerProofs`: `PresenceCorrect`, `AllSeeAll`, `MovesChecked`,
`WatchersUpToDate`. The invariant says that the part of the event queue about one peer
is one conversation, which the sessions follow from what has been taken of it;
that a session has a player, or will have one after the joins at hand, exactly
when it is in the play state; that the group's nodes and the logs of its members
are those of the players. `WatchInv` adds what the log of a watcher says last.

`QuicConnProofs`: `EndsKnown`, `PressureBounds` and `LinksKept`, the refinement
of `FrameLink` in both directions. The control part (`CtlInv`) relates the
worker's state, its tasks and how the connection was closed to what the main
loop is told; the data part follows the frames from the writer's queue through
the task, the stream, the decoder and the event queue. `PressureBounds` counts
the bytes of the packets in that queue: a packet is only taken from the stream
while they are within the capacity, and adds at most the decoder's limit, so the
bound is their sum. It says nothing of how many packets there are.
`QuicConnAssumption` asks that the client may send at least its login.

`EntityStoreProofs`: `DeadOwned` and `RemovalsAnnounced` hold whatever the game
does. `CoreInv` says in all phases of a flush that archetypes have distinct sets
of components, that an entity's archetype has what it owns, that the queue and
what is being killed are the condemned, and that what was announced is what lies
below the roots that are about to be killed. `Below` is a least closed set, so a
handler that adds or moves something below a root is met by closure and not by
induction over the tree. `ListsAreKept` and `StoreIsWellFormed` need `Reckless =
FALSE` (the other value refutes them, see Findings): `ListsInv` adds that lists
of archetypes to come are empty and that the remembered slots of the dead hold
nobody alive, which is what trimming and swap-removal in any order rely on. That
the archetypes stay finitely many needs `CompAssumption`: there are finitely
many components, and no two archetypes have the same set of them.

`QueriesAreExact`, under the same condition: a query goes through the archetypes
that hold the components asked for (`ArchetypesWithSet`), and `ListsInv` says of
each that its columns are parallel lists in which an entity is found at the
place it remembers. So an entity is listed once, and every living one is listed
by the archetype it had at the last flush (`Original`), whatever happened to it
since.

`AssetManagerProofs`: `AssetsAlwaysShared`, `HeldAlwaysUsable` and
`RetainerKeepsTwoFrames`, for any number of threads and keys and any loaders
that do not load themselves (`Acyclic`). Everything hangs on `Counted`: the
reference count of an entry is the number of its owners, which are the threads
that hold it, the retainer, the assets that keep it alive (once per place) and
the calls on all stacks, each of which owns its entry, what it has still to drop
and what it has kept so far (`FrameOwns`). Only then is it known that whoever
touches an entry finds it alive, and that a count that falls to zero has nobody
left. `FramesSound` and `Nested` say what a call knows and which calls may lie
above which, so that a loader's `keep` is the list of its dependencies up to the
one it is waiting for; `BusyOnce` that an entry is busy because exactly one call
on one stack runs its loader; `RetainerSound` what the marks say in the middle of
a reap. Nearly every step exchanges the last one or two calls of one stack for at
most two others (`Step`), and what this does to the invariant is proved once:
`Gain` is what the exchange adds to the owners on the stacks, and a step is right
if the counts change by as much (`StepCounted`, `Recounted`).

`ClientWorldProofs`: `TreeIsSound`, `CollidersAreCurrent`, `TilesAreKept` and
`CastsKeepTheDistance`, for any level, players, moves and threshold. `Inv` joins
the types, `BusSound` (the tree is a tree, its boxes bound, the handles lead to
the leaves), `MapSound` and how the phases of a frame know the players.

* The tree. `Tree` says that parents and kids agree and that branches can be
  ranked (`Ranked`), each below its parent: without the rank a ring of branches
  would satisfy the links, and the line from a leaf to the root, which the
  insertion refits and rotates along, need not end. Each operation is described
  by the shape before and after (`AttachIs`, `OrphanIs`, a rotation by `Family`)
  and shown to lead from trees to trees with the same leaves. `BoundBut` is the
  bound of the boxes while part of the line has still to be refitted.
* The tile map. `MapSound` says of the current chunk and the chunks in the hash
  map which positions they have and that the counts of solid tiles are right:
  that an empty current chunk may be reused is one consequence, that moving
  chunks in and out cannot be noticed another, and with it each step is one of
  `TileGrid` or leaves the grid as it is.
* The casts. Results are compared as fractions, by products; the least of all
  results is at most what each obstacle allows, and what an obstacle allows
  along an axis stops at the threshold. A cast goes against the tiles one by
  one and loads chunks on its way, so the fold over them carries the map along.

Induction: the library's theorems that take an operator are not for these
provers, so an induction over the natural numbers is stated with the least
number at which something fails (`LeastNatural`), and the folds over a line or
over the tiles of a cast are shown to be defined, up to each length in turn
(`FoldExists`), before anything is shown of them. Where a choice of the code is
free for the prover (`BestSwap`, `FindBestSibling`, the order of the
candidates), the theorems hold for each of its outcomes.

`BackPressureAsyncProofs`: `WakeupNotLost`, and `WakersCounted` from
`TypeCorrect`, `WakersOwned` and `NothingLeftPublished`. The invariant adds to
each that a parked waiter that has not been notified is either still published
or held by a guard that is about to wake it, and counts, for the clones, the
guards that are waking. It holds from the null vtable on, up to where the process
may be killed.

Only model-checked:

* liveness (`EventuallySettled`, `SessionsSettle`, `ErrorEndsLink`, `WaitEnds`,
  `EndsAreTold`, `FramesArrive`, `CallsEnd`): fairness and ENABLED are out of
  the prover's reach;
* `BestSiblingLeast`: `find_best_sibling` prunes by costs that are infinite or
  NaN once the ground is in the tree, so no order of the numbers carries an
  argument; `Inf` and `NegativeNan` stand for what f32 does, and that the box
  chosen is the cheapest is checked on the trees that TLC reaches. The theorems
  about the tree do not need it: they hold whichever sibling the search returns;
* `BuffersKept`, `DrawnAsCalled` and `PaintersOrder` of `Canvas`: a picture is
  what a fold over the commands of a frame has drawn, and the offsets of the
  buffers are sums over their chunks. The inductive invariant would have to say
  of every prefix of the commands what it has drawn; it is not written.

## Findings

A session created, logged in and gone within one `MpServer::process` makes
`world_tick` add a component to a condemned entity, which panics
(`game_server_hasty`). `HastyQuit = FALSE` leaves this out of the run where it
would cut the behaviour short.

`RpcGroup::add_peer` sends the nodes of a group in the order of a hash set
(`groups.rs:77`), so a correct server may send a puppet before its player. If the
client's tick ends between the two, the client reports an error (`player.rs:139`,
147) and asks for a disconnect in its next tick; a move of the player that is read
before the connection is closed finds the puppet unbound and panics
(`player.rs:159`). TLC refutes `NeverPanics` of `RpcLink` on the instance of
`rpc_link`; the run itself has these behaviours in it, and `OnlyTornPanics`, a part
of `ReplicaFaithful`, says that nothing else panics.

The first `wait` of a connection that sleeps stores a vtable where there was none.
A guard that loaded null before, and obtains the waker after it, wakes through the
null pointer, against the comment at `back_pressure.rs:226-230`
(`back_pressure_vtable`). Later waits find the vtable of an earlier one, which is
the same.

Blended draws are put into epochs so that their order is kept (`facade.rs:464-468`),
but an epoch also starts the depths again (`depth.rs:52-55`), and the depth buffer
is cleared only once in a pass. Of three blended draws with brushes 1, 2, 1 the
third has the depth of the second and is discarded where they overlap. TLC refutes
`BlendedVisible` on the instance of `canvas`; `BlendedInOrder` is what holds.

Seen without a run. Two constants keep an instance away from code that is
wrong where the program does not go today; with the other value TLC shows it:

* `Again = TRUE` in `RpcLink` refutes `ReplicaFaithful`: a node shown to a peer,
  hidden and shown again is a "duplicate creation" for the client
  (`client.rs:215-216`), whose id map never forgets.
* `Reckless = TRUE` in `EntityStore` refutes `DeadOriginal` and `ListsKept`:
  `destroy_now` files an entity that gained a component since the last flush
  under its new archetype (`entity.rs:440`), against the comment on
  `dead_entities` (47-48); the flush then panics or removes another entity.

`LookupComplete` in `ClientWorld` is refuted as it stands: a rotation exchanges
two subtrees and leaves the box of the branch below as it was
(`bvh.rs:469-479`), although the comment (389-390) counts on the change; a
lookup then turns back at a branch that no longer holds its kids, and passes a
registered collider by. `BoundUnlessRotated`, a part of `TreeSound`, says that
nothing but a rotation does this.

Seen while reading:

* `Entity::remove` is lost when nothing is destroyed in the same flush
  (`entity.rs:124`) and never changes the archetype; `RemoveLookupMode` has the
  polarity of `ExtendLookupMode` (`archetype.rs:357`), so both share one cache;
  `RemoveIter` discards from the wrong side (`merge.rs:98`). A `Query<Entity>`
  alone asks for no component and finds nothing (`archetype.rs:291-293`). None
  of them has a caller.
* `RunLoop` sleeps for the elapsed time plus a tick (`run_loop.rs:54`). The
  client's main loop has `todo!()` for a lost connection (`mp/client.rs:48`).
  One failed handshake shuts the server down (`quic_server.rs:200`). An error
  after the id of a new node was noted leaves a node that the game never hears of
  (`client.rs:227-229`).
* The decoder takes frames without a body (`codec.rs:105-122`), which weigh nothing
  in the back-pressure (`quic_server.rs:338`): the number of packets that wait for
  the main loop has no bound.
* A write that is interrupted by a clean disconnect counts as an error
  (`quic_server.rs:384-388`, against the comment at 376-377). The encoder writes
  frames that the decoder refuses.
* MoveAndSlide casts every step from the box of the first (`kinematic.rs:77`); a
  cast along both axes can pass a corner within the threshold (`hull.rs:117`); a
  new player's collider lies at the origin for a frame.
* In the canvas, the shortcut for the brush drawn last ignores blending and
  epoch (`facade.rs:459`), and a known brush goes on with its run after a change
  of scissor, clip or blending, which takes effect with its next run only;
  `brushes_xf` only grows (671). In the buffers, the test for intervals that are
  apart is never true (`buffer.rs:433`) and the trimming of intervals is the
  wrong way round (474); `extend` and `clear`, all that is used, do not meet
  either.

## Plan

The model reaches from the packet to the player and from the player to the
picture, and all of it but the picture is proved about. What is left to prove:
`BuffersKept` of `Canvas`, from the ownership of staging chunks; then, with an
invariant about the commands of a frame, `DrawnAsCalled` and `PaintersOrder`. What is
left to model: the whole `GameServer` in the place that `Replication` has in
`RpcLink`, with the owner's own node and the camera it looks for, and packets that
fail to decode.

## Not modelled

World (`world.rs`): borrow tokens that the compiler checks. Run loop: a sleep.
Certificates, endpoints, argument parsing: configuration and I/O. Client
graphics, pipelines and shaders: state into vertices, no protocol. Utilities:
pure containers. `BackPressureSync`, `Entity::remove`, `lookup_remove`,
`copy_using_local`, bullets, collision checkers and the debug key: no user in
the program, or the developers' own. Velocities, gravity and friction: the
displacement of a frame is free instead. `src/exp`: experiments.
