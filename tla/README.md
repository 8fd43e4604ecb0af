# Solemnsky: specifications and proofs

Solemnsky is a multiplayer game. A server keeps an *arena* of players, a message
of the day and a mode; every client holds a copy of it, built from one
initializer and kept up by deltas. When an admin starts a game, the server and
each client load an *environment*, the server puts a *sky* on it, and the
clients ask for that sky and then follow it by deltas. All of it travels over
ENet's reliable channel, and the program itself never retries anything: what
keeps the copies right is the order in which packets are made and sent, and to
whom, and what ENet promises of that order.

This directory models that in TLA+, from the arenas down to the datagrams,
checks it with TLC and proves with TLAPS the safety properties of its core, of what is
inside a sky and of two of the layers below, with the refinements between these. The sources are those of
`src/src` (called by their paths under it below) and, for the transport, of the vendored
library in `src/thirdparty/enet`.

## 1. Inventory

| Component | State | Operations | Properties that make it correct | Here |
|---|---|---|---|---|
| Allocation (`util/methods.*`, `engine/arena.cpp`) | none | `smallestUnused` on vectors and maps, `allocNickname`, `allocPid` | what is handed out is unused | `Nickname`, `Allocation` |
| Arena and players (`engine/arena.*`, `engine/player.*`) | players by PID, motd, next environment, mode, team count | initializer, 8 kinds of delta, `connectPlayer`, `allocNewNickname`, `autojoinTeam` | copies equal the original; nicknames and PIDs are distinct | `Arena` |
| Sky handle (`engine/sky/skyhandle.*`) | environment, sky, `envStateIsNew` | `start`, `stop`, `instantiateSky`, `collectDelta`, `applyDelta` | stages follow one another; a sky has a loaded environment | `SkyHandle`, `Loading` |
| Environment (`engine/environment/*`) | worker thread, map, mechanics, visuals, error flags | two loading jobs, `joinWorker`, `loadMore` | never read while written; errors are noticed; loading ends | `Environment` |
| Server (`server/*`) | arena, handle, `peer->data`, schedulers | one handler per packet, ticks | peers and players correspond | `ServerExec` |
| Multiplayer client (`client/multiplayer/*`) | `ArenaConnection`, `askedSky`, disconnect timer, view | one branch per packet, ticks, requests | own player stays; the view has what it refers to; the exit is never barred | `MultiplayerCore`, `PeerConnection` |
| Participations and sky deltas (`engine/sky/sky.*`, `participation.*`) | planes by PID, last announced controls, `newlyAlive` | spawn, kill, initializers, deltas, inputs, authority | a client that joins in between misses nothing | `Participation`, `SkySync` |
| Delta and input caches (`client/engine/skydeltacache.*`, `server/engine/skyinputcache.*`, `engine/flowcontrol.*`) | queues with arrival times | cache, apply | no delta or input reaches the wrong player | `SkySync`, as queues |
| Transport (`util/telegraph.*`, `engine/protocol.*`) | ENet host and peers | `poll`, `transmit`, `disconnect` | in order and once per link | `Network` (external), `PacketQueue`, `PeerEvents` |
| ENet connections (`enet/protocol.c`, `peer.c`, `host.c`) | peers in ten states, session numbers | the handshakes both ways, acknowledgements, time-outs | one connection at a time in a slot; nobody hangs | `PeerConnection` |
| ENet channels (same files) | sequence numbers, windows, lists of commands both ways | send, time out, queue, reassemble, dispatch, acknowledge | a queue of whole packets | `ReliableChannel` |
| Latency tracking (`server/engine/latencytracker.*`) | samples by PID | `makeUpdate` | | its delta in `ServerExec` |
| Sandbox, client application (`client/*`) | a handle of one's own; the game that is played | start, stop, tick; quit | as for the server | `Environment`, `PeerConnection`, in part |
| Subsystem registry (`engine/arena.hpp`) | subsystems by number, pointers in every player's `data` | registration, `onJoin`, `onQuit`, ... | no dangling data; each callback once | planned |
| Component sets (`engine/sky/components/*`), scoreboard (`engine/scoreboard.*`), `Plane::damage`, `Sky::changeSettings` | | | | only tests use them |
| Plane's numbers, physics, rendering, UI, files, printing | numbers, Box2D bodies, widgets | | | not modelled |

How they interact. The server's loop (`server.cpp:252`) drains its host, one
handler per event, and then ticks. Handlers change the arena only through
`registerArenaDelta`, which applies a delta and sends it to every peer,
including those that have connected and not joined; the handlers of joins send
`Init` (a snapshot) to the peer that joins and `Join` to the others that have
joined. The mode travels at once; the environment is announced by the *next
tick*; the sky must be asked for. A client runs the same arena, handle and sky
code on what it receives, ticks between polls, and loads its environment in a worker
thread, as the server does. The sky's deltas wait in a cache on the client, and the
inputs in one on the server, until clocks let them go; the arena's deltas do
not wait for them. The two ends share nothing but the packets. Each end's host
runs ENet's state machine for its peers, which fragments, resends, orders and
reassembles, and decides when a peer is gone.

What is hard here. Packets sent before a change and read after it (`ReqSky`,
`RCon`, requests of a player whose link is already down); snapshots between
deltas with different receivers; two changes between two ticks; deltas that are
overtaken by the arena's; worker threads that end at any time, between any two
reads of the tick, on the server before or after on a client; peers whose
links break with packets unread and whose slots, sessions, PIDs and nicknames are used
again; sequence numbers that wrap; requests that are made once and dropped.
`PROJECT.json` lists each hazard at its line.

## 2. The modules

### The session

Each extends the ones above it, but for `Allocation` and `Membership`, which stand beside
them.

* **`Nickname`** – `smallestUnused` and `allocNickname` as declarative
  definitions. A nickname is a base and the numbers in brackets after it, which
  is all that `allocNickname` tells apart.
* **`Allocation`** – the two `smallestUnused` loops, step by step, on every
  short vector, against what `methods.hpp` promises of them and against `Nickname`'s
  definitions. `std::sort` is `InOrder`: a value's
  place is the number of those that come before it.
* **`Arena`** – players, deltas and initializers as records. A `std::map<PID,
  T>` is a total function whose value is `None` where there is no key, and
  `None` is also `boost::none`. `CopyArena` is `captureInitializer` followed by the constructor of
  the copy; it loses the team count, as the code does.
* **`SkyHandle`** – a handle is an environment (URL and stage of loading), a sky
  and `envStateIsNew`. A sky is the number of the server's sky whose contents it
  holds, so that two skies, and their deltas, can be told apart.
* **`Network`** – a link, a queue of events to the server and a queue of packets
  to the client for each peer slot. To this module ENet is external: it keeps order
  and delivery on an open link, the CONNECT event before and the DISCONNECT
  event after a link's packets, loss of the last packets of a link that breaks,
  and slots that are used again. The next part shows ENet doing so.
* **`ServerExec`** – one action per event (`HandleConnect`, `HandleReqJoin`,
  `HandleReqSky`, ..., one for each `rcon` command) and `ServerTick`, which is
  the whole tick: instantiate or `loadMore`, announce the handle, send the sky's
  deltas when their scheduler lets them (`skyDue`), and the players' statistics
  (`statsDue`). `playerOf[c]` is `peer->data`. `Transmit` appends what a handler sends, in
  the order it is sent. `HandleReqPlayerDelta` reads two flags that the code
  leaves uninitialised and chooses them freely.
* **`MultiplayerCore`** – the clients. `ProcessPacket` is the branch per packet
  as a function, `ClientTick` the core's tick and that of the view,
  `ClientAborts` the failing assertion of `MultiplayerGame`'s constructor. User
  actions are those the interface offers in the view that is shown.
* **`Session`** – server and clients together, fairness, and the properties.
* **`SessionInvariants`** – what is true of the packets on their way, the three
  inductive invariants, and `Replay`, what a client will have when it has read
  everything that is on its way.
* **`Membership`** – what an arena promises its members, in two variables: the
  players, and which member has which. A member joins (with the smallest free PID and
  no rights), leaves, or asks for something, which changes his own player only; what the server
  says of itself changes no name, right or team. Every step of `Session` is one of
  these or none, the member being the peer.
* **`MCSession`** – values for TLC.
* **`ArenaProofs`, `AllocationProofs`, `SessionProofs`, `ReplayProofs`** – section 5,
  as are `SkySyncProofs` of the inside of a sky, `ReliableChannelProofs`,
  `PeerConnectionProofs` and `EnvironmentProofs` of the layers below.

### The layers a session rests on

A session takes three things for granted. Each has a short abstract module
that says what, and a detailed one, translated from the code that provides it,
which TLC shows to implement the abstract one.

* **`PacketQueue`**, implemented by **`ReliableChannel`** – the packets of one
  direction are polled whole, in order and once. The detailed module is one
  direction of an ENet channel: `enet_peer_send` (a packet is cut into
  fragments), the sender's lists of commands that were sent or timed out
  and its windows, `handle_send_reliable`, `handle_send_fragment` and
  `queue_incoming_command` with the wrapping comparison of their loops,
  dispatching, and acknowledgement. Commands are numbered from 1 in the model, and the code's
  decisions see `SequenceNumber`, which wraps. The refinement mapping counts the
  packets among the commands.
* **`PeerEvents`**, implemented by **`PeerConnection`** – a slot of the host has one
  connection at a time, whose CONNECT comes first, whose DISCONNECT comes last,
  and whose player goes with it. The detailed module is the state machine of
  ENet's peers on the server and the client under the code of `tg::Host`,
  `MultiplayerCore` (`poll`, `disconnect`, the timer of `tick`) and
  `ServerExec::poll`. Every datagram may be lost, come late and come again;
  users leave, die and come back.
* **`Loading`**, implemented by **`Environment`** – a handle changes by the operators
  of `SkyHandle` only, and no stage of loading is skipped. The detailed module has the
  worker thread and its owner as two processes: no lock guards what they share,
  so that each condition of the owner's tick is a step, and a part that is being
  written may be seen or not (`Seen`). The three owners (server, client, sandbox)
  check the same conditions in different orders, which is what the module is about.

### Inside a sky

* **`Participation`** – a player's participation: spawning, dying, controls,
  initializers, deltas, inputs, authority, as operators. A plane is the number of its
  life and of the life its motion was taken from.
* **`SkySync`** – one sky on the server and on one client, with both caches and
  the arena's joins and quits. The session says *whether* a client has a sky, this
  module *what is in it*. `overtaken` and `unsettled` are history variables:
  the PIDs whose next holder overtook a delta in the cache, and the controls
  that an initializer announced and no delta will.

Operators and actions whose comment begins with "A mistake" are not used: each
is a definition next to it with a plausible error, kept to show that the
property it is paired with in `PROJECT.json` notices.

## 3. What is checked

Every run below finishes within five minutes with two workers. Nicknames are over the
bases `bob` and `ann`.

| Run | Instance | Properties | What it shows |
|---|---|---|---|
| `allocation` | all vectors of ≤ 5 numbers ≤ 4 | `SmallestUnlessTwins`, `FreshWhenDistinct` | what is allocated is the smallest number that is not used, but for exactly the vectors that `reused_number` is about; while numbers are distinct it is fresh |
| `membership` | 2 clients that join with the same nickname, change it and leave | `SessionInv`, `NicknamesDistinct`, `OwnPlayerStays`, `ReplayReachesServer`, `IsMembership` | joins, breaks, renames and slots used again in every order, with gaps among PIDs and nicknames, keep peers, players and copies in step; a session implements `Membership` |
| `one_client` | 1 client that comes and goes, every command, 2 environments, 2 skies | `TypeOK`, `ServerGameHasEnv`, `GameViewHasEnv`, `ReplayReachesEnv`, `SkyPacketsMatch`, `AdminByAuthOnly` | the life of a handle on both sides, with loading, stops, restarts and changes of map at any moment; no sky is replaced under a client that shows it, or fed with another sky's deltas |
| `join_progress` | 2 clients, requests for a team, statistics, `FairSpec` | `JoinIsAnswered`, `GoneAreRemoved` | requests to join are answered, and players whose peers are gone leave |
| `sky_sync` | 2 players, of whom one leaves and is replaced; 2 spawns; an input in the server's cache and two on their way | `TypeOK`, `PlanesReachClient`, `ControlsReachClient`, `ControlsReachServer`, `MotionIsOwn` | whatever the caches hold back, the two sides come to agree on who is alive and who steers how |
| `reliable_delivery` | 14 commands, of which five continue a packet; numbers wrap after 12 | `TypeOK`, `ForgottenHasArrived`, `NextInLineIsDispatched`, `WindowsCount`, `IsQueue` | ENet's channel is the queue of packets that the session is written for |
| `connection` | 2 connections over 2 slots, `FairSpec` | `TypeOK`, `RegisteredAreConnected`, `ServerPointerIsLive`, `EventsAreInOrder`, `GoneAreForgotten`, `ExitEnds`, `NobodyHangs` | events come in the order `ServerExec::poll` is written for, and nobody who has gone stays |
| `environment` | 3 owners, 4 environments one after the other, the null one among them, `FairSpec` | `TypeOK`, `WorkerIsOwned`, `SkyIsOnWholeMap`, `SandboxSkyHasItsMap`, `ServerSurvivesErrors`, `ClientLoadsOnce`, `LoadingEnds`, `IsHandle` | threads without locks keep out of one another's way, but for one assertion (below) |

`ReplayReachesServer` is the central safety property of the session. It does not wait for the
queues to be empty: at *any* moment, folding `ProcessPacket` over what is on its
way to a client that has joined must give the server's present players, message,
mode and next environment. `ReplayReachesEnv` says the same of the environment
unless a change of it is waiting for the tick. Both break when a broadcast has
the wrong receivers, when the snapshot is taken too early or too late, or when
two handlers that run between two ticks hide one another's change.
`PlanesReachClient` and `ControlsReachClient` are of the same kind for the
contents of a sky, where part of what is on its way waits in a cache.

`SmallestUnlessTwins` says of any vector what `smallestUnused` returns, without a loop: no number
below it is free, and it is used itself exactly when a number occurs twice and all up to
the one behind it are there. `ControlsReachServer` is about inputs that wait: the mutant in
which an input without a plane does not wait in the cache breaks it only after a kill, with an input of the
life before still waiting (21 steps).

`SkyPacketsMatch` is not obvious: a start during a game keeps the old sky on
both sides, and the flag that says who gets deltas is reset by `start` but not by
`restart` and `map`, and may be set by what a client said before either. What
keeps the deltas of a new sky from a client that shows the old one is that the end of
the environment is announced before anything of the new sky is sent. It cannot be
claimed without "while its environment is loaded": a stop and a start between two
ticks are one announcement (`skyhandle.cpp:56`), which replaces the client's environment
but not its sky, so that it does apply deltas of the new sky to the old one. No
view shows that sky: the one that would be built on it ends in the assertion of
`GameOpensLoaded` below.

`ForgottenHasArrived` is the hinge of `ReliableChannel`: ENet acknowledges also
commands that it discards (it must, for those that come again), and what keeps that
from losing data is a comparison of windows (`peer.c:598` and the end of
`handle_incoming_command`) on either side.

`ServerSurvivesErrors` and `ClientLoadsOnce` depend on the order of two
conditions: the server looks at the error after it has seen the worker idle,
the client at the visuals; the opposite order would be a race.

### Where the code does not do what it says

Four runs end in a violation; each checks one statement of the repository.

* `sky_reaches_client`, `SkyReachesClient`: a client that loads faster than the
  server asks before there is a sky, its `ReqSky` is dropped, and `askedSky`
  keeps it from asking again. Fairness does not help.
* `ghost_plane`, `SpawnsAndKillsAreTransmitted`: "Spawns and kills are transmitted
  over the network" (`src/tests/skytest.cpp:41`). A delta waits in the client's cache while
  the arena's `Quit` and `Join` pass it by; it is then applied to the PID's new
  holder, who appears to fly the old one's plane until the server has something to say
  of that PID, which it has only when the new holder does something.
  `PlanesReachClient` exempts these PIDs, and only these.
* `loads_twice`, `LoadMoreIsNeeded`: `assert(imply(needMechanics, !mechanics))`
  (`environment.cpp:154`) fails when the worker ends between the tick's look at the
  mechanics and its look at `workerRunning`. The sandbox has the same race.
* `reused_number`, `AllocatesUnused`: `methods.hpp:126` says the smallest
  PID "that isn't already used". `smallestUnused` on a vector stops after a number
  that occurs twice, and `[0, 0, 1]` gives 1. The arena can fill such a vector:
  players who ask for `bob`, `bob(0)`, `bob` and `bob` end as `bob`, `bob(0)`,
  `bob(1)` and `bob(1)`. `NicknamesDistinct` therefore holds only where requests
  carry no number of their own, as in the runs and in the theorem
  `NicknamesStayDistinct`; `SmallestUnlessTwins`, `FreshWhenDistinct` and the lemma
  `SimpleRequestIsFresh` say when an allocation is fresh.

Further statements that the models refute; to see it, name the property in a
configuration of the module:

* `SkyDeltaComesAfterSky` (`Session`): "The server is at fault and is
  likely broken" is logged by a client of a server that is not.
* `GameOpensLoaded` (`Session`): a game started during a game leaves the
  client's old sky in place, so that the new view is built at once, on an
  environment without visuals, and the assertion of `multiplayergame.cpp:89`
  fails.
* `RenameKeepsFlags` (`Session`): a change of nickname applies two flags that
  nothing has initialised (`server.cpp:65`). `AdminByAuthOnly` exempts that
  handler for this reason and says that there is no third way to get admin rights.
* `SpawnStateIsServers` (`SkySync`): "Spawn state is of the server's authority"
  (`src/tests/skytest.cpp`). An input of an earlier life, still in the server's cache when the
  plane spawns again, moves the new plane to where the old one was. The bounds of `sky_sync`
  let this happen; `ControlsReachServer` holds in spite of it.

`ControlsReachClient` exempts what no delta has to say (`unsettled`): a control that
changed before the initializer and back after it, which the client learns with the
player's next change only (`participation.cpp:158`).

### Bounds

In a session:

* `MaxUp` – how many unread events a *user* lets pile up at the server before
  typing on. The client's own packets (`ReqJoin`, `ReqSky`, CONNECT, DISCONNECT)
  are not bounded. One is enough for the races: every request may be in flight
  while anything happens at the server, and two actors' requests interleave.
* `MaxDown` – the server handles nothing while a client has that many packets
  unread (a handler may exceed it by the packets it sends). With 1 a client may
  still be three packets behind, so that the end of one sky and the announcement of the next
  environment are unread together. That a client further behind confuses no skies either
  (`SkiesStayApart`), nor misses an environment, is proved for every bound.
* `MaxSkies` – nobody stops a game after so many skies. Two are needed to confuse
  two skies.
* `Leavers` – the clients that leave or whose links break; in
  `sky_reaches_client` nobody does, as a break would excuse the server.
* `MaxPlayers` is the number of peer slots of the server's host (32 at
  `telegraph.cpp:83`); nothing else limits the players of an arena, and
  `ServerAssumption` says that there are no more peers than that.

In the layers below:

* `ReliableChannel` scales the numbers down: 6 windows of 2 with 3 free ones, for
  ENet's 16 of 4096 with 8 free. What matters is kept: numbers wrap (after 12, and 14 commands are
  sent), one packet's fragments span the wrap, the receiver's free windows are
  fewer than half of all, and packets of one, two and three commands follow one another.
  `LifetimeAssumption` says how long a datagram may stay in the network before its numbers
  come up again; it counts from the *first* fragment of a packet, because
  ENet looks a fragment up by it. With ENet's own numbers the sum of a
  packet's length and of how late it may be is nine windows, 36,864 commands.
  `PacketAssumption` says that no packet reaches beyond the window after the one it
  begins in. `LifetimeAssumption` alone is not enough: the fragments of a packet
  that spans many windows are looked up by the packet's first number
  (`protocol.c:541`), which may be so many windows behind that it is taken for one
  ahead, and a copy of a fragment is then put into a packet of another one. The proof
  asked for this assumption first, and TLC shows the case with 8 windows of 2 and
  packets of four and six commands, of which copies arrive two commands late. ENet
  allows packets of 32 MB, 24,456 fragments or six windows; this program's stay
  far below one window, which is more than 5 MB. Larger instances, with shorter packets,
  were checked too: three commands in transit (2,470,000 states), three datagrams
  under way (1,060,000).
* `PeerConnection` – `MaxAttempts` connections, one after the other, and
  `MaxAnswers` answers to the copies of each one's CONNECT. `HandleConnect`'s guard
  says the one thing that is assumed of time: no copy of a CONNECT is answered by
  the same slot under the same session number again, as a slot waits for seconds before it
  gives up and is used again. Without this ENet's two bits cannot keep
  connections apart, and TLC shows how. Every other datagram may arrive however late
  and however often. Three connections over one slot with two session numbers (488,000
  states) were checked for safety, too.
* `SkySync` – `MaxLives` spawns in all, `MaxHolders` players with one PID, one
  after the other: two of each, for what is confused are two of each. `MaxUp` counts
  packets to the server, two, `MaxInputs` inputs in its cache, one, so that
  inputs of two lives, or three controls one after the other, are under way
  together. While `MaxUp` packets are unread the user presses no key, which leaves no
  case of the properties out: a key pressed then shows only in the next input, which is not sent before. `MaxDown`, two, counts
  what either side has yet to use up, packets to the client, deltas in its cache and inputs in the
  server's: the server does nothing more until there is room.
* `Environment` – `MaxStarts`: environments created one after the other.

Symmetry is used among clients in safety runs only. Runs check for
deadlocks, except those that end for a reason of their own: the vectors of `allocation` at
`MaxLength`, the commands of `reliable_delivery` at `MaxCommands`, connections and environments
after the last one.

### Fairness

`Session.FairSpec` assumes weak fairness of the server's tick, of both sides' worker
threads, and of a client's polling, ticking, asking to join and noticing a link
that is down: all of these are loops that run in every frame, or jobs that end.
A server's event handlers get strong fairness: the loop drains the host before
each tick, so an event that can be handled again and again is handled, although
the tick, and the bound `MaxDown`, may disable it in between. Users owe nothing:
no fairness is assumed of joining, leaving, typing or breaking links.

`PeerConnection.FairSpec`: both loops run, and what is never acknowledged times out
(ENet's clocks, which the model leaves out). The network owes nothing at all.

`Environment.FairSpec`: the worker's job ends and the owner ticks.

## 4. Reading the model against the code

* `HandleConnect`, `HandleDisconnect`, `HandleReqJoin` and the other handlers are
  the branches of `ServerExec::processPacket` and of the event loop, each with the vanilla
  server's answer (`servers/vanilla.cpp`) in the same action, as in the code.
* Packets from peers that have not joined are ignored except `ReqJoin`, and a
  second `ReqJoin` does not happen (the client asks once per connection).
* `conn[c] = None` is the client before `Init`; all other packets are dropped
  then. `view` and `gameView` stand for `Multiplayer::view` and for the
  `MultiplayerGame` inside the game's view.
* In the session a delta of a sky is its sky's number, and receiving
  it changes nothing; in `SkySync` it has contents, and there is one sky.
* A PID is an `unsigned int` and never near its limit: it is below the number of
  players.
* `SkySync.ClientPolls` and `ServerTick` let any prefix of a cache go, which is what
  `FlowControl`'s clocks and averages may decide; a `Quit` or `Join` never waits
  (`multiplayercore.cpp`), and a `ReqSpawn` does not either (`server.cpp`).
* A participation's plane that gets a delta without any state is killed
  (`Participation::applyDelta`): `Announces` says when a delta is made at all.
* `ReliableChannel.ReceiveCommand` is the arrival of one command with all
  that follows of it in the same `enet_host_service`: queueing, dispatching and
  its acknowledgement. `Acknowledges` is evaluated after the dispatch, as in the code.
* `PeerConnection.Slots` are taken by `HandleConnect` in the order of
  `enet_protocol_handle_connect`'s loop; ENet's intermediate states (`CONNECTION_PENDING`,
  `CONNECTION_SUCCEEDED`, `DISCONNECT_LATER`) are passed within one action or not
  used by this program.
* In `Environment` the write of an `optional` by the worker is two steps, and
  what the owner reads in between is a free choice; apart from that, what a thread writes is
  seen in the order in which it is written, as the code relies on; `joinWorker` blocks, and is therefore a
  guard (`Joined`) of every action that calls it.
* The client does not look at `loadingErrored` (`multiplayercore.cpp:335`), so
  that a map that cannot be loaded ends it in an assertion; `ServerSurvivesErrors` is
  therefore of the server.

## 5. What is proved

TLAPS proves, of a session with any finite set of peers, any set of names, environments,
statistics and commands, and queues of any length:

| Theorem | Statement |
|---|---|
| `TypeCorrect` | `Spec => []TypeOK` |
| `PlayersMatchPeers` | `Spec => []PeersArePlayers` |
| `OwnPlayerIsKept` | `Spec => []OwnPlayerStays` |
| `ServerKeepsEnv` | `Spec => []ServerGameHasEnv` |
| `ClientKeepsEnv` | `Spec => []GameViewHasEnv` |
| `SessionInvariant` | `Spec => []SessionInv`, from which the others follow |
| `NicknamesStayDistinct` | `UsersAskUnnumbered => (Spec => []NicknamesDistinct)` |
| `OnlyAuthGivesRights` | `Spec => AdminByAuthOnly`, an action property |
| `SessionIsMembership` | `Spec => IsMembership`: every step is one of `Membership` or none |
| `ReplayIsServersArena` | `Spec => []ReplayReachesServer` |
| `ReplayIsServersEnv` | `Spec => []ReplayReachesEnv` |
| `SkiesStayApart` | `Spec => []SkyPacketsMatch` |
| `ConnectPlayerIsFresh` | the PID of a `Join` delta is free, whenever there are fewer players than `MaxPlayers` |
| `SimpleRequestIsFresh` | `allocNickname` gives a name nobody has, if names are distinct and all were allocated to requests without numbers |

of the loops in `Allocation`, with any numbers and vectors of any length:

| Theorem | Statement |
|---|---|
| `SmallestIsUnusedUnlessTwins` | `Spec => []SmallestUnlessTwins` |
| `LoopsAreTheirDefinitions` | `Spec => []LoopsAreDefinitions`: they return what `Nickname`, and so the session, says they do |
| `DistinctNumbersAreFresh` | `Spec => []FreshWhenDistinct` |

of `SkySync`, with any number of players, spawns and packets, and caches of any
length:

| Theorem | Statement |
|---|---|
| `SkySyncTypeCorrect` | `Spec => []TypeOK` |
| `MotionStaysOwn` | `Spec => MotionIsOwn`, an action property |
| `ControlsArrive` | `Spec => []ControlsReachServer` |
| `PlanesArrive` | `Spec => []PlanesReachClient` |
| `OthersControlsArrive` | `Spec => []ControlsReachClient` |

of `PeerConnection`, with any number of slots, session numbers, connections and
answers:

| Theorem | Statement |
|---|---|
| `ConnectionInvariant` | `Spec => []IInv`, from which the others follow |
| `ConnectionTypeCorrect` | `Spec => []TypeOK` |
| `RegisteredStayConnected` | `Spec => []RegisteredAreConnected` |
| `ServerPointerStaysLive` | `Spec => []ServerPointerIsLive` |
| `EventsStayInOrder` | `Spec => EventsAreInOrder`: every step is one of `PeerEvents` or none |

of `ReliableChannel`, with any numbers and sizes of windows, any division of any
number of commands into packets, and any lifetime of datagrams that the
assumptions below allow:

| Theorem | Statement |
|---|---|
| `Inductive` (a lemma) | `Spec => []IInv`, from which the others follow |
| `TypeCorrect` | `Spec => []TypeOK` |
| `CountsAreRight` | `Spec => []WindowsCount` |
| `NoneIsLeft` | `Spec => []NextInLineIsDispatched` |
| `ForgottenArrived` | `Spec => []ForgottenHasArrived` |
| `ChannelIsQueue` | `Spec => IsQueue`: every step is one of `PacketQueue` or none |

and of `Environment`, for each of the three programs and any number of
environments one after the other:

| Theorem | Statement |
|---|---|
| `ThreadsInvariant` | `Spec => []IInv`, from which the others follow |
| `EnvironmentTypeCorrect` | `Spec => []TypeOK` |
| `WorkersAreOwned` | `Spec => []WorkerIsOwned` |
| `SkiesAreOnWholeMaps` | `Spec => []SkyIsOnWholeMap` |
| `SandboxKeepsItsMap` | `Spec => []SandboxSkyHasItsMap` |
| `ServerOutlivesErrors` | `Spec => []ServerSurvivesErrors` |
| `ClientAsksOnce` | `Spec => []ClientLoadsOnce` |
| `EnvironmentIsHandle` | `Spec => IsHandle`: every step is one of `Loading` or none |

The assumptions are the named ones of the modules (`ArenaAssumption`, `BoundsAssumption`,
`HandleAssumption`, `ServerAssumption`, `ClientAssumption`, `SkyAssumption`,
`ChannelAssumption`, `LifetimeAssumption`, `PacketAssumption`,
`ConnectionAssumption`, `EnvironmentAssumption`, `NoneAssumption`): `None` is no value of another type,
peers are finite and not more than `MaxPlayers`, what users may ask for has its type,
and bounds that count something are positive. The bounds `MaxUp`, `MaxDown` and
`MaxSkies` are arbitrary. The channel's have been explained in section 4: ENet's
16 windows of 4096 with 8 free ones satisfy `ChannelAssumption`, and the other two
say how late a datagram and how long a packet may be.

The session's argument. None of the invariants is inductive, because each depends on
packets that are still on their way:

* `PeersArePlayers` needs to know that a CONNECT is only met by a peer without a
  player, and that DISCONNECT is the last event of a link: `UpShape`.
* `OwnPlayerStays` needs that no `Quit` for a client's own PID follows its `Init`
  or is on its way once it has been read, which holds because the `Quit` is
  sent when the peer is gone and to those that remain: `OwnPid`.
* `GameViewHasEnv` needs that an `Init` in game mode names an environment:
  `InitHasEnv`, which follows from `ServerGameHasEnv` when it is sent.
* `OffIsClean` ties a client's phase to its link and queues.

`SessionInv` is their conjunction with the invariants. `ArenaProofs` has the
facts on allocation and deltas (a free PID exists by a pigeonhole argument on
`smallestUnused`). `SessionProofs` begins with those on queues: polling, sending,
breaking a link, and *quiet* broadcasts, which contain neither an `Init` nor a
`Quit` and so disturb none of the facts above; then it has one lemma per
handler, most of them by the quiet case. Joins and disconnections are the work.
It does the same for the clients' actions and combines them.

`NicknamesStayDistinct` has an invariant of its own, `NicknameInv`, proved on
top of `SessionInv`. Distinctness alone is not kept by `allocNickname`: with
`bob`, `bob(0)` and `bob(1)` present, a request for `bob` gets `bob(1)` again.
It is kept while every nickname is *simple*, a request as it was made or
followed by one positive number, and that is so while no request on its way to
the server carries a number (`UnnumberedRequests`). `UsersAskUnnumbered`, the
theorem's hypothesis, says it of what users type.

`AdminByAuthOnly` is about single steps and needs `SessionInv` only: a handler
that sends no delta with rights gives none, a `Join` gives none, and the two that
remain are the exceptions the property names (`SessionProofs`, as for nicknames).

The refinement of `Membership` needs nothing more, either. Every request of a joined
player ends in a delta for `playerOf[c]` alone, whatever it says (`ChangeIsAsked`); the
deltas that the server makes of itself leave names, rights and teams as they are
(`DeltaKeepsMembers`, which `/start` uses twice in one step); and the new PID is the
smallest free one because there is room for a player whenever a peer has none
(`RoomForPlayer`). That CONNECT resets `peer->data` is a stutter, as `SessionInv` knows that
there was nothing to reset.

The replay's argument (`ReplayProofs`). `ReplayReachesServer` is a fold over a
queue of any length, and the trouble is the two ends of the queue. At its head,
reading a packet changes nothing (`ReplayedHead`): what is left to be read now
starts from what has been read. At its tail, appending what a handler sends is
one more step of the fold (`ReplayedThen`). So a handler has to be shown
to do the same to the server's arena and to a copy that *will* equal it when the handler's packets
arrive, which is a fact of one packet (`DeltaKeepsShared`: `applyDelta`
does not look at the team count, the one thing that copies do not share). The client's own requests
and ticks change the front of the fold instead: `Alike` relates two connections
that show the same server, and reading keeps them alike whatever is read. The `Init` makes
the replay start afresh, so that what was sent before it does not matter. The
invariant `ReplayInv` joins both properties, as the environment's is not kept without the types
that the arena's gives.

`SkyPacketsMatch` (`ReplayProofs`) needs `SkyInv` on top of `SessionInv`. Skies are
numbered as the server makes them, and on the way to a client their numbers
never fall and change only behind the announcement of an environment (`SkiesInOrder`).
Three joints hold this together: what a client shows and what it has still to read
(`SkyStays`); what is last in the queue and what the server sends next (`SentSkies`),
where `Current` says that the last sky is still played, or that its end will be
announced before anything of the next one; and the two ends with each other, when no
announcement lies between them (`PlayedSky`). `SkyStays` also says that the environment of a client with a sky is not
being loaded a second time, since otherwise the worker could make it ready again without an
announcement. Of the server's actions all but `HandleReqSky` and the tick send
nothing about skies (`PlainSends`); the tick first tells of the environment and then of
the newest sky (`TellingKeeps`). A client only ever moves on within the queue
(`ReadingKeepsSkies`).

`Allocation`'s argument. Sorting is defined by the *rank* of a place, the number of places
before it, which is different for each of them (`BeforeIsRank`), so that the sorted
vector has every value of the given one as often and in order (`InOrderOrders`) without an
induction. The loop's induction (`CountUpCounts`) says that it has counted
to the first place whose value is not its index less one. For numbers in order that is
the smallest one that does not occur, or whose predecessor occurs twice (`LoopIsFirstStop`),
which is how `Nickname` defines `SmallestUnused`, and of keys, which are distinct, the
smallest that is free. `SmallestUnlessTwins` follows: behind a number that occurs
twice the loop always stops, and it stops at a used number nowhere else.

`SkySync`'s arguments. `Typed` is `TypeOK` with `AskedOnce`: the sky is asked for and sent
once, since `asked` is never lowered, so that it is never replaced. With it:

* `MotionIsOwn`: that a server's delta says nothing of the motion of the client's own plane is
  plain as long as it says "the same plane". `LivesOnce` is about the
  other case: a delta that *starts* a life that the client shows already would put the
  plane back to where it began. Lives are counted, and the life in a delta
  is told once: no two deltas carry the same one, and none one that is shown.
* `ControlsReachServer`: the fold of the inputs in the cache and in the queue depends on
  their controls only (`Said`), so that a spawn or a kill in between, which
  changes the plane, does not change where they lead.
* `PlanesReachClient` and `ControlsReachClient`: deltas wait in a cache while
  quits and joins do not, and a fold that keeps the order of application is no fold
  over the packets. `Will` reads the cache *before* the packets, as if nobody
  had overtaken anything, for one player at a time; for a player who is not
  in `overtaken` that is the same (`ReadOne`: the packet that does overtake
  concerns another player, or finds nothing of his in the cache). `Reaches`
  is then the inductive invariant: what will be of a player differs from the server's participation
  by what the next delta announces, and by nothing else. Its part `ok`
  says that no delta on its way is for a PID that is free when it comes to be read.

`ReliableChannel`'s argument is about numbers that mean more than one command.
Commands are counted without bound in the model and reduced to ENet's numbers
only where the code compares, so that each comparison has a distance within which it
says the right thing (`AheadIs`, `BehindIs`). The invariant keeps every
command that is still spoken of within that distance.

* `SenderOK`, of the sender and the network: `windows` counts exactly the commands
  that have not been acknowledged; these span at most `Windows - FreeWindows`
  windows, because the first command of a window waits until that one and the
  `FreeWindows - 1` after it are empty (`WindowWrap`); and the packets of what the network
  still holds began at most one window further back.
* `LineIs(d)`, of the receiver: `d` is the last command in line, whose number the
  receiver keeps. All packets up to `d` have come out, and those waiting lie between
  `d` and the last one sent, in the order of commands, although the code sorts numbers
  that wrap. No waiting packet is next. What has been acknowledged has come,
  and the sender is less than `FreeWindows` windows ahead of `d`, since it begins
  a window only when something in the one before was acknowledged.

So a copy of an old command looks old, however its number compares, and is never put in the list.
`enet_peer_dispatch_incoming_reliable_commands` loops over the list, and the last command it
reaches is a recursive function, `LastOf`, about which `DispatchIs` is proved
by induction. In the refinement only `SendPacket` and `Receive` are steps of the queue, and the
packet that is polled has the next rank because `LineIs(d)` says so of all that came out.

`PeerConnection`'s argument is about late datagrams, too, and its `IInv` says what
they can still do. `SlotsHaveAnswered`: a slot that acknowledges a connection has sent the
answer that its state stands for. `ClientIsOne`: whatever a client has sent after
its CONNECT names one slot and one session, so that all of it acknowledges the
same answer. `PastIsUsedUp`: for a connection the server has polled, one of these
datagrams exists whose slot no longer waits for it, and a slot never waits for the same
answer again. So a second CONNECT event for the same connection would need a
datagram of another answer, which the client has not sent. This is the step of
the refinement that is not plain (`ConnectIsNew`); the others are a matter of
which slots are registered.

`Environment`'s argument ties the two threads to each other. `WorkerSaysAll`: what a
worker is about to do follows from what the environment and its flags show, so that
`workerRunning = false` means that its writes are done. `OwnerKnows`: what the
owner's tick has read of them in one step still holds in the next, or has changed in
the one direction in which a worker can change it. Every reading the code makes
without a lock is sound for that reason; the one that is not is the subject of
`loads_twice`.

Induction over data. The library's induction theorems take an operator as a
parameter and cannot be used with these provers, but a well-founded relation on
a *set* can: `WFMin` with `NatLessThanWellFounded` gives the lemma `Induction`
(`ArenaProofs`, `SkySyncProofs`, `ReliableChannelProofs`), from which everything that is said here of
recursive functions follows, first that they exist. `Replayed`, `Received`, `Release`,
`ApplyInputs`, `LastOf` and `CountUp` are recursive functions of a number for that reason.

Every invariant, action property and refinement of the passing runs is stated by a theorem.
Only model-checked are the liveness properties (`JoinIsAnswered`, `GoneAreRemoved`,
`GoneAreForgotten`, `ExitEnds`, `NobodyHangs`, `LoadingEnds`), which are beyond this prover, as is
`ENABLED`, and the four violations.

## 6. Not modelled

Within the modelled components: the client's `loadMore` while it is disconnecting; malformed packets and
serialisation; chat, pings, the console's replies, scores; the
disconnect timer's length. Deltas this server never
makes are in `Arena` but no action sends them (`Motd`, `TeamCount`). Nicknames
with numbers written as "(01)" or too large for a PID are not told apart from
the plain ones. In ENet: unreliable and unsequenced commands, which this program never sends;
round-trip times, throttling and bandwidth, which decide only *when* something is sent;
several commands in one datagram; connections refused for their parameters. In a sky:
the half of a plane's state that the server decides (energy, health, cooldowns), positions, the
clocks of `FlowControl`, and other skies than one.

Components left out, and why, are in `PROJECT.json`. Component sets, the
scoreboard's records, `Plane::damage` and `Sky::changeSettings` are used by tests
only: in the program the sets are empty and the records never change, so that a
model of their synchronisation would be about states the program is never in. Rendering, the user
interface toolkit, physics, files and printing are drawing, floating point and
formatting.

Most of the repository's lines are not the program's own: Box2D, spdlog, cereal and
the other vendored libraries apart from ENet are numerics, formatting and
serialisation that this program calls as functions, and are left out as a whole.

## 7. What could follow

1. **`Subsystems`** – registration, callbacks and the players' data pointers.
2. **`FlowControl`** and the numeric helpers (samplers, schedulers,
   clamped values), checked against reference definitions.
