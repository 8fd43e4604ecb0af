------------------------------- MODULE SkySync -------------------------------
(***************************************************************************)
(* The contents of one sky on the server and on one of its clients: spawns *)
(* and deaths, controls and the motion of planes, through the server's     *)
(* cache of inputs and the client's cache of deltas.  Own is the player of *)
(* the client that is modelled; the inputs, spawns, quits and joins of the *)
(* others reach the server at any time.  The environment is loaded on both *)
(* sides, and the game goes on: starts and stops are those of Session.     *)
(*                                                                         *)
(* When a cache releases a message depends on clocks (FlowControl): here   *)
(* it is any prefix of the queue at any tick.                              *)
(***************************************************************************)
EXTENDS Participation, Functions

CONSTANTS
    Players,        \* PIDs
    Own,            \* the modelled client's
    MaxLives,       \* bound: spawns in all
    MaxHolders,     \* bound: players that have one PID, one after the other
    MaxUp,          \* bound: packets to the server; the user waits behind them
    MaxInputs,      \* bound: inputs in the server's cache
    MaxDown         \* bound: the server waits while this much is not used up

Skies == [Players -> Participations \cup {None}]

ASSUME SkyAssumption ==
    /\ Own \in Players
    /\ None \notin Plane \cup Controls
    /\ None \notin Participations \cup ParticipationInit \cup ParticipationDelta
    /\ None \notin Skies

Others == Players \ {Own}

VARIABLES
    part,           \* the server's participations; None for no player
    loading,        \* Own's loadingEnv flag
    inputs,         \* Own's PlayerInputCache
    spawned,        \* how many spawns each PID has had
    holders,        \* how many players each PID has had
    unsettled,      \* controls in the initializer that no delta announced
    client,         \* the client: arena, sky, cache of deltas
    asked,          \* the client has asked for the sky
    up,             \* packets to the server
    down            \* packets to the client

serverVars == <<part, loading, inputs, spawned, holders, unsettled>>
vars == <<serverVars, client, asked, up, down>>

Members == {p \in Players : part[p] # None}

\* A map from PIDs, None where there is no key.
MapOf(F(_), keys) == [p \in Players |-> IF p \in keys THEN F(p) ELSE None]

\* A client: its arena's PIDs, its sky's participations (None before there
\* is a sky), the cache of deltas, and the PIDs whose holder changed while
\* a delta for the one before was in the cache.
Client == [arena : SUBSET Players,
           sky : Skies \cup {None},
           cache : Seq([Players -> ParticipationDelta \cup {None}]),
           overtaken : SUBSET Players]

SkyInit ==
    /\ part = [p \in Players |-> NewParticipation(DefaultInit)]
    /\ loading = TRUE
    /\ inputs = <<>>
    /\ spawned = [p \in Players |-> 0]
    /\ holders = [p \in Players |-> 1]
    /\ unsettled = {}
    /\ client = [arena |-> Players, sky |-> None, cache |-> <<>>, overtaken |-> {}]
    /\ asked = FALSE
    /\ up = <<>>
    /\ down = <<>>

-----------------------------------------------------------------------------
(* Packets *)

UpPacket ==
    [type : {"ReqSky", "ReqSpawn"}] \cup [type : {"ReqInput"}, input : ParticipationInput]

DownPacket ==
    [type : {"InitSky"}, sky : [Players -> ParticipationInit \cup {None}]]
    \cup [type : {"DeltaSky"}, delta : [Players -> ParticipationDelta \cup {None}]]
    \cup [type : {"Quit", "Join"}, pid : Others]

InitSky(init)      == [type |-> "InitSky", sky |-> init]
DeltaSky(delta)    == [type |-> "DeltaSky", delta |-> delta]
Quit(pid)          == [type |-> "Quit", pid |-> pid]
Join(pid)          == [type |-> "Join", pid |-> pid]

\* Spawns that were made or asked for.
Spawns == FoldFunction(+, 0, spawned)
          + Len(SelectSeq(up, LAMBDA packet : packet.type = "ReqSpawn"))

HasRoom == Len(down) + Len(client.cache) + Len(inputs) < MaxDown

Polls(type) ==
    /\ HasRoom
    /\ up # <<>>
    /\ Head(up).type = type
    /\ up' = Tail(up)

-----------------------------------------------------------------------------
(* The server *)

HandleReqSky ==
    LET captured(p) == CaptureParticipation(part[p]) IN
    /\ Polls("ReqSky")
    /\ down' = Append(down, InitSky(MapOf(captured, Members)))
    /\ loading' = FALSE
    /\ unsettled' = {p \in Members : part[p].controls # part[p].lastControls}
    /\ UNCHANGED <<part, inputs, spawned, holders, client, asked>>

\* ReqSpawn is answered at once: the inputs in the cache come later.
Spawn(p) ==
    /\ part' = [part EXCEPT ![p] = SpawnPlane(@, spawned[p] + 1)]
    /\ spawned' = [spawned EXCEPT ![p] = @ + 1]

HandleReqSpawn ==
    /\ Polls("ReqSpawn")
    /\ IF part[Own].plane = None
       THEN Spawn(Own)
       ELSE UNCHANGED <<part, spawned>>
    /\ UNCHANGED <<loading, inputs, holders, unsettled, client, asked, down>>

\* A mistake: an input that says nothing of a plane does not wait.
HandleReqInputAtOnce ==
    /\ Polls("ReqInput")
    /\ LET input == Head(up).input
       IN  IF input.planeState = None
           THEN /\ part' = [part EXCEPT ![Own] = ApplyInput(@, input)]
                /\ UNCHANGED inputs
           ELSE /\ Len(inputs) < MaxInputs
                /\ inputs' = Append(inputs, input)
                /\ UNCHANGED part
    /\ UNCHANGED <<loading, spawned, holders, unsettled, client, asked, down>>

HandleReqInput ==
    /\ Polls("ReqInput")
    /\ Len(inputs) < MaxInputs
    /\ inputs' = Append(inputs, Head(up).input)
    /\ UNCHANGED <<part, loading, spawned, holders, unsettled, client, asked, down>>

OtherSpawns(p) ==
    /\ p \in Members /\ part[p].plane = None
    /\ Spawns < MaxLives
    /\ Spawn(p)
    /\ UNCHANGED <<loading, inputs, holders, unsettled, client, asked, up, down>>

OtherQuits(p) ==
    /\ HasRoom
    /\ p \in Members /\ holders[p] < MaxHolders
    /\ part' = [part EXCEPT ![p] = None]
    /\ unsettled' = unsettled \ {p}
    /\ down' = Append(down, Quit(p))
    /\ UNCHANGED <<loading, inputs, spawned, holders, client, asked, up>>

OtherJoins(p) ==
    /\ HasRoom
    /\ p \notin Members
    /\ part' = [part EXCEPT ![p] = NewParticipation(DefaultInit)]
    /\ holders' = [holders EXCEPT ![p] = @ + 1]
    /\ down' = Append(down, Join(p))
    /\ UNCHANGED <<loading, inputs, spawned, unsettled, client, asked, up>>

\* Sky::collectDelta for the client of Own.
SkyDelta(parts) ==
    LET delta(p) == IF p = Own
                    THEN RespectClientAuthority(DeltaOfParticipation(parts[p]))
                    ELSE DeltaOfParticipation(parts[p])
    IN  MapOf(delta, {p \in Players : parts[p] # None /\ Announces(parts[p])})

\* SkyInputCache::onPoll: these inputs, one after the other.
ApplyInputs(participation, some) ==
    LET after[n \in 0 .. Len(some)] ==
            IF n = 0 THEN participation ELSE ApplyInput(after[n - 1], some[n])
    IN  after[Len(some)]

\* One tick: the input cache lets n inputs go, the others' inputs have set
\* their controls to news, the sky's tick kills, and if the schedule is due
\* the delta is collected.
Ticked(n, news) ==
    LET received(p) == IF p = Own
                       THEN ApplyInputs(part[p], SubSeq(inputs, 1, n))
                       ELSE [part[p] EXCEPT !.controls = news[p]]
        ticked(p) == ObeySuicide(received(p))
    IN  MapOf(ticked, Members)

Collected(parts) ==
    LET collected(p) == Announced(parts[p]) IN MapOf(collected, Members)

ServerTick(due) ==
    \E n \in 0 .. Len(inputs), news \in [Others \cap Members -> Controls] :
       LET after  == Ticked(n, news)
           useful == \E p \in Members : Announces(after[p])
           sent   == {p \in Members : after[p].controls # after[p].lastControls}
       IN  /\ HasRoom
           /\ inputs' = SubSeq(inputs, n + 1, Len(inputs))
           /\ IF due /\ useful
              THEN /\ part' = Collected(after)
                   /\ unsettled' = unsettled \ sent
                   /\ down' = IF loading THEN down
                              ELSE Append(down, DeltaSky(SkyDelta(after)))
              ELSE /\ part' = after
                   /\ UNCHANGED <<unsettled, down>>
           /\ UNCHANGED <<loading, spawned, holders, client, asked, up>>

-----------------------------------------------------------------------------
(* The client *)

\* Sky's constructor: a participation for every player of the arena.
NewSky(arena, init) ==
    LET new(p) == NewParticipation(IF init[p] = None THEN DefaultInit ELSE init[p])
    IN  MapOf(new, arena)

InCache(c, p) == \E i \in DOMAIN c.cache : c.cache[i][p] # None

\* A mistake: joins and quits pass the sky by.
SetNoPlayer(sky, p, value) == sky

\* registerPlayer and unregisterPlayer, where there is a sky.
SetPlayer(sky, p, value) == IF sky = None THEN None ELSE [sky EXCEPT ![p] = value]

\* processPacket: a delta of the sky waits in the cache, one of the arena
\* does not.
Receive(c, packet) ==
    CASE packet.type = "InitSky" ->
            [c EXCEPT !.sky = NewSky(c.arena, packet.sky)]
      [] packet.type = "DeltaSky" ->
            IF c.sky = None THEN c
            ELSE [c EXCEPT !.cache = Append(@, packet.delta)]
      [] packet.type = "Quit" ->
            [c EXCEPT !.arena = @ \ {packet.pid},
                      !.sky = SetPlayer(@, packet.pid, None),
                      !.overtaken = IF InCache(c, packet.pid)
                                    THEN @ \cup {packet.pid} ELSE @]
      [] packet.type = "Join" ->
            [c EXCEPT !.arena = @ \cup {packet.pid},
                      !.sky = SetPlayer(@, packet.pid, NewParticipation(DefaultInit))]

\* pollNetwork: these packets, one after the other.
Received(c, packets) ==
    LET after[n \in 0 .. Len(packets)] ==
            IF n = 0 THEN c ELSE Receive(after[n - 1], packets[n])
    IN  after[Len(packets)]

\* Sky::applyDelta: only players who are in the arena.
ApplySkyDelta(c, delta) ==
    LET applied(p) == IF delta[p] = None THEN c.sky[p]
                      ELSE ApplyParticipationDelta(c.sky[p], delta[p])
    IN  [c EXCEPT !.sky = MapOf(applied, c.arena)]

\* SkyDeltaCache::onPoll, which lets the first n deltas go.
Release(c, n) ==
    LET after[i \in 0 .. n] ==
            IF i = 0 THEN [c EXCEPT !.cache = SubSeq(@, n + 1, Len(@))]
            ELSE ApplySkyDelta(after[i - 1], c.cache[i])
    IN  after[n]

ClientReceives ==
    /\ down # <<>>
    /\ client' = Receive(client, Head(down))
    /\ down' = Tail(down)
    /\ UNCHANGED <<serverVars, asked, up>>

Transmit(packet) ==
    /\ Len(up) < MaxUp
    /\ up' = Append(up, packet)

ClientPolls ==
    \E n \in 1 .. Len(client.cache) :
       /\ client' = Release(client, n)
       /\ UNCHANGED <<serverVars, asked, up, down>>

\* A tick with the input schedule due.
ClientSendsInput ==
    /\ client.sky # None
    /\ HasInput(client.sky[Own])
    /\ Transmit([type |-> "ReqInput", input |-> CollectedInput(client.sky[Own])])
    /\ client' = [client EXCEPT !.sky[Own] = InputSent(@)]
    /\ UNCHANGED <<serverVars, asked, down>>

ClientAsksSky ==
    /\ client.sky = None /\ ~asked
    /\ Transmit([type |-> "ReqSky"])
    /\ asked' = TRUE
    /\ UNCHANGED <<serverVars, client, down>>

\* The user presses or lets go of a key.
DoAction(control) ==
    /\ client.sky # None
    /\ client.sky[Own].controls # control
    /\ Len(up) < MaxUp
    /\ client' = [client EXCEPT !.sky[Own].controls = control]
    /\ UNCHANGED <<serverVars, asked, up, down>>

PressSpawn ==
    /\ client.sky # None
    /\ client.sky[Own].plane = None
    /\ Spawns < MaxLives
    /\ Transmit([type |-> "ReqSpawn"])
    /\ UNCHANGED <<serverVars, client, asked, down>>

-----------------------------------------------------------------------------
Next ==
    \/ HandleReqSky \/ HandleReqSpawn \/ HandleReqInput
    \/ \E p \in Others : OtherSpawns(p) \/ OtherQuits(p) \/ OtherJoins(p)
    \/ \E due \in BOOLEAN : ServerTick(due)
    \/ ClientReceives \/ ClientPolls \/ ClientSendsInput \/ ClientAsksSky
    \/ \E control \in Controls : DoAction(control)
    \/ PressSpawn

Spec == SkyInit /\ [][Next]_vars

-----------------------------------------------------------------------------
(* Properties *)

TypeOK ==
    /\ part \in Skies /\ part[Own] # None
    /\ loading \in BOOLEAN /\ asked \in BOOLEAN
    /\ inputs \in Seq(ParticipationInput)
    /\ spawned \in [Players -> Nat]
    /\ unsettled \subseteq Members
    /\ client \in Client
    /\ client.sky # None =>
          \A p \in Players : (client.sky[p] # None) = (p \in client.arena)
    /\ up \in Seq(UpPacket) /\ down \in Seq(DownPacket)

\* The client when it has read and applied everything on its way and then
\* the delta that the server would collect at this moment.
Replay ==
    LET read == Received(client, down) IN
    IF read.sky = None THEN read
    ELSE LET all == Release(read, Len(read.cache))
         IN  ApplySkyDelta(all, SkyDelta(part))

\* Nobody is alive on one side and dead on the other: wherever the client
\* is, initializer, deltas, quits and joins add up to the server's planes,
\* but for a PID whose next holder overtook a delta of the one before.
PlanesReachClient ==
    LET after == Replay IN
    after.sky # None => \A p \in Members \ after.overtaken :
       LET mine == part[p].plane
           seen == after.sky[p].plane
       IN  IF mine = None THEN seen = None
           ELSE seen # None /\ seen.life = mine.life

\* The same of the others' controls, but for those that changed before the
\* initializer and changed back before the next delta.
ControlsReachClient ==
    LET after == Replay IN
    after.sky # None =>
       \A p \in (Members \ {Own}) \ (after.overtaken \cup unsettled) :
          after.sky[p].controls = part[p].controls

\* The inputs among the packets to the server.
NoInput == [planeState |-> None, controls |-> None]
Sent == [i \in DOMAIN up |->
            IF up[i].type = "ReqInput" THEN up[i].input ELSE NoInput]

\* What is in the server's cache and on its way there adds up, in this order,
\* to the controls that the client holds to be announced: no input is lost or
\* overtaken, not even when inputs wait while the plane dies and spawns again.
\* What they say of the old plane's motion is another matter: see
\* SpawnStateIsServers.
ControlsReachServer ==
    client.sky # None =>
       ApplyInputs(part[Own], inputs \o Sent).controls
          = client.sky[Own].lastControls

\* The server's deltas decide whether the client's own plane lives and not
\* where it is: AuthorityTest of skytest.cpp.
MotionIsOwn ==
    [][client.sky # None /\ client'.sky # None =>
          LET old == client.sky[Own].plane
              new == client'.sky[Own].plane
          IN  old # None /\ new # None /\ old.life = new.life
                 => new.motion = old.motion]_vars

\* What AuthorityTest says: "Spawn state is of the server's authority."  The
\* client's plane starts where the server spawned it, and not where an input
\* of an earlier life, still in the server's cache, has put it.
SpawnStateIsServers ==
    client.sky # None /\ client.sky[Own].plane # None =>
       client.sky[Own].plane.motion = client.sky[Own].plane.life

\* What SpawnTest says: "Spawns and kills are transmitted over the network."
\* Once everything is read and applied the client shows a plane only to
\* those who have one.
SpawnsAndKillsAreTransmitted ==
    LET after == Replay IN
    after.sky # None => \A p \in Members :
       after.sky[p].plane # None => part[p].plane # None
=============================================================================
