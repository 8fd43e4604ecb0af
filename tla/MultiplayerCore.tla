--------------------------- MODULE MultiplayerCore ---------------------------
(***************************************************************************)
(* The clients: MultiplayerCore with the connection it keeps (its copies   *)
(* of the arena and of the sky handle), and the view Multiplayer shows.    *)
(* The inputs a client sends the server are the ones its user interface    *)
(* offers in the view it is in.                                            *)
(***************************************************************************)
EXTENDS SkyHandle, Network

CONSTANTS
    JoinNicks,      \* the nicknames users join with
    NickRequests,   \* the nicknames users change to in the arena
    TeamRequests,   \* the teams users ask for
    Commands,       \* the rcon commands users type: [command, env]
    Leavers,        \* the clients that leave, or whose link breaks
    MaxUp           \* bound: a user waits while this many packets are unread

VARIABLES
    phase,          \* "off", "connecting", "asked" (to join) or "leaving"
    conn            \* the ArenaConnection, or None before the Init packet

clientVars == <<phase, conn>>

Phase == {"off", "connecting", "asked", "leaving"}

Conn == [pid : PID, arena : ArenaState, handle : Handle, askedSky : BOOLEAN,
         view : Mode, gameView : BOOLEAN]

ASSUME ClientAssumption ==
    /\ JoinNicks \subseteq Name /\ NickRequests \subseteq Name
    /\ TeamRequests \subseteq Team
    /\ \A cmd \in Commands :
          \/ cmd \in [command : {"auth", "start", "stop", "restart"}, env : {None}]
          \/ cmd \in [command : {"map"}, env : Envs]
    /\ None \notin Conn

\* The events a server polls from a client.
ClientPacket ==
    [type : {"CONNECT", "DISCONNECT", "ReqSky", "ReqSpawn"}]
    \cup [type : {"ReqJoin"}, nickname : Name]
    \cup [type : {"ReqPlayerDelta"}, nickname : Name, admin : BOOLEAN]
    \cup [type : {"ReqTeam"}, team : Team]
    \cup [type : {"RCon"}, command : {"auth", "start", "stop", "restart"},
          env : {None}]
    \cup [type : {"RCon"}, command : {"map"}, env : Envs]

ClientInit ==
    /\ phase = [c \in Peers |-> "off"]
    /\ conn  = [c \in Peers |-> None]

-----------------------------------------------------------------------------
(* Receiving.  view is the mode whose view is loaded; gameView says that   *)
(* the game's view has found a sky and built its MultiplayerGame.          *)

LoadView(k, m) == [k EXCEPT !.view = m, !.gameView = FALSE]

Connect(packet) ==
    [pid      |-> packet.pid,
     arena    |-> packet.arena,
     handle   |-> NewHandle(packet.env),
     askedSky |-> FALSE,
     view     |-> packet.arena.mode,
     gameView |-> FALSE]

\* A mistake: the game's view does not wait for its environment.
ReceiveArenaDeltaAtOnce(k, d) ==
    LET changed == [k EXCEPT !.arena = ApplyArenaDelta(@, d)]
    IN  IF d.type = "Mode" /\ d.mode # k.arena.mode
        THEN LoadView(changed, d.mode)
        ELSE changed

\* applyDelta, and onMode when the delta changes the mode.
ReceiveArenaDelta(k, d) ==
    LET changed == [k EXCEPT !.arena = ApplyArenaDelta(@, d)]
    IN  IF d.type = "Mode" /\ d.mode # k.arena.mode /\ d.mode # "Game"
        THEN LoadView(changed, d.mode)
        ELSE changed

ReceiveHandleDelta(k, url) ==
    LET changed == [k EXCEPT !.handle = ApplyHandleDelta(@, url)]
        inGame  == k.arena.mode = "Game"
    IN  IF url # None
        THEN IF inGame THEN LoadView(changed, "Game") ELSE changed
        ELSE LET ended == [changed EXCEPT !.askedSky = FALSE]
             IN  IF inGame THEN LoadView(ended, "Lobby") ELSE ended

\* A sky that comes before its environment is loaded is dropped.
ReceiveSky(k, sky) ==
    IF EnvReady(k.handle)
    THEN [k EXCEPT !.handle = InstantiateSky(@, sky)]
    ELSE k

\* processPacket: before Init every other packet is dropped; deltas of the
\* sky go to the cache, or are dropped when there is no sky.
ProcessPacket(k, packet) ==
    IF k = None
    THEN IF packet.type = "Init" THEN Connect(packet) ELSE None
    ELSE CASE packet.type = "DeltaArena" -> ReceiveArenaDelta(k, packet.delta)
           [] packet.type = "DeltaSkyHandle" -> ReceiveHandleDelta(k, packet.env)
           [] packet.type = "InitSky" -> ReceiveSky(k, packet.sky)
           [] OTHER -> k

ClientReceives(c) ==
    /\ phase[c] # "off"
    /\ down[c] # <<>>
    /\ conn' = [conn EXCEPT ![c] = ProcessPacket(@, Head(down[c]))]
    /\ down' = [down EXCEPT ![c] = Tail(@)]
    /\ UNCHANGED <<link, up, phase>>

-----------------------------------------------------------------------------
(* Ticking *)

\* Packets leave a client only while its peer is connected.
InArena(c) == phase[c] = "asked" /\ conn[c] # None

ReqSky == [type |-> "ReqSky"]

AsksForSky(k) == k.handle.sky = None /\ EnvReady(k.handle) /\ ~k.askedSky

\* The core's tick, as far as the connection goes.
CoreTick(k) ==
    IF AsksForSky(k) THEN [k EXCEPT !.askedSky = TRUE]
    ELSE IF k.handle.sky = None THEN [k EXCEPT !.handle = LoadMore(@)]
    ELSE k

\* The game's handle sees a sky for the first time and builds the view,
\* whose constructor asserts that the visuals are loaded.
OpensGame(k) == k.view = "Game" /\ ~k.gameView /\ k.handle.sky # None

ClientTick(c) ==
    /\ InArena(c)
    /\ LET k == CoreTick(conn[c])
       IN  /\ OpensGame(k) => EnvReady(k.handle)
           /\ conn' = [conn EXCEPT ![c] =
                          [k EXCEPT !.gameView = @ \/ OpensGame(k)]]
    /\ IF AsksForSky(conn[c]) THEN Send(c, ReqSky) ELSE UNCHANGED up
    /\ UNCHANGED <<link, down, phase>>

\* The assertion fails: the process aborts and its peer times out.
ClientAborts(c) ==
    /\ InArena(c)
    /\ OpensGame(conn[c])
    /\ ~EnvReady(conn[c].handle)
    /\ IF link[c] = "open" THEN BreakUp(c) ELSE UNCHANGED <<link, up>>
    /\ down'  = [down EXCEPT ![c] = <<>>]
    /\ phase' = [phase EXCEPT ![c] = "off"]
    /\ conn'  = [conn EXCEPT ![c] = None]

ClientWorker(c) ==
    /\ conn[c] # None
    /\ WorkerBusy(conn[c].handle)
    /\ conn' = [conn EXCEPT ![c].handle = WorkerEnds(@)]
    /\ UNCHANGED <<link, up, down, phase>>

-----------------------------------------------------------------------------
(* What users do *)

MayType(c) ==
    /\ InArena(c)
    /\ link[c] = "open"
    /\ Len(up[c]) < MaxUp

Request(c, packet) ==
    /\ MayType(c)
    /\ Send(c, packet)
    /\ UNCHANGED <<link, down, phase, conn>>

\* onChangeSettings: PlayerDelta(player) repeats the admin flag the client
\* has on record.
RequestNickname(c) ==
    \E nick \in NickRequests :
        Request(c, [type |-> "ReqPlayerDelta", nickname |-> nick,
                    admin |-> conn[c].arena.players[conn[c].pid].admin])

RequestTeam(c) ==
    /\ MayType(c)
    /\ conn[c].view = "Lobby"
    /\ \E team \in TeamRequests : Request(c, [type |-> "ReqTeam", team |-> team])

RequestSpawn(c) ==
    /\ MayType(c)
    /\ conn[c].gameView
    /\ Request(c, [type |-> "ReqSpawn"])

\* The message box is part of the lobby and of the game's view.
TypeCommand(c, cmd) ==
    /\ MayType(c)
    /\ conn[c].view = "Lobby" \/ conn[c].gameView
    /\ Request(c, [type |-> "RCon", command |-> cmd.command, env |-> cmd.env])

-----------------------------------------------------------------------------
(* Connecting and leaving *)

ClientConnects(c) ==
    /\ phase[c] = "off"
    /\ OpenLink(c)
    /\ phase' = [phase EXCEPT ![c] = "connecting"]
    /\ UNCHANGED conn

\* poll() asks to join as soon as there is a link.
AskToJoin(c) ==
    /\ phase[c] = "connecting"
    /\ \E nick \in JoinNicks :
          Send(c, [type |-> "ReqJoin", nickname |-> nick])
    /\ phase' = [phase EXCEPT ![c] = "asked"]
    /\ UNCHANGED <<link, down, conn>>

\* disconnect(): ENet drops what is queued and hands out nothing more.
Disconnect(c) ==
    /\ c \in Leavers
    /\ phase[c] \in {"connecting", "asked"}
    /\ link[c] = "open"
    /\ BreakUp(c)
    /\ down'  = [down EXCEPT ![c] = <<>>]
    /\ phase' = [phase EXCEPT ![c] = "leaving"]
    /\ UNCHANGED conn

\* The DISCONNECT event or the disconnect timer: the core is destroyed.
ClientEnds(c) ==
    /\ phase[c] # "off"
    /\ link[c] = "down"
    /\ down'  = [down EXCEPT ![c] = <<>>]
    /\ phase' = [phase EXCEPT ![c] = "off"]
    /\ conn'  = [conn EXCEPT ![c] = None]
    /\ UNCHANGED <<link, up>>

\* The two hosts lose each other; packets that were on their way to the
\* client may still be polled before it notices.
LinkBreaks(c) ==
    /\ c \in Leavers
    /\ link[c] = "open"
    /\ BreakUp(c)
    /\ UNCHANGED <<down, phase, conn>>

ClientActs(c) ==
    \/ ClientReceives(c) \/ ClientTick(c) \/ ClientAborts(c) \/ ClientWorker(c)
    \/ RequestNickname(c) \/ RequestTeam(c) \/ RequestSpawn(c)
    \/ AskToJoin(c) \/ Disconnect(c) \/ ClientEnds(c) \/ LinkBreaks(c)
=============================================================================
