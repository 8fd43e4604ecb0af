------------------------------ MODULE ServerExec ------------------------------
(***************************************************************************)
(* The server: ServerExec's event loop, ServerShared's broadcasts and the  *)
(* vanilla server's answers to what players ask for.  One action is one    *)
(* polled event or one tick; the loop drains the host between two ticks,   *)
(* and an event may arrive at any time, so they interleave freely.         *)
(***************************************************************************)
EXTENDS SkyHandle, Network

CONSTANTS
    FirstEnv,       \* the environment the server's ArenaInit names
    FirstMotd,
    MaxDown         \* bound: the server waits while a client is this far behind

ASSUME ServerAssumption ==
    /\ IsFiniteSet(Peers) /\ Cardinality(Peers) <= MaxPlayers
    /\ FirstEnv \in Envs /\ FirstMotd \in Motds

VARIABLES
    arena,          \* the server's arena
    handle,         \* the server's sky handle
    lastSky,        \* how many skies the server has instantiated
    attached,       \* which peers the host has reported as connected
    playerOf        \* peer->data: the peer's player, by PID

serverVars == <<arena, handle, lastSky, attached, playerOf>>

ServerInit ==
    /\ arena = [players |-> EmptyMap, motd |-> FirstMotd,
                nextEnv |-> FirstEnv, mode |-> "Lobby", teamCount |-> 2]
    /\ handle   = NewHandle(None)
    /\ lastSky  = 0
    /\ attached = [c \in Peers |-> FALSE]
    /\ playerOf = [c \in Peers |-> None]

-----------------------------------------------------------------------------
(* Packets and broadcasts *)

InitPacket(pid, a, h) ==
    [type |-> "Init", pid |-> pid, arena |-> CopyArena(a), env |-> EnvUrl(h)]
InitSky(sky)        == [type |-> "InitSky", sky |-> sky]
DeltaArena(d)       == [type |-> "DeltaArena", delta |-> d]
DeltaSkyHandle(url) == [type |-> "DeltaSkyHandle", env |-> url]
DeltaSky(sky)       == [type |-> "DeltaSky", sky |-> sky]

ServerPacket ==
    [type : {"Init"}, pid : PID, arena : ArenaState, env : Envs \cup {None}]
    \cup [type : {"InitSky", "DeltaSky"}, sky : Nat]
    \cup [type : {"DeltaArena"}, delta : ArenaDelta]
    \cup [type : {"DeltaSkyHandle"}, env : Envs \cup {None}]

\* host.getPeers(): the peers that have not asked to join are among them.
ToClients(packet) == ToThose({c \in Peers : attached[c]}, packet)

\* A mistake: the comparison is the wrong way round.
ToThatClient(pid, packet) ==
    ToThose({c \in Peers : attached[c] /\ playerOf[c] = pid}, packet)

ToClientsExcept(pid, packet) ==
    ToThose({c \in Peers : attached[c] /\ playerOf[c] \notin {None, pid}}, packet)

HasRoom == \A c \in Peers : Len(down[c]) < MaxDown

Polls(c, type) ==
    /\ HasRoom
    /\ up[c] # <<>>
    /\ Head(up[c]).type = type
    /\ up' = [up EXCEPT ![c] = Tail(@)]
    /\ UNCHANGED link

\* registerArenaDelta, the only thing that many handlers do.
Register(d) ==
    /\ arena' = ApplyArenaDelta(arena, d)
    /\ Transmit(ToClients(DeltaArena(d)))

Ignore == UNCHANGED <<arena, down>>

PlayerOf(c) == arena.players[playerOf[c]]

-----------------------------------------------------------------------------
(* Connections *)

HandleConnect(c) ==
    /\ Polls(c, "CONNECT")
    /\ attached' = [attached EXCEPT ![c] = TRUE]
    /\ playerOf' = [playerOf EXCEPT ![c] = None]
    /\ UNCHANGED <<down, arena, handle, lastSky>>

\* A mistake: the peer keeps its pointer to the player.
HandleDisconnectKeepingPlayer(c) ==
    /\ Polls(c, "DISCONNECT")
    /\ IF playerOf[c] = None THEN Ignore ELSE Register(QuitDelta(playerOf[c]))
    /\ attached' = [attached EXCEPT ![c] = FALSE]
    /\ UNCHANGED <<playerOf, handle, lastSky>>

HandleDisconnect(c) ==
    /\ Polls(c, "DISCONNECT")
    /\ IF playerOf[c] = None THEN Ignore ELSE Register(QuitDelta(playerOf[c]))
    /\ attached' = [attached EXCEPT ![c] = FALSE]
    /\ playerOf' = [playerOf EXCEPT ![c] = None]
    /\ UNCHANGED <<handle, lastSky>>

\* Two mistakes: the initializer is captured before the player is in the
\* arena; and the two packets go to each other's receivers.
HandleReqJoinTooEarly(c) ==
    /\ Polls(c, "ReqJoin")
    /\ playerOf[c] = None
    /\ LET d == ConnectPlayer(arena.players, Head(up[c]).nickname)
       IN  /\ arena'    = ApplyArenaDelta(arena, d)
           /\ playerOf' = [playerOf EXCEPT ![c] = d.pid]
           /\ Transmit(Then(To(c, InitPacket(d.pid, arena, handle)),
                            ToClientsExcept(d.pid, DeltaArena(d))))
    /\ UNCHANGED <<handle, lastSky, attached>>

HandleReqJoinSwapped(c) ==
    /\ Polls(c, "ReqJoin")
    /\ playerOf[c] = None
    /\ LET d == ConnectPlayer(arena.players, Head(up[c]).nickname)
       IN  /\ arena'    = ApplyArenaDelta(arena, d)
           /\ playerOf' = [playerOf EXCEPT ![c] = d.pid]
           /\ Transmit(Then(To(c, DeltaArena(d)),
                            ToClientsExcept(d.pid, InitPacket(d.pid, arena', handle))))
    /\ UNCHANGED <<handle, lastSky, attached>>

HandleReqJoin(c) ==
    /\ Polls(c, "ReqJoin")
    /\ playerOf[c] = None
    /\ LET d == ConnectPlayer(arena.players, Head(up[c]).nickname)
       IN  /\ arena'    = ApplyArenaDelta(arena, d)
           /\ playerOf' = [playerOf EXCEPT ![c] = d.pid]
           /\ Transmit(Then(To(c, InitPacket(d.pid, arena', handle)),
                            ToClientsExcept(d.pid, DeltaArena(d))))
    /\ UNCHANGED <<handle, lastSky, attached>>

-----------------------------------------------------------------------------
(* What joined players ask for *)

PollsPlayer(c, type) ==
    /\ Polls(c, type)
    /\ playerOf[c] # None
    /\ UNCHANGED <<lastSky, attached, playerOf>>

HandleReqSky(c) ==
    /\ PollsPlayer(c, "ReqSky")
    /\ IF handle.sky = None
       THEN Ignore
       ELSE LET d == OnePlayerDelta(playerOf[c],
                        [DeltaOf(PlayerOf(c)) EXCEPT !.loadingEnv = FALSE])
            IN  /\ arena' = ApplyArenaDelta(arena, d)
                /\ Transmit(Then(To(c, InitSky(handle.sky)),
                                 ToClients(DeltaArena(d))))
    /\ UNCHANGED handle

\* effectedDelta is default-constructed, which leaves its two flags
\* uninitialised: any value of them is applied and sent.
HandleReqPlayerDelta(c) ==
    /\ PollsPlayer(c, "ReqPlayerDelta")
    /\ LET request == Head(up[c])
           nick    == IF request.nickname = None THEN None
                      ELSE AllocNewNickname(arena.players, playerOf[c],
                                            request.nickname)
       IN  \E admin, loadingEnv \in BOOLEAN :
              /\ request.admin /\ PlayerOf(c).admin => admin
              /\ Register(OnePlayerDelta(playerOf[c],
                    [nickname |-> nick, admin |-> admin, team |-> None,
                     loadingEnv |-> loadingEnv, stats |-> None]))
    /\ UNCHANGED handle

ChangeTeam(c, team) ==
    Register(OnePlayerDelta(playerOf[c],
                            [DeltaOf(PlayerOf(c)) EXCEPT !.team = team]))

HandleReqTeam(c) ==
    /\ PollsPlayer(c, "ReqTeam")
    /\ IF arena.mode = "Lobby" THEN ChangeTeam(c, Head(up[c]).team) ELSE Ignore
    /\ UNCHANGED handle

\* The spawn itself is a change of the sky's contents.
HandleReqSpawn(c) ==
    /\ PollsPlayer(c, "ReqSpawn")
    /\ IF handle.sky # None /\ PlayerOf(c).team = "Spectator"
       THEN \E team \in AutojoinTeams(arena) : ChangeTeam(c, team)
       ELSE Ignore
    /\ UNCHANGED handle

PollsRCon(c, command) ==
    /\ PollsPlayer(c, "RCon")
    /\ Head(up[c]).command = command

\* Not an admin, or an admin who authenticates again: nothing happens.
HandleRefused(c) ==
    /\ \E command \in {"auth", "start", "stop", "restart", "map"} :
          /\ PollsRCon(c, command)
          /\ PlayerOf(c).admin <=> command = "auth"
    /\ Ignore
    /\ UNCHANGED handle

HandleAuth(c) ==
    /\ PollsRCon(c, "auth")
    /\ ~PlayerOf(c).admin
    /\ Register(OnePlayerDelta(playerOf[c],
                               [DeltaOf(PlayerOf(c)) EXCEPT !.admin = TRUE]))
    /\ UNCHANGED handle

HandleStart(c) ==
    /\ PollsRCon(c, "start")
    /\ PlayerOf(c).admin
    /\ arena' = ApplyArenaDelta(ApplyArenaDelta(arena, ModeDelta("Game")),
                                ResetEnvLoad)
    /\ handle' = StartGame(handle, arena.nextEnv)
    /\ Transmit(Then(ToClients(DeltaArena(ModeDelta("Game"))),
                     ToClients(DeltaArena(ResetEnvLoad))))

HandleStop(c) ==
    /\ PollsRCon(c, "stop")
    /\ PlayerOf(c).admin
    /\ handle' = StopGame(handle)
    /\ Register(ModeDelta("Lobby"))

HandleRestart(c) ==
    /\ PollsRCon(c, "restart")
    /\ PlayerOf(c).admin
    /\ handle' = StartGame(handle, arena.nextEnv)
    /\ UNCHANGED <<arena, down>>

HandleMap(c) ==
    /\ PollsRCon(c, "map")
    /\ PlayerOf(c).admin
    /\ Register(EnvChange(Head(up[c]).env))
    /\ handle' = StartGame(handle, Head(up[c]).env)

-----------------------------------------------------------------------------
(* Ticking *)

\* What a tick makes of the handle before deltas are collected.
Advance(h) ==
    IF h.sky # None THEN h
    ELSE IF EnvReady(h) THEN InstantiateSky(h, lastSky + 1) ELSE LoadMore(h)

\* The packets of the sky's schedule: only to players that have loaded.
SkyPackets(h) ==
    ToThose({c \in Peers : /\ attached[c]
                           /\ playerOf[c] # None
                           /\ ~PlayerOf(c).loadingEnv}, DeltaSky(h.sky))

\* LatencyTracker::makeUpdate, for all the players at once.
StatsDelta(stats) ==
    PlayersDelta([p \in PID |->
        IF arena.players[p] = None THEN None
        ELSE [DeltaOf(arena.players[p]) EXCEPT !.stats = stats[p]]])

\* skyDue, statsDue: the schedulers of the sky's deltas and of the players'
\* statistics let them pass in this tick.
ServerTick ==
    /\ HasRoom
    /\ LET advanced == Advance(handle)
           announced == IF handle.isNew
                        THEN ToClients(DeltaSkyHandle(EnvUrl(advanced)))
                        ELSE Silence
       IN  /\ handle' = CollectDelta(advanced)
           /\ lastSky' = IF handle.sky = None /\ advanced.sky # None
                         THEN lastSky + 1 ELSE lastSky
           /\ \E skyDue, statsDue \in BOOLEAN :
                LET skyOut == IF skyDue /\ advanced.sky # None
                              THEN SkyPackets(advanced) ELSE Silence
                    out == Then(announced, skyOut)
                IN  \/ /\ ~statsDue
                       /\ Transmit(out)
                       /\ UNCHANGED arena
                    \/ /\ statsDue
                       /\ \E stats \in [Keys(arena.players) -> ConnStats] :
                            LET d == StatsDelta(stats)
                            IN  /\ arena' = ApplyArenaDelta(arena, d)
                                /\ Transmit(Then(out, ToClients(DeltaArena(d))))
    /\ UNCHANGED <<link, up, attached, playerOf>>

ServerWorker ==
    /\ WorkerBusy(handle)
    /\ handle' = WorkerEnds(handle)
    /\ UNCHANGED <<link, up, down, arena, lastSky, attached, playerOf>>

ServerHandles(c) ==
    \/ HandleConnect(c) \/ HandleDisconnect(c) \/ HandleReqJoin(c)
    \/ HandleReqSky(c) \/ HandleReqPlayerDelta(c)
    \/ HandleReqTeam(c) \/ HandleReqSpawn(c)
    \/ HandleRefused(c) \/ HandleAuth(c)
    \/ HandleStart(c) \/ HandleStop(c) \/ HandleRestart(c) \/ HandleMap(c)
=============================================================================
