------------------------------- MODULE Session -------------------------------
(***************************************************************************)
(* One server and its clients, from joining the arena to playing a sky.    *)
(***************************************************************************)
EXTENDS ServerExec, MultiplayerCore

CONSTANT MaxSkies   \* bound: nobody stops a game after this many skies

vars == <<networkVars, serverVars, clientVars>>

Init == NetworkInit /\ ServerInit /\ ClientInit

\* A peer slot is free again when both ends of its last link are done.
Connects(c) ==
    /\ link[c] = "down" /\ up[c] = <<>> /\ ~attached[c]
    /\ ClientConnects(c)

Types(c) ==
    \E cmd \in Commands :
        /\ cmd.command = "stop" => lastSky < MaxSkies
        /\ TypeCommand(c, cmd)

Serves == ServerTick \/ ServerWorker \/ \E c \in Peers : ServerHandles(c)

Plays(c) == Connects(c) \/ Types(c) \/ ClientActs(c)

Next ==
    \/ Serves /\ UNCHANGED clientVars
    \/ \E c \in Peers : Plays(c) /\ UNCHANGED serverVars

Spec == Init /\ [][Next]_vars

\* The server's loop drains its host before every tick, so that an event
\* which may be handled again and again is handled; the clients poll and tick
\* in every frame, and worker threads end their jobs.  Users owe nothing.
Serving(A) == A /\ UNCHANGED clientVars
Playing(A) == A /\ UNCHANGED serverVars

Fairness ==
    /\ WF_vars(Serving(ServerTick)) /\ WF_vars(Serving(ServerWorker))
    /\ \A c \in Peers :
          /\ SF_vars(Serving(ServerHandles(c)))
          /\ WF_vars(Playing(ClientReceives(c)))
          /\ WF_vars(Playing(ClientTick(c)))
          /\ WF_vars(Playing(ClientWorker(c)))
          /\ WF_vars(Playing(AskToJoin(c)))
          /\ WF_vars(Playing(ClientEnds(c)))

FairSpec == Spec /\ Fairness

-----------------------------------------------------------------------------
(* Types *)

\* Every variable has its type.
TypeOK ==
    /\ link \in [Peers -> {"open", "down"}]
    /\ up \in [Peers -> Seq(ClientPacket)]
    /\ down \in [Peers -> Seq(ServerPacket)]
    /\ arena \in ArenaState
    /\ handle \in Handle
    /\ lastSky \in Nat
    /\ attached \in [Peers -> BOOLEAN]
    /\ playerOf \in [Peers -> PID \cup {None}]
    /\ phase \in [Peers -> Phase]
    /\ conn \in [Peers -> Conn \cup {None}]

-----------------------------------------------------------------------------
(* The arena *)

\* peer->data points at a player that is in the arena, never at one that has
\* been erased or at another peer's; and no player stays behind without a
\* peer, whatever the order in which links break and slots are used again.
PeersArePlayers ==
    /\ \A c \in Peers : playerOf[c] # None =>
          attached[c] /\ playerOf[c] \in Keys(arena.players)
    /\ \A p \in Keys(arena.players) : \E c \in Peers : playerOf[c] = p
    /\ \A c, d \in Peers : c # d /\ playerOf[c] = playerOf[d] => playerOf[c] = None

\* allocNickname: no two players of the arena have the same nickname, whatever
\* joins, changes and quits there have been.  This is so only as long as no
\* request carries a number of its own, like "bob(0)", as in the runs: see
\* AllocatesUnused in Allocation.
NicknamesDistinct ==
    \A p, q \in Keys(arena.players) : p # q =>
        arena.players[p].nickname # arena.players[q].nickname

InTouch(c) == link[c] = "open" /\ playerOf[c] # None

\* ArenaConnection::player is a reference into the client's copy of the
\* arena: the player it names is never erased under it.
OwnPlayerStays ==
    \A c \in Peers : conn[c] # None => conn[c].pid \in Keys(conn[c].arena.players)

\* Admin rights come from rcon's "auth" alone, or from the flags that a change
\* of nickname carries (RenameKeepsFlags is about these).
AdminByAuthOnly ==
    [][\A p \in Keys(arena.players) \cap Keys(arena'.players) :
          ~arena.players[p].admin /\ arena'.players[p].admin =>
              \E c \in Peers : HandleAuth(c) \/ HandleReqPlayerDelta(c)]_vars

Arenas == INSTANCE Membership WITH Members <- Peers, players <- arena.players

\* Every step of a session is one of Membership or none: a peer has at most
\* one player and a player one peer, under the smallest PID that was free, and
\* no packet, however late, changes or removes the player of another peer
\* (server.cpp:39, arena.cpp:252).
IsMembership == Arenas!Spec

\* "PlayerDelta() = default; // packing, do not use": a change of nickname
\* changes the nickname alone.
RenameKeepsFlags ==
    [][\A p \in Keys(arena.players) \cap Keys(arena'.players) :
          arena.players[p].nickname # arena'.players[p].nickname =>
              /\ arena.players[p].admin = arena'.players[p].admin
              /\ arena.players[p].loadingEnv = arena'.players[p].loadingEnv]_vars

-----------------------------------------------------------------------------
(* The sky handle *)

\* Whoever is in game mode has an environment, and a sky never outlives its
\* environment: on the server between any two events...
ServerGameHasEnv ==
    /\ arena.mode = "Game" => handle.env # None
    /\ handle.sky # None => handle.env # None

\* ... and on each client whenever the game's view is loaded, which is what
\* the assertion in MultiplayerGameHandle's constructor needs; what the view
\* refers to outlives it.
ViewHasEnv(k) ==
    /\ k.view = "Game" => k.arena.mode = "Game" /\ k.handle.env # None
    /\ k.gameView => k.view = "Game" /\ k.handle.sky # None
    /\ k.handle.sky # None => k.handle.env # None

GameViewHasEnv == \A c \in Peers : conn[c] # None => ViewHasEnv(conn[c])

Reads(c, type) ==
    conn[c] # None /\ down[c] # <<>> /\ Head(down[c]).type = type

IsSky(packet) == packet.type \in {"InitSky", "DeltaSky"}

\* A client that plays a sky reads nothing of an earlier one; and while the
\* environment of its sky is loaded it reads nothing of a later one: no sky is
\* replaced under the view that shows it, or fed with another sky's deltas,
\* however many starts, stops, restarts and changes of map there have been.
SkyPacketsMatch ==
    \A c \in Peers :
        /\ conn[c] # None /\ conn[c].handle.sky # None
        /\ down[c] # <<>> /\ IsSky(Head(down[c]))
        => /\ conn[c].handle.sky <= Head(down[c]).sky
           /\ EnvReady(conn[c].handle) => conn[c].handle.sky = Head(down[c]).sky

\* "Received sky delta packet before sky was initialized! The server is at
\* fault and is likely broken." is never logged.
SkyDeltaComesAfterSky ==
    \A c \in Peers : Reads(c, "DeltaSky") => conn[c].handle.sky # None

\* The assertion in MultiplayerGame's constructor: the visuals are loaded
\* when the game's view is opened.
GameOpensLoaded ==
    \A c \in Peers : InArena(c) /\ OpensGame(conn[c]) => EnvReady(conn[c].handle)

-----------------------------------------------------------------------------
(* Progress *)

\* Every request to join is answered, unless the link breaks first.
JoinIsAnswered ==
    \A c \in Peers : phase[c] = "connecting" ~> conn[c] # None \/ link[c] = "down"

\* The players of peers that are gone leave the arena.
GoneAreRemoved ==
    \A c \in Peers : link[c] = "down" ~> playerOf[c] = None

\* "InitSky: sky initialization for a client who's loaded the environment":
\* a client that stays in the arena of a server with a sky gets that sky.
SkyReachesClient ==
    \A c \in Peers :
        InTouch(c) /\ handle.sky # None ~>
            \/ conn[c] # None /\ conn[c].handle.sky = handle.sky
            \/ ~InTouch(c)
            \/ handle.sky = None
=============================================================================
