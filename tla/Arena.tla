-------------------------------- MODULE Arena --------------------------------
(***************************************************************************)
(* The arena: the part of the game's state that the server and every       *)
(* client hold, with its initializer and its deltas (Arena and Player of   *)
(* src/engine).  An optional field that is not set is None.                *)
(***************************************************************************)
EXTENDS Nickname

CONSTANTS
    Envs,           \* environment URLs
    Motds,          \* messages of the day
    ConnStats,      \* PlayerConnectionStats, as far as they differ
    MaxPlayers,     \* how many peers the server's host accepts
    None            \* boost::none, and the null pointer


Team == {"Spectator", "Red", "Blue"}
Mode == {"Lobby", "Game", "Scoring"}
PID  == 0 .. MaxPlayers - 1

Player == [nickname   : Name,
           admin      : BOOLEAN,
           team       : Team,
           loadingEnv : BOOLEAN,
           stats      : ConnStats \cup {None}]

PlayerDelta == [nickname   : Name \cup {None},
                admin      : BOOLEAN,
                team       : Team \cup {None},
                loadingEnv : BOOLEAN,
                stats      : ConnStats \cup {None}]

\* std::map<PID, T>, None at the PIDs that are not among its keys.
MapTo(T) == [PID -> T \cup {None}]
Keys(map) == {p \in PID : map[p] # None}
EmptyMap == [p \in PID |-> None]

ArenaState == [players   : MapTo(Player),
               motd      : Motds,
               nextEnv   : Envs,
               mode      : Mode,
               teamCount : Nat \cup {None}]

ArenaDelta ==
    [type : {"Quit"}, pid : PID]
    \cup [type : {"Join"}, pid : PID, player : Player]
    \cup [type : {"Delta"}, deltas : MapTo(PlayerDelta)]
    \cup [type : {"ResetEnvLoad"}]
    \cup [type : {"Motd"}, motd : Motds]
    \cup [type : {"Mode"}, mode : Mode]
    \cup [type : {"EnvChange"}, env : Envs]
    \cup [type : {"TeamCount"}, count : Nat]

\* boost::none is no value of any of these types.
ASSUME ArenaAssumption ==
    /\ MaxPlayers \in Nat
    /\ None \notin Nat \cup Player \cup PlayerDelta

-----------------------------------------------------------------------------
(* Players *)

NewPlayer(nick) ==
    [nickname |-> nick, admin |-> FALSE, team |-> "Spectator",
     loadingEnv |-> TRUE, stats |-> None]

\* A mistake: the flags are set instead of copied.
DeltaWithRights(player) ==
    [nickname |-> None, admin |-> TRUE, team |-> None,
     loadingEnv |-> player.loadingEnv, stats |-> None]

\* PlayerDelta(player): nothing optional is set; admin and loadingEnv are
\* not optional and repeat what the player has.
DeltaOf(player) ==
    [nickname |-> None, admin |-> player.admin, team |-> None,
     loadingEnv |-> player.loadingEnv, stats |-> None]

OrElse(new, old) == IF new = None THEN old ELSE new

ChangePlayer(player, d) ==
    [nickname   |-> OrElse(d.nickname, player.nickname),
     admin      |-> d.admin,
     team       |-> OrElse(d.team, player.team),
     loadingEnv |-> d.loadingEnv,
     stats      |-> OrElse(d.stats, player.stats)]

-----------------------------------------------------------------------------
(* Allocation, joining and quitting *)

NicksExcept(players, ignored) ==
    [p \in Keys(players) \ ignored |-> players[p].nickname]

\* Two mistakes: counting the players, and counting from one.
AllocPidByCount(players) == Cardinality(Keys(players))
AllocPidFromOne(players) == SmallestUnusedKey(Keys(players)) + 1

AllocPid(players) == SmallestUnusedKey(Keys(players))

\* connectPlayer: the Join delta a server makes of a request to join.
ConnectPlayer(players, req) ==
    [type   |-> "Join",
     pid    |-> AllocPid(players),
     player |-> NewPlayer(AllocNickname(NicksExcept(players, {}), req))]

AllocNewNickname(players, pid, req) ==
    AllocNickname(NicksExcept(players, {pid}), req)

\* autojoinTeam: Red when Red is the smaller team.  The branch that should
\* give Blue repeats that condition, so every other case is std::rand().
TeamSize(players, team) ==
    Cardinality({p \in Keys(players) : players[p].team = team})

RandomTeams(teamCount) ==
    {t \in Team : \E r \in 0 .. teamCount - 1 :
                    t = IF r = 0 THEN "Red" ELSE "Blue"}

AutojoinTeams(a) ==
    IF TeamSize(a.players, "Red") < TeamSize(a.players, "Blue")
    THEN {"Red"}
    ELSE RandomTeams(a.teamCount)

-----------------------------------------------------------------------------
(* Deltas *)

QuitDelta(pid)          == [type |-> "Quit", pid |-> pid]
PlayersDelta(deltas)    == [type |-> "Delta", deltas |-> deltas]
OnePlayerDelta(pid, d)  == PlayersDelta([EmptyMap EXCEPT ![pid] = d])
ResetEnvLoad            == [type |-> "ResetEnvLoad"]
MotdDelta(text)         == [type |-> "Motd", motd |-> text]
ModeDelta(m)            == [type |-> "Mode", mode |-> m]
EnvChange(url)          == [type |-> "EnvChange", env |-> url]
TeamCountDelta(n)       == [type |-> "TeamCount", count |-> n]

\* Deltas for PIDs that are not in the arena are ignored.
ChangePlayers(players, deltas) ==
    [p \in PID |->
        IF players[p] # None /\ deltas[p] # None
        THEN ChangePlayer(players[p], deltas[p])
        ELSE players[p]]

SetLoadingEnv(players) ==
    [p \in PID |-> IF players[p] = None THEN None
                   ELSE [players[p] EXCEPT !.loadingEnv = TRUE]]

ApplyArenaDelta(a, d) ==
    CASE d.type = "Quit"  -> [a EXCEPT !.players[d.pid] = None]
      [] d.type = "Join"  -> [a EXCEPT !.players[d.pid] = d.player]
      [] d.type = "Delta" -> [a EXCEPT !.players = ChangePlayers(a.players, d.deltas)]
      [] d.type = "ResetEnvLoad" -> [a EXCEPT !.players = SetLoadingEnv(a.players)]
      [] d.type = "Motd"      -> [a EXCEPT !.motd = d.motd]
      [] d.type = "Mode"      -> [a EXCEPT !.mode = d.mode]
      [] d.type = "EnvChange" -> [a EXCEPT !.nextEnv = d.env]
      [] d.type = "TeamCount" -> [a EXCEPT !.teamCount = d.count]

\* captureInitializer followed by the constructor of the copy.  An ArenaInit
\* does not carry the team count: the copy's is whatever the memory held.
CopyArena(a) == [a EXCEPT !.teamCount = None]

\* What an ArenaInit is meant to reproduce.
Shared(a) ==
    [players |-> a.players, motd |-> a.motd, nextEnv |-> a.nextEnv,
     mode |-> a.mode]
=============================================================================
