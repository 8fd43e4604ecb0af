-------------------------- MODULE SessionInvariants --------------------------
(***************************************************************************)
(* Why the invariants of Session hold: what is true of the packets that    *)
(* are on their way.  SessionInv, the conjunction of these facts with the  *)
(* invariants themselves, is inductive; SessionProofs proves it.           *)
(***************************************************************************)
EXTENDS Session

Sends(c, i, type) == down[c][i].type = type

\* What a peer slot's queue of events looks like: CONNECT comes first, and
\* only while the slot is free; DISCONNECT comes last, once the link is down;
\* a peer that is not attached has nothing else to say before its CONNECT.
UpShape(c) ==
    /\ \A i \in DOMAIN up[c] :
          /\ up[c][i].type = "CONNECT" => i = 1 /\ ~attached[c]
          /\ up[c][i].type = "DISCONNECT" => i = Len(up[c]) /\ link[c] = "down"
    /\ ~attached[c] /\ up[c] # <<>> => up[c][1].type \in {"CONNECT", "DISCONNECT"}
    /\ link[c] = "open" /\ ~attached[c] => up[c] # <<>>

\* A client that is off has nothing left of its last connection.
OffIsClean(c) ==
    phase[c] = "off" => link[c] = "down" /\ conn[c] = None /\ down[c] = <<>>

IsQuitOf(packet, pid) ==
    packet.type = "DeltaArena" /\ packet.delta.type = "Quit" /\ packet.delta.pid = pid

\* A client's own player: the one the server has for its peer, in the arena
\* of every Init on its way, and quit by no delta that comes after.
OwnPid(c) ==
    /\ \A i \in DOMAIN down[c] : Sends(c, i, "Init") =>
          /\ down[c][i].arena.players[down[c][i].pid] # None
          /\ link[c] = "open" => down[c][i].pid = playerOf[c]
          /\ \A j \in DOMAIN down[c] :
                i < j => ~IsQuitOf(down[c][j], down[c][i].pid)
    /\ conn[c] # None =>
          /\ conn[c].arena.players[conn[c].pid] # None
          /\ link[c] = "open" => conn[c].pid = playerOf[c]
          /\ \A j \in DOMAIN down[c] : ~IsQuitOf(down[c][j], conn[c].pid)

\* An Init in game mode names the environment of the game.
InitHasEnv(c) ==
    \A i \in DOMAIN down[c] :
        Sends(c, i, "Init") /\ down[c][i].arena.mode = "Game" => down[c][i].env # None

\* The inductive invariant.
SessionInv ==
    /\ TypeOK
    /\ PeersArePlayers
    /\ ServerGameHasEnv
    /\ GameViewHasEnv
    /\ \A c \in Peers : UpShape(c) /\ OffIsClean(c) /\ OwnPid(c) /\ InitHasEnv(c)

-----------------------------------------------------------------------------
(* Why nicknames stay distinct: none of the requests on their way has a    *)
(* number of its own, so that every nickname is simple.                    *)

Unnumbered(name) == name.tags = <<>>

AsksForNick(packet) == packet.type \in {"ReqJoin", "ReqPlayerDelta"}

UnnumberedRequests(c) ==
    \A i \in DOMAIN up[c] : AsksForNick(up[c][i]) => Unnumbered(up[c][i].nickname)

SimpleNicknames ==
    \A p \in Keys(arena.players) : Simple(arena.players[p].nickname)

\* NicknamesDistinct, made inductive: a request without a number gets a
\* number that is free as long as every nickname was made in this way.
NicknameInv ==
    /\ NicknamesDistinct
    /\ SimpleNicknames
    /\ \A c \in Peers : UnnumberedRequests(c)

-----------------------------------------------------------------------------
(* Why skies stay apart: a sky ends with its environment, and the end of   *)
(* an environment is announced before anything of the next sky is sent.    *)

SkyAt(q) == {i \in DOMAIN q : IsSky(q[i])}

\* None of the i-th to the j-th packet of q is about the environment.
SameEnv(q, i, j) == \A n \in i .. j : q[n].type # "DeltaSkyHandle"

\* The sky that is being played, or was until the server's next tick.
Current(sky) == sky = lastSky /\ (handle.sky # None \/ handle.isNew)

\* Skies are sent one after the other, and between the packets of two skies
\* there is the announcement of an environment.
SkiesInOrder(q) ==
    \A i, j \in SkyAt(q) : i < j =>
        /\ q[i].sky <= q[j].sky
        /\ SameEnv(q, i, j) => q[i].sky = q[j].sky

\* What the connection k has still to read is of its own sky, or of a later
\* one after the announcement of another environment.
SkyStays(k, q) ==
    k # None /\ k.handle.sky # None =>
        /\ k.handle.env # None /\ k.handle.env.stage # "more"
        /\ \A i \in SkyAt(q) :
              /\ k.handle.sky <= q[i].sky
              /\ EnvReady(k.handle) /\ SameEnv(q, 1, i) => k.handle.sky = q[i].sky

\* The server's next packets about a sky fit those on their way...
SentSkies(c) ==
    /\ playerOf[c] = None => SkyAt(down[c]) = {}
    /\ \A i \in SkyAt(down[c]) :
          /\ down[c][i].sky <= lastSky
          /\ SameEnv(down[c], i, Len(down[c])) => Current(down[c][i].sky)

\* ... and the sky of the client that will read them.
PlayedSky(c) ==
    conn[c] # None /\ conn[c].handle.sky # None =>
        /\ conn[c].handle.sky <= lastSky
        /\ EnvReady(conn[c].handle) /\ SameEnv(down[c], 1, Len(down[c])) =>
              Current(conn[c].handle.sky)

SkiesOf(c) ==
    /\ SkiesInOrder(down[c])
    /\ SkyStays(conn[c], down[c])
    /\ link[c] = "open" => SentSkies(c) /\ PlayedSky(c)

\* SkyPacketsMatch, made inductive together with SessionInv.
SkyInv ==
    /\ handle.sky # None => handle.sky = lastSky
    /\ \A c \in Peers : SkiesOf(c)

-----------------------------------------------------------------------------
(* What a client will have when it has read all that is on its way to it.  *)

\* What k becomes when it reads the packets, one after the other.
Replayed(k, packets) ==
    LET read[n \in 0 .. Len(packets)] ==
            IF n = 0 THEN k ELSE ProcessPacket(read[n - 1], packets[n])
    IN  read[Len(packets)]

Replay(c) == Replayed(conn[c], down[c])

\* A client that has joined is on its way to the server's arena: at any
\* moment, whatever is on its way, Init and the deltas around it lose and
\* repeat nothing.
ReplayReachesServer ==
    \A c \in Peers : InTouch(c) =>
        /\ Replay(c) # None
        /\ Replay(c).pid = playerOf[c]
        /\ Shared(Replay(c).arena) = Shared(arena)

\* It is on its way to the server's environment, too, once the server's tick
\* has announced the last change of it; joining in between is no exception.
ReplayReachesEnv ==
    \A c \in Peers : InTouch(c) /\ ~handle.isNew =>
        Replay(c) # None /\ EnvUrl(Replay(c).handle) = EnvUrl(handle)
=============================================================================
