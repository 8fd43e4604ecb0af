----------------------------- MODULE Environment -----------------------------
(***************************************************************************)
(* sky::Environment with its worker thread, and the three programs that    *)
(* own one through a sky handle: the server's tick, the multiplayer        *)
(* client's and the sandbox's.  Nothing guards what the two threads share, *)
(* so that each read by the owner is a step of its own, and a part that is *)
(* being written may be seen or not.  joinWorker blocks: it is a guard.    *)
(*                                                                         *)
(* The first part of an environment is its map; the second is what its     *)
(* owner asks loadMore for, the mechanics on the server and the visuals on *)
(* the others.                                                             *)
(***************************************************************************)
EXTENDS Integers

CONSTANTS
    Urls,           \* URLs of environments
    Null,           \* the null environment's URL, "NULL"
    None,
    Owners,         \* which of the three programs are looked at
    MaxStarts       \* bound: environments that are created

ASSUME EnvironmentAssumption ==
    /\ Null \in Urls
    /\ None \notin Urls
    /\ Owners \subseteq {"server", "client", "sandbox"}
    /\ MaxStarts \in Nat \ {0}

VARIABLES
    owner,          \* the program
    env,            \* SkyHandle::environment
    worker,         \* its workerThread; None if it is not joinable
    sky,            \* SkyHandle::sky: the number of its environment, and
                    \* what the map was when the sky was put on it
    isNew,          \* SkyHandle::envStateIsNew
    pc,             \* how far the owner is in its tick
    born            \* how many environments have been created

vars == <<owner, env, worker, sky, isNew, pc, born>>

Part == {"missing", "partial", "whole"}

Environments ==
    [number : 1 .. MaxStarts, url : Urls, map : Part, more : Part,
     workerRunning : BOOLEAN, loadError : BOOLEAN]

Workers ==
    [env : 1 .. MaxStarts, job : {"map", "more"},
     step : {"begun", "writing", "ending", "exited"}]

Skies == [env : 1 .. MaxStarts, map : Part]

\* No environment, thread or sky is the null pointer.
ASSUME NoneAssumption ==
    /\ None \notin Environments \cup Workers \cup Skies
    /\ None \notin [url : Urls, stage : {"primary", "mapped", "more", "ready"}]

\* What a reader without a lock may see of a part.
Seen(part) ==
    CASE part = "missing" -> {FALSE}
      [] part = "partial" -> BOOLEAN
      [] part = "whole"   -> {TRUE}

-----------------------------------------------------------------------------
(* Construction and destruction *)

\* A mistake: workerRunning is not initialised for the null environment.
UnsetEnvironment(number, url) ==
    [number |-> number, url |-> url, map |-> "missing", more |-> "missing",
     workerRunning |-> IF url = Null THEN None ELSE TRUE, loadError |-> FALSE]

NewEnvironment(number, url) ==
    [number |-> number, url |-> url, map |-> "missing", more |-> "missing",
     workerRunning |-> url # Null, loadError |-> FALSE]

NewWorker(number, job) == [env |-> number, job |-> job, step |-> "begun"]

\* A mistake: workerRunning is trusted to say that the thread has ended.
TrustsFlag == env # None => ~env.workerRunning

\* joinWorker returns.
Joined == worker # None => worker.step = "exited"

\* emplace destroys the environment that is there and makes one in its place.
Emplace(url) ==
    /\ Joined
    /\ born < MaxStarts
    /\ born' = born + 1
    /\ env' = NewEnvironment(born', url)
    /\ worker' = NewWorker(born', "map")

Destroy ==
    /\ Joined
    /\ env' = None
    /\ worker' = None

Init ==
    /\ owner \in Owners
    /\ sky = None /\ isNew = FALSE /\ pc = "idle"
    /\ \/ env = None /\ worker = None /\ born = 0
       \/ /\ owner = "client"      \* it may join a server in a game
          /\ born = 1
          /\ \E url \in Urls : env = NewEnvironment(1, url)
          /\ worker = NewWorker(1, "map")

-----------------------------------------------------------------------------
(* The worker thread *)

PartOf(job) == IF job = "map" THEN "map" ELSE "more"

WorkerFails ==
    /\ worker # None /\ worker.step = "begun"
    /\ env.url # Null
    /\ env' = [env EXCEPT !.loadError = TRUE]
    /\ worker' = [worker EXCEPT !.step = "ending"]
    /\ UNCHANGED <<owner, sky, isNew, pc, born>>

WorkerWrites ==
    /\ worker # None /\ worker.step = "begun"
    /\ env' = [env EXCEPT ![PartOf(worker.job)] = "partial"]
    /\ worker' = [worker EXCEPT !.step = "writing"]
    /\ UNCHANGED <<owner, sky, isNew, pc, born>>

\* The null environment's first job does not touch workerRunning.
WorkerHasWritten ==
    /\ worker # None /\ worker.step = "writing"
    /\ env' = [env EXCEPT ![PartOf(worker.job)] = "whole"]
    /\ worker' = [worker EXCEPT !.step =
                    IF env.url = Null /\ worker.job = "map" THEN "exited"
                    ELSE "ending"]
    /\ UNCHANGED <<owner, sky, isNew, pc, born>>

\* A mistake: the flag is lowered after failures only.
WorkerExitsBusy ==
    /\ worker # None /\ worker.step = "ending"
    /\ env' = [env EXCEPT !.workerRunning = ~env.loadError]
    /\ worker' = [worker EXCEPT !.step = "exited"]
    /\ UNCHANGED <<owner, sky, isNew, pc, born>>

WorkerExits ==
    /\ worker # None /\ worker.step = "ending"
    /\ env' = [env EXCEPT !.workerRunning = FALSE]
    /\ worker' = [worker EXCEPT !.step = "exited"]
    /\ UNCHANGED <<owner, sky, isNew, pc, born>>

Worker == WorkerFails \/ WorkerWrites \/ WorkerHasWritten \/ WorkerExits

-----------------------------------------------------------------------------
(* Starting and stopping, between two ticks *)

\* SkyHandle::start, on the server at once; in the sandbox startHandle has
\* called stopHandle before.
Start ==
    /\ \/ owner = "server"  /\ pc = "idle"
       \/ owner = "sandbox" /\ pc = "starting"
    /\ \E url \in Urls : Emplace(url)
    /\ isNew' = TRUE
    /\ pc' = "idle"
    /\ UNCHANGED <<owner, sky>>

\* A mistake: the sandbox starts over the game it is in.
StopKeepingSky ==
    /\ owner \in {"server", "sandbox"} /\ pc = "idle"
    /\ Destroy
    /\ isNew' = TRUE
    /\ pc' \in IF owner = "sandbox" /\ born < MaxStarts
               THEN {"idle", "starting"} ELSE {"idle"}
    /\ sky' = IF pc' = "starting" THEN sky ELSE None
    /\ UNCHANGED <<owner, born>>

Stop ==
    /\ owner \in {"server", "sandbox"} /\ pc = "idle"
    /\ Destroy
    /\ sky' = None
    /\ isNew' = TRUE
    /\ pc' \in IF owner = "sandbox" /\ born < MaxStarts
               THEN {"idle", "starting"} ELSE {"idle"}
    /\ UNCHANGED <<owner, born>>

\* SkyHandle::applyDelta on a client.
ApplyDelta ==
    /\ owner = "client" /\ pc = "idle"
    /\ \/ Destroy /\ sky' = None /\ UNCHANGED born
       \/ (\E url \in Urls : Emplace(url)) /\ UNCHANGED sky
    /\ UNCHANGED <<owner, isNew, pc>>

\* collectDelta
Announce ==
    /\ owner = "server" /\ pc = "idle" /\ isNew
    /\ isNew' = FALSE
    /\ UNCHANGED <<owner, env, worker, sky, pc, born>>

-----------------------------------------------------------------------------
(* The owner's tick *)

InstantiateSky == sky' = [env |-> env.number, map |-> env.map]

\* A mistake: the second part is not asked for.
LookAtMap ==
    /\ pc = "idle" /\ sky = None /\ env # None
    /\ \E map \in Seen(env.map), more \in Seen(env.more) :
          IF owner # "client" /\ map THEN InstantiateSky /\ UNCHANGED pc
          ELSE pc' = "looked" /\ UNCHANGED sky
    /\ UNCHANGED <<owner, env, worker, isNew, born>>

\* getMap and getMechanics (or getVisuals); the client then asks for the sky,
\* which is the session's business.
Look ==
    /\ pc = "idle" /\ sky = None /\ env # None
    /\ \E map \in Seen(env.map), more \in Seen(env.more) :
          IF owner # "client" /\ map /\ more
          THEN InstantiateSky /\ UNCHANGED pc
          ELSE pc' = "looked" /\ UNCHANGED sky
    /\ UNCHANGED <<owner, env, worker, isNew, born>>

\* The client's branch for an InitSky packet.
ReceiveInitSky ==
    /\ owner = "client" /\ pc = "idle" /\ sky = None /\ env # None
    /\ TRUE \in Seen(env.more)
    /\ InstantiateSky
    /\ UNCHANGED <<owner, env, worker, isNew, pc, born>>

\* A mistake: the error is looked at before the worker has ended, as the
\* sandbox does.
ErrorFirst ==
    /\ pc = "looked"
    /\ pc' = IF env.loadError THEN "idle" ELSE "checked"
    /\ UNCHANGED <<owner, env, worker, sky, isNew, born>>

\* The first condition of loading more.
FirstCheck ==
    /\ pc = "looked"
    /\ LET goesOn == IF owner = "sandbox" THEN ~env.loadError
                     ELSE ~env.workerRunning
       IN  pc' = IF goesOn THEN "checked" ELSE "idle"
    /\ UNCHANGED <<owner, env, worker, sky, isNew, born>>

\* A mistake: the client's second condition, on every program.
SecondCheckWithoutError ==
    /\ pc = "checked"
    /\ \E more \in Seen(env.more) : pc' = IF more THEN "idle" ELSE "loading"
    /\ UNCHANGED <<owner, env, worker, sky, isNew, born>>

\* The second.
SecondCheck ==
    /\ pc = "checked"
    /\ \E more \in Seen(env.more) :
          LET goesOn == CASE owner = "server"  -> ~env.loadError
                          [] owner = "client"  -> ~more
                          [] owner = "sandbox" -> ~env.workerRunning
          IN  pc' = IF goesOn THEN "loading" ELSE "idle"
    /\ UNCHANGED <<owner, env, worker, sky, isNew, born>>

\* loadMore up to its assertions, one of which may end the program, or to the
\* new thread.
LoadMore ==
    LET fails  == ~env.workerRunning /\ (env.loadError \/ env.more # "missing")
        begins == ~env.workerRunning /\ ~env.loadError /\ env.more = "missing"
    IN  /\ pc = "loading"
        /\ env.workerRunning \/ Joined
        /\ pc' = IF fails THEN "aborted" ELSE "idle"
        /\ env' = IF begins THEN [env EXCEPT !.workerRunning = TRUE] ELSE env
        /\ worker' = IF begins THEN NewWorker(env.number, "more") ELSE worker
        /\ UNCHANGED <<owner, sky, isNew, born>>

Tick == Look \/ FirstCheck \/ SecondCheck \/ LoadMore

Next ==
    \/ Worker \/ Tick
    \/ Start \/ Stop \/ ApplyDelta \/ Announce \/ ReceiveInitSky

Spec == Init /\ [][Next]_vars

\* The worker's jobs end and the owner ticks; nobody has to start anything.
FairSpec == Spec /\ WF_vars(Worker) /\ WF_vars(Tick)

-----------------------------------------------------------------------------
(* Properties *)

TypeOK ==
    /\ owner \in Owners
    /\ env \in Environments \cup {None}
    /\ worker \in Workers \cup {None}
    /\ sky \in Skies \cup {None}
    /\ isNew \in BOOLEAN
    /\ pc \in {"idle", "starting", "looked", "checked", "loading", "aborted"}
    /\ born \in 0 .. MaxStarts

\* A worker never writes to an environment that is gone, a new worker never
\* takes the place of one that is still writing, although workerRunning does
\* not tell, and a tick is not cut short by the end of the environment it
\* looks at (environment.cpp:145, 151).
WorkerIsOwned ==
    /\ worker # None => env # None /\ worker.env = env.number
    /\ env # None /\ env.map = "partial" => worker.job = "map"
    /\ pc \in {"looked", "checked", "loading"} => env # None

\* No sky is put on a map that the worker is still writing, although nothing
\* synchronises the two threads but the join in loadMore (server.cpp:158).
SkyIsOnWholeMap == sky # None => sky.map = "whole"

\* The sandbox's sky never outlives the map it refers to, whatever is started
\* when (sandbox.cpp:86); a server's does after a restart.
SandboxSkyHasItsMap ==
    owner = "sandbox" /\ sky # None => env # None /\ env.number = sky.env

\* On the server an environment that cannot be loaded does not run into
\* loadMore's assertions, whatever the worker does between the tick's reads
\* (server.cpp:161, environment.cpp:152).
ServerSurvivesErrors ==
    owner = "server" /\ pc = "aborted" => ~env.loadError

\* The client never asks for visuals that it has, although the worker may
\* bring them between its reads (multiplayercore.cpp:335, environment.cpp:153).
ClientLoadsOnce ==
    owner = "client" /\ pc = "aborted" => env.loadError

\* "assert(imply(needMechanics, !mechanics))" (environment.cpp:154): who calls
\* loadMore has not got the part already.
LoadMoreIsNeeded == pc = "aborted" => env.more = "missing"

\* Loading ends: both parts are there, or an error has been noted, unless the
\* environment is taken away or an old sky is in the way (environment.cpp:203).
LoadingEnds ==
    [](env # None =>
        <>(\/ env = None \/ sky # None
           \/ env # None /\ env.loadError
           \/ env # None /\ env.map = "whole" /\ env.more = "whole"))

\* What the session's modules say of a handle is what the threads do.
Stage ==
    CASE env.more # "missing"                         -> "ready"
      [] env.more = "missing" /\ worker.job = "more"  -> "more"
      [] env.more = "missing" /\ worker.job = "map" /\ env.map = "whole"
         /\ worker.step = "exited"                    -> "mapped"
      [] OTHER                                        -> "primary"

HandleNow ==
    [env   |-> IF env = None THEN None ELSE [url |-> env.url, stage |-> Stage],
     sky   |-> IF sky = None THEN None ELSE sky.env,
     isNew |-> isNew]

Handle == INSTANCE Loading WITH
    Bases <- {}, Envs <- Urls, Motds <- {}, ConnStats <- {}, MaxPlayers <- 1,
    handle <- HandleNow

\* A handle's stages follow one another as the session's modules have them:
\* no part is skipped, and a sky is put on an environment that has both
\* (skyhandle.cpp:86).
IsHandle == Handle!Spec
=============================================================================
