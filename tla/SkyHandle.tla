------------------------------ MODULE SkyHandle ------------------------------
(***************************************************************************)
(* The sky handle: which environment is loaded and which sky, if any, is   *)
(* being played on it.  An environment is its URL and how far its worker   *)
(* thread has got; a sky is the number of the server's sky whose contents  *)
(* it holds.  Server and clients both own a handle.                        *)
(***************************************************************************)
EXTENDS Arena

\* primary: the worker loads the map; mapped: it is idle with the map done;
\* more: it loads the rest, which is the mechanics on the server and the
\* visuals on a client; ready: both parts are there.
Stage == {"primary", "mapped", "more", "ready"}

Env == [url : Envs, stage : Stage]

Handle == [env   : Env \cup {None},
           sky   : Nat \cup {None},
           isNew : BOOLEAN]

\* No environment and no URL of one is the null pointer or boost::none.
ASSUME HandleAssumption == None \notin Env \cup Envs

NewEnv(url) == [url |-> url, stage |-> "primary"]

\* The constructor, given a SkyHandleInit: an URL or none.
NewHandle(init) ==
    [env   |-> IF init = None THEN None ELSE NewEnv(init),
     sky   |-> None,
     isNew |-> FALSE]

\* captureInitializer, and the delta collectDelta gives when the state is new.
EnvUrl(h) == IF h.env = None THEN None ELSE h.env.url

EnvReady(h) == h.env # None /\ h.env.stage = "ready"

\* A mistake: nothing marks the new environment as one to announce.
StartGameQuietly(h, url) == [env |-> NewEnv(url), sky |-> h.sky, isNew |-> h.isNew]

\* start() puts a fresh environment in place and leaves the sky as it is.
StartGame(h, url) == [env |-> NewEnv(url), sky |-> h.sky, isNew |-> TRUE]

\* A mistake: the sky outlives its environment.
StopGameKeepingSky(h) == [env |-> None, sky |-> h.sky, isNew |-> TRUE]

StopGame(h) == [env |-> None, sky |-> None, isNew |-> TRUE]

InstantiateSky(h, sky) == [h EXCEPT !.sky = sky]

CollectDelta(h) == [h EXCEPT !.isNew = FALSE]

\* A mistake: an environment that has the URL already is not loaded again.
ApplyHandleDeltaOnce(h, url) ==
    IF url = None THEN [h EXCEPT !.env = None, !.sky = None]
    ELSE IF EnvUrl(h) = url THEN h
    ELSE [h EXCEPT !.env = NewEnv(url)]

ApplyHandleDelta(h, url) ==
    IF url = None THEN [h EXCEPT !.env = None, !.sky = None]
                  ELSE [h EXCEPT !.env = NewEnv(url)]

\* loadMore, which its callers use when the worker is idle and the second
\* part is missing.
LoadMore(h) ==
    IF h.env # None /\ h.env.stage = "mapped"
    THEN [h EXCEPT !.env.stage = "more"]
    ELSE h

\* The worker thread ends one of its two jobs.
WorkerBusy(h) == h.env # None /\ h.env.stage \in {"primary", "more"}

WorkerEnds(h) ==
    [h EXCEPT !.env.stage = IF @ = "primary" THEN "mapped" ELSE "ready"]
=============================================================================
