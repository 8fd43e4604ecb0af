-------------------------- MODULE EnvironmentProofs --------------------------
(***************************************************************************)
(* The safety of an environment's two threads, for any number of           *)
(* environments one after the other and whatever their URLs are.  What a   *)
(* thread may rely on while the other one runs is told by the worker's     *)
(* step: WorkerSaysAll ties what it shares to it, and OwnerKnows says what *)
(* the owner's earlier reads are still worth.                              *)
(***************************************************************************)
EXTENDS Environment, TLAPS

\* There is a worker thread, ended or not, for each environment, and only it.
WorkerBelongs ==
    /\ worker = None <=> env = None
    /\ env # None => worker.env = env.number

\* How far the worker is tells which part is there, and whether it failed.
FirstJob ==
    /\ env.more = "missing"
    /\ worker.step = "begun" => env.map = "missing" /\ ~env.loadError
    /\ worker.step = "writing" => env.map = "partial" /\ ~env.loadError
    /\ worker.step \in {"ending", "exited"} =>
          IF env.loadError THEN env.map = "missing" ELSE env.map = "whole"

SecondJob ==
    /\ env.map = "whole"
    /\ worker.step = "begun" => env.more = "missing" /\ ~env.loadError
    /\ worker.step = "writing" => env.more = "partial" /\ ~env.loadError
    /\ worker.step \in {"ending", "exited"} =>
          IF env.loadError THEN env.more = "missing" ELSE env.more = "whole"

\* workerRunning tells that the worker has ended, but for the null
\* environment's first job, which does not fail.
FlagTells ==
    /\ env.workerRunning <=>
          ~(worker.step = "exited" \/ (env.url = Null /\ worker.job = "map"))
    /\ env.url = Null => ~env.loadError

WorkerSaysAll ==
    env # None =>
        /\ worker.job = "map" => FirstJob
        /\ worker.job = "more" => SecondJob
        /\ FlagTells

\* What the owner has read in its tick stays true until it acts on it.
OwnerKnows ==
    /\ pc = "starting" => env = None /\ sky = None
    /\ pc \in {"looked", "checked", "loading", "aborted"} => env # None
    /\ owner # "sandbox" /\ pc \in {"checked", "loading", "aborted"}
          => ~env.workerRunning
    /\ owner = "server" /\ pc \in {"loading", "aborted"} => ~env.loadError
    /\ owner = "client" /\ pc = "loading" => env.more = "missing"

IInv ==
    /\ TypeOK
    /\ WorkerBelongs
    /\ WorkerSaysAll
    /\ OwnerKnows
    /\ SkyIsOnWholeMap
    /\ SandboxSkyHasItsMap
    /\ ClientLoadsOnce

-----------------------------------------------------------------------------

\* What there is has its fields.
LEMMA Shapes ==
    ASSUME TypeOK
    PROVE  /\ env # None => env \in Environments
           /\ worker # None => worker \in Workers
           /\ sky # None => sky \in Skies
  BY NoneAssumption DEF TypeOK

\* A new environment and its worker, whoever makes them.
LEMMA NewIsSafe ==
    ASSUME NEW n \in 1 .. MaxStarts, NEW url \in Urls,
           env' = NewEnvironment(n, url), worker' = NewWorker(n, "map")
    PROVE  /\ env' \in Environments /\ worker' \in Workers
           /\ env' # None /\ worker' # None
           /\ env'.number = n /\ env'.map = "missing" /\ env'.more = "missing"
           /\ WorkerBelongs' /\ WorkerSaysAll'
<1>1. env' \in Environments /\ worker' \in Workers
  BY DEF NewEnvironment, NewWorker, Environments, Workers, Part
<1>2. env' # None /\ worker' # None
  BY <1>1, NoneAssumption
<1>3. WorkerBelongs'
  BY <1>2 DEF WorkerBelongs, NewEnvironment, NewWorker
<1>4. WorkerSaysAll'
  BY DEF WorkerSaysAll, FirstJob, FlagTells, NewEnvironment, NewWorker
<1> QED
  BY <1>1, <1>2, <1>3, <1>4 DEF NewEnvironment

\* There is no environment yet, or a client has begun to load one.
LEMMA InitIsSafe == Init => IInv
<1> SUFFICES ASSUME Init
             PROVE  IInv
  OBVIOUS
<1>1. sky = None /\ isNew = FALSE /\ pc = "idle" /\ owner \in Owners
  BY DEF Init
<1>2. 0 \in 0 .. MaxStarts /\ 1 \in 0 .. MaxStarts /\ 1 \in 1 .. MaxStarts
  BY EnvironmentAssumption
<1>3. OwnerKnows /\ SkyIsOnWholeMap /\ SandboxSkyHasItsMap /\ ClientLoadsOnce
  BY <1>1 DEF OwnerKnows, SkyIsOnWholeMap, SandboxSkyHasItsMap, ClientLoadsOnce
<1>4. CASE env = None /\ worker = None /\ born = 0
  <2>1. TypeOK
    BY <1>1, <1>2, <1>4 DEF TypeOK
  <2> QED
    BY <1>3, <1>4, <2>1 DEF IInv, WorkerBelongs, WorkerSaysAll
<1>5. ASSUME born = 1, worker = NewWorker(1, "map"),
             NEW url \in Urls, env = NewEnvironment(1, url)
      PROVE  IInv
  <2>1. env \in Environments /\ worker \in Workers
    BY <1>2, <1>5 DEF NewEnvironment, NewWorker, Environments, Workers, Part
  <2>2. env # None /\ worker # None
    BY <2>1, NoneAssumption
  <2>3. WorkerBelongs
    BY <1>5, <2>2 DEF WorkerBelongs, NewEnvironment, NewWorker
  <2>4. WorkerSaysAll
    <3>1. /\ env.map = "missing" /\ env.more = "missing" /\ ~env.loadError
          /\ env.url = url /\ env.workerRunning = (url # Null)
          /\ worker.job = "map" /\ worker.step = "begun"
      BY <1>5 DEF NewEnvironment, NewWorker
    <3> QED
      BY <3>1 DEF WorkerSaysAll, FirstJob, FlagTells
  <2>5. TypeOK
    BY <1>1, <1>2, <1>5, <2>1 DEF TypeOK
  <2> QED
    BY <1>3, <2>3, <2>4, <2>5 DEF IInv
<1> QED
  BY <1>4, <1>5 DEF Init

\* What the worker's steps have in common: it has an environment, whose name
\* stays, and keeps its job.
LEMMA WorkerStep ==
    ASSUME IInv, Worker
    PROVE  /\ env \in Environments /\ worker \in Workers
           /\ env' \in Environments /\ worker' \in Workers
           /\ env # None /\ worker # None /\ env' # None /\ worker' # None
           /\ env'.number = env.number /\ env'.url = env.url
           /\ worker'.env = worker.env /\ worker'.job = worker.job
           /\ UNCHANGED <<owner, sky, isNew, pc, born>>
<1>1. env # None /\ worker # None
  BY DEF IInv, WorkerBelongs, Worker, WorkerFails, WorkerWrites, WorkerHasWritten,
         WorkerExits
<1>2. env \in Environments /\ worker \in Workers
  BY <1>1, Shapes DEF IInv
<1>3. env' \in Environments /\ env'.number = env.number /\ env'.url = env.url
  BY <1>2 DEF Worker, WorkerFails, WorkerWrites, WorkerHasWritten, WorkerExits,
              PartOf, Environments, Part
<1>4. worker' \in Workers /\ worker'.env = worker.env /\ worker'.job = worker.job
  BY <1>2 DEF Worker, WorkerFails, WorkerWrites, WorkerHasWritten, WorkerExits, Workers
<1>5. UNCHANGED <<owner, sky, isNew, pc, born>>
  BY DEF Worker, WorkerFails, WorkerWrites, WorkerHasWritten, WorkerExits
<1>6. env' # None /\ worker' # None
  BY <1>3, <1>4, NoneAssumption
<1> QED
  BY <1>1, <1>2, <1>3, <1>4, <1>5, <1>6

\* The worker's steps keep what they say of the parts, and the owner's
\* knowledge of them.
LEMMA WorkerIsSafe ==
    ASSUME IInv, Worker
    PROVE  IInv'
<1>1. TypeOK'
  BY WorkerStep DEF IInv, TypeOK
<1>2. WorkerBelongs'
  BY WorkerStep DEF IInv, WorkerBelongs
<1>3. WorkerSaysAll' /\ OwnerKnows' /\ ClientLoadsOnce'
  <2>1. CASE WorkerFails
    <3>1. /\ worker.step = "begun" /\ worker'.step = "ending"
          /\ env'.loadError /\ env.url # Null
          /\ env'.map = env.map /\ env'.more = env.more
          /\ env'.workerRunning = env.workerRunning
      BY <2>1, WorkerStep DEF WorkerFails, Environments, Workers
    <3>2. env.workerRunning
      BY <3>1, WorkerStep DEF IInv, WorkerSaysAll, FlagTells
    <3>3. WorkerSaysAll'
      BY <3>1, <3>2, WorkerStep DEF IInv, WorkerSaysAll, FirstJob, SecondJob, FlagTells
    <3> QED
      BY <3>1, <3>2, <3>3, WorkerStep DEF IInv, OwnerKnows, ClientLoadsOnce
  <2>2. CASE WorkerWrites
    <3>1. /\ worker.step = "begun" /\ worker'.step = "writing"
          /\ env'.loadError = env.loadError
          /\ env'.map = IF worker.job = "map" THEN "partial" ELSE env.map
          /\ env'.more = IF worker.job = "map" THEN env.more ELSE "partial"
          /\ env'.workerRunning = env.workerRunning
      BY <2>2, WorkerStep DEF WorkerWrites, PartOf, Environments, Workers
    <3>2. WorkerSaysAll'
      BY <3>1, WorkerStep DEF IInv, WorkerSaysAll, FirstJob, SecondJob, FlagTells
    <3> QED
      BY <3>1, <3>2, WorkerStep
         DEF IInv, OwnerKnows, ClientLoadsOnce, WorkerSaysAll, FlagTells
  <2>3. CASE WorkerHasWritten
    <3>1. /\ worker.step = "writing"
          /\ worker'.step = IF env.url = Null /\ worker.job = "map"
                            THEN "exited" ELSE "ending"
          /\ env'.loadError = env.loadError
          /\ env'.map = IF worker.job = "map" THEN "whole" ELSE env.map
          /\ env'.more = IF worker.job = "map" THEN env.more ELSE "whole"
          /\ env'.workerRunning = env.workerRunning
      BY <2>3, WorkerStep DEF WorkerHasWritten, PartOf, Environments, Workers
    <3>2. WorkerSaysAll'
      BY <3>1, WorkerStep DEF IInv, WorkerSaysAll, FirstJob, SecondJob, FlagTells
    <3> QED
      BY <3>1, <3>2, WorkerStep
         DEF IInv, OwnerKnows, ClientLoadsOnce, WorkerSaysAll, FlagTells
  <2>4. CASE WorkerExits
    <3>1. /\ worker.step = "ending" /\ worker'.step = "exited"
          /\ env'.loadError = env.loadError
          /\ env'.map = env.map /\ env'.more = env.more
          /\ ~env'.workerRunning
      BY <2>4, WorkerStep DEF WorkerExits, Environments, Workers
    <3>2. WorkerSaysAll'
      BY <3>1, WorkerStep DEF IInv, WorkerSaysAll, FirstJob, SecondJob, FlagTells
    <3> QED
      BY <3>1, <3>2, WorkerStep DEF IInv, OwnerKnows, ClientLoadsOnce
  <2> QED
    BY <2>1, <2>2, <2>3, <2>4 DEF Worker
<1>4. SkyIsOnWholeMap' /\ SandboxSkyHasItsMap'
  BY WorkerStep DEF IInv, SkyIsOnWholeMap, SandboxSkyHasItsMap
<1> QED
  BY <1>1, <1>2, <1>3, <1>4 DEF IInv

-----------------------------------------------------------------------------
(* The owner *)

\* Steps that leave the environment and its worker alone say of the rest what
\* has to be shown.
LEMMA ReadIsSafe ==
    ASSUME IInv, UNCHANGED <<owner, env, worker, born>>,
           sky' \in Skies \cup {None}, isNew' \in BOOLEAN,
           pc' \in {"idle", "looked", "checked", "loading"},
           OwnerKnows', SkyIsOnWholeMap', SandboxSkyHasItsMap'
    PROVE  IInv'
<1>1. TypeOK'
  BY DEF IInv, TypeOK
<1>2. WorkerBelongs'
  BY DEF IInv, WorkerBelongs
<1>3. WorkerSaysAll'
  BY DEF IInv, WorkerSaysAll, FirstJob, SecondJob, FlagTells
<1> QED
  BY <1>1, <1>2, <1>3 DEF IInv, ClientLoadsOnce

\* collectDelta
LEMMA AnnounceIsSafe ==
    ASSUME IInv, Announce
    PROVE  IInv'
<1>1. sky \in Skies \cup {None} /\ isNew' \in BOOLEAN /\ pc' = "idle"
  BY DEF IInv, TypeOK, Announce
<1>2. OwnerKnows' /\ SkyIsOnWholeMap' /\ SandboxSkyHasItsMap'
  BY DEF IInv, Announce, OwnerKnows, SkyIsOnWholeMap, SandboxSkyHasItsMap
<1> QED
  BY <1>1, <1>2, ReadIsSafe DEF Announce

\* Whoever sees a second part, even one that is being written, can count on
\* the whole of the map: the worker has begun with it after the map.
LEMMA MapComesFirst ==
    ASSUME IInv, env # None, TRUE \in Seen(env.more)
    PROVE  env.map = "whole"
<1>1. env \in Environments /\ worker \in Workers
  BY Shapes DEF IInv, WorkerBelongs
<1>2. env.more # "missing"
  BY DEF Seen
<1>3. worker.job = "map" \/ worker.job = "more"
  BY <1>1 DEF Workers
<1> QED
  BY <1>2, <1>3 DEF IInv, WorkerSaysAll, FirstJob, SecondJob

\* A sky is put on the environment that is there.
LEMMA InstantiatedIsSafe ==
    ASSUME IInv, env # None, TRUE \in Seen(env.more), InstantiateSky,
           UNCHANGED <<owner, env>>
    PROVE  sky' \in Skies /\ SkyIsOnWholeMap' /\ SandboxSkyHasItsMap'
<1>1. env \in Environments
  BY Shapes DEF IInv
<1>2. sky' \in Skies
  BY <1>1 DEF InstantiateSky, Environments, Skies
<1>3. SkyIsOnWholeMap'
  BY MapComesFirst DEF InstantiateSky, SkyIsOnWholeMap
<1>4. SandboxSkyHasItsMap'
  BY DEF InstantiateSky, SandboxSkyHasItsMap
<1> QED
  BY <1>2, <1>3, <1>4

\* The first look of a tick
LEMMA LookIsSafe ==
    ASSUME IInv, Look
    PROVE  IInv'
<1>1. /\ UNCHANGED <<owner, env, worker, isNew, born>>
      /\ pc = "idle" /\ sky = None /\ env # None
  BY DEF Look
<1>2. isNew' \in BOOLEAN
  BY <1>1 DEF IInv, TypeOK
<1>3. CASE TRUE \in Seen(env.more) /\ InstantiateSky /\ pc' = pc
  <2>1. sky' \in Skies /\ SkyIsOnWholeMap' /\ SandboxSkyHasItsMap'
    BY <1>1, <1>3, InstantiatedIsSafe
  <2>2. OwnerKnows'
    BY <1>1, <1>3 DEF OwnerKnows
  <2> QED
    BY <1>1, <1>2, <1>3, <2>1, <2>2, ReadIsSafe
<1>4. CASE pc' = "looked" /\ sky' = sky
  <2>1. OwnerKnows' /\ SkyIsOnWholeMap' /\ SandboxSkyHasItsMap'
    BY <1>1, <1>4 DEF OwnerKnows, SkyIsOnWholeMap, SandboxSkyHasItsMap
  <2> QED
    BY <1>1, <1>2, <1>4, <2>1, ReadIsSafe
<1> QED
  <2>1. PICK map \in Seen(env.map), more \in Seen(env.more) :
          IF owner # "client" /\ map /\ more
          THEN InstantiateSky /\ UNCHANGED pc
          ELSE pc' = "looked" /\ UNCHANGED sky
    BY DEF Look
  <2>2. more => more = TRUE
    <3>1. env.more \in Part
      BY <1>1, Shapes DEF IInv, Environments
    <3>2. more \in BOOLEAN
      BY <2>1, <3>1 DEF Seen, Part
    <3> QED
      BY <3>2
  <2> QED
    BY <1>3, <1>4, <2>1, <2>2

\* The sky that the server sends
LEMMA ReceiveInitSkyIsSafe ==
    ASSUME IInv, ReceiveInitSky
    PROVE  IInv'
<1>1. /\ UNCHANGED <<owner, env, worker, isNew, pc, born>>
      /\ pc = "idle" /\ env # None /\ TRUE \in Seen(env.more) /\ InstantiateSky
  BY DEF ReceiveInitSky
<1>2. sky' \in Skies /\ SkyIsOnWholeMap' /\ SandboxSkyHasItsMap'
  BY <1>1, InstantiatedIsSafe
<1>3. OwnerKnows' /\ isNew' \in BOOLEAN
  BY <1>1 DEF IInv, TypeOK, OwnerKnows
<1> QED
  BY <1>1, <1>2, <1>3, ReadIsSafe

\* The first condition: the server and the client go on with a worker that
\* has ended, or with one of the null environment's that cannot fail.
LEMMA FirstCheckIsSafe ==
    ASSUME IInv, FirstCheck
    PROVE  IInv'
<1>1. UNCHANGED <<owner, env, worker, sky, isNew, born>>
  BY DEF FirstCheck
<1>2. sky' \in Skies \cup {None} /\ isNew' \in BOOLEAN
  BY <1>1 DEF IInv, TypeOK
<1>3. pc' \in {"checked", "idle"}
  BY DEF FirstCheck
<1>4. OwnerKnows'
  BY DEF IInv, OwnerKnows, FirstCheck
<1>5. SkyIsOnWholeMap' /\ SandboxSkyHasItsMap'
  BY <1>1 DEF IInv, SkyIsOnWholeMap, SandboxSkyHasItsMap
<1> QED
  BY <1>1, <1>2, <1>3, <1>4, <1>5, ReadIsSafe

\* The second condition: a client that does not see its visuals has none, as
\* nobody is writing them.
LEMMA SecondCheckIsSafe ==
    ASSUME IInv, SecondCheck
    PROVE  IInv'
<1>1. UNCHANGED <<owner, env, worker, sky, isNew, born>> /\ pc = "checked"
  BY DEF SecondCheck
<1>2. sky' \in Skies \cup {None} /\ isNew' \in BOOLEAN
  BY <1>1 DEF IInv, TypeOK
<1>3. pc' \in {"loading", "idle"}
  BY DEF SecondCheck
<1>4. env # None /\ env \in Environments /\ worker \in Workers
  BY <1>1, Shapes DEF IInv, OwnerKnows, WorkerBelongs
<1>5. ASSUME owner = "client", FALSE \in Seen(env.more)
      PROVE  env.more = "missing"
  <2>1. ~env.workerRunning
    BY <1>1, <1>5 DEF IInv, OwnerKnows
  <2>2. env.more # "whole"
    BY <1>5 DEF Seen
  <2>3. env.more \in Part
    BY <1>4 DEF Environments
  <2>4. worker.job \in {"map", "more"} /\ worker.step \in {"begun", "writing", "ending", "exited"}
    BY <1>4 DEF Workers
  <2> QED
    BY <1>4, <2>1, <2>2, <2>3, <2>4
       DEF Part, IInv, WorkerSaysAll, FirstJob, SecondJob, FlagTells
<1>6. ASSUME owner = "client", pc' = "loading"
      PROVE  FALSE \in Seen(env.more)
  <2>1. PICK more \in Seen(env.more) : ~more
    BY <1>6 DEF SecondCheck
  <2>2. env.more \in Part
    BY <1>4 DEF Environments
  <2>3. more \in BOOLEAN
    BY <2>1, <2>2 DEF Seen, Part
  <2> QED
    BY <2>1, <2>3
<1>7. ASSUME owner = "server", pc' = "loading"
      PROVE  ~env.loadError
  BY <1>7 DEF SecondCheck
<1>8. ASSUME owner # "sandbox", pc' = "loading"
      PROVE  ~env.workerRunning
  BY <1>1, <1>8 DEF IInv, OwnerKnows
<1>9. OwnerKnows'
  BY <1>1, <1>3, <1>4, <1>5, <1>6, <1>7, <1>8 DEF OwnerKnows
<1>10. SkyIsOnWholeMap' /\ SandboxSkyHasItsMap'
  BY <1>1 DEF IInv, SkyIsOnWholeMap, SandboxSkyHasItsMap
<1> QED
  BY <1>1, <1>2, <1>3, <1>9, <1>10, ReadIsSafe

\* loadMore: who gets there has seen the worker idle, so that the server has
\* looked at the final word on errors, and the client at that on visuals.
LEMMA LoadMoreIsSafe ==
    ASSUME IInv, LoadMore
    PROVE  IInv'
<1> DEFINE fails  == ~env.workerRunning /\ (env.loadError \/ env.more # "missing")
           begins == ~env.workerRunning /\ ~env.loadError /\ env.more = "missing"
<1>1. /\ UNCHANGED <<owner, sky, isNew, born>> /\ pc = "loading"
      /\ env.workerRunning \/ Joined
      /\ pc' = IF fails THEN "aborted" ELSE "idle"
      /\ env' = IF begins THEN [env EXCEPT !.workerRunning = TRUE] ELSE env
      /\ worker' = IF begins THEN NewWorker(env.number, "more") ELSE worker
  BY DEF LoadMore
<1>2. env # None /\ worker # None /\ env \in Environments /\ worker \in Workers
  BY <1>1, Shapes DEF IInv, OwnerKnows, WorkerBelongs
<1>3. owner = "server" => ~env.loadError
  BY <1>1 DEF IInv, OwnerKnows
<1>4. CASE begins
  <2>1. /\ env' \in Environments
        /\ env'.number = env.number /\ env'.url = env.url
        /\ env'.map = env.map /\ env'.more = "missing"
        /\ env'.workerRunning /\ ~env'.loadError
    BY <1>1, <1>2, <1>4 DEF Environments
  <2>2. /\ worker' \in Workers /\ worker'.env = env.number
        /\ worker'.job = "more" /\ worker'.step = "begun"
    BY <1>1, <1>2, <1>4 DEF NewWorker, Environments, Workers
  <2>3. env' # None /\ worker' # None
    BY <2>1, <2>2, NoneAssumption
  <2>4. env.map = "whole"
    <3>1. worker.step = "exited" /\ worker.job \in {"map", "more"}
      BY <1>1, <1>2, <1>4 DEF Joined, Workers
    <3> QED
      BY <1>2, <1>4, <3>1 DEF IInv, WorkerSaysAll, FirstJob, SecondJob
  <2>5. pc' = "idle"
    BY <1>1, <1>4
  <2>6. TypeOK'
    BY <1>1, <2>1, <2>2, <2>5 DEF IInv, TypeOK
  <2>7. WorkerBelongs' /\ WorkerSaysAll'
    BY <2>1, <2>2, <2>3, <2>4 DEF WorkerBelongs, WorkerSaysAll, SecondJob, FlagTells
  <2>8. OwnerKnows' /\ SkyIsOnWholeMap' /\ ClientLoadsOnce'
    BY <1>1, <2>5 DEF IInv, OwnerKnows, SkyIsOnWholeMap, ClientLoadsOnce
  <2>9. SandboxSkyHasItsMap'
    BY <1>1, <2>1, <2>3 DEF IInv, SandboxSkyHasItsMap
  <2> QED
    BY <2>6, <2>7, <2>8, <2>9 DEF IInv
<1>5. CASE ~begins
  <2>1. UNCHANGED <<env, worker>> /\ pc' \in {"aborted", "idle"}
    BY <1>1, <1>5
  <2>2. TypeOK'
    BY <1>1, <2>1 DEF IInv, TypeOK
  <2>3. WorkerBelongs' /\ WorkerSaysAll'
    BY <2>1 DEF IInv, WorkerBelongs, WorkerSaysAll, FirstJob, SecondJob, FlagTells
  <2>4. OwnerKnows'
    BY <1>1, <1>2, <1>3, <2>1 DEF IInv, OwnerKnows
  <2>5. ClientLoadsOnce'
    BY <1>1, <2>1 DEF IInv, OwnerKnows, ClientLoadsOnce
  <2>6. SkyIsOnWholeMap' /\ SandboxSkyHasItsMap'
    BY <1>1, <2>1 DEF IInv, SkyIsOnWholeMap, SandboxSkyHasItsMap
  <2> QED
    BY <2>2, <2>3, <2>4, <2>5, <2>6 DEF IInv
<1> QED
  BY <1>4, <1>5

\* emplace makes an environment and its worker.
LEMMA EmplaceIsSafe ==
    ASSUME TypeOK, NEW url \in Urls, Emplace(url)
    PROVE  /\ env' \in Environments /\ worker' \in Workers /\ born' \in 0 .. MaxStarts
           /\ env' # None /\ WorkerBelongs' /\ WorkerSaysAll'
<1>1. born' \in 1 .. MaxStarts
  BY EnvironmentAssumption DEF TypeOK, Emplace
<1>2. env' = NewEnvironment(born', url) /\ worker' = NewWorker(born', "map")
  BY DEF Emplace
<1> DEFINE n == born'
<1>3. n \in 1 .. MaxStarts /\ env' = NewEnvironment(n, url) /\ worker' = NewWorker(n, "map")
  BY <1>1, <1>2
<1> HIDE DEF n
<1>4. /\ env' \in Environments /\ worker' \in Workers
      /\ env' # None /\ WorkerBelongs' /\ WorkerSaysAll'
  BY <1>3, NewIsSafe
<1> QED
  BY <1>1, <1>4

\* start: the server's sky may be left without its map, the sandbox's is gone.
LEMMA StartIsSafe ==
    ASSUME IInv, Start
    PROVE  IInv'
<1>1. PICK url \in Urls : Emplace(url)
  BY DEF Start
<1>2. /\ env' \in Environments /\ worker' \in Workers /\ born' \in 0 .. MaxStarts
      /\ env' # None /\ WorkerBelongs' /\ WorkerSaysAll'
  BY <1>1, EmplaceIsSafe DEF IInv
<1>3. UNCHANGED <<owner, sky>> /\ pc' = "idle" /\ isNew' = TRUE
  BY DEF Start
<1>4. owner = "sandbox" => sky = None
  BY DEF IInv, OwnerKnows, Start
<1>5. TypeOK'
  BY <1>2, <1>3 DEF IInv, TypeOK
<1>6. OwnerKnows' /\ SkyIsOnWholeMap' /\ SandboxSkyHasItsMap' /\ ClientLoadsOnce'
  BY <1>2, <1>3, <1>4
     DEF IInv, OwnerKnows, SkyIsOnWholeMap, SandboxSkyHasItsMap, ClientLoadsOnce
<1> QED
  BY <1>2, <1>5, <1>6 DEF IInv

\* Nothing is left of an environment, its worker and its sky.
LEMMA NothingIsSafe ==
    ASSUME IInv, Destroy, sky' = None, UNCHANGED <<owner, born>>,
           isNew' \in BOOLEAN, pc' \in {"idle", "starting"}
    PROVE  IInv'
<1>1. env' = None /\ worker' = None
  BY DEF Destroy
<1>2. TypeOK'
  BY <1>1 DEF IInv, TypeOK
<1>3. WorkerBelongs' /\ WorkerSaysAll'
  BY <1>1 DEF WorkerBelongs, WorkerSaysAll
<1>4. OwnerKnows' /\ SkyIsOnWholeMap' /\ SandboxSkyHasItsMap' /\ ClientLoadsOnce'
  BY <1>1 DEF OwnerKnows, SkyIsOnWholeMap, SandboxSkyHasItsMap, ClientLoadsOnce
<1> QED
  BY <1>2, <1>3, <1>4 DEF IInv

LEMMA StopIsSafe ==
    ASSUME IInv, Stop
    PROVE  IInv'
<1>1. /\ Destroy /\ sky' = None /\ UNCHANGED <<owner, born>>
      /\ isNew' \in BOOLEAN /\ pc' \in {"idle", "starting"}
  BY DEF Stop
<1> QED
  BY <1>1, NothingIsSafe

LEMMA ApplyDeltaIsSafe ==
    ASSUME IInv, ApplyDelta
    PROVE  IInv'
<1>1. UNCHANGED <<owner, isNew, pc>> /\ pc = "idle" /\ owner = "client"
  BY DEF ApplyDelta
<1>2. isNew' \in BOOLEAN
  BY <1>1 DEF IInv, TypeOK
<1>3. CASE Destroy /\ sky' = None /\ UNCHANGED born
  BY <1>1, <1>2, <1>3, NothingIsSafe
<1>4. ASSUME NEW url \in Urls, Emplace(url), UNCHANGED sky
      PROVE  IInv'
  <2>1. /\ env' \in Environments /\ worker' \in Workers /\ born' \in 0 .. MaxStarts
        /\ env' # None /\ WorkerBelongs' /\ WorkerSaysAll'
    BY <1>4, EmplaceIsSafe DEF IInv
  <2>2. TypeOK'
    BY <1>1, <1>4, <2>1 DEF IInv, TypeOK
  <2>3. OwnerKnows' /\ SkyIsOnWholeMap' /\ SandboxSkyHasItsMap' /\ ClientLoadsOnce'
    BY <1>1, <1>4
       DEF IInv, OwnerKnows, SkyIsOnWholeMap, SandboxSkyHasItsMap, ClientLoadsOnce
  <2> QED
    BY <2>1, <2>2, <2>3 DEF IInv
<1> QED
  BY <1>3, <1>4 DEF ApplyDelta

-----------------------------------------------------------------------------
(* Both *)

LEMMA NextIsSafe == IInv /\ [Next]_vars => IInv'
<1> SUFFICES ASSUME IInv, [Next]_vars
             PROVE  IInv'
  OBVIOUS
<1>1. CASE Worker
  BY <1>1, WorkerIsSafe
<1>2. CASE Tick
  BY <1>2, LookIsSafe, FirstCheckIsSafe, SecondCheckIsSafe, LoadMoreIsSafe DEF Tick
<1>3. CASE Start \/ Stop \/ ApplyDelta
  BY <1>3, StartIsSafe, StopIsSafe, ApplyDeltaIsSafe
<1>4. CASE Announce \/ ReceiveInitSky
  BY <1>4, AnnounceIsSafe, ReceiveInitSkyIsSafe
<1>5. CASE UNCHANGED vars
  BY <1>5 DEF vars, IInv, TypeOK, WorkerBelongs, WorkerSaysAll, FirstJob, SecondJob,
              FlagTells, OwnerKnows, SkyIsOnWholeMap, SandboxSkyHasItsMap, ClientLoadsOnce
<1> QED
  BY <1>1, <1>2, <1>3, <1>4, <1>5 DEF Next

\* The invariant: what the worker's step and the owner's place in its tick
\* say of what they share.
THEOREM ThreadsInvariant == Spec => []IInv
<1>1. Init => IInv
  BY InitIsSafe
<1>2. IInv /\ [Next]_vars => IInv'
  BY NextIsSafe
<1> QED
  BY <1>1, <1>2, PTL DEF Spec

\* Type correctness.
THEOREM EnvironmentTypeCorrect == Spec => []TypeOK
<1>1. IInv => TypeOK
  BY DEF IInv
<1> QED
  BY <1>1, ThreadsInvariant, PTL

\* Environment::joinWorker: no worker outlives its environment or writes next
\* to another one, and no tick goes on without its environment.
THEOREM WorkersAreOwned == Spec => []WorkerIsOwned
<1>1. IInv => WorkerIsOwned
  <2> SUFFICES ASSUME IInv
               PROVE  WorkerIsOwned
    OBVIOUS
  <2>1. worker # None => env # None /\ worker.env = env.number
    BY DEF IInv, WorkerBelongs
  <2>2. ASSUME env # None, env.map = "partial"
        PROVE  worker.job = "map"
    <3>1. worker.job \in {"map", "more"}
      BY <2>2, Shapes DEF IInv, WorkerBelongs, Workers
    <3> QED
      BY <2>2, <3>1 DEF IInv, WorkerSaysAll, SecondJob
  <2>3. pc \in {"looked", "checked", "loading"} => env # None
    BY DEF IInv, OwnerKnows
  <2> QED
    BY <2>1, <2>2, <2>3 DEF WorkerIsOwned
<1> QED
  BY <1>1, ThreadsInvariant, PTL

\* SkyHandle::instantiateSky: a sky is put on a map that is all there, although
\* only the second part is synchronised with.
THEOREM SkiesAreOnWholeMaps == Spec => []SkyIsOnWholeMap
<1>1. IInv => SkyIsOnWholeMap
  BY DEF IInv
<1> QED
  BY <1>1, ThreadsInvariant, PTL

\* Sandbox::startHandle: stopping first keeps the sky from outliving its map.
THEOREM SandboxKeepsItsMap == Spec => []SandboxSkyHasItsMap
<1>1. IInv => SandboxSkyHasItsMap
  BY DEF IInv
<1> QED
  BY <1>1, ThreadsInvariant, PTL

\* ServerExec::tick: the order of its conditions keeps an environment that
\* cannot be loaded away from loadMore.
THEOREM ServerOutlivesErrors == Spec => []ServerSurvivesErrors
<1>1. IInv => ServerSurvivesErrors
  BY DEF IInv, OwnerKnows, ServerSurvivesErrors
<1> QED
  BY <1>1, ThreadsInvariant, PTL

\* MultiplayerCore::tick: the client does not ask for visuals that it has.
THEOREM ClientAsksOnce == Spec => []ClientLoadsOnce
<1>1. IInv => ClientLoadsOnce
  BY DEF IInv
<1> QED
  BY <1>1, ThreadsInvariant, PTL

-----------------------------------------------------------------------------
(* The threads implement what a session takes for granted of a handle *)

\* The stage is one of a handle's, and only the worker's first write of a
\* second part, or its end of the first, moves it on.
LEMMA StageIsOne ==
    Stage \in {"primary", "mapped", "more", "ready"}
  BY DEF Stage

LEMMA WorkerMovesStage ==
    ASSUME IInv, Worker
    PROVE  \/ Stage' = Stage
           \/ Stage = "primary" /\ Stage' = "mapped"
           \/ Stage = "more" /\ Stage' = "ready"
<1>1. worker.job = "map" \/ worker.job = "more"
  BY WorkerStep DEF Workers
<1>2. (worker.job = "map" => FirstJob) /\ (worker.job = "more" => SecondJob)
  BY WorkerStep DEF IInv, WorkerSaysAll
<1>3. (worker.job = "map" => FirstJob') /\ (worker.job = "more" => SecondJob')
  BY WorkerStep, WorkerIsSafe DEF IInv, WorkerSaysAll
<1>4. CASE worker.job = "map"
  <2>1. worker'.job = "map" /\ env.more = "missing" /\ env'.more = "missing"
    BY <1>2, <1>3, <1>4, WorkerStep DEF FirstJob
  <2>2. worker.step # "exited"
    BY DEF Worker, WorkerFails, WorkerWrites, WorkerHasWritten, WorkerExits
  <2> QED
    BY <1>4, <2>1, <2>2 DEF Stage
<1>5. CASE worker.job = "more"
  <2>1. worker'.job = "more"
    BY <1>5, WorkerStep
  <2>2. env.more # "missing" => env'.more # "missing"
    BY WorkerStep DEF Worker, WorkerFails, WorkerWrites, WorkerHasWritten, WorkerExits,
                      Environments, PartOf
  <2> QED
    BY <1>5, <2>1, <2>2 DEF Stage
<1> QED
  BY <1>1, <1>4, <1>5

\* A handle with an environment.
LEMMA HandleWithEnv ==
    ASSUME env # None, TypeOK
    PROVE  /\ HandleNow = [env |-> [url |-> env.url, stage |-> Stage],
                           sky |-> HandleNow.sky, isNew |-> isNew]
           /\ HandleNow.env # None
           /\ HandleNow.env.stage = Stage
<1>1. env.url \in Urls
  BY Shapes DEF Environments
<1>2. [url |-> env.url, stage |-> Stage] # None
  BY <1>1, StageIsOne, NoneAssumption
<1> QED
  BY <1>2 DEF HandleNow

LEMMA WorkerOfHandle ==
    ASSUME IInv, Worker
    PROVE  Handle!Next \/ UNCHANGED HandleNow
<1>1. /\ env # None /\ env' # None /\ env'.url = env.url
      /\ UNCHANGED <<sky, isNew>> /\ TypeOK
  BY WorkerStep DEF IInv
<1>2. /\ HandleNow.env # None /\ HandleNow.env.stage = Stage
      /\ HandleNow = [env |-> [url |-> env.url, stage |-> Stage],
                      sky |-> HandleNow.sky, isNew |-> isNew]
  BY <1>1, HandleWithEnv
<1>3. HandleNow' = [env |-> [url |-> env.url, stage |-> Stage'],
                    sky |-> HandleNow.sky, isNew |-> isNew]
  BY <1>1 DEF HandleNow
<1>4. CASE Stage' = Stage
  BY <1>2, <1>3, <1>4
<1>5. CASE Stage = "primary" /\ Stage' = "mapped"
  <2>1. HandleNow' = Handle!WorkerEnds(HandleNow)
    BY <1>2, <1>3, <1>5 DEF Handle!WorkerEnds
  <2> QED
    BY <1>2, <1>5, <2>1 DEF Handle!Next, Handle!WorkerBusy
<1>6. CASE Stage = "more" /\ Stage' = "ready"
  <2>1. HandleNow' = Handle!WorkerEnds(HandleNow)
    BY <1>2, <1>3, <1>6 DEF Handle!WorkerEnds
  <2> QED
    BY <1>2, <1>6, <2>1 DEF Handle!Next, Handle!WorkerBusy
<1> QED
  BY <1>4, <1>5, <1>6, WorkerMovesStage

\* emplace puts an environment at its first stage in the handle.
LEMMA EmplaceOfHandle ==
    ASSUME TypeOK, NEW url \in Urls, Emplace(url)
    PROVE  HandleNow'.env = Handle!NewEnv(url) /\ env' # None
<1>1. env' # None
  BY EmplaceIsSafe
<1>2. env'.url = url /\ env'.map = "missing" /\ env'.more = "missing" /\ worker'.job = "map"
  BY DEF Emplace, NewEnvironment, NewWorker
<1>3. Stage' = "primary"
  BY <1>2 DEF Stage
<1> QED
  BY <1>1, <1>2, <1>3 DEF HandleNow, Handle!NewEnv

\* instantiateSky of an owner that sees both parts.
LEMMA InstantiateOfHandle ==
    ASSUME IInv, env # None, TRUE \in Seen(env.more), InstantiateSky,
           UNCHANGED <<env, worker, isNew>>
    PROVE  Handle!Next
<1>1. Stage' = Stage /\ Stage = "ready"
  <2>1. env.more # "missing"
    BY DEF Seen
  <2> QED
    BY <2>1 DEF Stage
<1>2. env \in Environments
  BY Shapes DEF IInv
<1>3. sky' = [env |-> env.number, map |-> env.map] /\ sky' # None /\ env.number \in Nat
  <2>1. sky' \in Skies
    BY <1>2 DEF InstantiateSky, Environments, Skies
  <2> QED
    BY <1>2, <2>1, NoneAssumption DEF InstantiateSky, Environments
<1>4. /\ HandleNow.env # None /\ HandleNow.env.stage = "ready"
      /\ HandleNow = [env |-> HandleNow.env, sky |-> HandleNow.sky, isNew |-> isNew]
  BY <1>1, HandleWithEnv DEF IInv, HandleNow
<1>5. HandleNow' = [env |-> HandleNow.env, sky |-> env.number, isNew |-> isNew]
  BY <1>1, <1>3 DEF HandleNow
<1>6. HandleNow'.sky = env.number
  BY <1>5
<1>7. HandleNow' = Handle!InstantiateSky(HandleNow, env.number)
  BY <1>4, <1>5 DEF Handle!InstantiateSky
<1>8. Handle!EnvReady(HandleNow)
  BY <1>4 DEF Handle!EnvReady
<1> QED
  BY <1>3, <1>6, <1>7, <1>8 DEF Handle!Next, Handle!Instantiate

\* Reading and waiting change nothing of the handle.
LEMMA SameHandle ==
    ASSUME UNCHANGED <<env, worker, sky, isNew>>
    PROVE  UNCHANGED HandleNow
  BY DEF HandleNow, Stage

LEMMA LoadMoreOfHandle ==
    ASSUME IInv, LoadMore
    PROVE  Handle!Next \/ UNCHANGED HandleNow
<1> DEFINE begins == ~env.workerRunning /\ ~env.loadError /\ env.more = "missing"
<1>1. CASE ~begins
  <2>1. UNCHANGED <<env, worker, sky, isNew>>
    BY <1>1 DEF LoadMore
  <2> QED
    BY <2>1, SameHandle
<1>2. CASE begins
  <2>1. env # None /\ worker # None /\ env \in Environments /\ worker \in Workers
    BY Shapes DEF IInv, OwnerKnows, WorkerBelongs, LoadMore
  <2>2. worker.step = "exited" /\ env.more = "missing" /\ ~env.loadError
    BY <1>2, <2>1 DEF LoadMore, Joined
  <2>3. worker.job = "map"
    <3>1. worker.job \in {"map", "more"}
      BY <2>1 DEF Workers
    <3> QED
      BY <2>1, <2>2, <3>1 DEF IInv, WorkerSaysAll, SecondJob
  <2>4. env.map = "whole"
    BY <2>1, <2>2, <2>3 DEF IInv, WorkerSaysAll, FirstJob
  <2>5. Stage = "mapped"
    BY <2>2, <2>3, <2>4 DEF Stage
  <2>6. /\ env' = [env EXCEPT !.workerRunning = TRUE]
        /\ worker' = NewWorker(env.number, "more") /\ UNCHANGED <<sky, isNew>>
    BY <1>2 DEF LoadMore
  <2>7. /\ env' \in Environments /\ env'.url = env.url /\ env'.more = "missing"
        /\ worker'.job = "more"
    BY <2>1, <2>2, <2>6 DEF Environments, NewWorker
  <2>8. Stage' = "more"
    BY <2>7 DEF Stage
  <2>9. env' # None
    BY <2>7, NoneAssumption
  <2>10. /\ HandleNow.env # None /\ HandleNow.env.stage = "mapped"
         /\ HandleNow = [env |-> [url |-> env.url, stage |-> "mapped"],
                         sky |-> HandleNow.sky, isNew |-> isNew]
    BY <2>1, <2>5, HandleWithEnv DEF IInv
  <2>11. HandleNow' = [env |-> [url |-> env.url, stage |-> "more"],
                       sky |-> HandleNow.sky, isNew |-> isNew]
    BY <2>6, <2>7, <2>8, <2>9 DEF HandleNow
  <2>12. HandleNow' = Handle!LoadMore(HandleNow)
    BY <2>10, <2>11 DEF Handle!LoadMore
  <2> QED
    BY <2>12 DEF Handle!Next
<1> QED
  BY <1>1, <1>2

LEMMA TickOfHandle ==
    ASSUME IInv, Tick
    PROVE  Handle!Next \/ UNCHANGED HandleNow
<1>1. CASE Look
  <2>1. env # None /\ UNCHANGED <<env, worker, isNew>>
    BY <1>1 DEF Look
  <2>2. PICK map \in Seen(env.map), more \in Seen(env.more) :
          IF owner # "client" /\ map /\ more
          THEN InstantiateSky /\ UNCHANGED pc
          ELSE pc' = "looked" /\ UNCHANGED sky
    BY <1>1 DEF Look
  <2>3. CASE more /\ InstantiateSky
    <3>1. env.more \in Part
      BY <2>1, Shapes DEF IInv, Environments
    <3>2. more \in BOOLEAN
      BY <2>2, <3>1 DEF Seen, Part
    <3>3. TRUE \in Seen(env.more)
      BY <2>2, <2>3, <3>2
    <3> QED
      BY <2>1, <2>3, <3>3, InstantiateOfHandle
  <2>4. CASE UNCHANGED sky
    BY <2>1, <2>4, SameHandle
  <2> QED
    BY <2>2, <2>3, <2>4
<1>2. CASE FirstCheck \/ SecondCheck
  <2>1. UNCHANGED <<env, worker, sky, isNew>>
    BY <1>2 DEF FirstCheck, SecondCheck
  <2> QED
    BY <2>1, SameHandle
<1>3. CASE LoadMore
  BY <1>3, LoadMoreOfHandle
<1> QED
  BY <1>1, <1>2, <1>3 DEF Tick

\* A handle's record with another flag
LEMMA HandleExcept ==
    ASSUME NEW e, NEW s, NEW a, NEW b
    PROVE  [[env |-> e, sky |-> s, isNew |-> a] EXCEPT !.isNew = b]
              = [env |-> e, sky |-> s, isNew |-> b]
  OBVIOUS

\* start, stop, applyDelta and collectDelta are the handle's own.
LEMMA UseOfHandle ==
    ASSUME IInv, Start \/ Stop \/ ApplyDelta \/ Announce \/ ReceiveInitSky
    PROVE  Handle!Next \/ UNCHANGED HandleNow
<1>1. CASE Start
  <2>1. PICK url \in Urls : Emplace(url)
    BY <1>1 DEF Start
  <2>2. HandleNow'.env = Handle!NewEnv(url)
    BY <2>1, EmplaceOfHandle DEF IInv
  <2>3. sky' = sky /\ isNew' = TRUE
    BY <1>1 DEF Start
  <2>4. HandleNow' = Handle!StartGame(HandleNow, url)
    BY <2>2, <2>3 DEF HandleNow, Handle!StartGame
  <2> QED
    BY <2>4 DEF Handle!Next
<1>2. CASE Stop
  <2>1. env' = None /\ sky' = None /\ isNew' = TRUE
    BY <1>2 DEF Stop, Destroy
  <2>2. HandleNow' = Handle!StopGame(HandleNow)
    BY <2>1 DEF HandleNow, Handle!StopGame
  <2> QED
    BY <2>2 DEF Handle!Next
<1>3. CASE ApplyDelta
  <2>1. isNew' = isNew
    BY <1>3 DEF ApplyDelta
  <2>2. CASE Destroy /\ sky' = None
    <3>1. HandleNow' = [env |-> None, sky |-> None, isNew |-> isNew]
      BY <2>1, <2>2 DEF Destroy, HandleNow
    <3>2. HandleNow' = Handle!ApplyHandleDelta(HandleNow, None)
      BY <3>1 DEF HandleNow, Handle!ApplyHandleDelta
    <3> QED
      BY <3>2 DEF Handle!Next
  <2>3. ASSUME NEW url \in Urls, Emplace(url), UNCHANGED sky
        PROVE  Handle!Next
    <3>1. HandleNow'.env = Handle!NewEnv(url) /\ url # None
      BY <2>3, EmplaceOfHandle, EnvironmentAssumption DEF IInv
    <3>2. HandleNow' = Handle!ApplyHandleDelta(HandleNow, url)
      BY <2>1, <2>3, <3>1 DEF HandleNow, Handle!ApplyHandleDelta
    <3> QED
      BY <3>2 DEF Handle!Next
  <2> QED
    BY <1>3, <2>2, <2>3 DEF ApplyDelta
<1>4. CASE Announce
  <2>1. UNCHANGED <<env, worker, sky>> /\ isNew' = FALSE
    BY <1>4 DEF Announce
  <2>2. Stage' = Stage
    BY <2>1 DEF Stage
  <2> DEFINE e == IF env = None THEN None ELSE [url |-> env.url, stage |-> Stage]
             s == IF sky = None THEN None ELSE sky.env
  <2>3. /\ HandleNow = [env |-> e, sky |-> s, isNew |-> isNew]
        /\ HandleNow' = [env |-> e, sky |-> s, isNew |-> FALSE]
    BY <2>1, <2>2 DEF HandleNow
  <2> HIDE DEF e, s
  <2>4. [[env |-> e, sky |-> s, isNew |-> isNew] EXCEPT !.isNew = FALSE]
           = [env |-> e, sky |-> s, isNew |-> FALSE]
    BY HandleExcept, Zenon
  <2>5. HandleNow' = Handle!CollectDelta(HandleNow)
    BY <2>3, <2>4, Zenon DEF Handle!CollectDelta
  <2> QED
    BY <2>5 DEF Handle!Next
<1>5. CASE ReceiveInitSky
  <2>1. /\ env # None /\ TRUE \in Seen(env.more) /\ InstantiateSky
        /\ UNCHANGED <<env, worker, isNew>>
    BY <1>5 DEF ReceiveInitSky
  <2> QED
    BY <2>1, InstantiateOfHandle
<1> QED
  BY <1>1, <1>2, <1>3, <1>4, <1>5

LEMMA InitOfHandle == Init => Handle!Init
<1> SUFFICES ASSUME Init
             PROVE  Handle!Init
  OBVIOUS
<1>1. sky = None /\ isNew = FALSE
  BY DEF Init
<1>2. CASE env = None
  <2>1. HandleNow = Handle!NewHandle(None)
    BY <1>1, <1>2 DEF HandleNow, Handle!NewHandle
  <2> QED
    BY <2>1 DEF Handle!Init
<1>3. ASSUME NEW url \in Urls, env = NewEnvironment(1, url), worker = NewWorker(1, "map")
      PROVE  Handle!Init
  <2>1. env # None
    <3>1. 1 \in 1 .. MaxStarts
      BY EnvironmentAssumption
    <3>2. env \in Environments
      BY <1>3, <3>1 DEF NewEnvironment, Environments, Part
    <3> QED
      BY <3>2, NoneAssumption
  <2>2. env.url = url /\ env.map = "missing" /\ env.more = "missing" /\ worker.job = "map"
    BY <1>3 DEF NewEnvironment, NewWorker
  <2>3. Stage = "primary"
    BY <2>2 DEF Stage
  <2>4. HandleNow = Handle!NewHandle(url)
    BY <1>1, <2>1, <2>2, <2>3, EnvironmentAssumption
       DEF HandleNow, Handle!NewHandle, Handle!NewEnv
  <2> QED
    BY <2>4 DEF Handle!Init
<1> QED
  BY <1>2, <1>3 DEF Init

\* The refinement: whatever the two threads do, and in whichever program, the
\* handle changes as the session's modules have it, and no stage is skipped.
THEOREM EnvironmentIsHandle == Spec => IsHandle
<1>1. Init => Handle!Init
  BY InitOfHandle
<1>2. IInv /\ [Next]_vars => [Handle!Next]_HandleNow
  <2>1. CASE UNCHANGED vars
    BY <2>1, SameHandle DEF vars
  <2> QED
    BY <2>1, WorkerOfHandle, TickOfHandle, UseOfHandle DEF Next
<1> QED
  BY <1>1, <1>2, ThreadsInvariant, PTL DEF Spec, IsHandle, Handle!Spec
=============================================================================
