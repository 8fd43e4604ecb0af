------------------------------- MODULE Loading -------------------------------
(***************************************************************************)
(* What a session takes for granted of a sky handle over time: it changes  *)
(* by the operators of SkyHandle only, and a sky is put on an environment  *)
(* of which both parts are loaded.  Environment.tla implements it.         *)
(***************************************************************************)
EXTENDS SkyHandle

VARIABLE handle

Init == \E url \in Envs \cup {None} : handle = NewHandle(url)

Instantiate ==
    /\ EnvReady(handle)
    /\ handle'.sky \in Nat
    /\ handle' = InstantiateSky(handle, handle'.sky)

Next ==
    \/ \E url \in Envs : handle' = StartGame(handle, url)
    \/ handle' = StopGame(handle)
    \/ \E url \in Envs \cup {None} : handle' = ApplyHandleDelta(handle, url)
    \/ Instantiate
    \/ handle' = CollectDelta(handle)
    \/ handle' = LoadMore(handle)
    \/ WorkerBusy(handle) /\ handle' = WorkerEnds(handle)

Spec == Init /\ [][Next]_handle
=============================================================================
