---------------------------- MODULE Participation ----------------------------
(***************************************************************************)
(* sky::Participation: what a sky keeps for one player, on the server and  *)
(* on the clients.  A plane is the number of its life (no two spawns have  *)
(* the same) and the life that its motion was taken from, which its own    *)
(* client decides; the half of its state that the server decides (energy,  *)
(* health, cooldown) is left out.  Nothing in the program calls            *)
(* Plane::damage, so that the only way to die is the suicide control.      *)
(***************************************************************************)
EXTENDS Integers, Sequences

CONSTANT None

Controls == {"idle", "suicide"}

Lives == Nat \ {0}

Plane == [life : Lives, motion : Lives]

Participations ==
    [plane : Plane \cup {None}, controls : Controls, lastControls : Controls,
     newlyAlive : BOOLEAN, newlyDead : BOOLEAN]

ParticipationInit ==
    [spawn : Plane \cup {None}, controls : Controls]

\* state carries a plane's motion, serverState the half that is left out.
ParticipationDelta ==
    [spawn : Plane \cup {None}, state : Plane \cup {None},
     serverState : Plane \cup {None}, controls : Controls \cup {None}]

ParticipationInput ==
    [planeState : Plane \cup {None}, controls : Controls \cup {None}]

-----------------------------------------------------------------------------
(* Construction and copies *)

DefaultInit == [spawn |-> None, controls |-> "idle"]

NewParticipation(init) ==
    [plane |-> init.spawn, controls |-> init.controls,
     lastControls |-> init.controls, newlyAlive |-> FALSE, newlyDead |-> FALSE]

CaptureParticipation(part) ==
    [spawn |-> part.plane, controls |-> part.controls]

-----------------------------------------------------------------------------
(* On the server *)

SpawnPlane(part, life) ==
    [part EXCEPT !.plane = [life |-> life, motion |-> life],
                 !.newlyAlive = TRUE]

\* A mistake: the kill is not kept for the next delta.
KillQuietly(part) == [part EXCEPT !.plane = None]

Suicide(part) ==
    IF part.plane = None THEN part
    ELSE [part EXCEPT !.plane = None, !.newlyDead = TRUE]

\* The server's half of prePhysics.
ObeySuicide(part) == IF part.controls = "suicide" THEN Suicide(part) ELSE part

ApplyInput(part, input) ==
    [part EXCEPT
       !.controls = IF input.controls = None THEN @ ELSE input.controls,
       !.plane = IF @ = None \/ input.planeState = None THEN @
                 ELSE [@ EXCEPT !.motion = input.planeState.motion]]

\* collectDelta: is there anything to say, what, and what is left behind.
Announces(part) ==
    \/ part.plane # None
    \/ part.newlyDead
    \/ part.controls # part.lastControls

DeltaOfParticipation(part) ==
    [spawn       |-> IF part.newlyAlive THEN part.plane ELSE None,
     state       |-> IF part.newlyAlive THEN None ELSE part.plane,
     serverState |-> None,
     controls    |-> IF part.controls = part.lastControls
                     THEN None ELSE part.controls]

\* A mistake: what was announced is not remembered.
AnnouncedOnce(part) ==
    [part EXCEPT !.newlyAlive = @ /\ part.plane = None,
                 !.newlyDead  = @ /\ part.plane # None]

Announced(part) ==
    [part EXCEPT !.newlyAlive   = @ /\ part.plane = None,
                 !.newlyDead    = @ /\ part.plane # None,
                 !.lastControls = part.controls]

\* A mistake: the plane's motion is left in.
KeepMotion(delta) == [delta EXCEPT !.controls = None]

\* The delta for the player's own client.
RespectClientAuthority(delta) ==
    [delta EXCEPT !.state = None, !.serverState = delta.state,
                  !.controls = None]

-----------------------------------------------------------------------------
(* On a client *)

\* The plane after a delta without a spawn: without any state it is a kill.
PlaneAfter(plane, delta) ==
    IF plane = None \/ (delta.state = None /\ delta.serverState = None) THEN None
    ELSE IF delta.state # None THEN [plane EXCEPT !.motion = delta.state.motion]
    ELSE plane

ApplyParticipationDelta(part, delta) ==
    [part EXCEPT
       !.plane = IF delta.spawn # None THEN delta.spawn ELSE PlaneAfter(@, delta),
       !.controls = IF delta.controls = None THEN @ ELSE delta.controls]

HasInput(part) == part.plane # None \/ part.controls # part.lastControls

CollectedInput(part) ==
    [planeState |-> part.plane,
     controls   |-> IF part.controls = part.lastControls
                    THEN None ELSE part.controls]

InputSent(part) == [part EXCEPT !.lastControls = part.controls]
=============================================================================
