------------------------------ MODULE Membership ------------------------------
(***************************************************************************)
(* What an arena promises its members, whatever is on its way between them *)
(* and the server: who joins gets a player of his own, under the smallest  *)
(* free PID, and keeps it until he leaves; and nobody speaks for another.  *)
(* Session.tla implements it, the members being the peers.                 *)
(***************************************************************************)
EXTENDS Arena

CONSTANT Members

VARIABLES
    players,        \* the arena's players, by PID
    playerOf        \* each member's PID, or None

Init ==
    /\ players  = EmptyMap
    /\ playerOf = [m \in Members |-> None]

\* A new player begins without rights, among the spectators.
Join(m) ==
    /\ playerOf[m] = None
    /\ \E pid \in Keys(players') \ Keys(players) :
          /\ 0 .. pid - 1 \subseteq Keys(players)
          /\ players'  = [players EXCEPT ![pid] = NewPlayer(players'[pid].nickname)]
          /\ playerOf' = [playerOf EXCEPT ![m] = pid]

Leave(m) ==
    /\ playerOf[m] # None
    /\ players'  = [players EXCEPT ![playerOf[m]] = None]
    /\ playerOf' = [playerOf EXCEPT ![m] = None]

\* What a member asks for changes his own player, and no other.
Ask(m) ==
    /\ playerOf[m] # None
    /\ players' = [players EXCEPT ![playerOf[m]] = players'[playerOf[m]]]
    /\ Keys(players') = Keys(players)
    /\ UNCHANGED playerOf

\* What the server does of itself leaves everyone's name, rights and team.
SameMember(old, new) ==
    /\ old.nickname = new.nickname
    /\ old.admin = new.admin
    /\ old.team = new.team

Inform ==
    /\ Keys(players') = Keys(players)
    /\ \A pid \in Keys(players) : SameMember(players[pid], players'[pid])
    /\ UNCHANGED playerOf

Next == Inform \/ \E m \in Members : Join(m) \/ Leave(m) \/ Ask(m)

Spec == Init /\ [][Next]_<<players, playerOf>>
=============================================================================
