------------------------------ MODULE MCSession ------------------------------
(* Values of the constants of Session for the model checker. *)
EXTENDS SessionInvariants, TLC

CONSTANTS bob, ann, e1

Plain(base)      == [base |-> base, tags |-> <<>>]

Command(word)    == [command |-> word, env |-> None]
MapCommand(url)  == [command |-> "map", env |-> url]

Symmetry == Permutations(Peers)

NoNicks   == {}
NoCommands == {}
OneNick   == {Plain(bob)}
NoTeams   == {}
SameTeam  == {"Spectator"}
StartOnly == {Command("auth"), Command("start")}
AllCommands == {Command(w) : w \in {"auth", "start", "stop", "restart"}}
               \cup {MapCommand(url) : url \in Envs \ {FirstEnv}}
=============================================================================
