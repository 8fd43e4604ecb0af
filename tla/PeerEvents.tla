----------------------------- MODULE PeerEvents ------------------------------
(***************************************************************************)
(* What ServerExec::poll takes for granted of the events of its host: a    *)
(* peer slot has one connection at a time, whose CONNECT comes before its  *)
(* packets and whose DISCONNECT comes last; and a connection that has      *)
(* ended never comes back, in this slot or in another one.                 *)
(***************************************************************************)
CONSTANTS Slots, None

VARIABLES
    attached,       \* the connection a slot has reported; None for none
    player,         \* the connection whose player peer->data points at
    past            \* connections that were reported so far

vars == <<attached, player, past>>

Init ==
    /\ attached = [s \in Slots |-> None]
    /\ player = [s \in Slots |-> None]
    /\ past = {}

ConnectEvent(s, a) ==
    /\ attached[s] = None /\ a \notin past /\ a # None
    /\ attached' = [attached EXCEPT ![s] = a]
    /\ player' = [player EXCEPT ![s] = None]
    /\ past' = past \cup {a}

\* The packet that makes a player of the client.
JoinEvent(s) ==
    /\ attached[s] # None
    /\ player' = [player EXCEPT ![s] = attached[s]]
    /\ UNCHANGED <<attached, past>>

DisconnectEvent(s) ==
    /\ attached[s] # None
    /\ attached' = [attached EXCEPT ![s] = None]
    /\ player' = [player EXCEPT ![s] = None]
    /\ UNCHANGED past

Next(connections) ==
    \E s \in Slots :
        JoinEvent(s) \/ DisconnectEvent(s) \/ \E a \in connections : ConnectEvent(s, a)
=============================================================================
