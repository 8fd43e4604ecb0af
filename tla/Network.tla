------------------------------- MODULE Network -------------------------------
(***************************************************************************)
(* The link between each client and the server: one ENet peer, on which    *)
(* both sides send reliable packets on channel 0.  What arrives arrives in *)
(* order and once, as ReliableChannel shows of ENet's channels; CONNECT is *)
(* polled before it and DISCONNECT after it, as PeerConnection shows.      *)
(*                                                                         *)
(* up[c] is what the server's host will poll from peer c, the CONNECT and  *)
(* DISCONNECT events included; down[c] is what client c will poll.         *)
(***************************************************************************)
EXTENDS Integers, Sequences

CONSTANT Peers      \* the server host's peer slots, one client each

VARIABLES
    link,           \* "open" while packets pass, else "down"
    up,             \* events on their way to the server
    down            \* packets on their way to the client

networkVars == <<link, up, down>>

CONNECT    == [type |-> "CONNECT"]
DISCONNECT == [type |-> "DISCONNECT"]

NetworkInit ==
    /\ link = [c \in Peers |-> "down"]
    /\ up   = [c \in Peers |-> <<>>]
    /\ down = [c \in Peers |-> <<>>]

\* A new connection: the server's CONNECT event comes before its packets.
OpenLink(c) ==
    /\ link' = [link EXCEPT ![c] = "open"]
    /\ up'   = [up EXCEPT ![c] = <<CONNECT>>]
    /\ down' = [down EXCEPT ![c] = <<>>]

\* The link breaks: the last packets of the client may be lost, and the
\* server's host reports the peer's disconnection after the others.
BreakUp(c) ==
    /\ link' = [link EXCEPT ![c] = "down"]
    /\ \E n \in 0 .. Len(up[c]) :
          up' = [up EXCEPT ![c] = Append(SubSeq(up[c], 1, n), DISCONNECT)]

\* out[c]: the packets one handler of the server sends to peer c, in order.
Transmit(out) ==
    down' = [c \in Peers |->
                IF link[c] = "open" THEN down[c] \o out[c] ELSE down[c]]

Then(first, second) == [c \in Peers |-> first[c] \o second[c]]

Silence == [c \in Peers |-> <<>>]

To(c, packet) == [x \in Peers |-> IF x = c THEN <<packet>> ELSE <<>>]

ToThose(S, packet) == [x \in Peers |-> IF x \in S THEN <<packet>> ELSE <<>>]

\* The client's transmit.
Send(c, packet) ==
    up' = [up EXCEPT ![c] =
              IF link[c] = "open" THEN Append(@, packet) ELSE @]
=============================================================================
