--------------------------- MODULE PeerConnection ----------------------------
(***************************************************************************)
(* How connections begin and end: the states of ENet's peers on the server *)
(* and on the clients, over a network that loses, repeats and reorders     *)
(* datagrams; the events of tg::Host; and what MultiplayerCore and         *)
(* ServerExec::poll do with them.  One player connects again and again: a  *)
(* game makes a host of its own, so that every connection has an address   *)
(* and a connectID of its own, here its number.                            *)
(*                                                                         *)
(* Clocks are abstracted: an end that waits for an acknowledgement (pings  *)
(* see to it that a connected one does) may give up at any moment.  But a  *)
(* slot that answers CONNECT waits for seconds before it gives up, so that *)
(* no copy of a CONNECT lives until the same slot has the same session     *)
(* number again.  Any other datagram may arrive however late and often.    *)
(***************************************************************************)
EXTENDS Integers, FiniteSets, FiniteSetsExt

CONSTANTS
    PeerCount,      \* slots of the server's host, 32 in the program
    Sessions,       \* session numbers, 4 in ENet
    MaxAnswers,     \* bound: how often a CONNECT and its copies are answered
    MaxAttempts,    \* bound: connections
    None

ASSUME ConnectionAssumption ==
    /\ {PeerCount, Sessions, MaxAnswers, MaxAttempts} \subseteq Nat \ {0}
    /\ None \notin Nat

Slots == 1 .. PeerCount
Attempts == 1 .. MaxAttempts

VARIABLES
    attempt,        \* the connections so far; the last one is the client's
    client,         \* the client's MultiplayerCore and its peer; None without
    slots,          \* the server's peers
    registered,     \* Host::peers of the server
    player,         \* peer->data: the connection whose player it is, or None
    past,           \* connections whose CONNECT the server has polled
    toServer,       \* every datagram that has been sent to the server
    toClient        \* and to the clients

vars == <<attempt, client, slots, registered, player, past, toServer, toClient>>
serverVars == <<slots, registered, player, past>>

Client == [peer : {"CONNECTING", "CONNECTED", "DISCONNECTING", "DISCONNECTED"},
           slot : Slots \cup {None}, session : 0 .. Sessions - 1,
           server : BOOLEAN, askedConnection : BOOLEAN,
           disconnecting : BOOLEAN, disconnected : BOOLEAN]

NewClient == [peer |-> "CONNECTING", slot |-> None, session |-> 0,
              server |-> FALSE, askedConnection |-> FALSE,
              disconnecting |-> FALSE, disconnected |-> FALSE]

Peer == [state : {"DISCONNECTED", "ACKNOWLEDGING_CONNECT", "CONNECTED",
                  "ACKNOWLEDGING_DISCONNECT", "ZOMBIE"},
         from : Attempts \cup {None}, session : 0 .. Sessions - 1]

\* Session numbers begin with 0xFF, the one before 0.
NewPeer == [state |-> "DISCONNECTED", from |-> None, session |-> Sessions - 1]

Datagram(type, a, s, session) ==
    [type |-> type, from |-> a, slot |-> s, session |-> session]

Datagrams(types) ==
    [type : types, from : Attempts, slot : Slots \cup {None}, session : 0 .. Sessions - 1]

Init ==
    /\ attempt = 0 /\ client = None
    /\ slots = [s \in Slots |-> NewPeer]
    /\ registered = {}
    /\ player = [s \in Slots |-> None]
    /\ past = {}
    /\ toServer = {} /\ toClient = {}

-----------------------------------------------------------------------------
(* The client *)

\* A new game: host.connect sends CONNECT, and again until it is answered.
Connect ==
    /\ client = None /\ attempt < MaxAttempts
    /\ attempt' = attempt + 1
    /\ client' = NewClient
    /\ toServer' = toServer \cup {Datagram("CONNECT", attempt + 1, None, 0)}
    /\ UNCHANGED <<serverVars, toClient>>

Polls == client # None /\ ~client.disconnected

\* What the client's peer sends reaches the slot and session it knows.
ToSlot(type) == Datagram(type, attempt, client.slot, client.session)

\* A mistake: datagrams of every session are taken.
AnySession(d, peer) == TRUE

\* Whether a datagram is of the session a connected peer has.
SameSession(d, peer) == d.session = peer.session

\* The answer to CONNECT: the CONNECT event is polled at once.  A connected
\* peer acknowledges the answer of its own session once more.
ClientHandlesVerify(d) ==
    /\ Polls /\ d.type = "VERIFY_CONNECT" /\ d.from = attempt
    /\ \/ /\ client.peer = "CONNECTING"
          /\ client' = [client EXCEPT !.peer = "CONNECTED", !.slot = d.slot,
                                      !.session = d.session, !.server = TRUE]
       \/ client.peer = "CONNECTED" /\ SameSession(d, client) /\ UNCHANGED client
    /\ toServer' = toServer \cup
          {Datagram("ACKNOWLEDGE", attempt, client'.slot, client'.session)}
    /\ UNCHANGED <<attempt, serverVars, toClient>>

\* MultiplayerCore::poll asks to join once it has the server.
AskToJoin ==
    /\ Polls /\ client.server /\ ~client.askedConnection
    /\ client' = [client EXCEPT !.askedConnection = TRUE]
    /\ toServer' = IF client.peer = "CONNECTED"
                   THEN toServer \cup {ToSlot("SEND_RELIABLE")} ELSE toServer
    /\ UNCHANGED <<attempt, serverVars, toClient>>

\* MultiplayerCore::disconnect; the user may ask for it again and again.
Disconnect ==
    /\ client # None
    /\ IF client.server
       THEN /\ client' = [client EXCEPT !.disconnecting = TRUE,
                  !.peer = IF @ = "CONNECTED" THEN "DISCONNECTING" ELSE @]
            /\ toServer' = IF client.peer = "CONNECTED"
                           THEN toServer \cup {ToSlot("DISCONNECT")} ELSE toServer
       ELSE /\ client' = [client EXCEPT !.disconnected = TRUE]
            /\ UNCHANGED toServer
    /\ UNCHANGED <<attempt, serverVars, toClient>>

\* A mistake: the pointer to the server is kept.
DisconnectedWithPointer ==
    /\ client' = [client EXCEPT !.peer = "DISCONNECTED", !.disconnected = TRUE]
    /\ UNCHANGED <<attempt, serverVars, toServer, toClient>>

\* pollNetwork polls a DISCONNECT event.
Disconnected ==
    /\ client' = [client EXCEPT !.peer = "DISCONNECTED", !.server = FALSE,
                                !.disconnected = TRUE]
    /\ UNCHANGED <<attempt, serverVars, toServer, toClient>>

ClientHandlesAcknowledge(d) ==
    /\ Polls /\ d.type = "ACKNOWLEDGE" /\ d.from = attempt
    /\ client.peer = "DISCONNECTING" /\ SameSession(d, client)
    /\ Disconnected

\* A mistake: only a connected peer times out.
ConnectedTimesOut ==
    /\ Polls /\ client.peer \in {"CONNECTED", "DISCONNECTING"}
    /\ Disconnected

ClientTimesOut ==
    /\ Polls /\ client.peer # "DISCONNECTED"
    /\ Disconnected

\* A mistake: the timer waits for the server to be gone.
TimerWithoutServer ==
    /\ client # None /\ client.disconnecting /\ ~client.server
    /\ client' = [client EXCEPT !.disconnected = TRUE]
    /\ UNCHANGED <<attempt, serverVars, toServer, toClient>>

\* MultiplayerCore::tick: the timer runs on whatever has happened since.
DisconnectTimer ==
    /\ client # None /\ client.disconnecting
    /\ client' = [client EXCEPT !.disconnected = TRUE]
    /\ UNCHANGED <<attempt, serverVars, toServer, toClient>>

\* A disconnected game quits, and its host with it.
Quits ==
    /\ client # None /\ client.disconnected
    /\ client' = None
    /\ UNCHANGED <<attempt, serverVars, toServer, toClient>>

\* The process of the client ends without a word.
Dies ==
    /\ client # None
    /\ client' = None
    /\ UNCHANGED <<attempt, serverVars, toServer, toClient>>

-----------------------------------------------------------------------------
(* The server *)

Free == {s \in Slots : slots[s].state = "DISCONNECTED"}

\* A mistake: session numbers go on past the two bits they have.
NextUnmasked(session) == session + 1

NextSession(session) == (session + 1) % Sessions

Answers(a) == {d \in toClient : d.type = "VERIFY_CONNECT" /\ d.from = a}

\* The first free slot takes a connection that no other slot has.
HandleConnect(d) ==
    LET s == Min(Free)
        session == NextSession(slots[s].session)
        answer == Datagram("VERIFY_CONNECT", d.from, s, session) IN
        /\ d.type = "CONNECT"
        /\ \A other \in Slots \ Free : slots[other].from # d.from
        /\ Free # {}
        /\ answer \notin Answers(d.from) /\ Cardinality(Answers(d.from)) < MaxAnswers
        /\ slots' = [slots EXCEPT ![s] = [state |-> "ACKNOWLEDGING_CONNECT",
                                          from |-> d.from, session |-> session]]
        /\ toClient' = toClient \cup {answer}
        /\ UNCHANGED <<attempt, client, registered, player, past, toServer>>

\* A datagram of another address or session is dropped.
Concerns(d, s) ==
    /\ d.slot = s /\ d.from = slots[s].from
    /\ SameSession(d, slots[s])

\* VERIFY_CONNECT is acknowledged: the CONNECT event.
HandleAcknowledge(d, s) ==
    /\ d.type = "ACKNOWLEDGE" /\ Concerns(d, s)
    /\ slots[s].state = "ACKNOWLEDGING_CONNECT"
    /\ slots' = [slots EXCEPT ![s].state = "CONNECTED"]
    /\ registered' = registered \cup {s}
    /\ player' = [player EXCEPT ![s] = None]
    /\ past' = past \cup {d.from}
    /\ UNCHANGED <<attempt, client, toServer, toClient>>

\* The request to join, the first packet of the connection: it is dropped
\* when it comes again.
HandleSendReliable(d, s) ==
    /\ d.type = "SEND_RELIABLE" /\ Concerns(d, s)
    /\ slots[s].state = "CONNECTED" /\ player[s] = None
    /\ player' = [player EXCEPT ![s] = d.from]
    /\ UNCHANGED <<attempt, client, slots, registered, past, toServer, toClient>>

\* enet_peer_reset
ResetPeer(s) ==
    slots' = [slots EXCEPT ![s].state = "DISCONNECTED", ![s].from = None]

\* A mistake: a connected peer is gone at once, too.
DisconnectAtOnce(d, s) ==
    /\ d.type = "DISCONNECT" /\ Concerns(d, s)
    /\ slots[s].state \in {"CONNECTED", "ACKNOWLEDGING_CONNECT"}
    /\ ResetPeer(s)
    /\ UNCHANGED <<attempt, client, registered, player, past, toServer, toClient>>

\* A connected peer is acknowledged its DISCONNECT before it is gone; one
\* that was never reported is gone at once.
HandleDisconnect(d, s) ==
    /\ d.type = "DISCONNECT" /\ Concerns(d, s)
    /\ \/ /\ slots[s].state = "CONNECTED"
          /\ slots' = [slots EXCEPT ![s].state = "ACKNOWLEDGING_DISCONNECT"]
       \/ slots[s].state = "ACKNOWLEDGING_CONNECT" /\ ResetPeer(s)
    /\ UNCHANGED <<attempt, client, registered, player, past, toServer, toClient>>

\* send_acknowledgements
AcknowledgeDisconnect(s) ==
    /\ slots[s].state = "ACKNOWLEDGING_DISCONNECT"
    /\ slots' = [slots EXCEPT ![s].state = "ZOMBIE"]
    /\ toClient' = toClient \cup
          {Datagram("ACKNOWLEDGE", slots[s].from, s, slots[s].session)}
    /\ UNCHANGED <<attempt, client, registered, player, past, toServer>>

\* The peer is reset and its DISCONNECT event polled.
DisconnectEvent(s) ==
    /\ ResetPeer(s)
    /\ registered' = registered \ {s}
    /\ player' = [player EXCEPT ![s] = None]
    /\ UNCHANGED <<attempt, client, past, toServer, toClient>>

DispatchZombie(s) == slots[s].state = "ZOMBIE" /\ DisconnectEvent(s)

\* A mistake: a time-out is no event.
TimesOutSilently(s) ==
    /\ slots[s].state \in {"CONNECTED", "ACKNOWLEDGING_CONNECT"}
    /\ ResetPeer(s)
    /\ UNCHANGED <<attempt, client, registered, player, past, toServer, toClient>>

\* check_timeouts: a peer that was never reported is reset without an event.
ServerTimesOut(s) ==
    \/ slots[s].state = "CONNECTED" /\ DisconnectEvent(s)
    \/ /\ slots[s].state = "ACKNOWLEDGING_CONNECT"
       /\ ResetPeer(s)
       /\ UNCHANGED <<attempt, client, registered, player, past, toServer, toClient>>

-----------------------------------------------------------------------------
ClientStep ==
    \/ Connect \/ AskToJoin \/ Disconnect \/ ClientTimesOut
    \/ DisconnectTimer \/ Quits \/ Dies
    \/ \E d \in toClient : ClientHandlesVerify(d) \/ ClientHandlesAcknowledge(d)

ServerStep ==
    \/ \E d \in toServer : HandleConnect(d)
    \/ \E s \in Slots :
          \/ \E d \in toServer :
                HandleAcknowledge(d, s) \/ HandleSendReliable(d, s) \/ HandleDisconnect(d, s)
          \/ AcknowledgeDisconnect(s) \/ DispatchZombie(s) \/ ServerTimesOut(s)

Next == ClientStep \/ ServerStep

Spec == Init /\ [][Next]_vars

\* The other end of a connected peer is no longer there to acknowledge.
Orphan(s) == client = None \/ slots[s].from # attempt
ClientOrphan == \A s \in Slots : slots[s].from # attempt

\* Both loops poll and tick for ever, and what is never acknowledged times
\* out at last.  The network owes nothing.
Fairness ==
    /\ \A s \in Slots :
          /\ WF_vars(AcknowledgeDisconnect(s)) /\ WF_vars(DispatchZombie(s))
          /\ WF_vars(Orphan(s) /\ ServerTimesOut(s))
    /\ WF_vars(DisconnectTimer /\ ~client.disconnected) /\ WF_vars(Quits)
    /\ WF_vars(client # None /\ client.peer = "CONNECTING" /\ ClientTimesOut)
    /\ WF_vars(ClientOrphan /\ ClientTimesOut)

FairSpec == Spec /\ Fairness

-----------------------------------------------------------------------------
(* Properties *)

\* Every variable has its type.
TypeOK ==
    /\ attempt \in 0 .. MaxAttempts
    /\ client \in Client \cup {None}
    /\ slots \in [Slots -> Peer]
    /\ registered \subseteq Slots
    /\ player \in [Slots -> Attempts \cup {None}]
    /\ past \subseteq Attempts
    /\ toServer \subseteq Datagrams({"CONNECT", "ACKNOWLEDGE", "SEND_RELIABLE", "DISCONNECT"})
    /\ toClient \subseteq Datagrams({"VERIFY_CONNECT", "ACKNOWLEDGE"})

\* The slots that Host::peers has are those whose DISCONNECT event is still
\* to come: none is freed, and given to the next client, without it.
RegisteredAreConnected ==
    registered = {s \in Slots : slots[s].state \in
                     {"CONNECTED", "ACKNOWLEDGING_DISCONNECT", "ZOMBIE"}}

\* MultiplayerCore::server points at a peer that has not been reset, and the
\* server counts no client as connected that is still connecting itself.
ServerPointerIsLive ==
    /\ client # None /\ client.server => client.peer \in {"CONNECTED", "DISCONNECTING"}
    /\ client # None /\ client.peer = "CONNECTING" => attempt \notin past

Attached == [s \in Slots |-> IF s \in registered THEN slots[s].from ELSE None]

\* The events of the host are those ServerExec::poll is written for, although
\* every datagram may arrive late and more than once.
Events == INSTANCE PeerEvents WITH attached <- Attached
EventsAreInOrder == Events!Init /\ [][Events!Next(Attempts)]_Events!vars

\* A client that has gone, with or without a word, does not stay in the game.
GoneAreForgotten ==
    \A a \in Attempts : (client = None /\ attempt = a) ~> (\A s \in Slots : player[s] # a)

\* A user who wants to leave gets out, whoever answers.
ExitEnds == (client # None /\ client.disconnecting) ~> (client = None)

\* Nobody connects for ever, and a client the server has forgotten notices.
NobodyHangs ==
    (client # None /\ ClientOrphan) ~> (client = None \/ ~ClientOrphan)
=============================================================================
