------------------------ MODULE PeerConnectionProofs ------------------------
(***************************************************************************)
(* The order of a host's events, for any number of slots, session numbers  *)
(* and connections, over a network that never forgets a datagram.  The     *)
(* argument is about what the sets of datagrams say of the past: a client  *)
(* acknowledges one slot and one session only (ClientIsOne), and for every *)
(* connection that was reported that acknowledgement has been used up      *)
(* (PastIsUsedUp), because no slot answers it with the same session again. *)
(***************************************************************************)
EXTENDS PeerConnection, WellFoundedInduction, TLAPS

\* The datagrams of a connection but CONNECT.
Later(a) == {d \in toServer : d.from = a /\ d.type # "CONNECT"}

Verify(a, s, session) == Datagram("VERIFY_CONNECT", a, s, session)

ClientIsOne ==
    /\ \A d \in toServer : d.from <= attempt
    /\ \A a \in Attempts : \A d, e \in Later(a) : d.slot = e.slot /\ d.session = e.session
    /\ client # None => attempt # 0 /\ \A d \in Later(attempt) :
          client.peer # "CONNECTING" /\ d.slot = client.slot /\ d.session = client.session

SlotsHaveAnswered ==
    \A s \in Slots :
        /\ slots[s].from = None <=> slots[s].state = "DISCONNECTED"
        /\ slots[s].state = "ACKNOWLEDGING_CONNECT" =>
              Verify(slots[s].from, s, slots[s].session) \in toClient

\* Slot s is waiting for this acknowledgement.
Awaits(s, d) ==
    /\ slots[s].state = "ACKNOWLEDGING_CONNECT"
    /\ slots[s].from = d.from /\ slots[s].session = d.session

PastIsUsedUp ==
    \A a \in past : \E d \in Later(a) :
        /\ d.slot \in Slots
        /\ Verify(a, d.slot, d.session) \in toClient
        /\ ~Awaits(d.slot, d)

ServerIsThere ==
    client # None /\ client.server => client.peer \in {"CONNECTED", "DISCONNECTING"}

IInv ==
    /\ TypeOK
    /\ ClientIsOne
    /\ SlotsHaveAnswered
    /\ PastIsUsedUp
    /\ ServerIsThere
    /\ RegisteredAreConnected

-----------------------------------------------------------------------------

\* The first free slot is free.
LEMMA MinIsThere ==
    ASSUME NEW S, S \subseteq Slots, S # {}
    PROVE  Min(S) \in S
<1>1. S \subseteq Nat
  BY ConnectionAssumption DEF Slots
<1>2. PICK x \in S : \A y \in S : ~(<<y, x>> \in OpToRel(<, Nat))
  BY <1>1, NatLessThanWellFounded, WFMin
<1>3. ASSUME NEW y \in S
      PROVE  x <= y
  <2>1. x \in Nat /\ y \in Nat
    BY <1>1
  <2>2. ~(y < x)
    BY <1>2, <2>1 DEF OpToRel
  <2> QED
    BY <2>1, <2>2
<1> QED
  BY <1>3 DEF Min

\* A datagram has its type.
LEMMA DatagramType ==
    ASSUME NEW a \in Attempts, NEW s \in Slots \cup {None}, NEW n \in 0 .. Sessions - 1,
           NEW T, NEW type \in T
    PROVE  Datagram(type, a, s, n) \in Datagrams(T)
  BY DEF Datagram, Datagrams

LEMMA DatagramFields ==
    ASSUME NEW a, NEW s, NEW n, NEW type
    PROVE  /\ Datagram(type, a, s, n).type = type /\ Datagram(type, a, s, n).from = a
           /\ Datagram(type, a, s, n).slot = s /\ Datagram(type, a, s, n).session = n
  BY DEF Datagram

\* Nothing has happened yet.
LEMMA InitIsSafe == Init => IInv
<1> SUFFICES ASSUME Init
             PROVE  IInv
  OBVIOUS
<1>1. NewPeer \in Peer /\ 0 \in 0 .. MaxAttempts
  BY ConnectionAssumption DEF NewPeer, Peer
<1>2. TypeOK
  BY <1>1 DEF Init, TypeOK
<1>3. ClientIsOne
  BY DEF Init, ClientIsOne, Later
<1>4. SlotsHaveAnswered /\ RegisteredAreConnected
  BY DEF Init, SlotsHaveAnswered, RegisteredAreConnected, NewPeer
<1>5. PastIsUsedUp /\ ServerIsThere
  BY DEF Init, PastIsUsedUp, ServerIsThere
<1> QED
  BY <1>2, <1>3, <1>4, <1>5 DEF IInv

-----------------------------------------------------------------------------
(* The client *)

\* The client sends nothing new.
LEMMA SilentIsOne ==
    ASSUME ClientIsOne, attempt' = attempt, toServer' = toServer,
           client' = None \/ (/\ client # None
                              /\ client'.slot = client.slot
                              /\ client'.session = client.session
                              /\ client'.peer = "CONNECTING" => client.peer = "CONNECTING")
    PROVE  ClientIsOne'
  BY DEF ClientIsOne, Later

\* The client sends to the slot and the session it knows.
LEMMA SenderIsOne ==
    ASSUME TypeOK, ClientIsOne, client # None,
           attempt' = attempt, client'.peer # "CONNECTING",
           client.peer # "CONNECTING" =>
              client'.slot = client.slot /\ client'.session = client.session,
           NEW type, type # "CONNECT",
           toServer' = toServer \cup
              {Datagram(type, attempt, client'.slot, client'.session)}
    PROVE  ClientIsOne'
<1> DEFINE x == Datagram(type, attempt, client'.slot, client'.session)
<1>1. /\ x.type # "CONNECT" /\ x.from = attempt
      /\ x.slot = client'.slot /\ x.session = client'.session
  BY DatagramFields
<1>2. toServer' = toServer \cup {x}
  OBVIOUS
<1> HIDE DEF x
<1>3. \A d \in Later(attempt) : d.slot = client'.slot /\ d.session = client'.session
  BY DEF ClientIsOne
<1>4. \A d \in Later(attempt)' : d.slot = client'.slot /\ d.session = client'.session
  BY <1>1, <1>2, <1>3 DEF Later
<1>5. \A d \in toServer' : d.from <= attempt'
  BY <1>1, <1>2 DEF ClientIsOne, TypeOK
<1>6. \A a \in Attempts : \A d, e \in Later(a)' : d.slot = e.slot /\ d.session = e.session
  <2> SUFFICES ASSUME NEW a \in Attempts, NEW d \in Later(a)', NEW e \in Later(a)'
               PROVE  d.slot = e.slot /\ d.session = e.session
    OBVIOUS
  <2>1. CASE a = attempt
    BY <1>4, <2>1
  <2>2. CASE a # attempt
    BY <1>1, <1>2, <2>2 DEF Later, ClientIsOne
  <2> QED
    BY <2>1, <2>2
<1> QED
  BY <1>4, <1>5, <1>6 DEF ClientIsOne, Later

\* What the client does leaves the server's half alone.
LEMMA ServerHalfStays ==
    ASSUME IInv, UNCHANGED <<serverVars, toClient>>, toServer \subseteq toServer'
    PROVE  SlotsHaveAnswered' /\ PastIsUsedUp' /\ RegisteredAreConnected'
<1>1. SlotsHaveAnswered' /\ RegisteredAreConnected'
  BY DEF IInv, serverVars, SlotsHaveAnswered, RegisteredAreConnected
<1>2. PastIsUsedUp'
  BY DEF IInv, serverVars, PastIsUsedUp, Later, Awaits
<1> QED
  BY <1>1, <1>2

\* TypeOK of the client's half
LEMMA ClientTypes ==
    ASSUME IInv, UNCHANGED <<serverVars, toClient>>,
           attempt' \in 0 .. MaxAttempts, client' \in Client \cup {None},
           toServer' \subseteq
              Datagrams({"CONNECT", "ACKNOWLEDGE", "SEND_RELIABLE", "DISCONNECT"})
    PROVE  TypeOK'
  BY DEF IInv, TypeOK, serverVars

\* A new connection has sent nothing but its CONNECT.
LEMMA ConnectIsSafe ==
    ASSUME IInv, Connect
    PROVE  IInv'
<1> DEFINE x == Datagram("CONNECT", attempt + 1, None, 0)
<1>1. /\ attempt < MaxAttempts /\ attempt' = attempt + 1 /\ client' = NewClient
      /\ toServer' = toServer \cup {x} /\ UNCHANGED <<serverVars, toClient>>
  BY DEF Connect
<1>2. attempt \in Nat /\ attempt' \in Attempts /\ attempt' \in 0 .. MaxAttempts
  BY <1>1, ConnectionAssumption DEF IInv, TypeOK, Attempts
<1>3. x.type = "CONNECT" /\ x.from = attempt + 1
  BY DatagramFields
<1>4. x \in Datagrams({"CONNECT", "ACKNOWLEDGE", "SEND_RELIABLE", "DISCONNECT"})
  BY <1>1, <1>2, ConnectionAssumption DEF Datagram, Datagrams
<1>5. NewClient \in Client
  BY ConnectionAssumption DEF NewClient, Client
<1> HIDE DEF x
<1>6. TypeOK'
  BY <1>1, <1>2, <1>4, <1>5, ClientTypes DEF IInv, TypeOK
<1>7. ClientIsOne'
  <2>1. \A a : Later(a)' = Later(a)
    BY <1>1, <1>3 DEF Later
  <2>2. \A d \in toServer' : d.from <= attempt'
    <3> SUFFICES ASSUME NEW d \in toServer'
                 PROVE  d.from <= attempt + 1
      BY <1>1
    <3>1. CASE d = x
      BY <1>2, <1>3, <3>1
    <3>2. CASE d \in toServer
      <4>1. d.from \in Nat /\ d.from <= attempt
        BY <3>2 DEF IInv, ClientIsOne, TypeOK, Datagrams, Attempts
      <4> QED
        BY <1>2, <4>1
    <3> QED
      BY <1>1, <3>1, <3>2
  <2>3. Later(attempt') = {}
    <3> SUFFICES ASSUME NEW d \in toServer, d.from = attempt + 1
                 PROVE  FALSE
      BY <1>1 DEF Later
    <3> QED
      BY <1>2 DEF IInv, ClientIsOne
  <2>4. \A d \in Later(attempt)' : FALSE
    BY <2>1, <2>3 DEF Later
  <2>5. \A a \in Attempts : \A d, e \in Later(a)' : d.slot = e.slot /\ d.session = e.session
    BY <2>1 DEF IInv, ClientIsOne
  <2> QED
    BY <1>1, <1>2, <2>2, <2>4, <2>5 DEF ClientIsOne, Attempts
<1>8. ServerIsThere'
  BY <1>1 DEF ServerIsThere, NewClient
<1>9. SlotsHaveAnswered' /\ PastIsUsedUp' /\ RegisteredAreConnected'
  BY <1>1, ServerHalfStays
<1> QED
  BY <1>6, <1>7, <1>8, <1>9 DEF IInv

\* Steps of a client that send one datagram, to the slot and session it has.
LEMMA SendingIsSafe ==
    ASSUME IInv, client # None, UNCHANGED <<attempt, serverVars, toClient>>,
           client' \in Client, client'.peer # "CONNECTING",
           client.peer # "CONNECTING" =>
              client'.slot = client.slot /\ client'.session = client.session,
           client'.server => client'.peer \in {"CONNECTED", "DISCONNECTING"},
           NEW type \in {"ACKNOWLEDGE", "SEND_RELIABLE", "DISCONNECT"},
           toServer' = toServer \cup
              {Datagram(type, attempt, client'.slot, client'.session)}
    PROVE  IInv'
<1>1. attempt \in Attempts
  BY ConnectionAssumption DEF IInv, TypeOK, ClientIsOne, Attempts
<1>2. Datagram(type, attempt, client'.slot, client'.session)
         \in Datagrams({"CONNECT", "ACKNOWLEDGE", "SEND_RELIABLE", "DISCONNECT"})
  BY <1>1 DEF Client, Datagram, Datagrams
<1>3. TypeOK'
  BY <1>2, ClientTypes DEF IInv, TypeOK
<1>4. ClientIsOne'
  BY SenderIsOne DEF IInv
<1>5. SlotsHaveAnswered' /\ PastIsUsedUp' /\ RegisteredAreConnected'
  BY ServerHalfStays
<1> QED
  BY <1>3, <1>4, <1>5 DEF IInv, ServerIsThere

\* Steps that send nothing.
LEMMA SilenceIsSafe ==
    ASSUME IInv, client # None, UNCHANGED <<attempt, serverVars, toServer, toClient>>,
           \/ client' = None
           \/ /\ client' \in Client
              /\ client'.slot = client.slot /\ client'.session = client.session
              /\ client'.peer = "CONNECTING" => client.peer = "CONNECTING"
              /\ client'.server => client'.peer \in {"CONNECTED", "DISCONNECTING"}
    PROVE  IInv'
<1>1. TypeOK'
  BY ClientTypes DEF IInv, TypeOK
<1>2. ClientIsOne'
  BY SilentIsOne DEF IInv
<1>3. SlotsHaveAnswered' /\ PastIsUsedUp' /\ RegisteredAreConnected'
  BY ServerHalfStays
<1> QED
  BY <1>1, <1>2, <1>3 DEF IInv, ServerIsThere

LEMMA VerifyIsSafe ==
    ASSUME IInv, NEW d \in toClient, ClientHandlesVerify(d)
    PROVE  IInv'
<1>1. /\ client # None /\ client \in Client
      /\ UNCHANGED <<attempt, serverVars, toClient>>
      /\ toServer' = toServer \cup
            {Datagram("ACKNOWLEDGE", attempt, client'.slot, client'.session)}
  BY DEF ClientHandlesVerify, Polls, IInv, TypeOK
<1>2. d.slot \in Slots \cup {None} /\ d.session \in 0 .. Sessions - 1
  BY DEF IInv, TypeOK, Datagrams
<1>3. CASE /\ client.peer = "CONNECTING"
           /\ client' = [client EXCEPT !.peer = "CONNECTED", !.slot = d.slot,
                                       !.session = d.session, !.server = TRUE]
  <2>1. client' \in Client /\ client'.peer = "CONNECTED"
    BY <1>1, <1>2, <1>3 DEF Client
  <2> QED
    BY <1>1, <1>3, <2>1, SendingIsSafe
<1>4. CASE client.peer = "CONNECTED" /\ UNCHANGED client
  BY <1>1, <1>4, SendingIsSafe
<1> QED
  BY <1>3, <1>4 DEF ClientHandlesVerify

LEMMA AskToJoinIsSafe ==
    ASSUME IInv, AskToJoin
    PROVE  IInv'
<1>1. /\ client # None /\ client \in Client /\ client.server
      /\ UNCHANGED <<attempt, serverVars, toClient>>
      /\ client' = [client EXCEPT !.askedConnection = TRUE]
  BY DEF AskToJoin, Polls, IInv, TypeOK
<1>2. client.peer \in {"CONNECTED", "DISCONNECTING"}
  BY <1>1 DEF IInv, ServerIsThere
<1>3. /\ client' \in Client /\ client'.peer = client.peer
      /\ client'.slot = client.slot /\ client'.session = client.session
  BY <1>1 DEF Client
<1>4. CASE toServer' = toServer
  BY <1>1, <1>2, <1>3, <1>4, SilenceIsSafe
<1>5. CASE toServer' = toServer \cup {ToSlot("SEND_RELIABLE")}
  <2>1. toServer' = toServer \cup
           {Datagram("SEND_RELIABLE", attempt, client'.slot, client'.session)}
    BY <1>3, <1>5 DEF ToSlot
  <2> QED
    BY <1>1, <1>2, <1>3, <2>1, SendingIsSafe
<1> QED
  BY <1>4, <1>5 DEF AskToJoin

LEMMA DisconnectIsSafe ==
    ASSUME IInv, Disconnect
    PROVE  IInv'
<1>1. client # None /\ client \in Client /\ UNCHANGED <<attempt, serverVars, toClient>>
  BY DEF Disconnect, IInv, TypeOK
<1>2. CASE client.server
  <2>1. client.peer \in {"CONNECTED", "DISCONNECTING"}
    BY <1>1, <1>2 DEF IInv, ServerIsThere
  <2>2. /\ client' = [client EXCEPT !.disconnecting = TRUE,
                         !.peer = IF @ = "CONNECTED" THEN "DISCONNECTING" ELSE @]
        /\ toServer' = IF client.peer = "CONNECTED"
                       THEN toServer \cup {ToSlot("DISCONNECT")} ELSE toServer
    BY <1>2 DEF Disconnect
  <2>3. /\ client' \in Client /\ client'.peer = "DISCONNECTING"
        /\ client'.slot = client.slot /\ client'.session = client.session
    BY <1>1, <2>1, <2>2 DEF Client
  <2>4. CASE toServer' = toServer
    BY <1>1, <2>3, <2>4, SilenceIsSafe
  <2>5. CASE toServer' = toServer \cup {ToSlot("DISCONNECT")}
    <3>1. toServer' = toServer \cup
             {Datagram("DISCONNECT", attempt, client'.slot, client'.session)}
      BY <2>3, <2>5 DEF ToSlot
    <3> QED
      BY <1>1, <2>1, <2>3, <3>1, SendingIsSafe
  <2> QED
    BY <2>2, <2>4, <2>5
<1>3. CASE ~client.server
  <2>1. client' = [client EXCEPT !.disconnected = TRUE] /\ toServer' = toServer
    BY <1>3 DEF Disconnect
  <2>2. /\ client' \in Client /\ client'.peer = client.peer /\ ~client'.server
        /\ client'.slot = client.slot /\ client'.session = client.session
    BY <1>1, <1>3, <2>1 DEF Client
  <2> QED
    BY <1>1, <2>1, <2>2, SilenceIsSafe
<1> QED
  BY <1>2, <1>3

\* The client's peer is reset, its timer is up, or it is gone.
LEMMA LeavingIsSafe ==
    ASSUME IInv, client # None, Disconnected \/ DisconnectTimer \/ Quits \/ Dies
    PROVE  IInv'
<1>1. client \in Client
  BY DEF IInv, TypeOK
<1>2. UNCHANGED <<attempt, serverVars, toServer, toClient>>
  BY DEF Disconnected, DisconnectTimer, Quits, Dies
<1>3. CASE Disconnected
  <2>1. /\ client' \in Client /\ client'.peer = "DISCONNECTED" /\ ~client'.server
        /\ client'.slot = client.slot /\ client'.session = client.session
    BY <1>1, <1>3 DEF Disconnected, Client
  <2> QED
    BY <1>2, <2>1, SilenceIsSafe
<1>4. CASE DisconnectTimer
  <2>1. /\ client' \in Client /\ client'.peer = client.peer
        /\ client'.server = client.server
        /\ client'.slot = client.slot /\ client'.session = client.session
    BY <1>1, <1>4 DEF DisconnectTimer, Client
  <2> QED
    BY <1>2, <2>1, SilenceIsSafe DEF IInv, ServerIsThere
<1>5. CASE Quits \/ Dies
  BY <1>2, <1>5, SilenceIsSafe DEF Quits, Dies
<1> QED
  BY <1>3, <1>4, <1>5

LEMMA ClientIsSafe ==
    ASSUME IInv, ClientStep
    PROVE  IInv'
<1>1. CASE \E d \in toClient : ClientHandlesVerify(d)
  BY <1>1, VerifyIsSafe
<1>2. CASE \/ ClientTimesOut \/ DisconnectTimer \/ Quits \/ Dies
           \/ \E d \in toClient : ClientHandlesAcknowledge(d)
  <2>1. client # None /\ (Disconnected \/ DisconnectTimer \/ Quits \/ Dies)
    BY <1>2 DEF ClientTimesOut, ClientHandlesAcknowledge, Polls, DisconnectTimer, Quits, Dies
  <2> QED
    BY <2>1, LeavingIsSafe
<1> QED
  BY <1>1, <1>2, ConnectIsSafe, AskToJoinIsSafe, DisconnectIsSafe DEF ClientStep

-----------------------------------------------------------------------------
(* The server *)

Reported == {"CONNECTED", "ACKNOWLEDGING_DISCONNECT", "ZOMBIE"}

\* What the server does leaves the client's half alone.
LEMMA ClientHalfStays ==
    ASSUME IInv, UNCHANGED <<attempt, client, toServer>>
    PROVE  ClientIsOne' /\ ServerIsThere'
  BY DEF IInv, ClientIsOne, Later, ServerIsThere

\* A slot is given to a connection: the answer has never been sent before.
LEMMA HandleConnectIsSafe ==
    ASSUME IInv, NEW d \in toServer, HandleConnect(d)
    PROVE  IInv'
<1> DEFINE s == Min(Free)
           session == NextSession(slots[s].session)
           answer == Verify(d.from, s, session)
           peer == [state |-> "ACKNOWLEDGING_CONNECT", from |-> d.from, session |-> session]
<1>1. /\ Free # {} /\ answer \notin Answers(d.from)
      /\ slots' = [slots EXCEPT ![s] = peer]
      /\ toClient' = toClient \cup {answer}
      /\ UNCHANGED <<attempt, client, registered, player, past, toServer>>
  BY DEF HandleConnect, Verify
<1>2. s \in Slots /\ slots[s].state = "DISCONNECTED"
  BY <1>1, MinIsThere DEF Free
<1>3. slots \in [Slots -> Peer] /\ slots[s] \in Peer /\ d.from \in Attempts /\ d.from # None
  BY <1>2, ConnectionAssumption DEF IInv, TypeOK, Datagrams, Attempts
<1>4. session \in 0 .. Sessions - 1
  BY <1>3, ConnectionAssumption DEF NextSession, Peer
<1>5. /\ answer.type = "VERIFY_CONNECT" /\ answer.from = d.from
      /\ answer \in Datagrams({"VERIFY_CONNECT", "ACKNOWLEDGE"})
  BY <1>2, <1>3, <1>4, DatagramFields, DatagramType DEF Verify
<1>6. answer \notin toClient
  BY <1>1, <1>5 DEF Answers
<1>7. peer \in Peer /\ peer.state = "ACKNOWLEDGING_CONNECT" /\ peer.from = d.from
      /\ peer.session = session
  BY <1>3, <1>4 DEF Peer
<1>8. answer = Verify(peer.from, s, peer.session)
  BY <1>7
<1> HIDE DEF s, session, answer, peer
<1>9. slots'[s] = peer /\ \A other \in Slots \ {s} : slots'[other] = slots[other]
  BY <1>1, <1>2, <1>3
<1>10. TypeOK'
  BY <1>1, <1>2, <1>5, <1>7 DEF IInv, TypeOK
<1>11. SlotsHaveAnswered'
  <2> SUFFICES ASSUME NEW other \in Slots
               PROVE  /\ slots'[other].from = None <=> slots'[other].state = "DISCONNECTED"
                      /\ slots'[other].state = "ACKNOWLEDGING_CONNECT" =>
                            Verify(slots'[other].from, other, slots'[other].session)
                               \in toClient'
    BY DEF SlotsHaveAnswered, Verify
  <2>1. CASE other = s
    BY <1>1, <1>3, <1>7, <1>8, <1>9, <2>1
  <2>2. CASE other # s
    BY <1>1, <1>9, <2>2 DEF IInv, SlotsHaveAnswered
  <2> QED
    BY <2>1, <2>2
<1>12. PastIsUsedUp'
  <2> SUFFICES ASSUME NEW a \in past
               PROVE  \E e \in Later(a) : /\ e.slot \in Slots
                                          /\ Verify(a, e.slot, e.session) \in toClient'
                                          /\ ~Awaits(e.slot, e)'
    BY <1>1 DEF PastIsUsedUp, Later, Verify
  <2>1. PICK e \in Later(a) : /\ e.slot \in Slots
                              /\ Verify(a, e.slot, e.session) \in toClient
                              /\ ~Awaits(e.slot, e)
    BY DEF IInv, PastIsUsedUp
  <2>2. e.from = a
    BY DEF Later
  <2>3. CASE e.slot = s
    <3>1. ~(peer.from = a /\ peer.session = e.session)
      BY <1>6, <1>8, <2>1, <2>3
    <3> QED
      BY <1>1, <1>9, <2>1, <2>2, <2>3, <3>1 DEF Awaits
  <2>4. CASE e.slot # s
    BY <1>1, <1>9, <2>1, <2>4 DEF Awaits
  <2> QED
    BY <2>3, <2>4
<1>13. RegisteredAreConnected'
  BY <1>1, <1>2, <1>7, <1>9 DEF IInv, RegisteredAreConnected
<1>14. ClientIsOne' /\ ServerIsThere'
  BY <1>1, ClientHalfStays
<1> QED
  BY <1>10, <1>11, <1>12, <1>13, <1>14 DEF IInv

\* Every other step of a slot leaves it in a state in which it does not wait
\* for the acknowledgement of an answer.
LEMMA SlotIsSafe ==
    ASSUME IInv, UNCHANGED <<attempt, client, toServer>>,
           NEW s \in Slots, NEW peer \in Peer, slots' = [slots EXCEPT ![s] = peer],
           peer.state # "ACKNOWLEDGING_CONNECT",
           peer.from = None <=> peer.state = "DISCONNECTED",
           registered' = IF peer.state \in Reported THEN registered \cup {s}
                                                    ELSE registered \ {s},
           player' \in [Slots -> Attempts \cup {None}],
           toClient \subseteq toClient',
           toClient' \subseteq Datagrams({"VERIFY_CONNECT", "ACKNOWLEDGE"}),
           past' \subseteq Attempts,
           \A a \in past' \ past : \E d \in Later(a) :
              d.slot = s /\ Verify(a, s, d.session) \in toClient
    PROVE  IInv'
<1>1. slots \in [Slots -> Peer]
  BY DEF IInv, TypeOK
<1>2. slots'[s] = peer /\ \A other \in Slots \ {s} : slots'[other] = slots[other]
  BY <1>1
<1>3. TypeOK'
  BY <1>1 DEF IInv, TypeOK
<1>4. SlotsHaveAnswered'
  <2> SUFFICES ASSUME NEW other \in Slots
               PROVE  /\ slots'[other].from = None <=> slots'[other].state = "DISCONNECTED"
                      /\ slots'[other].state = "ACKNOWLEDGING_CONNECT" =>
                            Verify(slots'[other].from, other, slots'[other].session)
                               \in toClient'
    BY DEF SlotsHaveAnswered, Verify
  <2> QED
    BY <1>2 DEF IInv, SlotsHaveAnswered
<1>5. PastIsUsedUp'
  <2> SUFFICES ASSUME NEW a \in past'
               PROVE  \E e \in Later(a) : /\ e.slot \in Slots
                                          /\ Verify(a, e.slot, e.session) \in toClient'
                                          /\ ~Awaits(e.slot, e)'
    BY DEF PastIsUsedUp, Later, Verify
  <2>1. PICK e \in Later(a) : /\ e.slot \in Slots
                              /\ Verify(a, e.slot, e.session) \in toClient
                              /\ e.slot = s \/ ~Awaits(e.slot, e)
    BY DEF IInv, PastIsUsedUp
  <2>2. ~Awaits(e.slot, e)'
    BY <1>2, <2>1 DEF Awaits
  <2> QED
    BY <2>1, <2>2
<1>6. RegisteredAreConnected'
  BY <1>2 DEF IInv, RegisteredAreConnected, Reported
<1>7. ClientIsOne' /\ ServerIsThere'
  BY ClientHalfStays
<1> QED
  BY <1>3, <1>4, <1>5, <1>6, <1>7 DEF IInv

LEMMA ServerTypes ==
    ASSUME IInv
    PROVE  /\ slots \in [Slots -> Peer] /\ past \subseteq Attempts
           /\ player \in [Slots -> Attempts \cup {None}]
           /\ toClient \subseteq Datagrams({"VERIFY_CONNECT", "ACKNOWLEDGE"})
           /\ registered = {s \in Slots : slots[s].state \in Reported}
           /\ \A s \in Slots : slots[s].from = None <=> slots[s].state = "DISCONNECTED"
  BY DEF IInv, TypeOK, RegisteredAreConnected, SlotsHaveAnswered, Reported

LEMMA AcknowledgeIsSafe ==
    ASSUME IInv, NEW s \in Slots, NEW d \in toServer, HandleAcknowledge(d, s)
    PROVE  IInv'
<1> DEFINE peer == [slots[s] EXCEPT !.state = "CONNECTED"]
<1>1. /\ d.type = "ACKNOWLEDGE" /\ d.slot = s /\ d.from = slots[s].from
      /\ d.session = slots[s].session /\ slots[s].state = "ACKNOWLEDGING_CONNECT"
      /\ slots' = [slots EXCEPT ![s] = peer] /\ registered' = registered \cup {s}
      /\ player' = [player EXCEPT ![s] = None] /\ past' = past \cup {d.from}
      /\ UNCHANGED <<attempt, client, toServer, toClient>>
  BY DEF HandleAcknowledge, Concerns, SameSession
<1>2. /\ peer \in Peer /\ peer.state = "CONNECTED" /\ peer.from = slots[s].from
      /\ peer.from # None
  BY <1>1, ServerTypes DEF Peer
<1>3. d.from \in Attempts
  BY DEF IInv, TypeOK, Datagrams
<1>4. d \in Later(d.from) /\ Verify(d.from, s, d.session) \in toClient
  BY <1>1 DEF Later, IInv, SlotsHaveAnswered
<1>5. player' \in [Slots -> Attempts \cup {None}]
  BY <1>1, ServerTypes
<1> HIDE DEF peer
<1> QED
  BY <1>1, <1>2, <1>3, <1>4, <1>5, ServerTypes, SlotIsSafe DEF Reported

LEMMA SendReliableIsSafe ==
    ASSUME IInv, NEW s \in Slots, NEW d \in toServer, HandleSendReliable(d, s)
    PROVE  IInv'
<1>1. /\ UNCHANGED <<attempt, client, slots, registered, past, toServer, toClient>>
      /\ player' = [player EXCEPT ![s] = d.from]
  BY DEF HandleSendReliable
<1>2. d.from \in Attempts
  BY DEF IInv, TypeOK, Datagrams
<1>3. TypeOK'
  BY <1>1, <1>2 DEF IInv, TypeOK
<1>4. SlotsHaveAnswered' /\ RegisteredAreConnected' /\ PastIsUsedUp'
  BY <1>1 DEF IInv, SlotsHaveAnswered, RegisteredAreConnected, PastIsUsedUp, Later, Awaits
<1>5. ClientIsOne' /\ ServerIsThere'
  BY <1>1, ClientHalfStays
<1> QED
  BY <1>3, <1>4, <1>5 DEF IInv

\* enet_peer_reset, whether the slot was reported or not.
LEMMA ResetIsSafe ==
    ASSUME IInv, NEW s \in Slots, ResetPeer(s), registered' = registered \ {s},
           player' \in [Slots -> Attempts \cup {None}],
           UNCHANGED <<attempt, client, past, toServer, toClient>>
    PROVE  IInv'
<1> DEFINE peer == [slots[s] EXCEPT !.state = "DISCONNECTED", !.from = None]
<1>1. /\ slots' = [slots EXCEPT ![s] = peer]
      /\ peer \in Peer /\ peer.state = "DISCONNECTED" /\ peer.from = None
  BY ServerTypes DEF ResetPeer, Peer
<1> HIDE DEF peer
<1> QED
  BY <1>1, ServerTypes, SlotIsSafe DEF Reported

\* A slot that was not reported is reset.
LEMMA UnreportedIsSafe ==
    ASSUME IInv, NEW s \in Slots, slots[s].state = "ACKNOWLEDGING_CONNECT", ResetPeer(s),
           UNCHANGED <<attempt, client, registered, player, past, toServer, toClient>>
    PROVE  IInv'
<1>1. registered' = registered \ {s}
  BY ServerTypes DEF Reported
<1> QED
  BY <1>1, ServerTypes, ResetIsSafe

LEMMA EventIsSafe ==
    ASSUME IInv, NEW s \in Slots, DisconnectEvent(s)
    PROVE  IInv'
<1>1. player' \in [Slots -> Attempts \cup {None}]
  BY ServerTypes DEF DisconnectEvent
<1> QED
  BY <1>1, ResetIsSafe DEF DisconnectEvent

LEMMA HandleDisconnectIsSafe ==
    ASSUME IInv, NEW s \in Slots, NEW d \in toServer, HandleDisconnect(d, s)
    PROVE  IInv'
<1>1. UNCHANGED <<attempt, client, registered, player, past, toServer, toClient>>
  BY DEF HandleDisconnect
<1>2. CASE /\ slots[s].state = "CONNECTED"
           /\ slots' = [slots EXCEPT ![s].state = "ACKNOWLEDGING_DISCONNECT"]
  <2> DEFINE peer == [slots[s] EXCEPT !.state = "ACKNOWLEDGING_DISCONNECT"]
  <2>1. /\ slots' = [slots EXCEPT ![s] = peer] /\ peer \in Peer
        /\ peer.state = "ACKNOWLEDGING_DISCONNECT" /\ peer.from = slots[s].from
        /\ peer.from # None
    BY <1>2, ServerTypes DEF Peer
  <2>2. registered' = registered \cup {s}
    BY <1>1, <1>2, ServerTypes DEF Reported
  <2> HIDE DEF peer
  <2> QED
    BY <1>1, <2>1, <2>2, ServerTypes, SlotIsSafe DEF Reported
<1>3. CASE slots[s].state = "ACKNOWLEDGING_CONNECT" /\ ResetPeer(s)
  BY <1>1, <1>3, UnreportedIsSafe
<1> QED
  BY <1>2, <1>3 DEF HandleDisconnect

LEMMA AcknowledgeDisconnectIsSafe ==
    ASSUME IInv, NEW s \in Slots, AcknowledgeDisconnect(s)
    PROVE  IInv'
<1> DEFINE peer == [slots[s] EXCEPT !.state = "ZOMBIE"]
           x == Datagram("ACKNOWLEDGE", slots[s].from, s, slots[s].session)
<1>1. /\ slots[s].state = "ACKNOWLEDGING_DISCONNECT"
      /\ slots' = [slots EXCEPT ![s] = peer] /\ toClient' = toClient \cup {x}
      /\ UNCHANGED <<attempt, client, registered, player, past, toServer>>
  BY DEF AcknowledgeDisconnect
<1>2. /\ peer \in Peer /\ peer.state = "ZOMBIE" /\ peer.from = slots[s].from
      /\ peer.from # None
  BY <1>1, ServerTypes DEF Peer
<1>3. registered' = registered \cup {s}
  BY <1>1, ServerTypes DEF Reported
<1>4. slots[s].from \in Attempts /\ slots[s].session \in 0 .. Sessions - 1
  BY <1>1, ServerTypes DEF Peer
<1>5. x \in Datagrams({"VERIFY_CONNECT", "ACKNOWLEDGE"})
  BY <1>4, DatagramType
<1> HIDE DEF peer, x
<1> QED
  BY <1>1, <1>2, <1>3, <1>5, ServerTypes, SlotIsSafe DEF Reported

LEMMA ServerIsSafe ==
    ASSUME IInv, ServerStep
    PROVE  IInv'
<1>1. CASE \E d \in toServer : HandleConnect(d)
  BY <1>1, HandleConnectIsSafe
<1>2. CASE \E s \in Slots, d \in toServer :
              HandleAcknowledge(d, s) \/ HandleSendReliable(d, s) \/ HandleDisconnect(d, s)
  BY <1>2, AcknowledgeIsSafe, SendReliableIsSafe, HandleDisconnectIsSafe
<1>3. CASE \E s \in Slots : AcknowledgeDisconnect(s)
  BY <1>3, AcknowledgeDisconnectIsSafe
<1>4. CASE \E s \in Slots : DispatchZombie(s) \/ ServerTimesOut(s)
  <2>1. PICK s \in Slots :
           \/ DisconnectEvent(s)
           \/ /\ slots[s].state = "ACKNOWLEDGING_CONNECT" /\ ResetPeer(s)
              /\ UNCHANGED <<attempt, client, registered, player, past, toServer, toClient>>
    BY <1>4 DEF DispatchZombie, ServerTimesOut
  <2> QED
    BY <2>1, EventIsSafe, UnreportedIsSafe
<1> QED
  BY <1>1, <1>2, <1>3, <1>4 DEF ServerStep

-----------------------------------------------------------------------------
(* Both *)

LEMMA NextIsSafe == IInv /\ [Next]_vars => IInv'
<1> SUFFICES ASSUME IInv, [Next]_vars
             PROVE  IInv'
  OBVIOUS
<1>1. CASE UNCHANGED vars
  <2>1. UNCHANGED <<attempt, client, slots, registered, player, past, toServer, toClient>>
    BY <1>1 DEF vars
  <2> QED
    BY <2>1 DEF IInv, TypeOK, ClientIsOne, Later, SlotsHaveAnswered, PastIsUsedUp, Awaits,
                ServerIsThere, RegisteredAreConnected
<1> QED
  BY <1>1, ClientIsSafe, ServerIsSafe DEF Next

\* The invariant: what the datagrams say of the connections so far.
THEOREM ConnectionInvariant == Spec => []IInv
<1>1. Init => IInv
  BY InitIsSafe
<1>2. IInv /\ [Next]_vars => IInv'
  BY NextIsSafe
<1> QED
  BY <1>1, <1>2, PTL DEF Spec

\* Type correctness.
THEOREM ConnectionTypeCorrect == Spec => []TypeOK
<1>1. IInv => TypeOK
  BY DEF IInv
<1> QED
  BY <1>1, ConnectionInvariant, PTL

\* Host::peers: the slots it has are those whose DISCONNECT event is to come.
THEOREM RegisteredStayConnected == Spec => []RegisteredAreConnected
<1>1. IInv => RegisteredAreConnected
  BY DEF IInv
<1> QED
  BY <1>1, ConnectionInvariant, PTL

\* MultiplayerCore::server: the peer it points at has not been reset, and a
\* client that is still connecting is not counted as connected.
THEOREM ServerPointerStaysLive == Spec => []ServerPointerIsLive
<1>1. IInv => ServerPointerIsLive
  <2> SUFFICES ASSUME IInv, client # None, client.peer = "CONNECTING", attempt \in past
               PROVE  FALSE
    BY DEF IInv, ServerIsThere, ServerPointerIsLive
  <2>1. PICK d \in Later(attempt) : d.slot \in Slots
    BY DEF IInv, PastIsUsedUp
  <2> QED
    BY <2>1 DEF IInv, ClientIsOne
<1> QED
  BY <1>1, ConnectionInvariant, PTL

-----------------------------------------------------------------------------
(* The events of the host *)

\* Registered slots have a connection.
LEMMA AttachedIs ==
    ASSUME IInv, NEW s \in Slots
    PROVE  /\ slots[s].state \in Reported => /\ Attached[s] = slots[s].from
                                            /\ Attached[s] # None
           /\ slots[s].state \notin Reported => Attached[s] = None
  BY ServerTypes DEF Attached, Reported

\* A CONNECT event is of a connection that was never reported.
LEMMA ConnectIsNew ==
    ASSUME IInv, NEW s \in Slots, NEW d \in toServer, HandleAcknowledge(d, s)
    PROVE  d.from \notin past
<1>1. /\ d \in Later(d.from) /\ d.slot = s /\ Awaits(s, d)
      /\ d.from \in Attempts
  BY DEF HandleAcknowledge, Concerns, SameSession, Later, Awaits, IInv, TypeOK, Datagrams
<1>2. ASSUME d.from \in past
      PROVE  FALSE
  <2>1. PICK e \in Later(d.from) : ~Awaits(e.slot, e)
    BY <1>2 DEF IInv, PastIsUsedUp
  <2>2. e.slot = s /\ e.session = d.session /\ e.from = d.from
    BY <1>1 DEF IInv, ClientIsOne, Later
  <2> QED
    BY <1>1, <2>1, <2>2 DEF Awaits
<1> QED
  BY <1>2

\* A step changes what at most one slot has reported.
LEMMA AttachedExcept ==
    ASSUME NEW s \in Slots, NEW a,
           s \in registered' => slots'[s].from = a,
           s \notin registered' => a = None,
           \A other \in Slots \ {s} : /\ slots'[other] = slots[other]
                                      /\ other \in registered' <=> other \in registered
    PROVE  Attached' = [Attached EXCEPT ![s] = a]
<1> DEFINE Value(o) == IF o \in registered THEN slots[o].from ELSE None
           NextValue(o) == IF o \in registered' THEN slots'[o].from ELSE None
<1>1. Attached = [o \in Slots |-> Value(o)] /\ Attached' = [o \in Slots |-> NextValue(o)]
  BY DEF Attached
<1>2. NextValue(s) = a
  OBVIOUS
<1>3. \A o \in Slots \ {s} : NextValue(o) = Value(o)
  OBVIOUS
<1> HIDE DEF Value, NextValue
<1> QED
  BY <1>1, <1>2, <1>3

LEMMA AcknowledgeIsEvent ==
    ASSUME IInv, NEW s \in Slots, NEW d \in toServer, HandleAcknowledge(d, s)
    PROVE  Events!Next(Attempts)
<1>1. /\ slots[s].state = "ACKNOWLEDGING_CONNECT" /\ d.from = slots[s].from
      /\ slots' = [slots EXCEPT ![s].state = "CONNECTED"]
      /\ registered' = registered \cup {s}
      /\ player' = [player EXCEPT ![s] = None] /\ past' = past \cup {d.from}
  BY DEF HandleAcknowledge, Concerns
<1>2. d.from \in Attempts /\ d.from # None /\ d.from \notin past
  BY ConnectIsNew, ConnectionAssumption DEF IInv, TypeOK, Datagrams, Attempts
<1>3. Attached[s] = None
  BY <1>1, AttachedIs DEF Reported
<1>4. Attached' = [Attached EXCEPT ![s] = d.from]
  <2>1. slots'[s].from = d.from
    BY <1>1, ServerTypes DEF Peer
  <2>2. \A other \in Slots \ {s} : slots'[other] = slots[other]
    BY <1>1, ServerTypes
  <2> QED
    BY <1>1, <2>1, <2>2, AttachedExcept
<1>5. Events!ConnectEvent(s, d.from)
  BY <1>1, <1>2, <1>3, <1>4 DEF Events!ConnectEvent
<1> QED
  BY <1>2, <1>5 DEF Events!Next

LEMMA SendReliableIsEvent ==
    ASSUME IInv, NEW s \in Slots, NEW d \in toServer, HandleSendReliable(d, s)
    PROVE  Events!Next(Attempts)
<1>1. /\ slots[s].state = "CONNECTED" /\ d.from = slots[s].from
      /\ player' = [player EXCEPT ![s] = d.from]
      /\ UNCHANGED <<slots, registered, past>>
  BY DEF HandleSendReliable, Concerns
<1>2. Attached[s] = d.from /\ Attached[s] # None
  BY <1>1, AttachedIs DEF Reported
<1>3. Attached' = Attached
  BY <1>1 DEF Attached
<1>4. Events!JoinEvent(s)
  BY <1>1, <1>2, <1>3 DEF Events!JoinEvent
<1> QED
  BY <1>4 DEF Events!Next

LEMMA DisconnectIsEvent ==
    ASSUME IInv, NEW s \in Slots, slots[s].state \in Reported, DisconnectEvent(s)
    PROVE  Events!Next(Attempts)
<1>1. /\ slots' = [slots EXCEPT ![s].state = "DISCONNECTED", ![s].from = None]
      /\ registered' = registered \ {s}
      /\ player' = [player EXCEPT ![s] = None] /\ past' = past
  BY DEF DisconnectEvent, ResetPeer
<1>2. Attached[s] # None
  BY AttachedIs
<1>3. Attached' = [Attached EXCEPT ![s] = None]
  <2>1. \A other \in Slots \ {s} : slots'[other] = slots[other]
    BY <1>1, ServerTypes
  <2> QED
    BY <1>1, <2>1, AttachedExcept
<1>4. Events!DisconnectEvent(s)
  BY <1>1, <1>2, <1>3 DEF Events!DisconnectEvent
<1> QED
  BY <1>4 DEF Events!Next

\* Every other step of the server's peers is no event.
LEMMA NoEvent ==
    ASSUME IInv, NEW s \in Slots, NEW peer, slots' = [slots EXCEPT ![s] = peer],
           slots[s].state \in Reported => peer.from = slots[s].from,
           UNCHANGED <<registered, player, past>>
    PROVE  UNCHANGED Events!vars
<1>1. \A other \in Slots \ {s} : slots'[other] = slots[other]
  BY ServerTypes
<1>2. s \in registered => slots'[s].from = slots[s].from
  BY ServerTypes
<1>3. Attached' = Attached
  BY <1>1, <1>2 DEF Attached
<1> QED
  BY <1>3 DEF Events!vars

LEMMA ServerEvents ==
    ASSUME IInv, ServerStep
    PROVE  Events!Next(Attempts) \/ UNCHANGED Events!vars
<1>1. ASSUME NEW d \in toServer, HandleConnect(d)
      PROVE  UNCHANGED Events!vars
  <2> DEFINE s == Min(Free)
             peer == [state |-> "ACKNOWLEDGING_CONNECT", from |-> d.from,
                      session |-> NextSession(slots[s].session)]
  <2>1. /\ Free # {} /\ slots' = [slots EXCEPT ![s] = peer]
        /\ UNCHANGED <<registered, player, past>>
    BY <1>1 DEF HandleConnect
  <2>2. s \in Slots /\ slots[s].state = "DISCONNECTED"
    BY <2>1, MinIsThere DEF Free
  <2> HIDE DEF s, peer
  <2> QED
    BY <2>1, <2>2, NoEvent DEF Reported
<1>2. ASSUME NEW s \in Slots, NEW d \in toServer, HandleDisconnect(d, s)
      PROVE  UNCHANGED Events!vars
  <2>1. UNCHANGED <<registered, player, past>>
    BY <1>2 DEF HandleDisconnect
  <2>2. CASE slots[s].state = "ACKNOWLEDGING_CONNECT" /\ ResetPeer(s)
    BY <2>1, <2>2, NoEvent DEF ResetPeer, Reported
  <2>3. CASE slots' = [slots EXCEPT ![s].state = "ACKNOWLEDGING_DISCONNECT"]
    <3> DEFINE peer == [slots[s] EXCEPT !.state = "ACKNOWLEDGING_DISCONNECT"]
    <3>1. slots' = [slots EXCEPT ![s] = peer] /\ peer.from = slots[s].from
      BY <2>3, ServerTypes DEF Peer
    <3> HIDE DEF peer
    <3> QED
      BY <2>1, <3>1, NoEvent
  <2> QED
    BY <1>2, <2>2, <2>3 DEF HandleDisconnect
<1>3. ASSUME NEW s \in Slots, AcknowledgeDisconnect(s)
      PROVE  UNCHANGED Events!vars
  <2> DEFINE peer == [slots[s] EXCEPT !.state = "ZOMBIE"]
  <2>1. /\ slots' = [slots EXCEPT ![s] = peer] /\ peer.from = slots[s].from
        /\ UNCHANGED <<registered, player, past>>
    BY <1>3, ServerTypes DEF AcknowledgeDisconnect, Peer
  <2> HIDE DEF peer
  <2> QED
    BY <2>1, NoEvent
<1>4. ASSUME NEW s \in Slots, DispatchZombie(s) \/ ServerTimesOut(s)
      PROVE  Events!Next(Attempts) \/ UNCHANGED Events!vars
  <2>1. CASE slots[s].state \in Reported /\ DisconnectEvent(s)
    BY <2>1, DisconnectIsEvent
  <2>2. CASE /\ slots[s].state = "ACKNOWLEDGING_CONNECT" /\ ResetPeer(s)
             /\ UNCHANGED <<registered, player, past>>
    BY <2>2, NoEvent DEF ResetPeer, Reported
  <2> QED
    BY <1>4, <2>1, <2>2 DEF DispatchZombie, ServerTimesOut, Reported
<1>5. CASE \E s \in Slots, d \in toServer : HandleAcknowledge(d, s) \/ HandleSendReliable(d, s)
  BY <1>5, AcknowledgeIsEvent, SendReliableIsEvent
<1> QED
  BY <1>1, <1>2, <1>3, <1>4, <1>5 DEF ServerStep

\* What the client does is no event of the server's.
LEMMA ClientHasNoEvents ==
    ASSUME UNCHANGED serverVars
    PROVE  UNCHANGED Events!vars
  BY DEF serverVars, Events!vars, Attached

LEMMA ClientKeepsServer ==
    ASSUME ClientStep
    PROVE  UNCHANGED serverVars
  BY DEF ClientStep, Connect, AskToJoin, Disconnect, ClientTimesOut, Disconnected,
         DisconnectTimer, Quits, Dies, ClientHandlesVerify, ClientHandlesAcknowledge

\* The refinement: tg::Host's events, over any network, are those that
\* ServerExec::poll is written for.
THEOREM EventsStayInOrder == Spec => EventsAreInOrder
<1>1. Init => Events!Init
  BY DEF Init, Events!Init, Attached
<1>2. IInv /\ [Next]_vars => [Events!Next(Attempts)]_Events!vars
  <2> SUFFICES ASSUME IInv, [Next]_vars
               PROVE  [Events!Next(Attempts)]_Events!vars
    OBVIOUS
  <2>1. CASE UNCHANGED vars
    <3>1. UNCHANGED serverVars
      BY <2>1 DEF vars, serverVars
    <3> QED
      BY <3>1, ClientHasNoEvents
  <2>2. CASE ClientStep
    BY <2>2, ClientKeepsServer, ClientHasNoEvents
  <2>3. CASE ServerStep
    BY <2>3, ServerEvents
  <2> QED
    BY <2>1, <2>2, <2>3 DEF Next
<1> QED
  BY <1>1, <1>2, ConnectionInvariant, PTL DEF Spec, EventsAreInOrder
=============================================================================
