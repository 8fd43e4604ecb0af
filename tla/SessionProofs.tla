------------------------------ MODULE SessionProofs ------------------------------
(***************************************************************************)
(* SessionInv is an inductive invariant of Spec, for any number of peers,  *)
(* any environments, nicknames and commands, and queues of any length:     *)
(* what polling, sending and breaking a link do to the queues of Network,  *)
(* then the server's steps, then the clients'.                             *)
(*                                                                         *)
(* After it come three facts about the arena's players.  As long as no     *)
(* user asks for a nickname with a number of its own, no two of them have  *)
(* the same nickname; nothing but "auth" and a change of nickname makes    *)
(* one of them an admin; and a session implements Membership.              *)
(***************************************************************************)
EXTENDS SessionInvariants, ArenaProofs, SequenceTheorems

-----------------------------------------------------------------------------
(* Queues *)

LEMMA TailFacts ==
    ASSUME NEW S, NEW q \in Seq(S), q # <<>>
    PROVE  /\ Head(q) \in S /\ Head(q) = q[1]
           /\ Tail(q) \in Seq(S)
           /\ Len(q) \in Nat \ {0} /\ Len(Tail(q)) = Len(q) - 1
           /\ DOMAIN q = 1 .. Len(q) /\ DOMAIN Tail(q) = 1 .. Len(q) - 1
           /\ \A i \in 1 .. Len(q) - 1 : Tail(q)[i] = q[i + 1]
OBVIOUS

LEMMA AppendFacts ==
    ASSUME NEW S, NEW q \in Seq(S), NEW e \in S
    PROVE  /\ Append(q, e) \in Seq(S)
           /\ Len(q) \in Nat /\ Len(Append(q, e)) = Len(q) + 1
           /\ DOMAIN q = 1 .. Len(q) /\ DOMAIN Append(q, e) = 1 .. Len(q) + 1
           /\ \A i \in 1 .. Len(q) : Append(q, e)[i] = q[i]
           /\ Append(q, e)[Len(q) + 1] = e
OBVIOUS

LEMMA PrefixFacts ==
    ASSUME NEW S, NEW q \in Seq(S), NEW n \in 0 .. Len(q)
    PROVE  /\ SubSeq(q, 1, n) \in Seq(S)
           /\ Len(SubSeq(q, 1, n)) = n
           /\ \A i \in 1 .. n : SubSeq(q, 1, n)[i] = q[i]
OBVIOUS

LEMMA ConcatFacts ==
    ASSUME NEW S, NEW q \in Seq(S), NEW r \in Seq(S), NEW s, s = q \o r
    PROVE  /\ s \in Seq(S)
           /\ DOMAIN q = 1 .. Len(q) /\ Len(q) \in Nat
           /\ DOMAIN s = 1 .. Len(s) /\ Len(s) \in Nat
           /\ Len(s) >= Len(q)
           /\ \A i \in DOMAIN q : s[i] = q[i]
           /\ \A i \in DOMAIN s \ DOMAIN q :
                 i - Len(q) \in DOMAIN r /\ s[i] = r[i - Len(q)]
<1>1. /\ Len(q) \in Nat /\ Len(r) \in Nat
      /\ DOMAIN q = 1 .. Len(q) /\ DOMAIN r = 1 .. Len(r)
      /\ s \in Seq(S) /\ Len(s) = Len(q) + Len(r) /\ DOMAIN s = 1 .. Len(s)
  OBVIOUS
<1>2. /\ \A i \in 1 .. Len(q) : s[i] = q[i]
      /\ \A i \in Len(q) + 1 .. Len(q) + Len(r) : s[i] = r[i - Len(q)]
  OBVIOUS
<1> QED
  BY <1>1, <1>2

Outgoing == [Peers -> Seq(ServerPacket)]

\* What Transmit leaves on its way to c: what was there, in its place, and
\* behind it, if the link is open, what is sent.
LEMMA TransmitFacts ==
    ASSUME down \in Outgoing, NEW out \in Outgoing, Transmit(out), NEW c \in Peers
    PROVE  /\ down' \in Outgoing
           /\ link[c] # "open" => down'[c] = down[c]
           /\ DOMAIN down[c] = 1 .. Len(down[c]) /\ Len(down[c]) \in Nat
           /\ DOMAIN down'[c] = 1 .. Len(down'[c]) /\ Len(down'[c]) \in Nat
           /\ Len(down'[c]) >= Len(down[c])
           /\ \A i \in DOMAIN down[c] : down'[c][i] = down[c][i]
           /\ \A i \in DOMAIN down'[c] \ DOMAIN down[c] :
                 /\ link[c] = "open"
                 /\ i - Len(down[c]) \in DOMAIN out[c]
                 /\ down'[c][i] = out[c][i - Len(down[c])]
<1>1. down'[c] = IF link[c] = "open" THEN down[c] \o out[c] ELSE down[c]
  BY DEF Transmit
<1>2. down[c] \in Seq(ServerPacket) /\ out[c] \in Seq(ServerPacket)
  BY DEF Outgoing
<1>3. \A x \in Peers : down[x] \o out[x] \in Seq(ServerPacket)
  BY DEF Outgoing
<1>4. down' \in Outgoing
  BY <1>3 DEF Transmit, Outgoing
<1>5. CASE link[c] = "open"
  <2>1. down'[c] = down[c] \o out[c]
    BY <1>1, <1>5
  <2> DEFINE q == down[c]
             r == out[c]
             s == down'[c]
  <2>2. q \in Seq(ServerPacket) /\ r \in Seq(ServerPacket) /\ s = q \o r
    BY <1>2, <2>1
  <2> HIDE DEF q, r, s
  <2>3. /\ DOMAIN q = 1 .. Len(q) /\ Len(q) \in Nat
        /\ DOMAIN s = 1 .. Len(s) /\ Len(s) \in Nat
        /\ Len(s) >= Len(q)
        /\ \A i \in DOMAIN q : s[i] = q[i]
        /\ \A i \in DOMAIN s \ DOMAIN q :
              i - Len(q) \in DOMAIN r /\ s[i] = r[i - Len(q)]
    BY <2>2, ConcatFacts
  <2> QED
    BY <1>4, <1>5, <2>3 DEF q, r, s
<1>6. CASE link[c] # "open"
  <2>1. down'[c] = down[c]
    BY <1>1, <1>6
  <2>2. DOMAIN down[c] = 1 .. Len(down[c]) /\ Len(down[c]) \in Nat
    BY <1>2
  <2> QED
    BY <1>4, <1>6, <2>1, <2>2
<1> QED
  BY <1>5, <1>6

-----------------------------------------------------------------------------
(* The events on their way to the server *)

UpOK == up \in [Peers -> Seq(ClientPacket)] /\ \A c \in Peers : UpShape(c)

\* An event that is neither the first nor the last of a connection comes
\* from an attached peer, and polling it keeps the queues in shape.
LEMMA PolledEvent ==
    ASSUME SessionInv, NEW c \in Peers, up[c] # <<>>,
           Head(up[c]).type \notin {"CONNECT", "DISCONNECT"},
           up' = [up EXCEPT ![c] = Tail(@)], link' = link, attached' = attached
    PROVE  attached[c] /\ UpOK' /\ Head(up[c]) \in ClientPacket
<1>1. up \in [Peers -> Seq(ClientPacket)]
  BY DEF SessionInv, TypeOK
<1>2. \A x \in Peers : UpShape(x)
  BY DEF SessionInv
<1> DEFINE q == up[c]
<1>3. q \in Seq(ClientPacket) /\ q # <<>>
  BY <1>1
<1> HIDE DEF q
<1>4. /\ Head(q) \in ClientPacket /\ Head(q) = q[1]
      /\ Tail(q) \in Seq(ClientPacket)
      /\ Len(q) \in Nat \ {0} /\ Len(Tail(q)) = Len(q) - 1
      /\ DOMAIN q = 1 .. Len(q) /\ DOMAIN Tail(q) = 1 .. Len(q) - 1
      /\ \A i \in 1 .. Len(q) - 1 : Tail(q)[i] = q[i + 1]
  BY <1>3, TailFacts
<1>5. attached[c] /\ Head(up[c]) \in ClientPacket
  BY <1>2, <1>3, <1>4 DEF UpShape, q
<1>6. up' \in [Peers -> Seq(ClientPacket)]
  BY <1>1, <1>4 DEF q
<1>7. up'[c] = Tail(q)
  BY <1>1 DEF q
<1>8. UpShape(c)'
  BY <1>2, <1>4, <1>5, <1>7 DEF UpShape, q
<1>9. ASSUME NEW x \in Peers, x # c
      PROVE  UpShape(x)'
  <2>1. up'[x] = up[x] /\ UpShape(x)
    BY <1>1, <1>2, <1>9
  <2> QED
    BY <2>1 DEF UpShape
<1> QED
  BY <1>5, <1>6, <1>8, <1>9 DEF UpOK

\* The first and the last event of a connection.
LEMMA PolledConnect ==
    ASSUME SessionInv, NEW c \in Peers, up[c] # <<>>, Head(up[c]).type = "CONNECT",
           up' = [up EXCEPT ![c] = Tail(@)], link' = link,
           attached' = [attached EXCEPT ![c] = TRUE]
    PROVE  ~attached[c] /\ UpOK'
<1>1. /\ up \in [Peers -> Seq(ClientPacket)] /\ attached \in [Peers -> BOOLEAN]
      /\ UpShape(c)
  BY DEF SessionInv, TypeOK
<1> DEFINE q == up[c]
<1>2. q \in Seq(ClientPacket) /\ q # <<>>
  BY <1>1
<1> HIDE DEF q
<1>3. /\ Head(q) = q[1] /\ Tail(q) \in Seq(ClientPacket)
      /\ Len(q) \in Nat \ {0} /\ Len(Tail(q)) = Len(q) - 1
      /\ DOMAIN q = 1 .. Len(q) /\ DOMAIN Tail(q) = 1 .. Len(q) - 1
      /\ \A i \in 1 .. Len(q) - 1 : Tail(q)[i] = q[i + 1]
  BY <1>2, TailFacts
<1>4. ~attached[c]
  BY <1>1, <1>2, <1>3 DEF UpShape, q
<1>5. up' \in [Peers -> Seq(ClientPacket)] /\ up'[c] = Tail(q)
  BY <1>1, <1>3 DEF q
<1>6. UpShape(c)'
  BY <1>1, <1>3, <1>5 DEF UpShape, q
<1>7. ASSUME NEW x \in Peers, x # c
      PROVE  UpShape(x)'
  <2>1. up'[x] = up[x] /\ attached'[x] = attached[x] /\ UpShape(x)
    BY <1>1, <1>7 DEF SessionInv
  <2> QED
    BY <2>1 DEF UpShape
<1> QED
  BY <1>4, <1>5, <1>6, <1>7 DEF UpOK

LEMMA PolledDisconnect ==
    ASSUME SessionInv, NEW c \in Peers, up[c] # <<>>, Head(up[c]).type = "DISCONNECT",
           up' = [up EXCEPT ![c] = Tail(@)], link' = link,
           attached' = [attached EXCEPT ![c] = FALSE]
    PROVE  link[c] = "down" /\ UpOK'
<1>1. /\ up \in [Peers -> Seq(ClientPacket)] /\ attached \in [Peers -> BOOLEAN]
      /\ UpShape(c)
  BY DEF SessionInv, TypeOK
<1> DEFINE q == up[c]
<1>2. q \in Seq(ClientPacket) /\ q # <<>>
  BY <1>1
<1> HIDE DEF q
<1>3. /\ Head(q) = q[1] /\ Tail(q) \in Seq(ClientPacket)
      /\ Len(q) \in Nat \ {0} /\ Len(Tail(q)) = Len(q) - 1
      /\ DOMAIN q = 1 .. Len(q) /\ DOMAIN Tail(q) = 1 .. Len(q) - 1
  BY <1>2, TailFacts
<1>4. link[c] = "down" /\ Len(q) = 1
  <2>1. 1 \in DOMAIN q /\ q[1].type = "DISCONNECT"
    BY <1>3 DEF q
  <2>2. \A i \in DOMAIN q :
           q[i].type = "DISCONNECT" => i = Len(q) /\ link[c] = "down"
    BY <1>1 DEF UpShape, q
  <2> QED
    BY <2>1, <2>2
<1>5. up' \in [Peers -> Seq(ClientPacket)] /\ up'[c] = Tail(q)
  BY <1>1, <1>3 DEF q
<1>6. UpShape(c)'
  <2>1. \A i \in DOMAIN up'[c] : FALSE
    <3>1. DOMAIN Tail(q) = {}
      BY <1>3, <1>4
    <3> QED
      BY <1>5, <3>1
  <2>2. up'[c] = <<>>
    <3>1. Len(Tail(q)) \notin Nat \ {0}
      BY <1>3, <1>4
    <3> QED
      BY <1>3, <1>5, <3>1, EmptySeq
  <2>3. link'[c] = "down"
    BY <1>4
  <2> QED
    BY <2>1, <2>2, <2>3 DEF UpShape
<1>7. ASSUME NEW x \in Peers, x # c
      PROVE  UpShape(x)'
  <2>1. up'[x] = up[x] /\ attached'[x] = attached[x] /\ UpShape(x)
    BY <1>1, <1>7 DEF SessionInv
  <2> QED
    BY <2>1 DEF UpShape
<1> QED
  BY <1>4, <1>5, <1>6, <1>7 DEF UpOK

\* A packet that a client sends keeps the queues in shape.
LEMMA SentPacket ==
    ASSUME SessionInv, NEW c \in Peers, NEW e \in ClientPacket,
           e.type \notin {"CONNECT", "DISCONNECT"},
           Send(c, e), link' = link, attached' = attached
    PROVE  UpOK'
<1>1. up \in [Peers -> Seq(ClientPacket)] /\ UpShape(c)
  BY DEF SessionInv, TypeOK
<1> DEFINE q == up[c]
<1>2. q \in Seq(ClientPacket)
  BY <1>1
<1> HIDE DEF q
<1>3. /\ Append(q, e) \in Seq(ClientPacket)
      /\ Len(q) \in Nat /\ Len(Append(q, e)) = Len(q) + 1
      /\ DOMAIN q = 1 .. Len(q) /\ DOMAIN Append(q, e) = 1 .. Len(q) + 1
      /\ \A i \in 1 .. Len(q) : Append(q, e)[i] = q[i]
      /\ Append(q, e)[Len(q) + 1] = e
  BY <1>2, AppendFacts
<1>4. up' \in [Peers -> Seq(ClientPacket)]
  BY <1>1, <1>3 DEF Send, q
<1>5. UpShape(c)'
  <2>1. CASE link[c] = "open"
    <3>1. up'[c] = Append(q, e)
      BY <1>1, <2>1 DEF Send, q
    <3>2. \A i \in DOMAIN q : q[i].type # "DISCONNECT"
      BY <1>1, <2>1 DEF UpShape, q
    <3>3. ~attached[c] => Len(q) > 0
      BY <1>1, <1>2, <2>1 DEF UpShape, q
    <3>4. Append(q, e) # <<>>
      BY <1>3
    <3>5. \A i \in DOMAIN Append(q, e) :
            /\ Append(q, e)[i].type = "CONNECT" => i = 1 /\ ~attached[c]
            /\ Append(q, e)[i].type # "DISCONNECT"
      BY <1>1, <1>3, <3>2 DEF UpShape, q
    <3>6. ~attached[c] => Append(q, e)[1].type \in {"CONNECT", "DISCONNECT"}
      BY <1>1, <1>3, <3>3 DEF UpShape, q
    <3> QED
      BY <3>1, <3>4, <3>5, <3>6 DEF UpShape
  <2>2. CASE link[c] # "open"
    <3>1. up'[c] = up[c]
      BY <1>1, <2>2 DEF Send
    <3> QED
      BY <1>1, <3>1 DEF UpShape
  <2> QED
    BY <2>1, <2>2
<1>6. ASSUME NEW x \in Peers, x # c
      PROVE  UpShape(x)'
  <2>1. up'[x] = up[x] /\ UpShape(x)
    BY <1>1, <1>6 DEF Send, SessionInv
  <2> QED
    BY <2>1 DEF UpShape
<1> QED
  BY <1>4, <1>5, <1>6 DEF UpOK

\* So does a link that breaks.
LEMMA BrokenLink ==
    ASSUME SessionInv, NEW c \in Peers, link[c] = "open", BreakUp(c),
           attached' = attached
    PROVE  UpOK' /\ link' \in [Peers -> {"open", "down"}] /\ link'[c] = "down"
           /\ \A x \in Peers : link'[x] = "open" => link[x] = "open"
<1>1. up \in [Peers -> Seq(ClientPacket)] /\ UpShape(c)
  BY DEF SessionInv, TypeOK
<1>2. /\ link' = [link EXCEPT ![c] = "down"]
      /\ link \in [Peers -> {"open", "down"}]
  BY DEF BreakUp, SessionInv, TypeOK
<1> DEFINE q == up[c]
<1>3. PICK n \in 0 .. Len(q) : up' = [up EXCEPT ![c] = Append(SubSeq(q, 1, n), DISCONNECT)]
  BY DEF BreakUp
<1> DEFINE r == SubSeq(q, 1, n)
<1>4. q \in Seq(ClientPacket) /\ DISCONNECT \in ClientPacket
  BY <1>1 DEF DISCONNECT, ClientPacket
<1> HIDE DEF q
<1>5. /\ r \in Seq(ClientPacket)
      /\ Len(r) = n
      /\ \A i \in 1 .. n : r[i] = q[i]
  BY <1>4, PrefixFacts
<1> HIDE DEF r
<1>6. /\ Append(r, DISCONNECT) \in Seq(ClientPacket)
      /\ DOMAIN r = 1 .. n /\ DOMAIN Append(r, DISCONNECT) = 1 .. n + 1
      /\ \A i \in 1 .. n : Append(r, DISCONNECT)[i] = r[i]
      /\ Append(r, DISCONNECT)[n + 1] = DISCONNECT
      /\ Len(Append(r, DISCONNECT)) = n + 1
  BY <1>4, <1>5, AppendFacts
<1>7. up' \in [Peers -> Seq(ClientPacket)] /\ up'[c] = Append(r, DISCONNECT)
  BY <1>1, <1>3, <1>6 DEF r
<1>8. UpShape(c)'
  <2>1. DOMAIN q = 1 .. Len(q) /\ Len(q) \in Nat
    BY <1>4
  <2>2. \A i \in 1 .. Len(q) : /\ q[i].type # "DISCONNECT"
                               /\ q[i].type = "CONNECT" => i = 1 /\ ~attached[c]
    BY <1>1, <2>1 DEF UpShape, q
  <2>3. ~attached[c] /\ Len(q) > 0 => q[1].type \in {"CONNECT", "DISCONNECT"}
    BY <1>1, <1>4 DEF UpShape, q
  <2>4. DISCONNECT.type = "DISCONNECT"
    BY DEF DISCONNECT
  <2> QED
    BY <1>2, <1>5, <1>6, <1>7, <2>1, <2>2, <2>3, <2>4 DEF UpShape
<1>9. ASSUME NEW x \in Peers, x # c
      PROVE  UpShape(x)'
  <2>1. up'[x] = up[x] /\ link'[x] = link[x] /\ UpShape(x)
    BY <1>1, <1>2, <1>3, <1>9 DEF SessionInv
  <2> QED
    BY <2>1 DEF UpShape
<1> QED
  BY <1>2, <1>7, <1>8, <1>9 DEF UpOK

-----------------------------------------------------------------------------
(* The packets on their way to the clients *)

\* No new player and no quit: what most handlers of the server send.
IsQuiet(packet) ==
    /\ packet \in ServerPacket
    /\ packet.type # "Init"
    /\ ~(packet.type = "DeltaArena" /\ packet.delta.type = "Quit")

Quiet(out) ==
    /\ out \in Outgoing
    /\ \A c \in Peers : \A i \in DOMAIN out[c] : IsQuiet(out[c][i])

LEMMA QuietSends ==
    ASSUME NEW packet, IsQuiet(packet)
    PROVE  /\ \A S : Quiet(ToThose(S, packet))
           /\ \A c : Quiet(To(c, packet))
<1>1. <<packet>> \in Seq(ServerPacket) /\ <<>> \in Seq(ServerPacket)
  BY DEF IsQuiet
<1>2. DOMAIN <<packet>> = {1} /\ <<packet>>[1] = packet /\ DOMAIN <<>> = {}
  OBVIOUS
<1>3. ASSUME NEW S
      PROVE  Quiet(ToThose(S, packet))
  <2> DEFINE out == ToThose(S, packet)
  <2>1. out \in Outgoing
    BY <1>1 DEF ToThose, Outgoing
  <2>2. ASSUME NEW c \in Peers, NEW i \in DOMAIN out[c]
        PROVE  IsQuiet(out[c][i])
    <3>1. out[c] = <<packet>> \/ out[c] = <<>>
      BY DEF ToThose
    <3> HIDE DEF out
    <3> QED
      BY <1>2, <2>2, <3>1
  <2> QED
    BY <2>1, <2>2 DEF Quiet
<1>4. ASSUME NEW c
      PROVE  To(c, packet) = ToThose({c}, packet)
  BY DEF To, ToThose
<1> QED
  BY <1>3, <1>4

LEMMA QuietSilence == Quiet(Silence)
BY DEF Quiet, Silence, Outgoing

LEMMA QuietThen ==
    ASSUME NEW first, Quiet(first), NEW second, Quiet(second)
    PROVE  Quiet(Then(first, second))
<1> DEFINE out == Then(first, second)
<1>1. ASSUME NEW c \in Peers
      PROVE  /\ out[c] \in Seq(ServerPacket)
             /\ \A i \in DOMAIN out[c] : IsQuiet(out[c][i])
  <2> DEFINE q == first[c]
             r == second[c]
             s == out[c]
  <2>1. /\ q \in Seq(ServerPacket) /\ r \in Seq(ServerPacket)
        /\ s = q \o r
        /\ \A i \in DOMAIN q : IsQuiet(q[i])
        /\ \A i \in DOMAIN r : IsQuiet(r[i])
    BY DEF Quiet, Outgoing, Then
  <2> HIDE DEF q, r, s
  <2>2. /\ s \in Seq(ServerPacket)
        /\ \A i \in DOMAIN q : s[i] = q[i]
        /\ \A i \in DOMAIN s \ DOMAIN q :
              i - Len(q) \in DOMAIN r /\ s[i] = r[i - Len(q)]
    BY <2>1, ConcatFacts
  <2>3. \A i \in DOMAIN s : IsQuiet(s[i])
    BY <2>1, <2>2
  <2> QED
    BY <2>2, <2>3 DEF s
<1>2. out = [c \in Peers |-> out[c]]
  BY DEF Then
<1> HIDE DEF out
<1>3. out \in Outgoing
  BY <1>1, <1>2 DEF Outgoing
<1> QED
  BY <1>1, <1>3 DEF Quiet, out

DownOK == down \in Outgoing /\ \A c \in Peers : OwnPid(c) /\ InitHasEnv(c)

\* Sending a client quiet packets keeps what is promised of the others.
LEMMA QuietDownAt ==
    ASSUME SessionInv, NEW out \in Outgoing, Transmit(out), NEW c \in Peers,
           \A i \in DOMAIN out[c] : IsQuiet(out[c][i]),
           link' = link, playerOf'[c] = playerOf[c], conn' = conn
    PROVE  OwnPid(c)' /\ InitHasEnv(c)' /\ down' \in Outgoing
           /\ (link[c] # "open" => down'[c] = down[c])
<1>0. down \in Outgoing
  BY DEF SessionInv, TypeOK, Outgoing
<1>1. OwnPid(c) /\ InitHasEnv(c)
  BY DEF SessionInv
<1>2. /\ down' \in Outgoing
      /\ link[c] # "open" => down'[c] = down[c]
      /\ \A i \in DOMAIN down[c] : down'[c][i] = down[c][i]
      /\ \A i \in DOMAIN down'[c] \ DOMAIN down[c] :
            /\ i - Len(down[c]) \in DOMAIN out[c]
            /\ down'[c][i] = out[c][i - Len(down[c])]
  BY <1>0, TransmitFacts
<1>3. ASSUME NEW i \in DOMAIN down'[c], i \notin DOMAIN down[c]
      PROVE  IsQuiet(down'[c][i])
  BY <1>2, <1>3 DEF Quiet
<1>4. InitHasEnv(c)'
  BY <1>1, <1>2, <1>3 DEF InitHasEnv, Sends, IsQuiet
<1>5. OwnPid(c)'
  <2>1. \A i \in DOMAIN down'[c] \ DOMAIN down[c] : \A pid :
          ~IsQuitOf(down'[c][i], pid) /\ down'[c][i].type # "Init"
    BY <1>3 DEF IsQuiet, IsQuitOf
  <2>2. ASSUME NEW i \in DOMAIN down'[c], down'[c][i].type = "Init"
        PROVE  /\ i \in DOMAIN down[c] /\ down'[c][i] = down[c][i]
               /\ down[c][i].arena.players[down[c][i].pid] # None
               /\ link[c] = "open" => down[c][i].pid = playerOf[c]
               /\ \A j \in DOMAIN down[c] :
                     i < j => ~IsQuitOf(down[c][j], down[c][i].pid)
    BY <1>1, <1>2, <2>1, <2>2 DEF OwnPid, Sends
  <2>3. ASSUME NEW i \in DOMAIN down'[c], down'[c][i].type = "Init",
               NEW j \in DOMAIN down'[c], i < j
        PROVE  ~IsQuitOf(down'[c][j], down'[c][i].pid)
    BY <1>2, <2>1, <2>2, <2>3
  <2>4. conn[c] # None =>
          /\ conn[c].arena.players[conn[c].pid] # None
          /\ link[c] = "open" => conn[c].pid = playerOf[c]
          /\ \A j \in DOMAIN down'[c] : ~IsQuitOf(down'[c][j], conn[c].pid)
    BY <1>1, <1>2, <2>1 DEF OwnPid
  <2> QED
    BY <2>2, <2>3, <2>4 DEF OwnPid, Sends
<1> QED
  BY <1>2, <1>4, <1>5

LEMMA QuietDown ==
    ASSUME SessionInv, NEW out, Quiet(out), Transmit(out),
           link' = link, playerOf' = playerOf, conn' = conn
    PROVE  DownOK' /\ \A c \in Peers : link[c] # "open" => down'[c] = down[c]
<1>1. down \in Outgoing /\ out \in Outgoing
  BY DEF SessionInv, TypeOK, Outgoing, Quiet
<1>2. ASSUME NEW c \in Peers
      PROVE  OwnPid(c)' /\ InitHasEnv(c)'
             /\ (link[c] # "open" => down'[c] = down[c])
  BY <1>1, QuietDownAt DEF Quiet
<1>3. down' \in Outgoing
  BY <1>1 DEF Transmit, Outgoing
<1> QED
  BY <1>2, <1>3 DEF DownOK

-----------------------------------------------------------------------------
(* Steps of the server that neither add nor remove a player *)

SendsQuietly == \E out \in Outgoing : Quiet(out) /\ Transmit(out)

SamePlayers ==
    arena' \in ArenaState /\ Keys(arena'.players) = Keys(arena.players)

QuietStep ==
    /\ UNCHANGED <<link, phase, conn, attached, playerOf>>
    /\ UpOK'
    /\ SendsQuietly
    /\ SamePlayers
    /\ handle' \in Handle /\ lastSky' \in Nat
    /\ ServerGameHasEnv'

LEMMA QuietStepKeeps ==
    ASSUME SessionInv, QuietStep
    PROVE  SessionInv'
<1>1. PICK out \in Outgoing : Quiet(out) /\ Transmit(out)
  BY DEF QuietStep, SendsQuietly
<1>2. DownOK' /\ \A c \in Peers : link[c] # "open" => down'[c] = down[c]
  BY <1>1, QuietDown DEF QuietStep
<1>3. TypeOK'
  BY <1>2 DEF SessionInv, TypeOK, QuietStep, UpOK, DownOK, Outgoing, SamePlayers
<1>4. PeersArePlayers'
  BY DEF SessionInv, PeersArePlayers, QuietStep, SamePlayers
<1>5. ServerGameHasEnv'
  BY DEF QuietStep
<1>6. GameViewHasEnv'
  BY DEF SessionInv, GameViewHasEnv, QuietStep
<1>7. ASSUME NEW c \in Peers
      PROVE  OffIsClean(c)'
  <2>1. OffIsClean(c) /\ link' = link /\ phase' = phase /\ conn' = conn
    BY DEF SessionInv, QuietStep
  <2> QED
    BY <1>2, <2>1 DEF OffIsClean
<1>8. \A c \in Peers : UpShape(c)'
  BY DEF QuietStep, UpOK
<1> QED
  BY <1>2, <1>3, <1>4, <1>5, <1>6, <1>7, <1>8 DEF SessionInv, DownOK

LEMMA IgnoreIsQuiet ==
    ASSUME SessionInv, UNCHANGED arena, down' = down \/ Transmit(Silence)
    PROVE  SamePlayers /\ SendsQuietly /\ arena'.mode = arena.mode
<1>1. SamePlayers /\ arena'.mode = arena.mode
  BY DEF SessionInv, TypeOK, SamePlayers
<1>2. Quiet(Silence) /\ Silence \in Outgoing
  BY QuietSilence DEF Quiet
<1>3. CASE down' = down
  <2>1. down \in Outgoing
    BY DEF SessionInv, TypeOK, Outgoing
  <2>2. ASSUME NEW c \in Peers
        PROVE  down[c] \o Silence[c] = down[c]
    <3>1. Silence[c] = <<>> /\ down[c] \in Seq(ServerPacket)
      BY <2>1 DEF Silence, Outgoing
    <3> QED
      BY <3>1, ConcatEmptySeq
  <2>3. Transmit(Silence)
    BY <1>3, <2>1, <2>2 DEF Transmit, Outgoing
  <2> QED
    BY <1>1, <1>2, <2>3 DEF SendsQuietly
<1>4. CASE Transmit(Silence)
  BY <1>1, <1>2, <1>4 DEF SendsQuietly
<1> QED
  BY <1>3, <1>4

LEMMA RegisterIsQuiet ==
    ASSUME SessionInv, NEW d \in ArenaDelta, d.type \notin {"Quit", "Join"},
           Register(d)
    PROVE  /\ SamePlayers /\ SendsQuietly
           /\ arena'.mode = IF d.type = "Mode" THEN d.mode ELSE arena.mode
<1>1. arena \in ArenaState
  BY DEF SessionInv, TypeOK
<1>2. IsQuiet(DeltaArena(d))
  BY DEF IsQuiet, DeltaArena, ServerPacket
<1>3. Quiet(ToClients(DeltaArena(d)))
  BY <1>2, QuietSends DEF ToClients
<1> QED
  BY <1>1, <1>3, ApplyArenaDeltaKeeps DEF Register, SamePlayers, SendsQuietly, Quiet

\* What is known when a handler has polled a packet of a joined player.
LEMMA PolledFromPlayer ==
    ASSUME SessionInv, NEW c \in Peers, NEW type, PollsPlayer(c, type),
           type \notin {"CONNECT", "DISCONNECT"}, UNCHANGED clientVars
    PROVE  /\ UNCHANGED <<link, phase, conn, attached, playerOf, lastSky>>
           /\ UpOK'
           /\ Head(up[c]) \in ClientPacket /\ Head(up[c]).type = type
           /\ playerOf[c] \in PID /\ PlayerOf(c) \in Player
           /\ lastSky' \in Nat
           /\ arena \in ArenaState /\ handle \in Handle
<1>1. /\ up[c] # <<>> /\ Head(up[c]).type = type
      /\ up' = [up EXCEPT ![c] = Tail(@)]
      /\ UNCHANGED <<link, phase, conn, attached, playerOf, lastSky>>
      /\ playerOf[c] # None
  BY DEF PollsPlayer, Polls, clientVars
<1>2. UpOK' /\ Head(up[c]) \in ClientPacket
  BY <1>1, PolledEvent
<1>3. playerOf[c] \in Keys(arena.players) /\ arena.players \in MapTo(Player)
  BY <1>1 DEF SessionInv, PeersArePlayers, TypeOK, ArenaState
<1>4. playerOf[c] \in PID /\ PlayerOf(c) \in Player
  BY <1>3, KeyIsPlayer DEF PlayerOf
<1>5. lastSky \in Nat /\ arena \in ArenaState /\ handle \in Handle
  BY DEF SessionInv, TypeOK
<1> QED
  BY <1>1, <1>2, <1>4, <1>5

\* ... and registers a change of that player, or nothing.
LEMMA PlayerChangeKeeps ==
    ASSUME SessionInv, NEW c \in Peers, NEW type, PollsPlayer(c, type),
           type \notin {"CONNECT", "DISCONNECT"}, UNCHANGED clientVars,
           UNCHANGED handle,
           Ignore \/ \E d \in PlayerDelta : Register(OnePlayerDelta(playerOf[c], d))
    PROVE  SessionInv'
<1>1. /\ UNCHANGED <<link, phase, conn, attached, playerOf, lastSky>>
      /\ UpOK' /\ playerOf[c] \in PID /\ lastSky' \in Nat /\ handle \in Handle
  BY PolledFromPlayer
<1>2. SamePlayers /\ SendsQuietly /\ arena'.mode = arena.mode
  <2>1. CASE Ignore
    BY <2>1, IgnoreIsQuiet DEF Ignore
  <2>2. ASSUME NEW d \in PlayerDelta, Register(OnePlayerDelta(playerOf[c], d))
        PROVE  SamePlayers /\ SendsQuietly /\ arena'.mode = arena.mode
    <3> DEFINE e == OnePlayerDelta(playerOf[c], d)
    <3>1. e \in ArenaDelta /\ e.type = "Delta"
      BY <1>1 DEF OnePlayerDelta, PlayersDelta, ArenaDelta, MapTo, EmptyMap
    <3> QED
      <4> HIDE DEF e
      <4> QED
        BY <2>2, <3>1, RegisterIsQuiet DEF e
  <2> QED
    BY <2>1, <2>2
<1>3. ServerGameHasEnv'
  BY <1>2 DEF SessionInv, ServerGameHasEnv
<1>4. QuietStep
  BY <1>1, <1>2, <1>3 DEF QuietStep
<1> QED
  BY <1>4, QuietStepKeeps

-----------------------------------------------------------------------------
(* The handlers of joined players' packets *)

LEMMA ReqSkyKeeps ==
    ASSUME SessionInv, NEW c \in Peers, HandleReqSky(c), UNCHANGED clientVars
    PROVE  SessionInv'
<1>1. /\ UNCHANGED <<link, phase, conn, attached, playerOf, lastSky>>
      /\ UpOK' /\ playerOf[c] \in PID /\ PlayerOf(c) \in Player
      /\ lastSky' \in Nat /\ arena \in ArenaState /\ handle \in Handle
  BY PolledFromPlayer DEF HandleReqSky
<1>2. CASE handle.sky = None
  BY <1>2, PlayerChangeKeeps DEF HandleReqSky
<1>3. CASE handle.sky # None
  <2> DEFINE d == OnePlayerDelta(playerOf[c],
                     [DeltaOf(PlayerOf(c)) EXCEPT !.loadingEnv = FALSE])
             out == Then(To(c, InitSky(handle.sky)), ToClients(DeltaArena(d)))
  <2>1. d \in ArenaDelta /\ d.type = "Delta"
    <3>1. [DeltaOf(PlayerOf(c)) EXCEPT !.loadingEnv = FALSE] \in PlayerDelta
      BY <1>1, DeltaOfType
    <3> QED
      BY <1>1, <3>1 DEF OnePlayerDelta, PlayersDelta, ArenaDelta, MapTo, EmptyMap
  <2> HIDE DEF d
  <2>2. IsQuiet(InitSky(handle.sky))
    BY <1>1, <1>3 DEF IsQuiet, InitSky, ServerPacket, Handle
  <2>3. IsQuiet(DeltaArena(d))
    BY <2>1 DEF IsQuiet, DeltaArena, ServerPacket
  <2>4. Quiet(out)
    BY <2>2, <2>3, QuietSends, QuietThen DEF ToClients
  <2>5. arena' = ApplyArenaDelta(arena, d) /\ Transmit(out) /\ handle' = handle
    BY <1>3 DEF HandleReqSky, d
  <2>6. SamePlayers /\ arena'.mode = arena.mode
    BY <1>1, <2>1, <2>5, ApplyArenaDeltaKeeps DEF SamePlayers
  <2>7. ServerGameHasEnv'
    BY <2>5, <2>6 DEF SessionInv, ServerGameHasEnv
  <2>8. SendsQuietly
    BY <2>4, <2>5 DEF SendsQuietly, Quiet
  <2>9. QuietStep
    BY <1>1, <2>5, <2>6, <2>7, <2>8 DEF QuietStep
  <2> QED
    BY <2>9, QuietStepKeeps
<1> QED
  BY <1>2, <1>3

\* Whatever the two flags hold, what is applied and sent is a delta.
LEMMA RenameIsChange ==
    ASSUME SessionInv, NEW c \in Peers, HandleReqPlayerDelta(c), UNCHANGED clientVars
    PROVE  \E d \in PlayerDelta : Register(OnePlayerDelta(playerOf[c], d))
<1>1. /\ Head(up[c]) \in ClientPacket /\ Head(up[c]).type = "ReqPlayerDelta"
  BY PolledFromPlayer DEF HandleReqPlayerDelta
<1> DEFINE request == Head(up[c])
           nick == IF request.nickname = None THEN None
                   ELSE AllocNewNickname(arena.players, playerOf[c], request.nickname)
<1>2. request.nickname \in Name
  BY <1>1 DEF ClientPacket
<1>3. nick \in Name \cup {None}
  BY <1>2, KeysAreFinite, AllocatedIsName DEF AllocNewNickname
<1>4. PICK admin \in BOOLEAN, loadingEnv \in BOOLEAN :
         Register(OnePlayerDelta(playerOf[c],
                  [nickname |-> nick, admin |-> admin, team |-> None,
                   loadingEnv |-> loadingEnv, stats |-> None]))
  BY DEF HandleReqPlayerDelta
<1> HIDE DEF nick
<1>5. [nickname |-> nick, admin |-> admin, team |-> None,
       loadingEnv |-> loadingEnv, stats |-> None] \in PlayerDelta
  BY <1>3, <1>4 DEF PlayerDelta
<1> QED
  BY <1>4, <1>5

LEMMA ReqPlayerDeltaKeeps ==
    ASSUME SessionInv, NEW c \in Peers, HandleReqPlayerDelta(c), UNCHANGED clientVars
    PROVE  SessionInv'
<1>1. PollsPlayer(c, "ReqPlayerDelta") /\ handle' = handle
  BY DEF HandleReqPlayerDelta
<1> QED
  BY <1>1, RenameIsChange, PlayerChangeKeeps

LEMMA ChangeTeamIsChange ==
    ASSUME SessionInv, NEW c \in Peers, PlayerOf(c) \in Player,
           NEW team \in Team, ChangeTeam(c, team)
    PROVE  \E d \in PlayerDelta : Register(OnePlayerDelta(playerOf[c], d))
BY DeltaOfType DEF ChangeTeam

LEMMA ReqTeamKeeps ==
    ASSUME SessionInv, NEW c \in Peers, HandleReqTeam(c), UNCHANGED clientVars
    PROVE  SessionInv'
<1>1. /\ PollsPlayer(c, "ReqTeam") /\ handle' = handle /\ PlayerOf(c) \in Player
      /\ Head(up[c]) \in ClientPacket /\ Head(up[c]).type = "ReqTeam"
  BY PolledFromPlayer DEF HandleReqTeam
<1>2. Head(up[c]).team \in Team
  BY <1>1 DEF ClientPacket
<1>3. Ignore \/ \E d \in PlayerDelta : Register(OnePlayerDelta(playerOf[c], d))
  BY <1>1, <1>2, ChangeTeamIsChange DEF HandleReqTeam
<1> QED
  BY <1>1, <1>3, PlayerChangeKeeps

LEMMA ReqSpawnKeeps ==
    ASSUME SessionInv, NEW c \in Peers, HandleReqSpawn(c), UNCHANGED clientVars
    PROVE  SessionInv'
<1>1. /\ PollsPlayer(c, "ReqSpawn") /\ handle' = handle /\ PlayerOf(c) \in Player
  BY PolledFromPlayer DEF HandleReqSpawn
<1>2. AutojoinTeams(arena) \subseteq Team
  BY DEF AutojoinTeams, RandomTeams, Team
<1>3. Ignore \/ \E d \in PlayerDelta : Register(OnePlayerDelta(playerOf[c], d))
  BY <1>1, <1>2, ChangeTeamIsChange DEF HandleReqSpawn
<1> QED
  BY <1>1, <1>3, PlayerChangeKeeps

LEMMA RefusedKeeps ==
    ASSUME SessionInv, NEW c \in Peers, HandleRefused(c), UNCHANGED clientVars
    PROVE  SessionInv'
<1>1. PollsPlayer(c, "RCon") /\ handle' = handle /\ Ignore
  BY DEF HandleRefused, PollsRCon
<1> QED
  BY <1>1, PlayerChangeKeeps

LEMMA AuthKeeps ==
    ASSUME SessionInv, NEW c \in Peers, HandleAuth(c), UNCHANGED clientVars
    PROVE  SessionInv'
<1>1. PollsPlayer(c, "RCon") /\ handle' = handle
  BY DEF HandleAuth, PollsRCon
<1>2. PlayerOf(c) \in Player
  BY <1>1, PolledFromPlayer
<1>3. \E d \in PlayerDelta : Register(OnePlayerDelta(playerOf[c], d))
  BY <1>2, DeltaOfType DEF HandleAuth
<1> QED
  BY <1>1, <1>3, PlayerChangeKeeps

-----------------------------------------------------------------------------
(* The commands of admins *)

LEMMA StartGameType ==
    ASSUME NEW h \in Handle, NEW url \in Envs
    PROVE  StartGame(h, url) \in Handle /\ StartGame(h, url).env # None
<1>1. NewEnv(url) \in Env /\ NewEnv(url) # None
  BY HandleAssumption DEF NewEnv, Env, Stage
<1>2. StartGame(h, url) = [env |-> NewEnv(url), sky |-> h.sky, isNew |-> TRUE]
  BY DEF StartGame, Handle
<1> QED
  BY <1>1, <1>2 DEF Handle

LEMMA StartKeeps ==
    ASSUME SessionInv, NEW c \in Peers, HandleStart(c), UNCHANGED clientVars
    PROVE  SessionInv'
<1>1. /\ UNCHANGED <<link, phase, conn, attached, playerOf, lastSky>>
      /\ UpOK' /\ lastSky' \in Nat /\ arena \in ArenaState /\ handle \in Handle
  BY PolledFromPlayer DEF HandleStart, PollsRCon
<1> DEFINE mid == ApplyArenaDelta(arena, ModeDelta("Game"))
           out == Then(ToClients(DeltaArena(ModeDelta("Game"))),
                       ToClients(DeltaArena(ResetEnvLoad)))
<1>2. /\ ModeDelta("Game") \in ArenaDelta /\ ModeDelta("Game").type = "Mode"
      /\ ResetEnvLoad \in ArenaDelta /\ ResetEnvLoad.type = "ResetEnvLoad"
  BY DEF ModeDelta, ResetEnvLoad, ArenaDelta, Mode
<1>3. mid \in ArenaState /\ Keys(mid.players) = Keys(arena.players)
  BY <1>1, <1>2, ApplyArenaDeltaKeeps
<1>4. arena' = ApplyArenaDelta(mid, ResetEnvLoad) /\ Transmit(out)
  BY DEF HandleStart
<1>5. IsQuiet(DeltaArena(ModeDelta("Game"))) /\ IsQuiet(DeltaArena(ResetEnvLoad))
  BY <1>2 DEF IsQuiet, DeltaArena, ServerPacket
<1>6. Quiet(out)
  BY <1>5, QuietSends, QuietThen DEF ToClients
<1> HIDE DEF mid, out
<1>7. SamePlayers
  BY <1>2, <1>3, <1>4, ApplyArenaDeltaKeeps DEF SamePlayers
<1>8. handle' \in Handle /\ handle'.env # None
  BY <1>1, StartGameType DEF HandleStart, ArenaState
<1>9. SendsQuietly
  BY <1>4, <1>6 DEF SendsQuietly, Quiet
<1>10. QuietStep
  BY <1>1, <1>7, <1>8, <1>9 DEF QuietStep, ServerGameHasEnv
<1> QED
  BY <1>10, QuietStepKeeps

LEMMA StopKeeps ==
    ASSUME SessionInv, NEW c \in Peers, HandleStop(c), UNCHANGED clientVars
    PROVE  SessionInv'
<1>1. /\ UNCHANGED <<link, phase, conn, attached, playerOf, lastSky>>
      /\ UpOK' /\ lastSky' \in Nat /\ handle \in Handle
  BY PolledFromPlayer DEF HandleStop, PollsRCon
<1>2. ModeDelta("Lobby") \in ArenaDelta /\ ModeDelta("Lobby").type = "Mode"
      /\ ModeDelta("Lobby").mode = "Lobby"
  BY DEF ModeDelta, ArenaDelta, Mode
<1>3. SamePlayers /\ SendsQuietly /\ arena'.mode = "Lobby"
  BY <1>2, RegisterIsQuiet DEF HandleStop
<1>4. handle' \in Handle /\ handle'.sky = None
  BY DEF HandleStop, StopGame, Handle
<1>5. QuietStep
  BY <1>1, <1>3, <1>4 DEF QuietStep, ServerGameHasEnv
<1> QED
  BY <1>5, QuietStepKeeps

LEMMA RestartKeeps ==
    ASSUME SessionInv, NEW c \in Peers, HandleRestart(c), UNCHANGED clientVars
    PROVE  SessionInv'
<1>1. /\ UNCHANGED <<link, phase, conn, attached, playerOf, lastSky>>
      /\ UpOK' /\ lastSky' \in Nat /\ arena \in ArenaState /\ handle \in Handle
  BY PolledFromPlayer DEF HandleRestart, PollsRCon
<1>2. SamePlayers /\ SendsQuietly
  BY IgnoreIsQuiet DEF HandleRestart
<1>3. handle' \in Handle /\ handle'.env # None
  BY <1>1, StartGameType DEF HandleRestart, ArenaState
<1>4. QuietStep
  BY <1>1, <1>2, <1>3 DEF QuietStep, ServerGameHasEnv
<1> QED
  BY <1>4, QuietStepKeeps

LEMMA MapKeeps ==
    ASSUME SessionInv, NEW c \in Peers, HandleMap(c), UNCHANGED clientVars
    PROVE  SessionInv'
<1>1. /\ UNCHANGED <<link, phase, conn, attached, playerOf, lastSky>>
      /\ UpOK' /\ lastSky' \in Nat /\ handle \in Handle
      /\ Head(up[c]) \in ClientPacket /\ Head(up[c]).type = "RCon"
  BY PolledFromPlayer DEF HandleMap, PollsRCon
<1>2. Head(up[c]).env \in Envs
  BY <1>1 DEF HandleMap, PollsRCon, ClientPacket
<1>3. EnvChange(Head(up[c]).env) \in ArenaDelta /\ EnvChange(Head(up[c]).env).type = "EnvChange"
  BY <1>2 DEF EnvChange, ArenaDelta
<1>4. SamePlayers /\ SendsQuietly
  BY <1>3, RegisterIsQuiet DEF HandleMap
<1>5. handle' \in Handle /\ handle'.env # None
  BY <1>1, <1>2, StartGameType DEF HandleMap
<1>6. QuietStep
  BY <1>1, <1>4, <1>5 DEF QuietStep, ServerGameHasEnv
<1> QED
  BY <1>6, QuietStepKeeps

-----------------------------------------------------------------------------
(* Ticks of the server *)

LEMMA AdvanceType ==
    ASSUME NEW h \in Handle, h.sky # None => h.env # None, lastSky \in Nat
    PROVE  /\ CollectDelta(Advance(h)) \in Handle /\ Advance(h) \in Handle
           /\ h.env # None => Advance(h).env # None
           /\ Advance(h).sky # None => Advance(h).env # None
           /\ CollectDelta(Advance(h)).env = Advance(h).env
           /\ CollectDelta(Advance(h)).sky = Advance(h).sky
<1>1. ASSUME NEW g \in Handle
      PROVE  /\ LoadMore(g) \in Handle /\ LoadMore(g).sky = g.sky
             /\ g.env # None => LoadMore(g).env # None
  BY HandleAssumption DEF LoadMore, Handle, Env, Stage
<1>2. /\ Advance(h) \in Handle
      /\ h.env # None => Advance(h).env # None
      /\ Advance(h).sky # None => Advance(h).env # None
  BY <1>1 DEF Advance, InstantiateSky, EnvReady, Handle
<1> QED
  BY <1>2 DEF CollectDelta, Handle

LEMMA EnvUrlType ==
    ASSUME NEW h \in Handle
    PROVE  /\ EnvUrl(h) \in Envs \cup {None}
           /\ h.env # None => EnvUrl(h) # None
BY HandleAssumption DEF EnvUrl, Handle, Env

LEMMA StatsDeltaType ==
    ASSUME arena \in ArenaState, NEW stats \in [Keys(arena.players) -> ConnStats]
    PROVE  StatsDelta(stats) \in ArenaDelta /\ StatsDelta(stats).type = "Delta"
<1>1. ASSUME NEW p \in PID, arena.players[p] # None
      PROVE  [DeltaOf(arena.players[p]) EXCEPT !.stats = stats[p]] \in PlayerDelta
  <2>1. arena.players[p] \in Player /\ p \in Keys(arena.players)
    BY <1>1 DEF ArenaState, MapTo, Keys
  <2> QED
    BY <2>1, DeltaOfType
<1> QED
  BY <1>1 DEF StatsDelta, PlayersDelta, ArenaDelta, MapTo

LEMMA ServerTickKeeps ==
    ASSUME SessionInv, ServerTick, UNCHANGED clientVars
    PROVE  SessionInv'
<1> DEFINE advanced == Advance(handle)
           announced == IF handle.isNew
                        THEN ToClients(DeltaSkyHandle(EnvUrl(advanced)))
                        ELSE Silence
<1>1. /\ arena \in ArenaState /\ handle \in Handle /\ lastSky \in Nat
      /\ handle.sky # None => handle.env # None
      /\ arena.mode = "Game" => handle.env # None
      /\ up \in [Peers -> Seq(ClientPacket)] /\ \A c \in Peers : UpShape(c)
  BY DEF SessionInv, TypeOK, ServerGameHasEnv
<1>2. /\ UNCHANGED <<link, up, phase, conn, attached, playerOf>>
      /\ handle' = CollectDelta(advanced)
      /\ lastSky' \in Nat
  BY <1>1 DEF ServerTick, clientVars
<1>3. /\ handle' \in Handle /\ advanced \in Handle
      /\ handle.env # None => handle'.env # None
      /\ handle'.sky # None => handle'.env # None
  BY <1>1, <1>2, AdvanceType
<1>4. PICK skyDue \in BOOLEAN, statsDue \in BOOLEAN :
        LET skyOut == IF skyDue /\ advanced.sky # None
                      THEN SkyPackets(advanced) ELSE Silence
            out == Then(announced, skyOut)
        IN  \/ /\ ~statsDue
               /\ Transmit(out)
               /\ UNCHANGED arena
            \/ /\ statsDue
               /\ \E stats \in [Keys(arena.players) -> ConnStats] :
                    LET d == StatsDelta(stats)
                    IN  /\ arena' = ApplyArenaDelta(arena, d)
                        /\ Transmit(Then(out, ToClients(DeltaArena(d))))
  BY DEF ServerTick
<1>5. Quiet(announced)
  <2>1. IsQuiet(DeltaSkyHandle(EnvUrl(advanced)))
    <3> HIDE DEF advanced
    <3> QED
      BY <1>3, EnvUrlType DEF IsQuiet, DeltaSkyHandle, ServerPacket
  <2> QED
    BY <2>1, QuietSends, QuietSilence DEF ToClients
<1> DEFINE skyOut == IF skyDue /\ advanced.sky # None
                     THEN SkyPackets(advanced) ELSE Silence
           out == Then(announced, skyOut)
<1>6. Quiet(skyOut)
  <2>1. CASE advanced.sky # None
    <3>1. IsQuiet(DeltaSky(advanced.sky))
      <4> HIDE DEF advanced
      <4> QED
        BY <1>3, <2>1 DEF IsQuiet, DeltaSky, ServerPacket, Handle
    <3> QED
      BY <3>1, QuietSends, QuietSilence DEF SkyPackets
  <2>2. CASE advanced.sky = None
    BY <2>2, QuietSilence
  <2> QED
    BY <2>1, <2>2
<1> HIDE DEF advanced, announced, skyOut
<1>7. Quiet(out)
  BY <1>5, <1>6, QuietThen
<1>8. SamePlayers /\ SendsQuietly /\ arena'.mode = arena.mode
  <2>1. CASE Transmit(out) /\ UNCHANGED arena
    BY <1>1, <1>7, <2>1 DEF SamePlayers, SendsQuietly, Quiet
  <2>2. ASSUME NEW stats \in [Keys(arena.players) -> ConnStats],
               arena' = ApplyArenaDelta(arena, StatsDelta(stats)),
               Transmit(Then(out, ToClients(DeltaArena(StatsDelta(stats)))))
        PROVE  SamePlayers /\ SendsQuietly /\ arena'.mode = arena.mode
    <3> DEFINE d == StatsDelta(stats)
               all == Then(out, ToClients(DeltaArena(d)))
    <3>1. d \in ArenaDelta /\ d.type = "Delta"
      BY <1>1, StatsDeltaType
    <3> HIDE DEF d, out
    <3>2. IsQuiet(DeltaArena(d))
      BY <3>1 DEF IsQuiet, DeltaArena, ServerPacket
    <3>3. Quiet(all)
      BY <1>7, <3>2, QuietSends, QuietThen DEF ToClients
    <3>4. arena' = ApplyArenaDelta(arena, d) /\ Transmit(all)
      BY <2>2 DEF d
    <3> HIDE DEF all
    <3> QED
      BY <1>1, <3>1, <3>3, <3>4, ApplyArenaDeltaKeeps DEF SamePlayers, SendsQuietly, Quiet
  <2> QED
    BY <1>4, <2>1, <2>2 DEF skyOut
<1>9. UpOK'
  <2>1. ASSUME NEW c \in Peers
        PROVE  UpShape(c)'
    <3>1. UpShape(c)
      BY <1>1
    <3> QED
      BY <1>2, <3>1 DEF UpShape
  <2> QED
    BY <1>1, <1>2, <2>1 DEF UpOK
<1>10. ServerGameHasEnv'
  BY <1>1, <1>3, <1>8 DEF ServerGameHasEnv
<1>11. QuietStep
  BY <1>2, <1>3, <1>8, <1>9, <1>10 DEF QuietStep
<1> QED
  BY <1>11, QuietStepKeeps

LEMMA ServerWorkerKeeps ==
    ASSUME SessionInv, ServerWorker, UNCHANGED clientVars
    PROVE  SessionInv'
<1>1. /\ handle \in Handle /\ lastSky \in Nat
      /\ up \in [Peers -> Seq(ClientPacket)]
      /\ arena.mode = "Game" => handle.env # None
      /\ handle.sky # None => handle.env # None
  BY DEF SessionInv, TypeOK, ServerGameHasEnv
<1>2. /\ UNCHANGED <<link, up, down, arena, lastSky, attached, playerOf, phase, conn>>
      /\ handle.env # None /\ handle' = WorkerEnds(handle)
  BY DEF ServerWorker, WorkerBusy, clientVars
<1>3. handle' \in Handle /\ handle'.env # None
  BY <1>1, <1>2, HandleAssumption DEF WorkerEnds, Handle, Env, Stage
<1>4. SamePlayers /\ SendsQuietly /\ arena'.mode = arena.mode
  BY <1>2, IgnoreIsQuiet
<1>5. UpOK'
  <2>1. ASSUME NEW c \in Peers
        PROVE  UpShape(c)'
    <3>1. UpShape(c)
      BY DEF SessionInv
    <3> QED
      BY <1>2, <3>1 DEF UpShape
  <2> QED
    BY <1>1, <1>2, <2>1 DEF UpOK
<1>6. QuietStep
  BY <1>1, <1>2, <1>3, <1>4, <1>5 DEF QuietStep, ServerGameHasEnv
<1> QED
  BY <1>6, QuietStepKeeps

-----------------------------------------------------------------------------
(* Connections *)

\* The facts about clients that a step of the server can only disturb by
\* what it sends.
LEMMA ClientsKeep ==
    ASSUME SessionInv, UNCHANGED <<link, phase, conn>>,
           \A c \in Peers : link[c] # "open" => down'[c] = down[c]
    PROVE  GameViewHasEnv' /\ \A c \in Peers : OffIsClean(c)'
<1>1. GameViewHasEnv'
  BY DEF SessionInv, GameViewHasEnv
<1>2. ASSUME NEW c \in Peers
      PROVE  OffIsClean(c)'
  <2>1. OffIsClean(c)
    BY DEF SessionInv
  <2> QED
    BY <2>1 DEF OffIsClean
<1> QED
  BY <1>1, <1>2

LEMMA ConnectKeeps ==
    ASSUME SessionInv, NEW c \in Peers, HandleConnect(c), UNCHANGED clientVars
    PROVE  SessionInv'
<1>1. /\ UNCHANGED <<link, phase, conn, down, arena, handle, lastSky>>
      /\ attached' = [attached EXCEPT ![c] = TRUE]
      /\ playerOf' = [playerOf EXCEPT ![c] = None]
  BY DEF HandleConnect, Polls, clientVars
<1>2. ~attached[c] /\ UpOK'
  BY <1>1, PolledConnect DEF HandleConnect, Polls
<1>3. /\ playerOf \in [Peers -> PID \cup {None}] /\ attached \in [Peers -> BOOLEAN]
      /\ playerOf[c] = None
  BY <1>2 DEF SessionInv, TypeOK, PeersArePlayers
<1>4. playerOf' = playerOf
  BY <1>1, <1>3
<1>5. TypeOK'
  BY <1>1, <1>2, <1>3, <1>4 DEF SessionInv, TypeOK, UpOK
<1>6. PeersArePlayers'
  <2>1. \A x \in Peers : attached[x] => attached'[x]
    BY <1>1, <1>3
  <2> QED
    BY <1>1, <1>4, <2>1 DEF SessionInv, PeersArePlayers
<1>7. ServerGameHasEnv' /\ GameViewHasEnv' /\ \A x \in Peers : OffIsClean(x)'
  BY <1>1, ClientsKeep DEF SessionInv, ServerGameHasEnv
<1>8. ASSUME NEW x \in Peers
      PROVE  OwnPid(x)' /\ InitHasEnv(x)'
  <2>1. OwnPid(x) /\ InitHasEnv(x)
    BY DEF SessionInv
  <2> QED
    BY <1>1, <1>4, <2>1 DEF OwnPid, InitHasEnv, Sends
<1> QED
  BY <1>2, <1>5, <1>6, <1>7, <1>8 DEF SessionInv, UpOK

LEMMA DisconnectKeeps ==
    ASSUME SessionInv, NEW c \in Peers, HandleDisconnect(c), UNCHANGED clientVars
    PROVE  SessionInv'
<1>1. /\ UNCHANGED <<link, phase, conn, handle, lastSky>>
      /\ attached' = [attached EXCEPT ![c] = FALSE]
      /\ playerOf' = [playerOf EXCEPT ![c] = None]
  BY DEF HandleDisconnect, Polls, clientVars
<1>2. link[c] = "down" /\ UpOK'
  BY <1>1, PolledDisconnect DEF HandleDisconnect, Polls
<1>3. /\ playerOf \in [Peers -> PID \cup {None}] /\ attached \in [Peers -> BOOLEAN]
      /\ arena \in ArenaState /\ down \in Outgoing
      /\ PeersArePlayers
  BY DEF SessionInv, TypeOK, Outgoing
<1>4. /\ arena' \in ArenaState /\ arena'.mode = arena.mode
      /\ Keys(arena'.players) = Keys(arena.players) \ {playerOf[c]}
      /\ down' \in Outgoing
      /\ \A x \in Peers : OwnPid(x)' /\ InitHasEnv(x)'
      /\ \A x \in Peers : link[x] # "open" => down'[x] = down[x]
  <2>1. CASE playerOf[c] = None
    <3>1. UNCHANGED <<arena, down>> /\ playerOf' = playerOf
      BY <1>1, <1>3, <2>1 DEF HandleDisconnect, Ignore
    <3>2. None \notin Keys(arena.players)
      BY ArenaAssumption DEF Keys, PID
    <3>3. ASSUME NEW x \in Peers
          PROVE  OwnPid(x)' /\ InitHasEnv(x)'
      <4>1. OwnPid(x) /\ InitHasEnv(x)
        BY DEF SessionInv
      <4> QED
        BY <1>1, <3>1, <4>1 DEF OwnPid, InitHasEnv, Sends
    <3> QED
      BY <1>3, <2>1, <3>1, <3>2, <3>3
  <2>2. CASE playerOf[c] # None
    <3> DEFINE p == playerOf[c]
               d == QuitDelta(p)
               out == ToClients(DeltaArena(d))
    <3>1. p \in PID /\ Register(d)
      BY <1>3, <2>2 DEF HandleDisconnect
    <3>2. d \in ArenaDelta /\ d.type = "Quit" /\ d.pid = p
      BY <3>1 DEF QuitDelta, ArenaDelta
    <3>3. /\ arena' \in ArenaState /\ arena'.mode = arena.mode
          /\ Keys(arena'.players) = Keys(arena.players) \ {p}
      <4> HIDE DEF d
      <4> QED
        BY <1>3, <3>1, <3>2, ApplyArenaDeltaKeeps DEF Register
    <3>4. DeltaArena(d) \in ServerPacket /\ Transmit(out)
      BY <3>1, <3>2 DEF DeltaArena, ServerPacket, Register
    <3>5. \A x \in Peers : out[x] = <<DeltaArena(d)>> \/ out[x] = <<>>
      BY DEF ToClients, ToThose
    <3>6. out \in Outgoing
      BY <3>4 DEF ToClients, ToThose, Outgoing
    <3> HIDE DEF out, d
    <3>7. ASSUME NEW x \in Peers
          PROVE  /\ OwnPid(x)' /\ InitHasEnv(x)' /\ down' \in Outgoing
                 /\ link[x] # "open" => down'[x] = down[x]
      <4>1. OwnPid(x) /\ InitHasEnv(x)
        BY DEF SessionInv
      <4>2. /\ down' \in Outgoing
            /\ link[x] # "open" => down'[x] = down[x]
            /\ \A i \in DOMAIN down[x] : down'[x][i] = down[x][i]
            /\ \A i \in DOMAIN down'[x] \ DOMAIN down[x] :
                  /\ link[x] = "open"
                  /\ i - Len(down[x]) \in DOMAIN out[x]
                  /\ down'[x][i] = out[x][i - Len(down[x])]
        BY <1>3, <3>4, <3>6, TransmitFacts
      <4>3. \A i \in DOMAIN down'[x] \ DOMAIN down[x] :
               down'[x][i] = DeltaArena(d) /\ link[x] = "open"
        BY <3>5, <4>2
      <4>4. DeltaArena(d).type # "Init" /\ \A pid : IsQuitOf(DeltaArena(d), pid) => pid = p
        BY <3>2 DEF DeltaArena, IsQuitOf
      <4>5. InitHasEnv(x)'
        BY <4>1, <4>2, <4>3, <4>4 DEF InitHasEnv, Sends
      <4>6. link[x] = "open" => x # c /\ playerOf'[x] = playerOf[x] /\ playerOf[x] # p
        BY <1>1, <1>2, <1>3, <2>2 DEF PeersArePlayers
      <4>7. ASSUME NEW i \in DOMAIN down'[x], down'[x][i].type = "Init"
            PROVE  /\ i \in DOMAIN down[x] /\ down'[x][i] = down[x][i]
                   /\ down[x][i].arena.players[down[x][i].pid] # None
                   /\ link[x] = "open" => down[x][i].pid = playerOf[x]
                   /\ \A j \in DOMAIN down[x] :
                         i < j => ~IsQuitOf(down[x][j], down[x][i].pid)
        BY <4>1, <4>2, <4>3, <4>4, <4>7 DEF OwnPid, Sends
      <4>8. ASSUME NEW i \in DOMAIN down'[x], down'[x][i].type = "Init",
                   NEW j \in DOMAIN down'[x], i < j
            PROVE  ~IsQuitOf(down'[x][j], down'[x][i].pid)
        BY <4>2, <4>3, <4>4, <4>6, <4>7, <4>8
      <4>9. conn[x] # None =>
              /\ conn[x].arena.players[conn[x].pid] # None
              /\ link[x] = "open" => conn[x].pid = playerOf[x]
              /\ \A j \in DOMAIN down'[x] : ~IsQuitOf(down'[x][j], conn[x].pid)
        BY <4>1, <4>2, <4>3, <4>4, <4>6 DEF OwnPid
      <4>10. OwnPid(x)'
        BY <1>1, <4>6, <4>7, <4>8, <4>9 DEF OwnPid, Sends
      <4> QED
        BY <4>2, <4>5, <4>10
    <3> QED
      BY <3>3, <3>7
  <2> QED
    BY <2>1, <2>2
<1>5. TypeOK'
  BY <1>1, <1>2, <1>3, <1>4 DEF SessionInv, TypeOK, UpOK, Outgoing
<1>6. PeersArePlayers'
  BY <1>1, <1>3, <1>4 DEF PeersArePlayers
<1>7. ServerGameHasEnv'
  BY <1>1, <1>4 DEF SessionInv, ServerGameHasEnv
<1>8. GameViewHasEnv' /\ \A x \in Peers : OffIsClean(x)'
  <2>1. \A x \in Peers : link[x] # "open" => down'[x] = down[x]
    BY <1>4
  <2> QED
    BY <1>1, <2>1, ClientsKeep
<1>9. \A x \in Peers : UpShape(x)' /\ OwnPid(x)' /\ InitHasEnv(x)'
  BY <1>2, <1>4 DEF UpOK
<1> QED
  BY <1>5, <1>6, <1>7, <1>8, <1>9 DEF SessionInv

\* A peer that has no player leaves room for one: the others have at most one
\* player each, and there are at most MaxPlayers peers.
LEMMA RoomForPlayer ==
    ASSUME SessionInv, NEW c \in Peers, playerOf[c] = None
    PROVE  Cardinality(Keys(arena.players)) < MaxPlayers
<1> DEFINE J == {x \in Peers : playerOf[x] # None}
           K == Keys(arena.players)
           f == [x \in J |-> playerOf[x]]
<1>1. /\ \A x \in J : playerOf[x] \in K
      /\ \A p \in K : \E x \in Peers : playerOf[x] = p
  BY DEF SessionInv, PeersArePlayers
<1>2. None \notin K
  BY ArenaAssumption DEF Keys, PID
<1>3. f \in Surjection(J, K)
  <2>1. f \in [J -> K]
    BY <1>1
  <2>2. \A p \in K : \E x \in J : f[x] = p
    BY <1>1, <1>2
  <2> HIDE DEF f, J, K
  <2> QED
    BY <2>1, <2>2 DEF Surjection
<1>4. /\ IsFiniteSet(Peers \ {c})
      /\ Cardinality(Peers \ {c}) = Cardinality(Peers) - 1
  BY FS_RemoveElement, ServerAssumption
<1>5. J \subseteq Peers \ {c}
  OBVIOUS
<1> HIDE DEF J, K, f
<1>6. IsFiniteSet(J) /\ Cardinality(J) <= Cardinality(Peers \ {c})
  BY <1>4, <1>5, FS_Subset
<1>7. IsFiniteSet(K) /\ Cardinality(K) <= Cardinality(J)
  BY <1>3, <1>6, FS_Surjection
<1>8. /\ Cardinality(Peers) \in Nat /\ Cardinality(J) \in Nat /\ Cardinality(K) \in Nat
      /\ MaxPlayers \in Nat
  BY <1>6, <1>7, FS_CardinalityType, ServerAssumption, ArenaAssumption
<1>9. Cardinality(K) < MaxPlayers
  BY <1>4, <1>6, <1>7, <1>8, ServerAssumption
<1> QED
  BY <1>9 DEF K

\* What a new player's own client is sent: one Init, and nothing before or
\* after it that could remove the player.
LEMMA InitOnItsWay ==
    ASSUME SessionInv, NEW c \in Peers, playerOf[c] = None,
           NEW out \in Outgoing, Transmit(out),
           NEW init \in ServerPacket, out[c] = <<init>>,
           init.type = "Init",
           init.arena.players[init.pid] # None,
           init.arena.mode = "Game" => init.env # None,
           playerOf'[c] = init.pid, link' = link, conn' = conn
    PROVE  OwnPid(c)' /\ InitHasEnv(c)' /\ (link[c] # "open" => down'[c] = down[c])
<1>1. /\ down \in Outgoing /\ OwnPid(c) /\ InitHasEnv(c)
      /\ conn \in [Peers -> Conn \cup {None}]
  BY DEF SessionInv, TypeOK, Outgoing
<1>2. /\ link[c] # "open" => down'[c] = down[c]
      /\ \A i \in DOMAIN down[c] : down'[c][i] = down[c][i]
      /\ \A i \in DOMAIN down'[c] \ DOMAIN down[c] :
            /\ link[c] = "open"
            /\ i - Len(down[c]) \in DOMAIN out[c]
            /\ down'[c][i] = out[c][i - Len(down[c])]
      /\ DOMAIN down[c] = 1 .. Len(down[c]) /\ Len(down[c]) \in Nat
      /\ DOMAIN down'[c] = 1 .. Len(down'[c]) /\ Len(down'[c]) \in Nat
  BY <1>1, TransmitFacts
<1>3. CASE link[c] # "open"
  BY <1>1, <1>2, <1>3 DEF OwnPid, InitHasEnv, Sends
<1>4. CASE link[c] = "open"
  <2>1. None \notin PID
    BY ArenaAssumption DEF PID
  <2>2. conn[c] = None
    BY <1>1, <1>4, <2>1 DEF OwnPid, Conn
  <2>3. ASSUME NEW i \in DOMAIN down[c], down[c][i].type = "Init"
        PROVE  FALSE
    <3>1. down[c][i] \in ServerPacket
      BY <1>1, <1>2 DEF Outgoing
    <3>2. down[c][i].pid \in PID
      BY <2>3, <3>1 DEF ServerPacket
    <3>3. down[c][i].pid = None
      BY <1>1, <1>4, <2>3 DEF OwnPid, Sends
    <3> QED
      BY <2>1, <3>2, <3>3
  <2>4. ASSUME NEW i \in DOMAIN down'[c] \ DOMAIN down[c]
        PROVE  i = Len(down[c]) + 1 /\ down'[c][i] = init
    <3>1. i = Len(down[c]) + 1
      BY <1>2
    <3> QED
      BY <1>2, <3>1
  <2>5. \A i \in DOMAIN down'[c] : down'[c][i].type = "Init" =>
            i = Len(down[c]) + 1 /\ down'[c][i] = init
    BY <1>2, <2>3, <2>4
  <2>6. ASSUME NEW i \in DOMAIN down'[c], NEW j \in DOMAIN down'[c],
               down'[c][i].type = "Init"
        PROVE  ~(i < j)
    <3>1. i = Len(down[c]) + 1
      BY <2>5, <2>6
    <3>2. j \in Nat /\ j <= Len(down[c]) + 1
      BY <1>2, <2>4
    <3> QED
      BY <1>2, <3>1, <3>2
  <2>7. conn'[c] = None
    BY <2>2
  <2> QED
    BY <1>4, <2>5, <2>6, <2>7 DEF OwnPid, InitHasEnv, Sends
<1> QED
  BY <1>2, <1>3, <1>4

LEMMA ReqJoinKeeps ==
    ASSUME SessionInv, NEW c \in Peers, HandleReqJoin(c), UNCHANGED clientVars
    PROVE  SessionInv'
<1> DEFINE d == ConnectPlayer(arena.players, Head(up[c]).nickname)
           init == InitPacket(d.pid, arena', handle)
           join == ToClientsExcept(d.pid, DeltaArena(d))
           out == Then(To(c, init), join)
<1>1. /\ UNCHANGED <<link, phase, conn, handle, lastSky, attached>>
      /\ up[c] # <<>> /\ Head(up[c]).type = "ReqJoin"
      /\ up' = [up EXCEPT ![c] = Tail(@)]
      /\ playerOf[c] = None
      /\ playerOf' = [playerOf EXCEPT ![c] = d.pid]
      /\ arena' = ApplyArenaDelta(arena, d)
      /\ Transmit(out)
  BY DEF HandleReqJoin, Polls, clientVars
<1>2. attached[c] /\ UpOK' /\ Head(up[c]) \in ClientPacket
  BY <1>1, PolledEvent
<1>3. Head(up[c]).nickname \in Name
  BY <1>1, <1>2 DEF ClientPacket
<1>4. /\ playerOf \in [Peers -> PID \cup {None}] /\ attached \in [Peers -> BOOLEAN]
      /\ arena \in ArenaState /\ arena.players \in MapTo(Player)
      /\ handle \in Handle /\ down \in Outgoing
      /\ PeersArePlayers
      /\ arena.mode = "Game" => handle.env # None
  BY DEF SessionInv, TypeOK, Outgoing, ArenaState, ServerGameHasEnv
<1>5. Cardinality(Keys(arena.players)) < MaxPlayers
  BY <1>1, RoomForPlayer
<1>6. /\ d \in ArenaDelta /\ d.type = "Join"
      /\ d.pid \in PID /\ d.pid \notin Keys(arena.players)
  BY <1>3, <1>4, <1>5, ConnectPlayerIsFresh
<1> HIDE DEF d
<1>7. /\ arena' \in ArenaState /\ arena'.mode = arena.mode
      /\ Keys(arena'.players) = Keys(arena.players) \cup {d.pid}
  BY <1>1, <1>4, <1>6, ApplyArenaDeltaKeeps
<1>8. /\ init \in ServerPacket
      /\ init.type = "Init" /\ init.pid = d.pid
      /\ init.arena.players[init.pid] # None
      /\ init.arena.mode = "Game" => init.env # None
  <2>1. /\ CopyArena(arena') \in ArenaState
        /\ CopyArena(arena').players = arena'.players
        /\ CopyArena(arena').mode = arena'.mode
    BY <1>7, CopyArenaType
  <2>2. EnvUrl(handle) \in Envs \cup {None} /\ (handle.env # None => EnvUrl(handle) # None)
    BY <1>4, EnvUrlType
  <2>3. arena'.players[d.pid] # None
    BY <1>7 DEF Keys
  <2>4. init = [type |-> "Init", pid |-> d.pid, arena |-> CopyArena(arena'),
                env |-> EnvUrl(handle)]
    BY DEF InitPacket
  <2> QED
    BY <1>4, <1>6, <1>7, <2>1, <2>2, <2>3, <2>4 DEF ServerPacket
<1>9. IsQuiet(DeltaArena(d))
  BY <1>6 DEF IsQuiet, DeltaArena, ServerPacket
<1>10. Quiet(join)
  BY <1>9, QuietSends DEF ToClientsExcept
<1>11. /\ out \in Outgoing
       /\ out[c] = <<init>>
       /\ \A x \in Peers : x # c => out[x] = join[x]
  <2> HIDE DEF init
  <2>1. To(c, init)[c] = <<init>> /\ <<init>> \in Seq(ServerPacket)
    BY <1>8 DEF To
  <2>2. join[c] = <<>>
    BY <1>1 DEF ToClientsExcept, ToThose
  <2>3. out[c] = <<init>> \o <<>> /\ <<init>> \o <<>> = <<init>>
    BY <2>1, <2>2, ConcatEmptySeq DEF Then
  <2>4. ASSUME NEW x \in Peers, x # c
        PROVE  out[x] = join[x] /\ join[x] \in Seq(ServerPacket)
    <3>1. join[x] \in Seq(ServerPacket)
      BY <1>10 DEF Quiet, Outgoing
    <3>2. To(c, init)[x] = <<>>
      BY <2>4 DEF To
    <3>3. out[x] = <<>> \o join[x]
      BY <3>2 DEF Then
    <3> HIDE DEF join, out
    <3> QED
      BY <3>1, <3>3, ConcatEmptySeq
  <2>5. \A x \in Peers : out[x] \in Seq(ServerPacket)
    BY <2>1, <2>3, <2>4
  <2>6. out = [x \in Peers |-> out[x]]
    BY DEF Then
  <2> HIDE DEF out, join
  <2> QED
    BY <2>3, <2>4, <2>5, <2>6 DEF Outgoing
<1> HIDE DEF out, init
<1>12. playerOf'[c] = d.pid /\ \A x \in Peers : x # c => playerOf'[x] = playerOf[x]
  BY <1>1, <1>4
<1>13. OwnPid(c)' /\ InitHasEnv(c)' /\ (link[c] # "open" => down'[c] = down[c])
  BY <1>1, <1>8, <1>11, <1>12, InitOnItsWay
<1>14. ASSUME NEW x \in Peers, x # c
       PROVE  OwnPid(x)' /\ InitHasEnv(x)' /\ (link[x] # "open" => down'[x] = down[x])
  <2>1. \A i \in DOMAIN out[x] : IsQuiet(out[x][i])
    BY <1>10, <1>11, <1>14 DEF Quiet
  <2> QED
    BY <1>1, <1>11, <1>12, <1>14, <2>1, QuietDownAt
<1>15. down' \in Outgoing
  BY <1>1, <1>4, <1>11, TransmitFacts
<1>16. TypeOK'
  BY <1>1, <1>2, <1>4, <1>6, <1>7, <1>15 DEF SessionInv, TypeOK, UpOK, Outgoing
<1>17. PeersArePlayers'
  <2>1. None \notin PID
    BY ArenaAssumption DEF PID
  <2>2. \A x \in Peers : x # c => playerOf[x] # d.pid
    BY <1>4, <1>6, <2>1 DEF PeersArePlayers
  <2>3. \A x \in Peers : playerOf'[x] # None =>
           attached'[x] /\ playerOf'[x] \in Keys(arena'.players)
    BY <1>1, <1>2, <1>4, <1>7, <1>12 DEF PeersArePlayers
  <2>4. \A p \in Keys(arena'.players) : \E x \in Peers : playerOf'[x] = p
    <3>1. ASSUME NEW p \in Keys(arena'.players), p # d.pid
          PROVE  \E x \in Peers : playerOf'[x] = p
      <4>1. PICK x \in Peers : playerOf[x] = p
        BY <1>4, <1>7, <3>1 DEF PeersArePlayers
      <4>2. p # None
        BY <2>1, <3>1 DEF Keys
      <4>3. x # c
        BY <1>1, <4>1, <4>2
      <4> QED
        BY <1>12, <4>1, <4>3
    <3> QED
      BY <1>12, <3>1
  <2>5. \A x, y \in Peers :
           x # y /\ playerOf'[x] = playerOf'[y] => playerOf'[x] = None
    BY <1>4, <1>12, <2>2 DEF PeersArePlayers
  <2> QED
    BY <2>3, <2>4, <2>5 DEF PeersArePlayers
<1>18. ServerGameHasEnv'
  BY <1>1, <1>7 DEF SessionInv, ServerGameHasEnv
<1>19. GameViewHasEnv' /\ \A x \in Peers : OffIsClean(x)'
  <2>1. \A x \in Peers : link[x] # "open" => down'[x] = down[x]
    BY <1>13, <1>14
  <2> QED
    BY <1>1, <2>1, ClientsKeep
<1>20. \A x \in Peers : UpShape(x)' /\ OwnPid(x)' /\ InitHasEnv(x)'
  BY <1>2, <1>13, <1>14 DEF UpOK
<1> QED
  BY <1>16, <1>17, <1>18, <1>19, <1>20 DEF SessionInv

-----------------------------------------------------------------------------

\* Every step of the server keeps the invariant.
LEMMA ServesKeeps ==
    ASSUME SessionInv, Serves, UNCHANGED clientVars
    PROVE  SessionInv'
<1>1. CASE ServerTick
  BY <1>1, ServerTickKeeps
<1>2. CASE ServerWorker
  BY <1>2, ServerWorkerKeeps
<1>3. ASSUME NEW c \in Peers, ServerHandles(c)
      PROVE  SessionInv'
  BY <1>3, ConnectKeeps, DisconnectKeeps, ReqJoinKeeps, ReqSkyKeeps,
     ReqPlayerDeltaKeeps, ReqTeamKeeps, ReqSpawnKeeps, RefusedKeeps, AuthKeeps,
     StartKeeps, StopKeeps, RestartKeeps, MapKeeps DEF ServerHandles
<1> QED
  BY <1>1, <1>2, <1>3 DEF Serves

-----------------------------------------------------------------------------
(* What a packet does to a connection *)

LEMMA ConnectType ==
    ASSUME NEW packet \in ServerPacket, packet.type = "Init"
    PROVE  /\ Connect(packet) \in Conn /\ Connect(packet) # None
           /\ Connect(packet).pid = packet.pid
           /\ Connect(packet).arena = packet.arena
           /\ (packet.arena.mode = "Game" => packet.env # None) =>
                 ViewHasEnv(Connect(packet))
<1>1. packet.pid \in PID /\ packet.arena \in ArenaState /\ packet.env \in Envs \cup {None}
  BY DEF ServerPacket
<1>2. packet.arena.mode \in Mode
  BY <1>1 DEF ArenaState
<1>3. /\ NewHandle(packet.env) \in Handle /\ NewHandle(packet.env).sky = None
      /\ packet.env # None => NewHandle(packet.env).env # None
  BY <1>1, HandleAssumption DEF NewHandle, NewEnv, Handle, Env, Stage
<1>4. Connect(packet) = [pid |-> packet.pid, arena |-> packet.arena,
         handle |-> NewHandle(packet.env), askedSky |-> FALSE,
         view |-> packet.arena.mode, gameView |-> FALSE]
  BY DEF Connect
<1>5. Connect(packet) \in Conn
  BY <1>1, <1>2, <1>3, <1>4 DEF Conn
<1>6. Connect(packet) # None
  BY <1>5, ClientAssumption
<1> QED
  BY <1>3, <1>4, <1>5, <1>6 DEF ViewHasEnv

LEMMA LoadViewType ==
    ASSUME NEW k \in Conn, NEW m \in Mode
    PROVE  /\ LoadView(k, m) \in Conn
           /\ LoadView(k, m).view = m /\ LoadView(k, m).gameView = FALSE
           /\ LoadView(k, m).pid = k.pid /\ LoadView(k, m).arena = k.arena
           /\ LoadView(k, m).handle = k.handle
BY DEF LoadView, Conn

LEMMA ReceiveArenaDeltaKeeps ==
    ASSUME NEW k \in Conn, ViewHasEnv(k), NEW d \in ArenaDelta
    PROVE  LET r == ReceiveArenaDelta(k, d)
           IN  /\ r \in Conn /\ ViewHasEnv(r) /\ r.pid = k.pid
               /\ r.arena = ApplyArenaDelta(k.arena, d)
<1> DEFINE a == ApplyArenaDelta(k.arena, d)
           changed == [k EXCEPT !.arena = a]
<1>1. k.arena \in ArenaState
  BY DEF Conn
<1>2. a \in ArenaState /\ a.mode = (IF d.type = "Mode" THEN d.mode ELSE k.arena.mode)
  BY <1>1, ApplyArenaDeltaKeeps
<1>3. ReceiveArenaDelta(k, d) =
        IF d.type = "Mode" /\ d.mode # k.arena.mode /\ d.mode # "Game"
        THEN LoadView(changed, d.mode) ELSE changed
  BY DEF ReceiveArenaDelta
<1> HIDE DEF a
<1>4. /\ changed \in Conn /\ changed.arena = a
      /\ changed.pid = k.pid /\ changed.view = k.view
      /\ changed.gameView = k.gameView /\ changed.handle = k.handle
  BY <1>2 DEF Conn
<1> HIDE DEF changed
<1>5. CASE d.type = "Mode" /\ d.mode # k.arena.mode /\ d.mode # "Game"
  <2>1. d.mode \in Mode
    BY <1>5 DEF ArenaDelta
  <2> DEFINE r == LoadView(changed, d.mode)
  <2>2. ReceiveArenaDelta(k, d) = r
    BY <1>3, <1>5
  <2>3. /\ r \in Conn /\ r.view = d.mode /\ r.gameView = FALSE
        /\ r.pid = k.pid /\ r.arena = a /\ r.handle = k.handle
    BY <1>4, <2>1, LoadViewType
  <2> HIDE DEF r
  <2>4. ViewHasEnv(r)
    BY <1>5, <2>3 DEF ViewHasEnv
  <2> QED
    BY <2>2, <2>3, <2>4 DEF a
<1>6. CASE ~(d.type = "Mode" /\ d.mode # k.arena.mode /\ d.mode # "Game")
  <2>1. ReceiveArenaDelta(k, d) = changed
    BY <1>3, <1>6
  <2>2. k.arena.mode = "Game" => a.mode = "Game"
    BY <1>2, <1>6
  <2> QED
    BY <1>4, <2>1, <2>2 DEF ViewHasEnv, a
<1> QED
  BY <1>5, <1>6

LEMMA ReceiveHandleDeltaKeeps ==
    ASSUME NEW k \in Conn, ViewHasEnv(k), NEW url \in Envs \cup {None}
    PROVE  LET r == ReceiveHandleDelta(k, url)
           IN  r \in Conn /\ ViewHasEnv(r) /\ r.pid = k.pid /\ r.arena = k.arena
<1> DEFINE h == ApplyHandleDelta(k.handle, url)
           changed == [k EXCEPT !.handle = h]
           ended == [changed EXCEPT !.askedSky = FALSE]
<1>1. k.handle \in Handle
  BY DEF Conn
<1>2. /\ h \in Handle
      /\ url # None => h.env # None
      /\ url = None => h.sky = None
      /\ url # None => h.sky = k.handle.sky
  <2>1. url # None => NewEnv(url) \in Env /\ NewEnv(url) # None
    BY HandleAssumption DEF NewEnv, Env, Stage
  <2> QED
    BY <1>1, <2>1 DEF ApplyHandleDelta, Handle
<1> HIDE DEF h
<1>3. /\ changed \in Conn /\ changed.arena = k.arena
      /\ changed.pid = k.pid /\ changed.view = k.view
      /\ changed.gameView = k.gameView /\ changed.handle = h
  BY <1>2 DEF Conn
<1> HIDE DEF changed
<1>4. /\ ended \in Conn /\ ended.arena = k.arena
      /\ ended.pid = k.pid /\ ended.view = k.view
      /\ ended.gameView = k.gameView /\ ended.handle = h
  BY <1>3 DEF Conn
<1>5. ReceiveHandleDelta(k, url) =
        IF url # None
        THEN IF k.arena.mode = "Game" THEN LoadView(changed, "Game") ELSE changed
        ELSE IF k.arena.mode = "Game" THEN LoadView(ended, "Lobby") ELSE ended
  BY DEF ReceiveHandleDelta, changed, h
<1> HIDE DEF ended
<1>6. "Game" \in Mode /\ "Lobby" \in Mode
  BY DEF Mode
<1>7. CASE k.arena.mode = "Game" /\ url # None
  <2> DEFINE r == LoadView(changed, "Game")
  <2>1. /\ r \in Conn /\ r.view = "Game" /\ r.gameView = FALSE
        /\ r.pid = k.pid /\ r.arena = k.arena /\ r.handle = h
    BY <1>3, <1>6, LoadViewType
  <2>2. ReceiveHandleDelta(k, url) = r
    BY <1>5, <1>7
  <2> HIDE DEF r
  <2> QED
    BY <1>2, <1>7, <2>1, <2>2 DEF ViewHasEnv
<1>8. CASE k.arena.mode = "Game" /\ url = None
  <2> DEFINE r == LoadView(ended, "Lobby")
  <2>1. /\ r \in Conn /\ r.view = "Lobby" /\ r.gameView = FALSE
        /\ r.pid = k.pid /\ r.arena = k.arena /\ r.handle = h
    BY <1>4, <1>6, LoadViewType
  <2>2. ReceiveHandleDelta(k, url) = r
    BY <1>5, <1>8
  <2> HIDE DEF r
  <2> QED
    BY <1>2, <1>8, <2>1, <2>2 DEF ViewHasEnv
<1>9. CASE k.arena.mode # "Game"
  BY <1>2, <1>3, <1>4, <1>5, <1>9 DEF ViewHasEnv
<1> QED
  BY <1>7, <1>8, <1>9

LEMMA ReceiveSkyKeeps ==
    ASSUME NEW k \in Conn, ViewHasEnv(k), NEW sky \in Nat
    PROVE  LET r == ReceiveSky(k, sky)
           IN  r \in Conn /\ ViewHasEnv(r) /\ r.pid = k.pid /\ r.arena = k.arena
<1> DEFINE h == InstantiateSky(k.handle, sky)
<1>1. k.handle \in Handle
  BY DEF Conn
<1>2. h \in Handle /\ h.env = k.handle.env /\ h.sky = sky
  BY <1>1 DEF InstantiateSky, Handle
<1>3. ReceiveSky(k, sky) = IF EnvReady(k.handle) THEN [k EXCEPT !.handle = h] ELSE k
  BY DEF ReceiveSky
<1> HIDE DEF h
<1>4. CASE EnvReady(k.handle)
  <2> DEFINE r == [k EXCEPT !.handle = h]
  <2>1. /\ r \in Conn /\ r.pid = k.pid /\ r.arena = k.arena /\ r.view = k.view
        /\ r.gameView = k.gameView /\ r.handle = h
    BY <1>2 DEF Conn
  <2> HIDE DEF r
  <2>2. k.handle.env # None /\ sky # None
    BY <1>4, ArenaAssumption DEF EnvReady
  <2> QED
    BY <1>2, <1>3, <1>4, <2>1, <2>2 DEF ViewHasEnv, r
<1>5. CASE ~EnvReady(k.handle)
  BY <1>3, <1>5
<1> QED
  BY <1>4, <1>5

\* What processPacket makes of a connection, or of none.
LEMMA ProcessPacketKeeps ==
    ASSUME NEW k \in Conn \cup {None}, NEW packet \in ServerPacket,
           k # None => ViewHasEnv(k)
    PROVE  LET r == ProcessPacket(k, packet)
           IN  /\ r \in Conn \cup {None}
               /\ k # None =>
                    /\ r # None /\ ViewHasEnv(r) /\ r.pid = k.pid
                    /\ k.arena.players[k.pid] # None /\ ~IsQuitOf(packet, k.pid) =>
                          r.arena.players[k.pid] # None
               /\ k = None => IF packet.type = "Init" THEN r = Connect(packet)
                                                     ELSE r = None
<1> DEFINE r == ProcessPacket(k, packet)
<1>1. CASE k = None
  BY <1>1, ConnectType DEF ProcessPacket
<1>2. CASE k # None
  <2>1. k \in Conn /\ ViewHasEnv(k) /\ k.pid \in PID /\ k.arena \in ArenaState
    BY <1>2 DEF Conn
  <2>2. CASE packet.type = "DeltaArena"
    <3>1. packet.delta \in ArenaDelta
      BY <2>2 DEF ServerPacket
    <3>2. r = ReceiveArenaDelta(k, packet.delta)
      BY <1>2, <2>2 DEF ProcessPacket
    <3>3. /\ r \in Conn /\ ViewHasEnv(r) /\ r.pid = k.pid
          /\ r.arena = ApplyArenaDelta(k.arena, packet.delta)
      BY <2>1, <3>1, <3>2, ReceiveArenaDeltaKeeps
    <3>4. k.pid \in Keys(k.arena.players) /\ ~IsQuitOf(packet, k.pid) =>
            k.pid \in Keys(r.arena.players)
      BY <2>1, <2>2, <3>1, <3>3, ApplyArenaDeltaKeeps DEF IsQuitOf, ArenaDelta
    <3>5. k.arena.players[k.pid] # None /\ ~IsQuitOf(packet, k.pid) =>
            r.arena.players[k.pid] # None
      BY <2>1, <3>4 DEF Keys
    <3>6. r # None
      BY <3>3, ClientAssumption
    <3> HIDE DEF r
    <3> QED
      BY <1>2, <3>3, <3>5, <3>6 DEF r
  <2>3. ASSUME r \in Conn, ViewHasEnv(r), r.pid = k.pid, r.arena = k.arena
        PROVE  /\ r \in Conn \cup {None} /\ r # None /\ ViewHasEnv(r) /\ r.pid = k.pid
               /\ k.arena.players[k.pid] # None => r.arena.players[k.pid] # None
    <3> HIDE DEF r
    <3> QED
      BY <2>3, ClientAssumption
  <2>4. CASE packet.type = "DeltaSkyHandle"
    <3>1. packet.env \in Envs \cup {None}
      BY <2>4 DEF ServerPacket
    <3>2. r = ReceiveHandleDelta(k, packet.env)
      BY <1>2, <2>4 DEF ProcessPacket
    <3>3. r \in Conn /\ ViewHasEnv(r) /\ r.pid = k.pid /\ r.arena = k.arena
      BY <2>1, <3>1, <3>2, ReceiveHandleDeltaKeeps
    <3> HIDE DEF r
    <3> QED
      BY <1>2, <2>3, <3>3 DEF r
  <2>5. CASE packet.type = "InitSky"
    <3>1. packet.sky \in Nat
      BY <2>5 DEF ServerPacket
    <3>2. r = ReceiveSky(k, packet.sky)
      BY <1>2, <2>5 DEF ProcessPacket
    <3>3. r \in Conn /\ ViewHasEnv(r) /\ r.pid = k.pid /\ r.arena = k.arena
      BY <2>1, <3>1, <3>2, ReceiveSkyKeeps
    <3> HIDE DEF r
    <3> QED
      BY <1>2, <2>3, <3>3 DEF r
  <2>6. CASE packet.type \notin {"DeltaArena", "DeltaSkyHandle", "InitSky"}
    <3>1. r = k
      BY <1>2, <2>6 DEF ProcessPacket
    <3> HIDE DEF r
    <3> QED
      BY <1>2, <2>1, <2>3, <3>1 DEF r
  <2> QED
    BY <2>2, <2>4, <2>5, <2>6
<1> QED
  BY <1>1, <1>2

-----------------------------------------------------------------------------
(* Steps of a client *)

ClientStep(c) ==
    /\ UNCHANGED serverVars
    /\ UpOK'
    /\ link' \in [Peers -> {"open", "down"}] /\ down' \in Outgoing
    /\ phase' \in [Peers -> Phase] /\ conn' \in [Peers -> Conn \cup {None}]
    /\ \A x \in Peers : x # c =>
          /\ link'[x] = link[x] /\ down'[x] = down[x]
          /\ phase'[x] = phase[x] /\ conn'[x] = conn[x]

\* A step of c keeps the invariant when it keeps what is said of c.
LEMMA ClientStepKeeps ==
    ASSUME SessionInv, NEW c \in Peers, ClientStep(c),
           conn'[c] # None => ViewHasEnv(conn'[c]),
           OffIsClean(c)', OwnPid(c)', InitHasEnv(c)'
    PROVE  SessionInv'
<1>1. /\ UNCHANGED <<arena, handle, lastSky, attached, playerOf>>
      /\ UpOK' /\ down' \in Outgoing
  BY DEF ClientStep, serverVars
<1>2. TypeOK'
  BY <1>1 DEF SessionInv, TypeOK, ClientStep, UpOK, Outgoing
<1>3. PeersArePlayers' /\ ServerGameHasEnv'
  BY <1>1 DEF SessionInv, PeersArePlayers, ServerGameHasEnv
<1>4. GameViewHasEnv'
  <2>1. ASSUME NEW x \in Peers, conn'[x] # None
        PROVE  ViewHasEnv(conn'[x])
    BY <2>1 DEF SessionInv, GameViewHasEnv, ClientStep
  <2>2. ASSUME NEW x \in Peers, conn'[x] # None
        PROVE  ViewHasEnv(conn[x])'
    BY <2>1, <2>2 DEF ViewHasEnv
  <2> QED
    BY <2>2 DEF GameViewHasEnv
<1>5. ASSUME NEW x \in Peers, x # c
      PROVE  OffIsClean(x)' /\ OwnPid(x)' /\ InitHasEnv(x)'
  <2>1. OffIsClean(x) /\ OwnPid(x) /\ InitHasEnv(x)
    BY DEF SessionInv
  <2>2. /\ link'[x] = link[x] /\ down'[x] = down[x]
        /\ phase'[x] = phase[x] /\ conn'[x] = conn[x]
        /\ playerOf'[x] = playerOf[x]
    BY <1>1, <1>5 DEF ClientStep
  <2>3. OffIsClean(x)' /\ InitHasEnv(x)'
    BY <2>1, <2>2 DEF OffIsClean, InitHasEnv, Sends
  <2>4. OwnPid(x)'
    BY <2>1, <2>2 DEF OwnPid, Sends
  <2> QED
    BY <2>3, <2>4
<1>6. \A x \in Peers : OffIsClean(x)' /\ OwnPid(x)' /\ InitHasEnv(x)'
  BY <1>5
<1> QED
  BY <1>1, <1>2, <1>3, <1>4, <1>6 DEF SessionInv, UpOK

\* What SessionInv says of a client.
LEMMA ClientFacts ==
    ASSUME SessionInv, NEW c \in Peers
    PROVE  /\ link \in [Peers -> {"open", "down"}] /\ down \in Outgoing
           /\ up \in [Peers -> Seq(ClientPacket)]
           /\ phase \in [Peers -> Phase] /\ conn \in [Peers -> Conn \cup {None}]
           /\ attached \in [Peers -> BOOLEAN]
           /\ conn[c] # None => conn[c] \in Conn /\ ViewHasEnv(conn[c])
           /\ OffIsClean(c) /\ OwnPid(c) /\ InitHasEnv(c) /\ UpShape(c)
BY DEF SessionInv, TypeOK, Outgoing, GameViewHasEnv

\* A client that only sends something, or is about to.
LEMMA SendingKeeps ==
    ASSUME SessionInv, NEW c \in Peers, UpOK',
           UNCHANGED serverVars, UNCHANGED <<link, down, conn>>,
           \/ phase' = phase
           \/ phase[c] # "off" /\ phase' = [phase EXCEPT ![c] = "asked"]
    PROVE  SessionInv'
<1>1. /\ link \in [Peers -> {"open", "down"}] /\ down \in Outgoing
      /\ phase \in [Peers -> Phase] /\ conn \in [Peers -> Conn \cup {None}]
      /\ conn[c] # None => ViewHasEnv(conn[c])
      /\ OffIsClean(c) /\ OwnPid(c) /\ InitHasEnv(c)
  BY ClientFacts
<1>2. phase' \in [Peers -> Phase] /\ (phase'[c] = "off" => phase[c] = "off")
      /\ \A x \in Peers : x # c => phase'[x] = phase[x]
  BY <1>1 DEF Phase
<1>3. ClientStep(c)
  BY <1>1, <1>2 DEF ClientStep
<1>4. OffIsClean(c)' /\ InitHasEnv(c)'
  BY <1>1, <1>2 DEF OffIsClean, InitHasEnv, Sends
<1>5. OwnPid(c)'
  BY <1>1 DEF OwnPid, Sends, serverVars
<1>6. conn'[c] # None => ViewHasEnv(conn'[c])
  BY <1>1
<1> QED
  BY <1>3, <1>4, <1>5, <1>6, ClientStepKeeps

\* A client whose connection comes to an end, at this end.
LEMMA EndingKeeps ==
    ASSUME SessionInv, NEW c \in Peers, UpOK', UNCHANGED serverVars,
           link' \in [Peers -> {"open", "down"}], link'[c] = "down",
           \A x \in Peers : x # c => link'[x] = link[x],
           down' = [down EXCEPT ![c] = <<>>],
           \/ conn' = conn /\ phase' = [phase EXCEPT ![c] = "leaving"]
           \/ /\ conn' = [conn EXCEPT ![c] = None]
              /\ phase' = [phase EXCEPT ![c] = "off"]
    PROVE  SessionInv'
<1>1. /\ down \in Outgoing
      /\ phase \in [Peers -> Phase] /\ conn \in [Peers -> Conn \cup {None}]
      /\ conn[c] # None => ViewHasEnv(conn[c])
      /\ OwnPid(c)
  BY ClientFacts
<1>2. /\ down' \in Outgoing /\ down'[c] = <<>>
      /\ \A x \in Peers : x # c => down'[x] = down[x]
  BY <1>1, EmptySeq DEF Outgoing
<1>3. /\ phase' \in [Peers -> Phase] /\ conn' \in [Peers -> Conn \cup {None}]
      /\ \A x \in Peers : x # c => phase'[x] = phase[x] /\ conn'[x] = conn[x]
      /\ conn'[c] # None => conn'[c] = conn[c] /\ phase'[c] # "off"
  BY <1>1 DEF Phase
<1>4. ClientStep(c)
  BY <1>2, <1>3 DEF ClientStep
<1>5. OffIsClean(c)'
  BY <1>2, <1>3 DEF OffIsClean
<1>6. \A i \in DOMAIN down'[c] : FALSE
  BY <1>2
<1>7. InitHasEnv(c)'
  BY <1>6 DEF InitHasEnv
<1>8. OwnPid(c)'
  <2>1. conn'[c] # None => conn'[c].arena.players[conn'[c].pid] # None
    BY <1>1, <1>3 DEF OwnPid
  <2>2. link'[c] # "open"
    OBVIOUS
  <2> QED
    BY <1>6, <2>1, <2>2 DEF OwnPid
<1>9. conn'[c] # None => ViewHasEnv(conn'[c])
  BY <1>1, <1>3
<1> QED
  BY <1>4, <1>5, <1>7, <1>8, <1>9, ClientStepKeeps

LEMMA ClientReceivesKeeps ==
    ASSUME SessionInv, NEW c \in Peers, ClientReceives(c), UNCHANGED serverVars
    PROVE  SessionInv'
<1> DEFINE q == down[c]
           k == conn[c]
           r == ProcessPacket(k, Head(q))
<1>1. /\ link \in [Peers -> {"open", "down"}] /\ down \in Outgoing
      /\ up \in [Peers -> Seq(ClientPacket)]
      /\ phase \in [Peers -> Phase] /\ conn \in [Peers -> Conn \cup {None}]
      /\ k # None => ViewHasEnv(k)
      /\ OffIsClean(c) /\ OwnPid(c) /\ InitHasEnv(c)
  BY ClientFacts
<1>2. /\ phase[c] # "off" /\ q # <<>>
      /\ conn' = [conn EXCEPT ![c] = r]
      /\ down' = [down EXCEPT ![c] = Tail(q)]
      /\ UNCHANGED <<link, up, phase, arena, handle, lastSky, attached, playerOf>>
  BY DEF ClientReceives, serverVars
<1>3. q \in Seq(ServerPacket) /\ k \in Conn \cup {None}
  BY <1>1 DEF Outgoing
<1>4. /\ \A i \in DOMAIN q : q[i].type = "Init" =>
            /\ q[i].arena.players[q[i].pid] # None
            /\ link[c] = "open" => q[i].pid = playerOf[c]
            /\ \A j \in DOMAIN q : i < j => ~IsQuitOf(q[j], q[i].pid)
      /\ k # None =>
            /\ k.arena.players[k.pid] # None
            /\ link[c] = "open" => k.pid = playerOf[c]
            /\ \A j \in DOMAIN q : ~IsQuitOf(q[j], k.pid)
      /\ \A i \in DOMAIN q :
            q[i].type = "Init" /\ q[i].arena.mode = "Game" => q[i].env # None
  BY <1>1 DEF OwnPid, InitHasEnv, Sends
<1> HIDE DEF q, k
<1>5. /\ Head(q) \in ServerPacket /\ Head(q) = q[1]
      /\ Tail(q) \in Seq(ServerPacket)
      /\ Len(q) \in Nat \ {0}
      /\ DOMAIN q = 1 .. Len(q) /\ DOMAIN Tail(q) = 1 .. Len(q) - 1
      /\ \A i \in 1 .. Len(q) - 1 : Tail(q)[i] = q[i + 1]
  BY <1>2, <1>3, TailFacts
<1>6. /\ r \in Conn \cup {None}
      /\ k # None =>
            /\ r # None /\ ViewHasEnv(r) /\ r.pid = k.pid
            /\ k.arena.players[k.pid] # None /\ ~IsQuitOf(Head(q), k.pid) =>
                  r.arena.players[k.pid] # None
      /\ k = None => IF Head(q).type = "Init" THEN r = Connect(Head(q))
                                              ELSE r = None
  BY <1>1, <1>3, <1>5, ProcessPacketKeeps DEF k
<1> HIDE DEF r
<1>7. /\ down' \in Outgoing /\ down'[c] = Tail(q)
      /\ conn' \in [Peers -> Conn \cup {None}] /\ conn'[c] = r
      /\ \A x \in Peers : x # c => down'[x] = down[x] /\ conn'[x] = conn[x]
  BY <1>1, <1>2, <1>5, <1>6 DEF Outgoing
<1>8. UpOK'
  <2>1. ASSUME NEW x \in Peers
        PROVE  UpShape(x)'
    <3>1. UpShape(x)
      BY ClientFacts
    <3> QED
      BY <1>2, <3>1 DEF UpShape
  <2> QED
    BY <1>1, <1>2, <2>1 DEF UpOK
<1>9. ClientStep(c)
  BY <1>1, <1>2, <1>7, <1>8 DEF ClientStep, serverVars
<1>10. OffIsClean(c)'
  BY <1>2 DEF OffIsClean
<1>11. \A i \in DOMAIN down'[c] : i + 1 \in DOMAIN q /\ down'[c][i] = q[i + 1]
  BY <1>5, <1>7
<1>12. InitHasEnv(c)'
  <2>1. ASSUME NEW i \in DOMAIN down'[c], down'[c][i].type = "Init",
               down'[c][i].arena.mode = "Game"
        PROVE  down'[c][i].env # None
    BY <1>4, <1>11, <2>1
  <2> QED
    BY <2>1 DEF InitHasEnv, Sends
<1>13. r # None => /\ ViewHasEnv(r)
                   /\ r.arena.players[r.pid] # None
                   /\ link[c] = "open" => r.pid = playerOf[c]
                   /\ \A j \in DOMAIN q : 1 < j => ~IsQuitOf(q[j], r.pid)
  <2>1. 1 \in DOMAIN q
    BY <1>5
  <2>2. CASE k # None
    BY <1>4, <1>5, <1>6, <2>1, <2>2
  <2>3. CASE k = None /\ r # None
    <3>1. Head(q).type = "Init" /\ r = Connect(Head(q))
      BY <1>6, <2>3
    <3>2. r.pid = q[1].pid /\ r.arena = q[1].arena
      BY <1>5, <3>1, ConnectType
    <3>3. q[1].arena.mode = "Game" => q[1].env # None
      BY <1>4, <1>5, <2>1, <3>1
    <3>4. ViewHasEnv(r)
      BY <1>5, <3>1, <3>3, ConnectType
    <3> QED
      BY <1>4, <1>5, <2>1, <3>1, <3>2, <3>4
  <2> QED
    BY <2>2, <2>3
<1>14. OwnPid(c)'
  <2>1. ASSUME NEW i \in DOMAIN down'[c], down'[c][i].type = "Init"
        PROVE  /\ down'[c][i].arena.players[down'[c][i].pid] # None
               /\ link[c] = "open" => down'[c][i].pid = playerOf[c]
    BY <1>4, <1>11, <2>1
  <2>2. ASSUME NEW i \in DOMAIN down'[c], down'[c][i].type = "Init",
               NEW j \in DOMAIN down'[c], i < j
        PROVE  ~IsQuitOf(down'[c][j], down'[c][i].pid)
    <3>1. /\ i + 1 \in DOMAIN q /\ j + 1 \in DOMAIN q
          /\ down'[c][i] = q[i + 1] /\ down'[c][j] = q[j + 1]
      BY <1>11
    <3>2. i + 1 < j + 1
      BY <1>5, <1>7, <2>2
    <3> QED
      BY <1>4, <2>2, <3>1, <3>2
  <2>3. ASSUME r # None
        PROVE  \A j \in DOMAIN down'[c] : ~IsQuitOf(down'[c][j], r.pid)
    <3>1. ASSUME NEW j \in DOMAIN down'[c]
          PROVE  ~IsQuitOf(down'[c][j], r.pid)
      <4>1. j + 1 \in DOMAIN q /\ down'[c][j] = q[j + 1]
        BY <1>11
      <4>2. 1 < j + 1
        BY <1>5, <1>7
      <4> QED
        BY <1>13, <2>3, <4>1, <4>2
    <3> QED
      BY <3>1
  <2> QED
    BY <1>2, <1>7, <1>13, <2>1, <2>2, <2>3 DEF OwnPid, Sends
<1> QED
  BY <1>7, <1>9, <1>10, <1>12, <1>13, <1>14, ClientStepKeeps

\* A step of the client that changes its handle and its view, and may send a
\* packet: nothing on its way to it is touched.
LEMMA ConnChangeKeeps ==
    ASSUME SessionInv, NEW c \in Peers, UpOK', UNCHANGED serverVars,
           UNCHANGED <<link, down, phase>>, conn[c] # None,
           NEW k \in Conn, conn' = [conn EXCEPT ![c] = k],
           ViewHasEnv(k), k.pid = conn[c].pid, k.arena = conn[c].arena
    PROVE  SessionInv'
<1>1. /\ link \in [Peers -> {"open", "down"}] /\ down \in Outgoing
      /\ phase \in [Peers -> Phase] /\ conn \in [Peers -> Conn \cup {None}]
      /\ OffIsClean(c) /\ OwnPid(c) /\ InitHasEnv(c)
  BY ClientFacts
<1>2. /\ conn' \in [Peers -> Conn \cup {None}] /\ conn'[c] = k
      /\ \A x \in Peers : x # c => conn'[x] = conn[x]
  BY <1>1
<1>3. ClientStep(c)
  BY <1>1, <1>2 DEF ClientStep
<1>4. OffIsClean(c)' /\ InitHasEnv(c)'
  BY <1>1 DEF OffIsClean, InitHasEnv, Sends
<1>5. OwnPid(c)'
  BY <1>1, <1>2 DEF OwnPid, Sends, serverVars
<1> QED
  BY <1>2, <1>3, <1>4, <1>5, ClientStepKeeps

LEMMA SameUp ==
    ASSUME SessionInv, UNCHANGED <<link, up, attached>>
    PROVE  UpOK'
<1>1. ASSUME NEW x \in Peers
      PROVE  UpShape(x)'
  <2>1. UpShape(x)
    BY ClientFacts
  <2> QED
    BY <2>1 DEF UpShape
<1>2. up' \in [Peers -> Seq(ClientPacket)]
  BY DEF SessionInv, TypeOK
<1> QED
  BY <1>1, <1>2 DEF UpOK

LEMMA CoreTickType ==
    ASSUME NEW k \in Conn, ViewHasEnv(k)
    PROVE  LET r == CoreTick(k)
           IN  /\ r \in Conn /\ ViewHasEnv(r)
               /\ r.pid = k.pid /\ r.arena = k.arena
<1>1. /\ LoadMore(k.handle) \in Handle /\ LoadMore(k.handle).sky = k.handle.sky
      /\ k.handle.env # None => LoadMore(k.handle).env # None
  BY HandleAssumption DEF LoadMore, Conn, Handle, Env, Stage
<1>2. LET r == [k EXCEPT !.handle = LoadMore(k.handle)]
      IN  /\ r \in Conn /\ r.pid = k.pid /\ r.arena = k.arena
          /\ r.view = k.view /\ r.gameView = k.gameView
          /\ r.handle = LoadMore(k.handle)
  BY <1>1 DEF Conn
<1>3. LET r == [k EXCEPT !.askedSky = TRUE]
      IN  /\ r \in Conn /\ r.pid = k.pid /\ r.arena = k.arena
          /\ r.view = k.view /\ r.gameView = k.gameView
          /\ r.handle = k.handle
  BY DEF Conn
<1>4. CASE AsksForSky(k)
  <2> DEFINE r == [k EXCEPT !.askedSky = TRUE]
  <2>1. CoreTick(k) = r
    BY <1>4 DEF CoreTick
  <2> HIDE DEF r
  <2> QED
    BY <1>3, <2>1 DEF ViewHasEnv, r
<1>5. CASE ~AsksForSky(k) /\ k.handle.sky = None
  <2> DEFINE r == [k EXCEPT !.handle = LoadMore(k.handle)]
  <2>1. CoreTick(k) = r
    BY <1>5 DEF CoreTick
  <2> HIDE DEF r
  <2> QED
    BY <1>1, <1>2, <2>1 DEF ViewHasEnv, r
<1>6. CASE ~AsksForSky(k) /\ k.handle.sky # None
  BY <1>6 DEF CoreTick
<1> QED
  BY <1>4, <1>5, <1>6

LEMMA ClientTickKeeps ==
    ASSUME SessionInv, NEW c \in Peers, ClientTick(c), UNCHANGED serverVars
    PROVE  SessionInv'
<1> DEFINE k == CoreTick(conn[c])
           r == [k EXCEPT !.gameView = @ \/ OpensGame(k)]
<1>1. /\ conn[c] # None
      /\ conn' = [conn EXCEPT ![c] = r]
      /\ IF AsksForSky(conn[c]) THEN Send(c, ReqSky) ELSE UNCHANGED up
      /\ UNCHANGED <<link, down, phase, attached>>
  BY DEF ClientTick, InArena, serverVars
<1>2. conn[c] \in Conn /\ ViewHasEnv(conn[c])
  BY <1>1, ClientFacts
<1>3. k \in Conn /\ ViewHasEnv(k) /\ k.pid = conn[c].pid /\ k.arena = conn[c].arena
  BY <1>2, CoreTickType
<1> HIDE DEF k
<1>4. /\ r \in Conn /\ r.pid = k.pid /\ r.arena = k.arena
      /\ r.view = k.view /\ r.handle = k.handle
      /\ r.gameView <=> k.gameView \/ OpensGame(k)
  <2>1. (k.gameView \/ OpensGame(k)) \in BOOLEAN
    OBVIOUS
  <2> QED
    BY <1>3, <2>1 DEF Conn
<1> HIDE DEF r
<1>5. ViewHasEnv(r)
  BY <1>3, <1>4 DEF ViewHasEnv, OpensGame
<1>6. UpOK'
  <2>1. CASE AsksForSky(conn[c])
    <3>1. ReqSky \in ClientPacket /\ ReqSky.type = "ReqSky"
      BY DEF ReqSky, ClientPacket
    <3> QED
      BY <1>1, <2>1, <3>1, SentPacket
  <2>2. CASE ~AsksForSky(conn[c])
    BY <1>1, <2>2, SameUp
  <2> QED
    BY <2>1, <2>2
<1> QED
  BY <1>1, <1>3, <1>4, <1>5, <1>6, ConnChangeKeeps

LEMMA ClientWorkerKeeps ==
    ASSUME SessionInv, NEW c \in Peers, ClientWorker(c), UNCHANGED serverVars
    PROVE  SessionInv'
<1> DEFINE k == conn[c]
           h == WorkerEnds(k.handle)
           r == [k EXCEPT !.handle = h]
<1>1. /\ conn[c] # None /\ WorkerBusy(conn[c].handle)
      /\ conn' = [conn EXCEPT ![c].handle = h]
      /\ UNCHANGED <<link, up, down, phase, attached>>
  BY DEF ClientWorker, serverVars
<1>2. k \in Conn /\ ViewHasEnv(k)
  BY <1>1, ClientFacts
<1>3. conn' = [conn EXCEPT ![c] = r]
  BY <1>1
<1>4. h \in Handle /\ h.env # None /\ h.sky = k.handle.sky
  <2>1. k.handle \in Handle /\ k.handle.env # None
    BY <1>1, <1>2 DEF Conn, WorkerBusy
  <2> QED
    BY <2>1, HandleAssumption DEF WorkerEnds, Handle, Env, Stage
<1> HIDE DEF h, k
<1>5. /\ r \in Conn /\ r.pid = k.pid /\ r.arena = k.arena
      /\ r.view = k.view /\ r.gameView = k.gameView /\ r.handle = h
  BY <1>2, <1>4 DEF Conn
<1> HIDE DEF r
<1>6. ViewHasEnv(r)
  BY <1>2, <1>4, <1>5 DEF ViewHasEnv
<1>7. UpOK'
  BY <1>1, SameUp
<1> QED
  BY <1>1, <1>3, <1>5, <1>6, <1>7, ConnChangeKeeps DEF k

LEMMA RequestKeeps ==
    ASSUME SessionInv, NEW c \in Peers, NEW packet \in ClientPacket,
           packet.type \notin {"CONNECT", "DISCONNECT"},
           Request(c, packet), UNCHANGED serverVars
    PROVE  SessionInv'
<1>1. /\ Send(c, packet) /\ UNCHANGED <<link, down, phase, conn, attached>>
  BY DEF Request, serverVars
<1>2. UpOK'
  BY <1>1, SentPacket
<1> QED
  BY <1>1, <1>2, SendingKeeps

\* The packet of a change of nickname repeats a flag of the client's own
\* player, which is why that player has to be in its arena.
LEMMA RequestNicknameKeeps ==
    ASSUME SessionInv, NEW c \in Peers, RequestNickname(c), UNCHANGED serverVars
    PROVE  SessionInv'
<1> DEFINE own == conn[c].arena.players[conn[c].pid]
<1>1. PICK nick \in NickRequests :
         Request(c, [type |-> "ReqPlayerDelta", nickname |-> nick, admin |-> own.admin])
  BY DEF RequestNickname
<1>2. conn[c] # None
  BY <1>1 DEF Request, MayType, InArena
<1>3. conn[c] \in Conn /\ own # None
  BY <1>2, ClientFacts DEF OwnPid
<1>4. own \in Player
  BY <1>3 DEF Conn, ArenaState, MapTo
<1>5. own.admin \in BOOLEAN
  BY <1>4 DEF Player
<1>6. nick \in Name
  BY ClientAssumption
<1> HIDE DEF own
<1> DEFINE packet == [type |-> "ReqPlayerDelta", nickname |-> nick, admin |-> own.admin]
<1>7. packet \in ClientPacket /\ packet.type = "ReqPlayerDelta"
  BY <1>5, <1>6 DEF ClientPacket
<1>8. Request(c, packet)
  BY <1>1 DEF own
<1> HIDE DEF packet
<1> QED
  BY <1>7, <1>8, RequestKeeps

LEMMA OtherRequestsKeep ==
    ASSUME SessionInv, NEW c \in Peers, UNCHANGED serverVars,
           RequestTeam(c) \/ RequestSpawn(c) \/ Types(c)
    PROVE  SessionInv'
<1>1. ASSUME NEW team \in TeamRequests
      PROVE  [type |-> "ReqTeam", team |-> team] \in ClientPacket
  BY <1>1, ClientAssumption DEF ClientPacket
<1>2. [type |-> "ReqSpawn"] \in ClientPacket
  BY DEF ClientPacket
<1>3. ASSUME NEW cmd \in Commands
      PROVE  [type |-> "RCon", command |-> cmd.command, env |-> cmd.env] \in ClientPacket
  BY <1>3, ClientAssumption DEF ClientPacket
<1>4. CASE RequestTeam(c)
  BY <1>1, <1>4, RequestKeeps DEF RequestTeam
<1>5. CASE RequestSpawn(c)
  BY <1>2, <1>5, RequestKeeps DEF RequestSpawn
<1>6. CASE Types(c)
  BY <1>3, <1>6, RequestKeeps DEF Types, TypeCommand
<1> QED
  BY <1>4, <1>5, <1>6

LEMMA AskToJoinKeeps ==
    ASSUME SessionInv, NEW c \in Peers, AskToJoin(c), UNCHANGED serverVars
    PROVE  SessionInv'
<1>1. PICK nick \in JoinNicks : Send(c, [type |-> "ReqJoin", nickname |-> nick])
  BY DEF AskToJoin
<1>2. [type |-> "ReqJoin", nickname |-> nick] \in ClientPacket
  BY ClientAssumption DEF ClientPacket
<1>3. /\ phase[c] = "connecting" /\ phase' = [phase EXCEPT ![c] = "asked"]
      /\ UNCHANGED <<link, down, conn, attached>>
  BY DEF AskToJoin, serverVars
<1>4. UpOK'
  BY <1>1, <1>2, <1>3, SentPacket
<1> QED
  BY <1>3, <1>4, SendingKeeps

LEMMA DisconnectingKeeps ==
    ASSUME SessionInv, NEW c \in Peers, Disconnect(c), UNCHANGED serverVars
    PROVE  SessionInv'
<1>1. /\ link[c] = "open" /\ BreakUp(c) /\ attached' = attached
      /\ down' = [down EXCEPT ![c] = <<>>] /\ conn' = conn
      /\ phase' = [phase EXCEPT ![c] = "leaving"]
  BY DEF Disconnect, serverVars
<1>2. UpOK' /\ link' \in [Peers -> {"open", "down"}] /\ link'[c] = "down"
  BY <1>1, BrokenLink
<1>3. \A x \in Peers : x # c => link'[x] = link[x]
  BY <1>1, ClientFacts DEF BreakUp
<1> QED
  BY <1>1, <1>2, <1>3, EndingKeeps

LEMMA ClientEndsKeeps ==
    ASSUME SessionInv, NEW c \in Peers, ClientEnds(c), UNCHANGED serverVars
    PROVE  SessionInv'
<1>1. /\ link[c] = "down" /\ UNCHANGED <<link, up, attached>>
      /\ down' = [down EXCEPT ![c] = <<>>] /\ conn' = [conn EXCEPT ![c] = None]
      /\ phase' = [phase EXCEPT ![c] = "off"]
  BY DEF ClientEnds, serverVars
<1>2. UpOK' /\ link' \in [Peers -> {"open", "down"}]
  BY <1>1, SameUp, ClientFacts
<1> QED
  BY <1>1, <1>2, EndingKeeps

LEMMA ClientAbortsKeeps ==
    ASSUME SessionInv, NEW c \in Peers, ClientAborts(c), UNCHANGED serverVars
    PROVE  SessionInv'
<1>1. /\ IF link[c] = "open" THEN BreakUp(c) ELSE UNCHANGED <<link, up>>
      /\ down' = [down EXCEPT ![c] = <<>>] /\ conn' = [conn EXCEPT ![c] = None]
      /\ phase' = [phase EXCEPT ![c] = "off"] /\ attached' = attached
  BY DEF ClientAborts, serverVars
<1>2. link \in [Peers -> {"open", "down"}]
  BY ClientFacts
<1>3. /\ UpOK' /\ link' \in [Peers -> {"open", "down"}] /\ link'[c] = "down"
      /\ \A x \in Peers : x # c => link'[x] = link[x]
  <2>1. CASE link[c] = "open"
    BY <1>1, <1>2, <2>1, BrokenLink DEF BreakUp
  <2>2. CASE link[c] # "open"
    BY <1>1, <1>2, <2>2, SameUp
  <2> QED
    BY <2>1, <2>2
<1> QED
  BY <1>1, <1>3, EndingKeeps

LEMMA LinkBreaksKeeps ==
    ASSUME SessionInv, NEW c \in Peers, LinkBreaks(c), UNCHANGED serverVars
    PROVE  SessionInv'
<1>1. /\ link[c] = "open" /\ BreakUp(c)
      /\ UNCHANGED <<down, phase, conn, attached, playerOf>>
  BY DEF LinkBreaks, serverVars
<1>2. /\ link \in [Peers -> {"open", "down"}] /\ down \in Outgoing
      /\ phase \in [Peers -> Phase] /\ conn \in [Peers -> Conn \cup {None}]
      /\ conn[c] # None => ViewHasEnv(conn[c])
      /\ OffIsClean(c) /\ OwnPid(c) /\ InitHasEnv(c)
  BY ClientFacts
<1>3. UpOK' /\ link' \in [Peers -> {"open", "down"}] /\ link'[c] = "down"
  BY <1>1, BrokenLink
<1>4. \A x \in Peers : x # c => link'[x] = link[x]
  BY <1>1, <1>2 DEF BreakUp
<1>5. ClientStep(c)
  BY <1>1, <1>2, <1>3, <1>4 DEF ClientStep
<1>6. OffIsClean(c)' /\ InitHasEnv(c)'
  BY <1>1, <1>2, <1>3 DEF OffIsClean, InitHasEnv, Sends
<1>7. OwnPid(c)'
  BY <1>1, <1>2, <1>3 DEF OwnPid, Sends
<1> QED
  BY <1>1, <1>2, <1>5, <1>6, <1>7, ClientStepKeeps

LEMMA ConnectsKeeps ==
    ASSUME SessionInv, NEW c \in Peers, Connects(c), UNCHANGED serverVars
    PROVE  SessionInv'
<1>1. /\ ~attached[c] /\ phase[c] = "off"
      /\ link' = [link EXCEPT ![c] = "open"]
      /\ up' = [up EXCEPT ![c] = <<CONNECT>>]
      /\ down' = [down EXCEPT ![c] = <<>>]
      /\ phase' = [phase EXCEPT ![c] = "connecting"]
      /\ UNCHANGED <<conn, attached, playerOf>>
  BY DEF Connects, ClientConnects, OpenLink, serverVars
<1>2. /\ link \in [Peers -> {"open", "down"}] /\ down \in Outgoing
      /\ up \in [Peers -> Seq(ClientPacket)]
      /\ phase \in [Peers -> Phase] /\ conn \in [Peers -> Conn \cup {None}]
      /\ OffIsClean(c)
  BY ClientFacts
<1>3. conn[c] = None /\ conn'[c] = None
  BY <1>1, <1>2 DEF OffIsClean
<1>4. /\ down' \in Outgoing /\ down'[c] = <<>>
      /\ \A x \in Peers : x # c => down'[x] = down[x]
  BY <1>1, <1>2, EmptySeq DEF Outgoing
<1>5. CONNECT \in ClientPacket /\ CONNECT.type = "CONNECT"
  BY DEF CONNECT, ClientPacket
<1>6. UpOK'
  <2>1. /\ <<CONNECT>> \in Seq(ClientPacket) /\ <<CONNECT>> # <<>>
        /\ DOMAIN <<CONNECT>> = {1} /\ <<CONNECT>>[1] = CONNECT
    BY <1>5
  <2>2. up' \in [Peers -> Seq(ClientPacket)] /\ up'[c] = <<CONNECT>>
    BY <1>1, <1>2, <2>1
  <2>3. UpShape(c)'
    BY <1>1, <1>5, <2>1, <2>2 DEF UpShape
  <2>4. ASSUME NEW x \in Peers, x # c
        PROVE  UpShape(x)'
    <3>1. UpShape(x) /\ up'[x] = up[x] /\ link'[x] = link[x]
      BY <1>1, <1>2, <2>4, ClientFacts
    <3> QED
      BY <1>1, <3>1 DEF UpShape
  <2> QED
    BY <2>2, <2>3, <2>4 DEF UpOK
<1>7. /\ link' \in [Peers -> {"open", "down"}]
      /\ phase' \in [Peers -> Phase] /\ phase'[c] = "connecting"
      /\ \A x \in Peers : x # c => link'[x] = link[x] /\ phase'[x] = phase[x]
  BY <1>1, <1>2 DEF Phase
<1>8. ClientStep(c)
  BY <1>1, <1>2, <1>4, <1>6, <1>7 DEF ClientStep
<1>9. \A i \in DOMAIN down'[c] : FALSE
  BY <1>4
<1>10. OffIsClean(c)' /\ OwnPid(c)' /\ InitHasEnv(c)'
  BY <1>3, <1>7, <1>9 DEF OffIsClean, OwnPid, InitHasEnv
<1> QED
  BY <1>3, <1>8, <1>10, ClientStepKeeps

\* Every step of a client keeps the invariant.
LEMMA PlaysKeeps ==
    ASSUME SessionInv, NEW c \in Peers, Plays(c), UNCHANGED serverVars
    PROVE  SessionInv'
BY ConnectsKeeps, OtherRequestsKeep, RequestNicknameKeeps, ClientReceivesKeeps,
   ClientTickKeeps, ClientAbortsKeeps, ClientWorkerKeeps, AskToJoinKeeps,
   DisconnectingKeeps, ClientEndsKeeps, LinkBreaksKeeps DEF Plays, ClientActs

-----------------------------------------------------------------------------
(* The invariant *)

\* Nobody is connected and nothing is loaded when the server starts.
LEMMA InitEstablishes == Init => SessionInv
<1> SUFFICES ASSUME Init
             PROVE  SessionInv
  OBVIOUS
<1>1. /\ link = [c \in Peers |-> "down"]
      /\ up = [c \in Peers |-> <<>>] /\ down = [c \in Peers |-> <<>>]
      /\ handle = NewHandle(None) /\ lastSky = 0
      /\ attached = [c \in Peers |-> FALSE] /\ playerOf = [c \in Peers |-> None]
      /\ phase = [c \in Peers |-> "off"] /\ conn = [c \in Peers |-> None]
      /\ arena = [players |-> EmptyMap, motd |-> FirstMotd, nextEnv |-> FirstEnv,
                  mode |-> "Lobby", teamCount |-> 2]
  BY DEF Init, NetworkInit, ServerInit, ClientInit
<1>2. arena \in ArenaState
  BY <1>1, ServerAssumption DEF ArenaState, MapTo, EmptyMap, Mode
<1>3. handle \in Handle /\ handle.sky = None
  BY <1>1 DEF NewHandle, Handle
<1>4. TypeOK
  BY <1>1, <1>2, <1>3, EmptySeq DEF TypeOK, Phase
<1>5. \A p : p \notin Keys(arena.players)
  BY <1>1 DEF Keys, EmptyMap
<1>6. PeersArePlayers
  BY <1>1, <1>5 DEF PeersArePlayers
<1>7. ServerGameHasEnv /\ GameViewHasEnv
  BY <1>1, <1>3 DEF ServerGameHasEnv, GameViewHasEnv
<1>8. ASSUME NEW c \in Peers
      PROVE  UpShape(c) /\ OffIsClean(c) /\ OwnPid(c) /\ InitHasEnv(c)
  <2>1. /\ up[c] = <<>> /\ down[c] = <<>> /\ conn[c] = None /\ link[c] = "down"
    BY <1>1
  <2>2. (\A i \in DOMAIN up[c] : FALSE) /\ (\A i \in DOMAIN down[c] : FALSE)
    BY <2>1
  <2> QED
    BY <2>1, <2>2 DEF UpShape, OffIsClean, OwnPid, InitHasEnv
<1> QED
  BY <1>4, <1>6, <1>7, <1>8 DEF SessionInv

LEMMA NextKeeps == SessionInv /\ [Next]_vars => SessionInv'
<1> SUFFICES ASSUME SessionInv, [Next]_vars
             PROVE  SessionInv'
  OBVIOUS
<1>1. CASE Serves /\ UNCHANGED clientVars
  BY <1>1, ServesKeeps
<1>2. ASSUME NEW c \in Peers, Plays(c), UNCHANGED serverVars
      PROVE  SessionInv'
  BY <1>2, PlaysKeeps
<1>3. CASE UNCHANGED vars
  BY <1>3 DEF vars, networkVars, serverVars, clientVars, SessionInv, TypeOK,
     PeersArePlayers, ServerGameHasEnv, GameViewHasEnv, ViewHasEnv, UpShape,
     OffIsClean, OwnPid, InitHasEnv, Sends
<1> QED
  BY <1>1, <1>2, <1>3 DEF Next

\* The invariant and what it says of packets on their way, in every state.
THEOREM SessionInvariant == Spec => []SessionInv
<1>1. Init => SessionInv
  BY InitEstablishes
<1>2. SessionInv /\ [Next]_vars => SessionInv'
  BY NextKeeps
<1> QED
  BY <1>1, <1>2, PTL DEF Spec

\* Type correctness: every packet on its way and every variable has its type.
THEOREM TypeCorrect == Spec => []TypeOK
<1>1. SessionInv => TypeOK
  BY DEF SessionInv
<1> QED
  BY <1>1, SessionInvariant, PTL

\* ServerExec: the server's players and the peers that have joined are one to
\* one, whoever connects, joins, leaves or times out.
THEOREM PlayersMatchPeers == Spec => []PeersArePlayers
<1>1. SessionInv => PeersArePlayers
  BY DEF SessionInv
<1> QED
  BY <1>1, SessionInvariant, PTL

\* ServerExec: in game mode there is an environment, and a sky has one.
THEOREM ServerKeepsEnv == Spec => []ServerGameHasEnv
<1>1. SessionInv => ServerGameHasEnv
  BY DEF SessionInv
<1> QED
  BY <1>1, SessionInvariant, PTL

\* MultiplayerGameHandle: a client that shows the game has its environment.
THEOREM ClientKeepsEnv == Spec => []GameViewHasEnv
<1>1. SessionInv => GameViewHasEnv
  BY DEF SessionInv
<1> QED
  BY <1>1, SessionInvariant, PTL

\* ArenaConnection: no delta that a client reads removes its own player.
THEOREM OwnPlayerIsKept == Spec => []OwnPlayerStays
<1>1. SessionInv => OwnPlayerStays
  BY DEF SessionInv, OwnPid, OwnPlayerStays, TypeOK, Conn, Keys
<1> QED
  BY <1>1, SessionInvariant, PTL

-----------------------------------------------------------------------------
(* Nicknames *)

\* What the theorem assumes of the users.
UsersAskUnnumbered == \A name \in JoinNicks \cup NickRequests : Unnumbered(name)

\* No player appears, and none that stays has another nickname.
NicksKept ==
    \A p \in Keys(arena'.players) :
        /\ p \in Keys(arena.players)
        /\ arena'.players[p].nickname = arena.players[p].nickname

\* A step that keeps the nicknames and adds no request but unnumbered ones.
LEMMA NicksKeptKeeps ==
    ASSUME NicknameInv, NicksKept, \A c \in Peers : UnnumberedRequests(c)'
    PROVE  NicknameInv'
<1>1. NicknamesDistinct'
  BY DEF NicknameInv, NicknamesDistinct, NicksKept
<1>2. SimpleNicknames'
  BY DEF NicknameInv, SimpleNicknames, NicksKept
<1> QED
  BY <1>1, <1>2 DEF NicknameInv

-----------------------------------------------------------------------------
(* Requests in the queues *)

\* Polling an event leaves the requests behind it.
LEMMA PollingKeepsRequests ==
    ASSUME SessionInv, NicknameInv, NEW c \in Peers, up[c] # <<>>,
           up' = [up EXCEPT ![c] = Tail(@)]
    PROVE  /\ \A x \in Peers : UnnumberedRequests(x)'
           /\ Head(up[c]) \in ClientPacket
           /\ AsksForNick(Head(up[c])) => Unnumbered(Head(up[c]).nickname)
<1> DEFINE q == up[c]
<1>1. up \in [Peers -> Seq(ClientPacket)] /\ \A x \in Peers : UnnumberedRequests(x)
  BY DEF SessionInv, TypeOK, NicknameInv
<1>2. q \in Seq(ClientPacket) /\ q # <<>>
  BY <1>1
<1>3. \A i \in DOMAIN q : AsksForNick(q[i]) => Unnumbered(q[i].nickname)
  BY <1>1 DEF UnnumberedRequests
<1>4. up'[c] = Tail(q) /\ \A x \in Peers : x # c => up'[x] = up[x]
  BY <1>1
<1> HIDE DEF q
<1>5. /\ Head(q) \in ClientPacket /\ Head(q) = q[1]
      /\ Len(q) \in Nat \ {0}
      /\ DOMAIN q = 1 .. Len(q) /\ DOMAIN Tail(q) = 1 .. Len(q) - 1
      /\ \A i \in 1 .. Len(q) - 1 : Tail(q)[i] = q[i + 1]
  BY <1>2, TailFacts
<1>6. UnnumberedRequests(c)'
  <2>1. ASSUME NEW i \in 1 .. Len(q) - 1, AsksForNick(Tail(q)[i])
        PROVE  Unnumbered(Tail(q)[i].nickname)
    <3>1. i + 1 \in DOMAIN q /\ Tail(q)[i] = q[i + 1]
      BY <1>5
    <3> QED
      BY <1>3, <2>1, <3>1
  <2> QED
    BY <1>4, <1>5, <2>1 DEF UnnumberedRequests
<1>7. ASSUME NEW x \in Peers, x # c
      PROVE  UnnumberedRequests(x)'
  BY <1>1, <1>4, <1>7 DEF UnnumberedRequests
<1>8. 1 \in DOMAIN q
  BY <1>5
<1> QED
  BY <1>3, <1>5, <1>6, <1>7, <1>8 DEF q

\* A client may send what is no request, or an unnumbered one.
LEMMA SendingKeepsRequests ==
    ASSUME SessionInv, NicknameInv, NEW c \in Peers, NEW packet \in ClientPacket,
           AsksForNick(packet) => Unnumbered(packet.nickname), Send(c, packet)
    PROVE  \A x \in Peers : UnnumberedRequests(x)'
<1> DEFINE q == up[c]
<1>1. up \in [Peers -> Seq(ClientPacket)] /\ \A x \in Peers : UnnumberedRequests(x)
  BY DEF SessionInv, TypeOK, NicknameInv
<1>2. /\ up'[c] = Append(q, packet) \/ up'[c] = q
      /\ \A x \in Peers : x # c => up'[x] = up[x]
  BY <1>1 DEF Send
<1>3. \A i \in DOMAIN q : AsksForNick(q[i]) => Unnumbered(q[i].nickname)
  BY <1>1 DEF UnnumberedRequests
<1>4. q \in Seq(ClientPacket)
  BY <1>1
<1> HIDE DEF q
<1>5. /\ Len(q) \in Nat
      /\ DOMAIN q = 1 .. Len(q) /\ DOMAIN Append(q, packet) = 1 .. Len(q) + 1
      /\ \A i \in 1 .. Len(q) : Append(q, packet)[i] = q[i]
      /\ Append(q, packet)[Len(q) + 1] = packet
  BY <1>4, AppendFacts
<1>6. UnnumberedRequests(c)'
  <2>1. CASE up'[c] = q
    BY <1>3, <2>1 DEF UnnumberedRequests
  <2>2. CASE up'[c] = Append(q, packet)
    <3>1. ASSUME NEW i \in 1 .. Len(q) + 1, AsksForNick(Append(q, packet)[i])
          PROVE  Unnumbered(Append(q, packet)[i].nickname)
      <4>1. CASE i = Len(q) + 1
        BY <1>5, <3>1, <4>1
      <4>2. CASE i \in 1 .. Len(q)
        BY <1>3, <1>5, <3>1, <4>2
      <4> QED
        BY <1>5, <4>1, <4>2
    <3> QED
      BY <1>5, <2>2, <3>1 DEF UnnumberedRequests
  <2> QED
    BY <1>2, <2>1, <2>2
<1>7. ASSUME NEW x \in Peers, x # c
      PROVE  UnnumberedRequests(x)'
  BY <1>1, <1>2, <1>7 DEF UnnumberedRequests
<1> QED
  BY <1>6, <1>7

\* A link that breaks loses requests and adds none.
LEMMA BreakingKeepsRequests ==
    ASSUME SessionInv, NicknameInv, NEW c \in Peers, BreakUp(c)
    PROVE  \A x \in Peers : UnnumberedRequests(x)'
<1> DEFINE q == up[c]
<1>1. up \in [Peers -> Seq(ClientPacket)] /\ \A x \in Peers : UnnumberedRequests(x)
  BY DEF SessionInv, TypeOK, NicknameInv
<1>2. PICK n \in 0 .. Len(q) :
         up' = [up EXCEPT ![c] = Append(SubSeq(q, 1, n), DISCONNECT)]
  BY DEF BreakUp
<1> DEFINE r == SubSeq(q, 1, n)
<1>3. up'[c] = Append(r, DISCONNECT) /\ \A x \in Peers : x # c => up'[x] = up[x]
  BY <1>1, <1>2
<1>4. \A i \in DOMAIN q : AsksForNick(q[i]) => Unnumbered(q[i].nickname)
  BY <1>1 DEF UnnumberedRequests
<1>5. q \in Seq(ClientPacket)
  BY <1>1
<1> HIDE DEF q
<1>6. /\ r \in Seq(ClientPacket) /\ Len(r) = n
      /\ \A i \in 1 .. n : r[i] = q[i] /\ i \in DOMAIN q
  BY <1>5, PrefixFacts
<1> HIDE DEF r
<1>7. DISCONNECT \in ClientPacket /\ ~AsksForNick(DISCONNECT)
  BY DEF DISCONNECT, ClientPacket, AsksForNick
<1>8. /\ DOMAIN Append(r, DISCONNECT) = 1 .. n + 1
      /\ \A i \in 1 .. n : Append(r, DISCONNECT)[i] = r[i]
      /\ Append(r, DISCONNECT)[n + 1] = DISCONNECT
  BY <1>6, <1>7, AppendFacts
<1>9. UnnumberedRequests(c)'
  <2>1. ASSUME NEW i \in 1 .. n + 1, AsksForNick(Append(r, DISCONNECT)[i])
        PROVE  Unnumbered(Append(r, DISCONNECT)[i].nickname)
    <3>1. i # n + 1
      BY <1>7, <1>8, <2>1
    <3>2. i \in 1 .. n
      BY <3>1
    <3> QED
      BY <1>4, <1>6, <1>8, <2>1, <3>2
  <2> QED
    BY <1>3, <1>8, <2>1 DEF UnnumberedRequests
<1>10. ASSUME NEW x \in Peers, x # c
       PROVE  UnnumberedRequests(x)'
  BY <1>1, <1>3, <1>10 DEF UnnumberedRequests
<1> QED
  BY <1>9, <1>10

-----------------------------------------------------------------------------
(* Deltas *)

\* A delta that lets nobody join and names no nickname.
LEMMA DeltaKeepsNicks ==
    ASSUME NEW a \in ArenaState, NEW d \in ArenaDelta, d.type # "Join",
           d.type = "Delta" =>
              \A p \in PID : d.deltas[p] # None => d.deltas[p].nickname = None
    PROVE  LET after == ApplyArenaDelta(a, d).players
           IN  \A p \in Keys(after) : /\ p \in Keys(a.players)
                                      /\ after[p].nickname = a.players[p].nickname
<1>1. a.players \in MapTo(Player)
  BY DEF ArenaState
<1>2. CASE d.type = "Quit"
  <2>1. ApplyArenaDelta(a, d) = [a EXCEPT !.players[d.pid] = None]
    BY <1>2 DEF ApplyArenaDelta
  <2> QED
    BY <1>1, <2>1 DEF ArenaState, MapTo, Keys
<1>3. CASE d.type = "Delta"
  <2>1. ApplyArenaDelta(a, d) = [a EXCEPT !.players = ChangePlayers(a.players, d.deltas)]
    BY <1>3 DEF ApplyArenaDelta
  <2>2. ASSUME NEW p \in PID, a.players[p] # None, d.deltas[p] # None
        PROVE  ChangePlayer(a.players[p], d.deltas[p]).nickname = a.players[p].nickname
    BY <1>3, <2>2 DEF ChangePlayer, OrElse
  <2> QED
    BY <2>1, <2>2 DEF ArenaState, ChangePlayers, Keys
<1>4. CASE d.type = "ResetEnvLoad"
  <2>1. ApplyArenaDelta(a, d) = [a EXCEPT !.players = SetLoadingEnv(a.players)]
    BY <1>4 DEF ApplyArenaDelta
  <2>2. ASSUME NEW p \in PID, a.players[p] # None
        PROVE  [a.players[p] EXCEPT !.loadingEnv = TRUE].nickname = a.players[p].nickname
    BY <1>1, <2>2 DEF MapTo, Player
  <2> QED
    BY <2>1, <2>2 DEF ArenaState, SetLoadingEnv, Keys
<1>5. CASE d.type \in {"Motd", "Mode", "EnvChange", "TeamCount"}
  BY <1>5 DEF ApplyArenaDelta, ArenaState
<1> QED
  BY <1>2, <1>3, <1>4, <1>5 DEF ArenaDelta

\* Nothing happens to the arena, or such a delta.
LEMMA SameArenaKeepsNicks == ASSUME UNCHANGED arena PROVE NicksKept
BY DEF NicksKept

LEMMA DeltaIsKept ==
    ASSUME SessionInv, NEW d \in ArenaDelta, d.type # "Join",
           d.type = "Delta" =>
              \A p \in PID : d.deltas[p] # None => d.deltas[p].nickname = None,
           arena' = ApplyArenaDelta(arena, d)
    PROVE  NicksKept
<1>1. arena \in ArenaState
  BY DEF SessionInv, TypeOK
<1> QED
  BY <1>1, DeltaKeepsNicks DEF NicksKept

\* A change of one player, whatever its nickname becomes.
LEMMA OnePlayerChange ==
    ASSUME NEW a \in ArenaState, NEW pid \in PID, NEW d \in PlayerDelta
    PROVE  LET delta == OnePlayerDelta(pid, d)
               after == ApplyArenaDelta(a, delta).players
           IN  /\ delta \in ArenaDelta /\ delta.type = "Delta"
               /\ \A p \in PID : delta.deltas[p] = IF p = pid THEN d ELSE None
               /\ Keys(after) = Keys(a.players)
               /\ \A p \in Keys(after) \ {pid} : after[p] = a.players[p]
               /\ pid \in Keys(after) =>
                     after[pid].nickname = OrElse(d.nickname, a.players[pid].nickname)
<1> DEFINE delta == OnePlayerDelta(pid, d)
           after == ApplyArenaDelta(a, delta).players
<1>1. /\ delta \in ArenaDelta /\ delta.type = "Delta"
      /\ \A p \in PID : delta.deltas[p] = IF p = pid THEN d ELSE None
  BY DEF OnePlayerDelta, PlayersDelta, ArenaDelta, MapTo, EmptyMap
<1> HIDE DEF delta
<1>2. after = ChangePlayers(a.players, delta.deltas)
  <2>1. ApplyArenaDelta(a, delta) = [a EXCEPT !.players = ChangePlayers(a.players, delta.deltas)]
    BY <1>1 DEF ApplyArenaDelta
  <2> QED
    BY <2>1 DEF ArenaState
<1>3. Keys(after) = Keys(a.players)
  <2>1. delta.deltas \in MapTo(PlayerDelta) /\ a.players \in MapTo(Player)
    BY <1>1 DEF ArenaDelta, ArenaState
  <2> QED
    BY <1>2, <2>1, ChangePlayersKeeps
<1>4. \A p \in Keys(after) \ {pid} : after[p] = a.players[p]
  BY <1>1, <1>2 DEF ChangePlayers, Keys
<1>5. ASSUME pid \in Keys(after)
      PROVE  after[pid].nickname = OrElse(d.nickname, a.players[pid].nickname)
  <2>1. a.players[pid] # None /\ d # None
    BY <1>3, <1>5, ArenaAssumption DEF Keys
  <2>2. after[pid] = ChangePlayer(a.players[pid], d)
    BY <1>1, <1>2, <2>1 DEF ChangePlayers
  <2> QED
    BY <2>2 DEF ChangePlayer
<1> QED
  BY <1>1, <1>3, <1>4, <1>5 DEF delta

\* A change of one player that names no nickname.
LEMMA PlayerChangeIsKept ==
    ASSUME SessionInv, NEW pid \in PID, NEW d \in PlayerDelta, d.nickname = None,
           arena' = ApplyArenaDelta(arena, OnePlayerDelta(pid, d))
    PROVE  NicksKept
<1> DEFINE delta == OnePlayerDelta(pid, d)
<1>1. arena \in ArenaState
  BY DEF SessionInv, TypeOK
<1>2. /\ delta \in ArenaDelta /\ delta.type = "Delta"
      /\ \A p \in PID : delta.deltas[p] = IF p = pid THEN d ELSE None
  BY <1>1, OnePlayerChange
<1> HIDE DEF delta
<1>3. arena' = ApplyArenaDelta(arena, delta)
  BY DEF delta
<1> QED
  BY <1>2, <1>3, DeltaIsKept

-----------------------------------------------------------------------------
(* The server's steps *)

\* A handler of a joined player's packet that leaves the nicknames alone.
LEMMA HandledIsKept ==
    ASSUME SessionInv, NicknameInv, NEW c \in Peers, NEW type, Polls(c, type),
           NicksKept
    PROVE  NicknameInv'
<1>1. \A x \in Peers : UnnumberedRequests(x)'
  BY PollingKeepsRequests DEF Polls
<1> QED
  BY <1>1, NicksKeptKeeps

\* The handlers of requests that change nothing of a player but a flag or the
\* team.
LEMMA PlayerRequestsKeepNicks ==
    ASSUME SessionInv, NicknameInv, NEW c \in Peers, UNCHANGED clientVars,
           \/ HandleReqSky(c) \/ HandleReqTeam(c) \/ HandleReqSpawn(c)
           \/ HandleRefused(c) \/ HandleAuth(c)
    PROVE  NicknameInv'
<1>1. PICK type \in {"ReqSky", "ReqTeam", "ReqSpawn", "RCon"} : PollsPlayer(c, type)
  BY DEF HandleReqSky, HandleReqTeam, HandleReqSpawn, HandleRefused, HandleAuth, PollsRCon
<1>2. /\ playerOf[c] \in PID /\ PlayerOf(c) \in Player
      /\ Head(up[c]) \in ClientPacket /\ Head(up[c]).type = type
  BY <1>1, PolledFromPlayer
<1>3. arena \in ArenaState
  BY DEF SessionInv, TypeOK
<1>4. ASSUME NEW d \in PlayerDelta, d.nickname = None,
             arena' = ApplyArenaDelta(arena, OnePlayerDelta(playerOf[c], d))
      PROVE  NicksKept
  BY <1>2, <1>4, PlayerChangeIsKept
<1> DEFINE old == DeltaOf(PlayerOf(c))
<1>5. /\ [old EXCEPT !.loadingEnv = FALSE] \in PlayerDelta
      /\ [old EXCEPT !.loadingEnv = FALSE].nickname = None
      /\ [old EXCEPT !.admin = TRUE] \in PlayerDelta
      /\ [old EXCEPT !.admin = TRUE].nickname = None
      /\ \A t \in Team : /\ [old EXCEPT !.team = t] \in PlayerDelta
                          /\ [old EXCEPT !.team = t].nickname = None
  BY <1>2, DeltaOfType DEF DeltaOf
<1>6. ASSUME NEW team \in Team, ChangeTeam(c, team)
      PROVE  NicksKept
  BY <1>4, <1>5, <1>6 DEF ChangeTeam, Register
<1> HIDE DEF old
<1>7. NicksKept
  <2>1. CASE HandleReqSky(c)
    <3>1. \/ UNCHANGED arena
          \/ arena' = ApplyArenaDelta(arena, OnePlayerDelta(playerOf[c],
                                        [old EXCEPT !.loadingEnv = FALSE]))
      BY <2>1 DEF HandleReqSky, Ignore, old
    <3> QED
      BY <1>4, <1>5, <3>1, SameArenaKeepsNicks
  <2>2. CASE HandleReqTeam(c)
    <3>1. Head(up[c]).type = "ReqTeam"
      BY <2>2 DEF HandleReqTeam, PollsPlayer, Polls
    <3>2. Head(up[c]).team \in Team
      BY <1>2, <3>1 DEF ClientPacket
    <3>3. UNCHANGED arena \/ ChangeTeam(c, Head(up[c]).team)
      BY <2>2 DEF HandleReqTeam, Ignore
    <3> QED
      BY <1>6, <3>2, <3>3, SameArenaKeepsNicks
  <2>3. CASE HandleReqSpawn(c)
    <3>1. UNCHANGED arena \/ \E team \in AutojoinTeams(arena) : ChangeTeam(c, team)
      BY <2>3 DEF HandleReqSpawn, Ignore
    <3>2. AutojoinTeams(arena) \subseteq Team
      BY DEF AutojoinTeams, RandomTeams, Team
    <3> QED
      BY <1>6, <3>1, <3>2, SameArenaKeepsNicks
  <2>4. CASE HandleRefused(c)
    BY <2>4, SameArenaKeepsNicks DEF HandleRefused, Ignore
  <2>5. CASE HandleAuth(c)
    <3>1. arena' = ApplyArenaDelta(arena, OnePlayerDelta(playerOf[c],
                                     [old EXCEPT !.admin = TRUE]))
      BY <2>5 DEF HandleAuth, Register, old
    <3> QED
      BY <1>4, <1>5, <3>1
  <2> QED
    BY <2>1, <2>2, <2>3, <2>4, <2>5
<1> QED
  BY <1>1, <1>7, HandledIsKept DEF PollsPlayer

\* The commands that start and stop games.
LEMMA CommandsKeepNicks ==
    ASSUME SessionInv, NicknameInv, NEW c \in Peers, UNCHANGED clientVars,
           HandleStart(c) \/ HandleStop(c) \/ HandleRestart(c) \/ HandleMap(c)
    PROVE  NicknameInv'
<1>1. PollsPlayer(c, "RCon")
  BY DEF HandleStart, HandleStop, HandleRestart, HandleMap, PollsRCon
<1>2. arena \in ArenaState
  BY DEF SessionInv, TypeOK
<1>3. \A m \in Mode : ModeDelta(m) \in ArenaDelta /\ ModeDelta(m).type = "Mode"
  BY DEF ModeDelta, ArenaDelta
<1>4. ResetEnvLoad \in ArenaDelta /\ ResetEnvLoad.type = "ResetEnvLoad"
  BY DEF ResetEnvLoad, ArenaDelta
<1>5. "Game" \in Mode /\ "Lobby" \in Mode
  BY DEF Mode
<1>6. NicksKept
  <2>1. CASE HandleStart(c)
    <3> DEFINE started == ApplyArenaDelta(arena, ModeDelta("Game"))
    <3>1. started \in ArenaState
      BY <1>2, <1>3, <1>5, ApplyArenaDeltaKeeps
    <3>2. \A p \in Keys(started.players) :
             /\ p \in Keys(arena.players)
             /\ started.players[p].nickname = arena.players[p].nickname
      BY <1>2, <1>3, <1>5, DeltaKeepsNicks
    <3>3. arena' = ApplyArenaDelta(started, ResetEnvLoad)
      BY <2>1 DEF HandleStart
    <3> HIDE DEF started
    <3>4. \A p \in Keys(arena'.players) :
             /\ p \in Keys(started.players)
             /\ arena'.players[p].nickname = started.players[p].nickname
      BY <1>4, <3>1, <3>3, DeltaKeepsNicks
    <3> QED
      BY <3>2, <3>4 DEF NicksKept
  <2>2. CASE HandleStop(c)
    BY <1>3, <1>5, <2>2, DeltaIsKept DEF HandleStop, Register
  <2>3. CASE HandleRestart(c)
    BY <2>3, SameArenaKeepsNicks DEF HandleRestart
  <2>4. CASE HandleMap(c)
    <3>1. /\ Head(up[c]) \in ClientPacket /\ Head(up[c]).type = "RCon"
          /\ Head(up[c]).command = "map"
          /\ arena' = ApplyArenaDelta(arena, EnvChange(Head(up[c]).env))
      BY <1>1, <2>4, PolledFromPlayer DEF HandleMap, PollsRCon, Register
    <3>2. Head(up[c]).env \in Envs
      BY <3>1 DEF ClientPacket
    <3>3. /\ EnvChange(Head(up[c]).env) \in ArenaDelta
          /\ EnvChange(Head(up[c]).env).type = "EnvChange"
      BY <3>2 DEF EnvChange, ArenaDelta
    <3> QED
      BY <3>1, <3>3, DeltaIsKept
  <2> QED
    BY <2>1, <2>2, <2>3, <2>4
<1> QED
  BY <1>1, <1>6, HandledIsKept DEF PollsPlayer

\* CONNECT and DISCONNECT: a player may leave.
LEMMA ConnectionsKeepNicks ==
    ASSUME SessionInv, NicknameInv, NEW c \in Peers,
           HandleConnect(c) \/ HandleDisconnect(c)
    PROVE  NicknameInv'
<1>1. CASE HandleConnect(c)
  BY <1>1, SameArenaKeepsNicks, HandledIsKept DEF HandleConnect
<1>2. CASE HandleDisconnect(c)
  <2>1. Polls(c, "DISCONNECT")
    BY <1>2 DEF HandleDisconnect
  <2>2. CASE playerOf[c] = None
    BY <1>2, <2>1, <2>2, SameArenaKeepsNicks, HandledIsKept DEF HandleDisconnect, Ignore
  <2>3. CASE playerOf[c] # None
    <3>1. playerOf[c] \in PID
      BY <2>3 DEF SessionInv, TypeOK
    <3>2. QuitDelta(playerOf[c]) \in ArenaDelta /\ QuitDelta(playerOf[c]).type = "Quit"
      BY <3>1 DEF QuitDelta, ArenaDelta
    <3>3. arena' = ApplyArenaDelta(arena, QuitDelta(playerOf[c]))
      BY <1>2, <2>3 DEF HandleDisconnect, Register
    <3> QED
      BY <2>1, <3>2, <3>3, DeltaIsKept, HandledIsKept
  <2> QED
    BY <2>2, <2>3
<1> QED
  BY <1>1, <1>2

\* Ticks change statistics, and worker threads nothing of the arena.
LEMMA TicksKeepNicks ==
    ASSUME SessionInv, NicknameInv, ServerTick \/ ServerWorker
    PROVE  NicknameInv'
<1>1. up' = up
  BY DEF ServerTick, ServerWorker
<1>2. \A c \in Peers : UnnumberedRequests(c)'
  BY <1>1 DEF NicknameInv, UnnumberedRequests
<1>3. arena \in ArenaState
  BY DEF SessionInv, TypeOK
<1>4. \/ UNCHANGED arena
      \/ \E stats \in [Keys(arena.players) -> ConnStats] :
            arena' = ApplyArenaDelta(arena, StatsDelta(stats))
  BY DEF ServerTick, ServerWorker
<1>5. ASSUME NEW stats \in [Keys(arena.players) -> ConnStats],
             arena' = ApplyArenaDelta(arena, StatsDelta(stats))
      PROVE  NicksKept
  <2>1. StatsDelta(stats) \in ArenaDelta /\ StatsDelta(stats).type = "Delta"
    BY <1>3, StatsDeltaType
  <2>2. ASSUME NEW p \in PID, StatsDelta(stats).deltas[p] # None
        PROVE  StatsDelta(stats).deltas[p].nickname = None
    BY <2>2 DEF StatsDelta, PlayersDelta, DeltaOf
  <2> QED
    BY <1>5, <2>1, <2>2, DeltaIsKept
<1> QED
  BY <1>2, <1>4, <1>5, SameArenaKeepsNicks, NicksKeptKeeps

-----------------------------------------------------------------------------
(* Joining and changing a nickname *)

\* The nickname that is allocated for an unnumbered request is simple, and
\* nobody else has it.
LEMMA AllocatedIsFresh ==
    ASSUME SessionInv, NicknameInv, NEW ignored,
           NEW req \in Name, Unnumbered(req)
    PROVE  LET nick == AllocNickname(NicksExcept(arena.players, ignored), req)
           IN  /\ nick \in Name /\ Simple(nick)
               /\ \A p \in Keys(arena.players) \ ignored :
                     arena.players[p].nickname # nick
<1> DEFINE nicks == NicksExcept(arena.players, ignored)
<1>1. DOMAIN nicks = Keys(arena.players) \ ignored
  BY DEF NicksExcept
<1>2. \A p \in DOMAIN nicks : nicks[p] = arena.players[p].nickname
  BY DEF NicksExcept
<1>3. IsFiniteSet(DOMAIN nicks)
  BY KeysAreFinite
<1> HIDE DEF nicks
<1>4. \A p \in Keys(arena.players) : arena.players[p] \in Player
  BY KeyIsPlayer DEF SessionInv, TypeOK, ArenaState
<1>5. \A p \in DOMAIN nicks : nicks[p] \in Name /\ Simple(nicks[p])
  BY <1>1, <1>2, <1>4 DEF NicknameInv, SimpleNicknames, Player
<1>6. \A p, q \in DOMAIN nicks : p # q => nicks[p] # nicks[q]
  BY <1>1, <1>2 DEF NicknameInv, NicknamesDistinct
<1>7. req.tags = <<>>
  BY DEF Unnumbered
<1>8. /\ Simple(AllocNickname(nicks, req))
      /\ \A p \in DOMAIN nicks : nicks[p] # AllocNickname(nicks, req)
  BY <1>3, <1>5, <1>6, <1>7, SimpleRequestIsFresh
<1>9. AllocNickname(nicks, req) \in Name
  BY <1>3, AllocatedIsName
<1> QED
  BY <1>1, <1>2, <1>8, <1>9 DEF nicks

\* One player gets a nickname that is simple and that no other has.
LEMMA FreshNickKeeps ==
    ASSUME NicknameInv, \A c \in Peers : UnnumberedRequests(c)', NEW pid,
           \A p \in Keys(arena'.players) \ {pid} :
              /\ p \in Keys(arena.players)
              /\ arena'.players[p].nickname = arena.players[p].nickname
              /\ arena'.players[p].nickname # arena'.players[pid].nickname,
           Simple(arena'.players[pid].nickname)
    PROVE  NicknameInv'
<1>1. NicknamesDistinct'
  BY DEF NicknameInv, NicknamesDistinct
<1>2. SimpleNicknames'
  BY DEF NicknameInv, SimpleNicknames
<1> QED
  BY <1>1, <1>2 DEF NicknameInv

LEMMA JoiningKeepsNicks ==
    ASSUME SessionInv, NicknameInv, NEW c \in Peers, HandleReqJoin(c)
    PROVE  NicknameInv'
<1> DEFINE req == Head(up[c]).nickname
           d == ConnectPlayer(arena.players, req)
           nick == AllocNickname(NicksExcept(arena.players, {}), req)
<1>1. /\ up[c] # <<>> /\ Head(up[c]).type = "ReqJoin"
      /\ up' = [up EXCEPT ![c] = Tail(@)]
      /\ playerOf[c] = None
      /\ arena' = ApplyArenaDelta(arena, d)
  BY DEF HandleReqJoin, Polls
<1>2. /\ \A x \in Peers : UnnumberedRequests(x)'
      /\ Head(up[c]) \in ClientPacket /\ Unnumbered(req)
  BY <1>1, PollingKeepsRequests DEF AsksForNick
<1>3. req \in Name
  BY <1>1, <1>2 DEF ClientPacket
<1>4. arena.players \in MapTo(Player) /\ arena \in ArenaState
  BY DEF SessionInv, TypeOK, ArenaState
<1> HIDE DEF req
<1>5. /\ d \in ArenaDelta /\ d.type = "Join"
      /\ d.pid \in PID /\ d.pid \notin Keys(arena.players)
  BY <1>1, <1>3, <1>4, RoomForPlayer, ConnectPlayerIsFresh
<1>6. /\ nick \in Name /\ Simple(nick)
      /\ \A p \in Keys(arena.players) : arena.players[p].nickname # nick
  BY <1>2, <1>3, AllocatedIsFresh
<1>7. d.player = NewPlayer(nick) /\ NewPlayer(nick).nickname = nick
  BY DEF ConnectPlayer, NewPlayer
<1> HIDE DEF d, nick
<1>8. arena' = [arena EXCEPT !.players[d.pid] = d.player]
  BY <1>1, <1>5 DEF ApplyArenaDelta
<1>9. /\ arena'.players[d.pid].nickname = nick
      /\ \A p \in Keys(arena'.players) \ {d.pid} :
            p \in Keys(arena.players) /\ arena'.players[p] = arena.players[p]
  BY <1>4, <1>5, <1>7, <1>8 DEF ArenaState, MapTo, Keys
<1> QED
  BY <1>2, <1>6, <1>9, FreshNickKeeps

LEMMA RenamingKeepsNicks ==
    ASSUME SessionInv, NicknameInv, NEW c \in Peers, HandleReqPlayerDelta(c),
           UNCHANGED clientVars
    PROVE  NicknameInv'
<1> DEFINE req == Head(up[c]).nickname
           pid == playerOf[c]
           nick == IF req = None THEN None
                   ELSE AllocNewNickname(arena.players, pid, req)
<1>1. /\ PollsPlayer(c, "ReqPlayerDelta") /\ Polls(c, "ReqPlayerDelta")
      /\ Head(up[c]) \in ClientPacket /\ Head(up[c]).type = "ReqPlayerDelta"
  BY PolledFromPlayer DEF HandleReqPlayerDelta, PollsPlayer
<1>2. (\A x \in Peers : UnnumberedRequests(x)') /\ Unnumbered(req)
  BY <1>1, PollingKeepsRequests DEF AsksForNick, Polls
<1>3. req \in Name
  BY <1>1 DEF ClientPacket
<1>4. arena \in ArenaState /\ arena.players \in MapTo(Player)
  BY DEF SessionInv, TypeOK, ArenaState
<1>5. pid \in Keys(arena.players) /\ pid \in PID
  BY <1>1, PolledFromPlayer DEF SessionInv, PeersArePlayers, PollsPlayer
<1>6. PICK d \in PlayerDelta :
         d.nickname = nick /\ arena' = ApplyArenaDelta(arena, OnePlayerDelta(pid, d))
  <2>1. PICK admin \in BOOLEAN, loadingEnv \in BOOLEAN :
           Register(OnePlayerDelta(pid,
                    [nickname |-> nick, admin |-> admin, team |-> None,
                     loadingEnv |-> loadingEnv, stats |-> None]))
    BY DEF HandleReqPlayerDelta
  <2>2. nick \in Name \cup {None}
    BY <1>3, KeysAreFinite, AllocatedIsName DEF AllocNewNickname
  <2> HIDE DEF nick
  <2>3. [nickname |-> nick, admin |-> admin, team |-> None,
         loadingEnv |-> loadingEnv, stats |-> None] \in PlayerDelta
    BY <2>1, <2>2 DEF PlayerDelta
  <2> QED
    BY <2>1, <2>3 DEF Register
<1> HIDE DEF req, pid
<1>7. /\ Keys(arena'.players) = Keys(arena.players)
      /\ \A p \in Keys(arena'.players) \ {pid} : arena'.players[p] = arena.players[p]
      /\ arena'.players[pid].nickname = OrElse(nick, arena.players[pid].nickname)
  BY <1>4, <1>5, <1>6, OnePlayerChange
<1>8. CASE nick = None
  <2>1. NicksKept
    BY <1>7, <1>8 DEF NicksKept, OrElse
  <2> QED
    BY <1>2, <2>1, NicksKeptKeeps
<1>9. CASE nick # None
  <2>1. nick = AllocNickname(NicksExcept(arena.players, {pid}), req)
    BY <1>9 DEF AllocNewNickname
  <2>2. /\ Simple(nick)
        /\ \A p \in Keys(arena.players) \ {pid} : arena.players[p].nickname # nick
    BY <1>2, <1>3, <2>1, AllocatedIsFresh
  <2>3. arena'.players[pid].nickname = nick
    BY <1>7, <1>9 DEF OrElse
  <2> HIDE DEF nick
  <2> QED
    BY <1>2, <1>7, <2>2, <2>3, FreshNickKeeps
<1> QED
  BY <1>8, <1>9

\* Every step of the server.
LEMMA ServesKeepsNicks ==
    ASSUME SessionInv, NicknameInv, Serves, UNCHANGED clientVars
    PROVE  NicknameInv'
BY TicksKeepNicks, ConnectionsKeepNicks, JoiningKeepsNicks, RenamingKeepsNicks,
   PlayerRequestsKeepNicks, CommandsKeepNicks DEF Serves, ServerHandles

-----------------------------------------------------------------------------
(* The clients' steps *)

\* The packets that are no request for a nickname.
LEMMA OtherPackets ==
    /\ ReqSky \in ClientPacket /\ ~AsksForNick(ReqSky)
    /\ [type |-> "ReqSpawn"] \in ClientPacket /\ ~AsksForNick([type |-> "ReqSpawn"])
    /\ \A team \in Team :
          /\ [type |-> "ReqTeam", team |-> team] \in ClientPacket
          /\ ~AsksForNick([type |-> "ReqTeam", team |-> team])
    /\ \A cmd \in Commands :
          /\ [type |-> "RCon", command |-> cmd.command, env |-> cmd.env] \in ClientPacket
          /\ ~AsksForNick([type |-> "RCon", command |-> cmd.command, env |-> cmd.env])
BY ClientAssumption DEF ReqSky, ClientPacket, AsksForNick

\* Users ask for nicknames as UsersAskUnnumbered says.
LEMMA RequestsAreUnnumbered ==
    ASSUME SessionInv, NicknameInv, UsersAskUnnumbered, NEW c \in Peers,
           RequestNickname(c) \/ AskToJoin(c)
    PROVE  \A x \in Peers : UnnumberedRequests(x)'
<1>1. CASE AskToJoin(c)
  <2>1. PICK nick \in JoinNicks : Send(c, [type |-> "ReqJoin", nickname |-> nick])
    BY <1>1 DEF AskToJoin
  <2> DEFINE packet == [type |-> "ReqJoin", nickname |-> nick]
  <2>2. packet \in ClientPacket /\ Unnumbered(packet.nickname)
    BY ClientAssumption DEF ClientPacket, UsersAskUnnumbered
  <2> HIDE DEF packet
  <2> QED
    BY <2>1, <2>2, SendingKeepsRequests DEF packet
<1>2. CASE RequestNickname(c)
  <2>1. PICK nick \in NickRequests :
           Request(c, [type |-> "ReqPlayerDelta", nickname |-> nick,
                       admin |-> conn[c].arena.players[conn[c].pid].admin])
    BY <1>2 DEF RequestNickname
  <2> DEFINE packet == [type |-> "ReqPlayerDelta", nickname |-> nick,
                        admin |-> conn[c].arena.players[conn[c].pid].admin]
  <2>2. conn[c].arena.players[conn[c].pid].admin \in BOOLEAN
    <3>1. conn[c] \in Conn /\ OwnPid(c)
      BY <2>1, ClientFacts DEF Request, MayType, InArena
    <3>2. conn[c].arena.players[conn[c].pid] \in Player
      BY <2>1, <3>1 DEF Conn, ArenaState, MapTo, OwnPid, Request, MayType, InArena
    <3> QED
      BY <3>2 DEF Player
  <2>3. packet \in ClientPacket /\ Unnumbered(packet.nickname)
    BY <2>2, ClientAssumption DEF ClientPacket, UsersAskUnnumbered
  <2>4. Send(c, packet)
    BY <2>1 DEF Request
  <2> HIDE DEF packet
  <2> QED
    BY <2>3, <2>4, SendingKeepsRequests
<1> QED
  BY <1>1, <1>2

\* A new connection starts with an empty queue.
LEMMA OpeningKeepsRequests ==
    ASSUME SessionInv, NicknameInv, NEW c \in Peers, OpenLink(c)
    PROVE  \A x \in Peers : UnnumberedRequests(x)'
<1>1. up \in [Peers -> Seq(ClientPacket)] /\ \A x \in Peers : UnnumberedRequests(x)
  BY DEF SessionInv, TypeOK, NicknameInv
<1>2. up'[c] = <<CONNECT>> /\ \A x \in Peers : x # c => up'[x] = up[x]
  BY <1>1 DEF OpenLink
<1>3. DOMAIN <<CONNECT>> = {1} /\ <<CONNECT>>[1] = CONNECT /\ ~AsksForNick(CONNECT)
  BY DEF CONNECT, AsksForNick
<1>4. UnnumberedRequests(c)'
  BY <1>2, <1>3 DEF UnnumberedRequests
<1>5. ASSUME NEW x \in Peers, x # c
      PROVE  UnnumberedRequests(x)'
  BY <1>1, <1>2, <1>5 DEF UnnumberedRequests
<1> QED
  BY <1>4, <1>5

\* Every step of a client.
LEMMA PlaysKeepsNicks ==
    ASSUME SessionInv, NicknameInv, UsersAskUnnumbered,
           NEW c \in Peers, Plays(c), UNCHANGED serverVars
    PROVE  NicknameInv'
<1>1. NicksKept
  BY SameArenaKeepsNicks DEF serverVars
<1>2. ASSUME up' = up
      PROVE  \A x \in Peers : UnnumberedRequests(x)'
  BY <1>2 DEF NicknameInv, UnnumberedRequests
<1>3. CASE Connects(c)
  BY <1>1, <1>3, OpeningKeepsRequests, NicksKeptKeeps DEF Connects, ClientConnects
<1>4. CASE RequestNickname(c) \/ AskToJoin(c)
  BY <1>1, <1>4, RequestsAreUnnumbered, NicksKeptKeeps
<1>5. CASE Types(c)
  <2>1. PICK cmd \in Commands :
           Send(c, [type |-> "RCon", command |-> cmd.command, env |-> cmd.env])
    BY <1>5 DEF Types, TypeCommand, Request
  <2> QED
    BY <1>1, <2>1, OtherPackets, SendingKeepsRequests, NicksKeptKeeps
<1>6. CASE RequestTeam(c)
  <2>1. PICK team \in TeamRequests : Send(c, [type |-> "ReqTeam", team |-> team])
    BY <1>6 DEF RequestTeam, Request
  <2>2. team \in Team
    BY ClientAssumption
  <2> QED
    BY <1>1, <2>1, <2>2, OtherPackets, SendingKeepsRequests, NicksKeptKeeps
<1>7. CASE RequestSpawn(c)
  BY <1>1, <1>7, OtherPackets, SendingKeepsRequests, NicksKeptKeeps
     DEF RequestSpawn, Request
<1>8. CASE ClientTick(c)
  <2>1. Send(c, ReqSky) \/ up' = up
    BY <1>8 DEF ClientTick
  <2> QED
    BY <1>1, <1>2, <2>1, OtherPackets, SendingKeepsRequests, NicksKeptKeeps
<1>9. CASE ClientReceives(c) \/ ClientWorker(c) \/ ClientEnds(c)
  <2>1. up' = up
    BY <1>9 DEF ClientReceives, ClientWorker, ClientEnds
  <2> QED
    BY <1>1, <1>2, <2>1, NicksKeptKeeps
<1>10. CASE ClientAborts(c) \/ Disconnect(c) \/ LinkBreaks(c)
  <2>1. BreakUp(c) \/ up' = up
    BY <1>10 DEF ClientAborts, Disconnect, LinkBreaks
  <2> QED
    BY <1>1, <1>2, <2>1, BreakingKeepsRequests, NicksKeptKeeps
<1> QED
  BY <1>3, <1>4, <1>5, <1>6, <1>7, <1>8, <1>9, <1>10 DEF Plays, ClientActs

-----------------------------------------------------------------------------
(* The theorem *)

\* An arena without players has no nicknames.
LEMMA InitHasNoNicks == Init => NicknameInv
<1> SUFFICES ASSUME Init
             PROVE  NicknameInv
  OBVIOUS
<1>1. arena.players = EmptyMap /\ up = [c \in Peers |-> <<>>]
  BY DEF Init, NetworkInit, ServerInit
<1>2. Keys(arena.players) = {}
  BY <1>1 DEF Keys, EmptyMap
<1>3. \A c \in Peers : \A i \in DOMAIN up[c] : FALSE
  BY <1>1
<1> QED
  BY <1>2, <1>3 DEF NicknameInv, NicknamesDistinct, SimpleNicknames, UnnumberedRequests

LEMMA NextKeepsNicks ==
    ASSUME UsersAskUnnumbered, SessionInv, NicknameInv, [Next]_vars
    PROVE  NicknameInv'
<1>1. CASE Serves /\ UNCHANGED clientVars
  BY <1>1, ServesKeepsNicks
<1>2. ASSUME NEW c \in Peers, Plays(c), UNCHANGED serverVars
      PROVE  NicknameInv'
  BY <1>2, PlaysKeepsNicks
<1>3. CASE UNCHANGED vars
  BY <1>3 DEF vars, networkVars, serverVars, NicknameInv, NicknamesDistinct,
     SimpleNicknames, UnnumberedRequests
<1> QED
  BY <1>1, <1>2, <1>3 DEF Next

\* Arena::allocNickname: as long as users ask for nicknames without a number
\* of their own, no two players have the same one, in whatever order they
\* join, change their nicknames and leave.
THEOREM NicknamesStayDistinct == UsersAskUnnumbered => (Spec => []NicknamesDistinct)
<1> SUFFICES ASSUME UsersAskUnnumbered
             PROVE  Spec => []NicknamesDistinct
  OBVIOUS
<1>1. Init => NicknameInv
  BY InitHasNoNicks
<1>2. SessionInv /\ NicknameInv /\ [Next]_vars => NicknameInv'
  BY NextKeepsNicks
<1>3. NicknameInv => NicknamesDistinct
  BY DEF NicknameInv
<1> QED
  BY <1>1, <1>2, <1>3, SessionInvariant, PTL DEF Spec

-----------------------------------------------------------------------------
(* Admin rights *)

\* Nobody who stays has rights that he had not.
RightsKept ==
    \A p \in Keys(arena.players) \cap Keys(arena'.players) :
        arena'.players[p].admin => arena.players[p].admin

\* A delta that repeats the rights of the players it changes, and lets nobody
\* join in another's place.
LEMMA DeltaKeepsRights ==
    ASSUME NEW a \in ArenaState, NEW d \in ArenaDelta,
           d.type = "Join" => d.pid \notin Keys(a.players),
           d.type = "Delta" =>
              \A p \in Keys(a.players) :
                 d.deltas[p] # None => d.deltas[p].admin = a.players[p].admin
    PROVE  LET after == ApplyArenaDelta(a, d).players
           IN  \A p \in Keys(a.players) \cap Keys(after) :
                  after[p].admin = a.players[p].admin
<1>1. a.players \in MapTo(Player)
  BY DEF ArenaState
<1>2. CASE d.type = "Quit"
  <2>1. ApplyArenaDelta(a, d) = [a EXCEPT !.players[d.pid] = None]
    BY <1>2 DEF ApplyArenaDelta
  <2> QED
    BY <1>1, <2>1 DEF ArenaState, MapTo, Keys
<1>3. CASE d.type = "Join"
  <2>1. ApplyArenaDelta(a, d) = [a EXCEPT !.players[d.pid] = d.player]
    BY <1>3 DEF ApplyArenaDelta
  <2> QED
    BY <1>1, <1>3, <2>1 DEF ArenaState, MapTo, Keys
<1>4. CASE d.type = "Delta"
  <2>1. ApplyArenaDelta(a, d) = [a EXCEPT !.players = ChangePlayers(a.players, d.deltas)]
    BY <1>4 DEF ApplyArenaDelta
  <2>2. ASSUME NEW p \in PID, a.players[p] # None, d.deltas[p] # None
        PROVE  ChangePlayer(a.players[p], d.deltas[p]).admin = a.players[p].admin
    BY <1>4, <2>2 DEF ChangePlayer, Keys
  <2> QED
    BY <2>1, <2>2 DEF ArenaState, ChangePlayers, Keys
<1>5. CASE d.type = "ResetEnvLoad"
  <2>1. ApplyArenaDelta(a, d) = [a EXCEPT !.players = SetLoadingEnv(a.players)]
    BY <1>5 DEF ApplyArenaDelta
  <2>2. ASSUME NEW p \in PID, a.players[p] # None
        PROVE  [a.players[p] EXCEPT !.loadingEnv = TRUE].admin = a.players[p].admin
    BY <1>1, <2>2 DEF MapTo, Player
  <2> QED
    BY <2>1, <2>2 DEF ArenaState, SetLoadingEnv, Keys
<1>6. CASE d.type \in {"Motd", "Mode", "EnvChange", "TeamCount"}
  BY <1>6 DEF ApplyArenaDelta, ArenaState
<1> QED
  BY <1>2, <1>3, <1>4, <1>5, <1>6 DEF ArenaDelta

LEMMA DeltaLeavesRights ==
    ASSUME SessionInv, NEW d \in ArenaDelta, arena' = ApplyArenaDelta(arena, d),
           d.type = "Join" => d.pid \notin Keys(arena.players),
           d.type = "Delta" =>
              \A p \in Keys(arena.players) :
                 d.deltas[p] # None => d.deltas[p].admin = arena.players[p].admin
    PROVE  RightsKept
<1>1. arena \in ArenaState
  BY DEF SessionInv, TypeOK
<1> QED
  BY <1>1, DeltaKeepsRights DEF RightsKept

LEMMA SameArenaKeepsRights == ASSUME UNCHANGED arena PROVE RightsKept
BY DEF RightsKept

\* A change of the player of c that repeats its rights.
LEMMA PlayerChangeKeepsRights ==
    ASSUME SessionInv, NEW c \in Peers, playerOf[c] \in PID,
           NEW d \in PlayerDelta, d.admin = PlayerOf(c).admin,
           arena' = ApplyArenaDelta(arena, OnePlayerDelta(playerOf[c], d))
    PROVE  RightsKept
<1> DEFINE delta == OnePlayerDelta(playerOf[c], d)
<1>1. arena \in ArenaState
  BY DEF SessionInv, TypeOK
<1>2. /\ delta \in ArenaDelta /\ delta.type = "Delta"
      /\ \A p \in PID : delta.deltas[p] = IF p = playerOf[c] THEN d ELSE None
  BY <1>1, OnePlayerChange
<1>3. arena' = ApplyArenaDelta(arena, delta)
  OBVIOUS
<1> HIDE DEF delta
<1> QED
  BY <1>2, <1>3, DeltaLeavesRights DEF PlayerOf, Keys

\* What joined players ask for, other than "auth" and another nickname.
LEMMA PlayerRequestsKeepRights ==
    ASSUME SessionInv, NEW c \in Peers, UNCHANGED clientVars,
           HandleReqSky(c) \/ HandleReqTeam(c) \/ HandleReqSpawn(c) \/ HandleRefused(c)
    PROVE  RightsKept
<1>1. PICK type \in {"ReqSky", "ReqTeam", "ReqSpawn", "RCon"} : PollsPlayer(c, type)
  BY DEF HandleReqSky, HandleReqTeam, HandleReqSpawn, HandleRefused, PollsRCon
<1>2. /\ playerOf[c] \in PID /\ PlayerOf(c) \in Player
      /\ Head(up[c]) \in ClientPacket /\ Head(up[c]).type = type
  BY <1>1, PolledFromPlayer
<1> DEFINE old == DeltaOf(PlayerOf(c))
<1>3. /\ [old EXCEPT !.loadingEnv = FALSE] \in PlayerDelta
      /\ [old EXCEPT !.loadingEnv = FALSE].admin = PlayerOf(c).admin
      /\ \A t \in Team : /\ [old EXCEPT !.team = t] \in PlayerDelta
                          /\ [old EXCEPT !.team = t].admin = PlayerOf(c).admin
  BY <1>2, DeltaOfType DEF DeltaOf
<1>4. ASSUME NEW team \in Team, ChangeTeam(c, team)
      PROVE  RightsKept
  BY <1>2, <1>3, <1>4, PlayerChangeKeepsRights DEF ChangeTeam, Register
<1> HIDE DEF old
<1>5. CASE HandleReqSky(c)
  <2>1. \/ UNCHANGED arena
        \/ arena' = ApplyArenaDelta(arena, OnePlayerDelta(playerOf[c],
                                      [old EXCEPT !.loadingEnv = FALSE]))
    BY <1>5 DEF HandleReqSky, Ignore, old
  <2> QED
    BY <1>2, <1>3, <2>1, PlayerChangeKeepsRights, SameArenaKeepsRights
<1>6. CASE HandleReqTeam(c)
  <2>1. Head(up[c]).type = "ReqTeam"
    BY <1>6 DEF HandleReqTeam, PollsPlayer, Polls
  <2>2. Head(up[c]).team \in Team
    BY <1>2, <2>1 DEF ClientPacket
  <2>3. UNCHANGED arena \/ ChangeTeam(c, Head(up[c]).team)
    BY <1>6 DEF HandleReqTeam, Ignore
  <2> QED
    BY <1>4, <2>2, <2>3, SameArenaKeepsRights
<1>7. CASE HandleReqSpawn(c)
  <2>1. UNCHANGED arena \/ \E team \in AutojoinTeams(arena) : ChangeTeam(c, team)
    BY <1>7 DEF HandleReqSpawn, Ignore
  <2>2. AutojoinTeams(arena) \subseteq Team
    BY DEF AutojoinTeams, RandomTeams, Team
  <2> QED
    BY <1>4, <2>1, <2>2, SameArenaKeepsRights
<1>8. CASE HandleRefused(c)
  BY <1>8, SameArenaKeepsRights DEF HandleRefused, Ignore
<1> QED
  BY <1>5, <1>6, <1>7, <1>8

\* The commands that start and stop games.
LEMMA CommandsKeepRights ==
    ASSUME SessionInv, NEW c \in Peers, UNCHANGED clientVars,
           HandleStart(c) \/ HandleStop(c) \/ HandleRestart(c) \/ HandleMap(c)
    PROVE  RightsKept
<1>1. PollsPlayer(c, "RCon")
  BY DEF HandleStart, HandleStop, HandleRestart, HandleMap, PollsRCon
<1>2. arena \in ArenaState
  BY DEF SessionInv, TypeOK
<1>3. \A m \in Mode : ModeDelta(m) \in ArenaDelta /\ ModeDelta(m).type = "Mode"
  BY DEF ModeDelta, ArenaDelta
<1>4. ResetEnvLoad \in ArenaDelta /\ ResetEnvLoad.type = "ResetEnvLoad"
  BY DEF ResetEnvLoad, ArenaDelta
<1>5. "Game" \in Mode /\ "Lobby" \in Mode
  BY DEF Mode
<1>6. CASE HandleStart(c)
  <2> DEFINE started == ApplyArenaDelta(arena, ModeDelta("Game"))
  <2>1. started \in ArenaState /\ Keys(started.players) = Keys(arena.players)
    BY <1>2, <1>3, <1>5, ApplyArenaDeltaKeeps
  <2>2. \A p \in Keys(arena.players) \cap Keys(started.players) :
           started.players[p].admin = arena.players[p].admin
    BY <1>2, <1>3, <1>5, DeltaKeepsRights
  <2>3. arena' = ApplyArenaDelta(started, ResetEnvLoad)
    BY <1>6 DEF HandleStart
  <2> HIDE DEF started
  <2>4. \A p \in Keys(started.players) \cap Keys(arena'.players) :
           arena'.players[p].admin = started.players[p].admin
    BY <1>4, <2>1, <2>3, DeltaKeepsRights
  <2> QED
    BY <2>1, <2>2, <2>4 DEF RightsKept
<1>7. CASE HandleStop(c)
  BY <1>3, <1>5, <1>7, DeltaLeavesRights DEF HandleStop, Register
<1>8. CASE HandleRestart(c)
  BY <1>8, SameArenaKeepsRights DEF HandleRestart
<1>9. CASE HandleMap(c)
  <2>1. /\ Head(up[c]) \in ClientPacket /\ Head(up[c]).type = "RCon"
        /\ Head(up[c]).command = "map"
        /\ arena' = ApplyArenaDelta(arena, EnvChange(Head(up[c]).env))
    BY <1>1, <1>9, PolledFromPlayer DEF HandleMap, PollsRCon, Register
  <2>2. Head(up[c]).env \in Envs
    BY <2>1 DEF ClientPacket
  <2>3. /\ EnvChange(Head(up[c]).env) \in ArenaDelta
        /\ EnvChange(Head(up[c]).env).type = "EnvChange"
    BY <2>2 DEF EnvChange, ArenaDelta
  <2> QED
    BY <2>1, <2>3, DeltaLeavesRights
<1> QED
  BY <1>6, <1>7, <1>8, <1>9

\* Players come and go: a new one takes a PID that nobody has.
LEMMA ConnectionsKeepRights ==
    ASSUME SessionInv, NEW c \in Peers, UNCHANGED clientVars,
           HandleConnect(c) \/ HandleDisconnect(c) \/ HandleReqJoin(c)
    PROVE  RightsKept
<1>1. CASE HandleConnect(c)
  BY <1>1, SameArenaKeepsRights DEF HandleConnect
<1>2. CASE HandleDisconnect(c)
  <2>1. CASE playerOf[c] = None
    BY <1>2, <2>1, SameArenaKeepsRights DEF HandleDisconnect, Ignore
  <2>2. CASE playerOf[c] # None
    <3>1. playerOf[c] \in PID
      BY <2>2 DEF SessionInv, TypeOK
    <3>2. QuitDelta(playerOf[c]) \in ArenaDelta /\ QuitDelta(playerOf[c]).type = "Quit"
      BY <3>1 DEF QuitDelta, ArenaDelta
    <3>3. arena' = ApplyArenaDelta(arena, QuitDelta(playerOf[c]))
      BY <1>2, <2>2 DEF HandleDisconnect, Register
    <3> QED
      BY <3>2, <3>3, DeltaLeavesRights
  <2> QED
    BY <2>1, <2>2
<1>3. CASE HandleReqJoin(c)
  <2> DEFINE d == ConnectPlayer(arena.players, Head(up[c]).nickname)
  <2>1. /\ up[c] # <<>> /\ Head(up[c]).type = "ReqJoin"
        /\ up' = [up EXCEPT ![c] = Tail(@)] /\ UNCHANGED <<link, attached>>
        /\ playerOf[c] = None /\ arena' = ApplyArenaDelta(arena, d)
    BY <1>3 DEF HandleReqJoin, Polls
  <2>2. Head(up[c]).nickname \in Name
    BY <2>1, PolledEvent DEF ClientPacket
  <2>3. arena.players \in MapTo(Player)
    BY DEF SessionInv, TypeOK, ArenaState
  <2>4. Cardinality(Keys(arena.players)) < MaxPlayers
    BY <2>1, RoomForPlayer
  <2>5. d \in ArenaDelta /\ d.type = "Join" /\ d.pid \notin Keys(arena.players)
    BY <2>2, <2>3, <2>4, ConnectPlayerIsFresh
  <2> HIDE DEF d
  <2> QED
    BY <2>1, <2>5, DeltaLeavesRights
<1> QED
  BY <1>1, <1>2, <1>3

LEMMA TicksKeepRights ==
    ASSUME SessionInv, ServerTick \/ ServerWorker
    PROVE  RightsKept
<1>1. arena \in ArenaState
  BY DEF SessionInv, TypeOK
<1>2. \/ UNCHANGED arena
      \/ \E stats \in [Keys(arena.players) -> ConnStats] :
            arena' = ApplyArenaDelta(arena, StatsDelta(stats))
  BY DEF ServerTick, ServerWorker
<1>3. ASSUME NEW stats \in [Keys(arena.players) -> ConnStats],
             arena' = ApplyArenaDelta(arena, StatsDelta(stats))
      PROVE  RightsKept
  <2>1. StatsDelta(stats) \in ArenaDelta /\ StatsDelta(stats).type = "Delta"
    BY <1>1, StatsDeltaType
  <2>2. ASSUME NEW p \in Keys(arena.players)
        PROVE  StatsDelta(stats).deltas[p].admin = arena.players[p].admin
    BY DEF StatsDelta, PlayersDelta, DeltaOf, Keys
  <2> QED
    BY <1>3, <2>1, <2>2, DeltaLeavesRights
<1> QED
  BY <1>2, <1>3, SameArenaKeepsRights

\* ServerExec: of everything that the server handles, only the right password
\* and a change of nickname, which sends flags nobody has set, give a player
\* rights that he had not.
THEOREM OnlyAuthGivesRights == Spec => AdminByAuthOnly
<1> DEFINE Cause == \E c \in Peers : HandleAuth(c) \/ HandleReqPlayerDelta(c)
<1>1. ASSUME SessionInv, [Next]_vars
      PROVE  RightsKept \/ Cause
  <2>1. CASE Serves /\ UNCHANGED clientVars
    BY <1>1, <2>1, TicksKeepRights, ConnectionsKeepRights, PlayerRequestsKeepRights,
       CommandsKeepRights DEF Serves, ServerHandles
  <2>2. CASE UNCHANGED serverVars
    BY <2>2, SameArenaKeepsRights DEF serverVars
  <2>3. CASE UNCHANGED vars
    BY <2>2, <2>3 DEF vars
  <2> QED
    BY <1>1, <2>1, <2>2, <2>3 DEF Next
<1>2. SessionInv /\ [Next]_vars =>
        [\A p \in Keys(arena.players) \cap Keys(arena'.players) :
            ~arena.players[p].admin /\ arena'.players[p].admin =>
                \E c \in Peers : HandleAuth(c) \/ HandleReqPlayerDelta(c)]_vars
  BY <1>1 DEF RightsKept
<1> QED
  BY <1>2, SessionInvariant, PTL DEF Spec, AdminByAuthOnly

-----------------------------------------------------------------------------
(* Membership *)

\* What Membership sees of a step.
MemberStep == Arenas!Next \/ UNCHANGED <<arena.players, playerOf>>

\* Membership's own words mean the arena's.
LEMMA SameWords ==
    /\ Arenas!PID = PID
    /\ \A map : Arenas!Keys(map) = Keys(map)
    /\ \A nick : Arenas!NewPlayer(nick) = NewPlayer(nick)
BY DEF Arenas!PID, PID, Arenas!Keys, Keys, Arenas!NewPlayer, NewPlayer

\* Players that are the old ones but for one are the old ones with that one
\* replaced.
LEMMA OneReplaced ==
    ASSUME NEW T, NEW old \in [PID -> T], NEW new \in [PID -> T], NEW pid \in PID,
           \A p \in PID \ {pid} : new[p] = old[p]
    PROVE  new = [old EXCEPT ![pid] = new[pid]]
OBVIOUS

\* A delta for the player of c is something that c has asked for.
LEMMA ChangeIsAsked ==
    ASSUME SessionInv, NEW c \in Peers, playerOf[c] \in PID, NEW d \in PlayerDelta,
           arena' = ApplyArenaDelta(arena, OnePlayerDelta(playerOf[c], d)),
           UNCHANGED playerOf
    PROVE  MemberStep
<1> DEFINE pid == playerOf[c]
           delta == OnePlayerDelta(pid, d)
<1>1. arena \in ArenaState /\ pid # None
  BY ArenaAssumption DEF SessionInv, TypeOK, PID
<1>2. /\ delta \in ArenaDelta
      /\ Keys(arena'.players) = Keys(arena.players)
      /\ \A p \in Keys(arena'.players) \ {pid} : arena'.players[p] = arena.players[p]
  BY <1>1, OnePlayerChange
<1>3. arena' = ApplyArenaDelta(arena, delta)
  OBVIOUS
<1> HIDE DEF delta
<1>4. arena' \in ArenaState
  BY <1>1, <1>2, <1>3, ApplyArenaDeltaKeeps
<1>5. /\ arena.players \in [PID -> Player \cup {None}]
      /\ arena'.players \in [PID -> Player \cup {None}]
  BY <1>1, <1>4 DEF ArenaState, MapTo
<1>6. \A p \in PID \ {pid} : arena'.players[p] = arena.players[p]
  BY <1>2 DEF Keys
<1>7. arena'.players = [arena.players EXCEPT ![pid] = arena'.players[pid]]
  BY <1>5, <1>6, OneReplaced
<1> QED
  BY <1>1, <1>2, <1>7, SameWords DEF MemberStep, Arenas!Next, Arenas!Ask

\* The players of old are those of new, under the same names, with the same
\* rights and in the same teams.
SameMembers(old, new) ==
    /\ Keys(new) = Keys(old)
    /\ \A p \in Keys(old) : /\ new[p].nickname = old[p].nickname
                            /\ new[p].admin = old[p].admin
                            /\ new[p].team = old[p].team

\* The deltas that the server makes of itself change no member.
LEMMA DeltaKeepsMembers ==
    ASSUME NEW a \in ArenaState, NEW d \in ArenaDelta, d.type \notin {"Quit", "Join"},
           d.type = "Delta" =>
              \A p \in Keys(a.players) :
                 d.deltas[p] # None =>
                    /\ d.deltas[p].nickname = None /\ d.deltas[p].team = None
                    /\ d.deltas[p].admin = a.players[p].admin
    PROVE  SameMembers(a.players, ApplyArenaDelta(a, d).players)
<1>1. /\ a.players \in MapTo(Player)
      /\ Keys(ApplyArenaDelta(a, d).players) = Keys(a.players)
  BY ApplyArenaDeltaKeeps DEF ArenaState
<1>2. CASE d.type = "Delta"
  <2>1. ApplyArenaDelta(a, d) = [a EXCEPT !.players = ChangePlayers(a.players, d.deltas)]
    BY <1>2 DEF ApplyArenaDelta
  <2>2. ASSUME NEW p \in PID, a.players[p] # None, d.deltas[p] # None
        PROVE  LET new == ChangePlayer(a.players[p], d.deltas[p])
               IN  /\ new.nickname = a.players[p].nickname
                   /\ new.admin = a.players[p].admin
                   /\ new.team = a.players[p].team
    BY <1>2, <2>2 DEF ChangePlayer, OrElse, Keys
  <2> QED
    BY <1>1, <2>1, <2>2 DEF ArenaState, ChangePlayers, Keys, SameMembers
<1>3. CASE d.type = "ResetEnvLoad"
  <2>1. ApplyArenaDelta(a, d) = [a EXCEPT !.players = SetLoadingEnv(a.players)]
    BY <1>3 DEF ApplyArenaDelta
  <2>2. ASSUME NEW p \in PID, a.players[p] # None
        PROVE  LET new == [a.players[p] EXCEPT !.loadingEnv = TRUE]
               IN  /\ new.nickname = a.players[p].nickname
                   /\ new.admin = a.players[p].admin
                   /\ new.team = a.players[p].team
    BY <1>1, <2>2 DEF MapTo, Player
  <2> QED
    BY <1>1, <2>1, <2>2 DEF ArenaState, SetLoadingEnv, Keys, SameMembers
<1>4. CASE d.type \in {"Motd", "Mode", "EnvChange", "TeamCount"}
  <2>1. ApplyArenaDelta(a, d).players = a.players
    BY <1>4 DEF ApplyArenaDelta, ArenaState
  <2> QED
    BY <2>1 DEF SameMembers
<1> QED
  BY <1>2, <1>3, <1>4 DEF ArenaDelta

\* A step after which all members are the same.
LEMMA KeptIsInform ==
    ASSUME SameMembers(arena.players, arena'.players), UNCHANGED playerOf
    PROVE  MemberStep
BY SameWords DEF SameMembers, MemberStep, Arenas!Next, Arenas!Inform, Arenas!SameMember

\* Such a delta of the server is one of these.
LEMMA DeltaInforms ==
    ASSUME SessionInv, NEW d \in ArenaDelta, d.type \notin {"Quit", "Join"},
           arena' = ApplyArenaDelta(arena, d), UNCHANGED playerOf,
           d.type = "Delta" =>
              \A p \in Keys(arena.players) :
                 d.deltas[p] # None =>
                    /\ d.deltas[p].nickname = None /\ d.deltas[p].team = None
                    /\ d.deltas[p].admin = arena.players[p].admin
    PROVE  MemberStep
<1>1. arena \in ArenaState
  BY DEF SessionInv, TypeOK
<1> QED
  BY <1>1, DeltaKeepsMembers, KeptIsInform

\* What joined players ask for.
LEMMA RequestsAreAsked ==
    ASSUME SessionInv, NEW c \in Peers, UNCHANGED clientVars,
           \/ HandleReqSky(c) \/ HandleReqPlayerDelta(c) \/ HandleReqTeam(c)
           \/ HandleReqSpawn(c) \/ HandleRefused(c) \/ HandleAuth(c)
    PROVE  MemberStep
<1>1. PICK type \in {"ReqSky", "ReqPlayerDelta", "ReqTeam", "ReqSpawn", "RCon"} :
         PollsPlayer(c, type)
  BY DEF HandleReqSky, HandleReqPlayerDelta, HandleReqTeam, HandleReqSpawn,
         HandleRefused, HandleAuth, PollsRCon
<1>2. /\ playerOf[c] \in PID /\ PlayerOf(c) \in Player /\ UNCHANGED playerOf
      /\ Head(up[c]) \in ClientPacket /\ Head(up[c]).type = type
  BY <1>1, PolledFromPlayer
<1>3. ASSUME NEW d \in PlayerDelta, Register(OnePlayerDelta(playerOf[c], d))
      PROVE  MemberStep
  BY <1>2, <1>3, ChangeIsAsked DEF Register
<1>4. ASSUME UNCHANGED arena
      PROVE  MemberStep
  BY <1>2, <1>4 DEF MemberStep
<1>5. CASE HandleReqSky(c)
  <2>1. [DeltaOf(PlayerOf(c)) EXCEPT !.loadingEnv = FALSE] \in PlayerDelta
    BY <1>2, DeltaOfType
  <2>2. \/ UNCHANGED arena
        \/ arena' = ApplyArenaDelta(arena, OnePlayerDelta(playerOf[c],
                       [DeltaOf(PlayerOf(c)) EXCEPT !.loadingEnv = FALSE]))
    BY <1>5 DEF HandleReqSky, Ignore
  <2> QED
    BY <1>2, <1>4, <2>1, <2>2, ChangeIsAsked
<1>6. CASE HandleReqPlayerDelta(c)
  BY <1>3, <1>6, RenameIsChange
<1>7. CASE HandleReqTeam(c)
  <2>1. Head(up[c]).type = "ReqTeam"
    BY <1>7 DEF HandleReqTeam, PollsPlayer, Polls
  <2>2. Head(up[c]).team \in Team
    BY <1>2, <2>1 DEF ClientPacket
  <2>3. UNCHANGED arena \/ ChangeTeam(c, Head(up[c]).team)
    BY <1>7 DEF HandleReqTeam, Ignore
  <2> QED
    BY <1>2, <1>3, <1>4, <2>2, <2>3, ChangeTeamIsChange
<1>8. CASE HandleReqSpawn(c)
  <2>1. UNCHANGED arena \/ \E team \in AutojoinTeams(arena) : ChangeTeam(c, team)
    BY <1>8 DEF HandleReqSpawn, Ignore
  <2>2. AutojoinTeams(arena) \subseteq Team
    BY DEF AutojoinTeams, RandomTeams, Team
  <2> QED
    BY <1>2, <1>3, <1>4, <2>1, <2>2, ChangeTeamIsChange
<1>9. CASE HandleRefused(c)
  BY <1>4, <1>9 DEF HandleRefused, Ignore
<1>10. CASE HandleAuth(c)
  <2>1. \E d \in PlayerDelta : Register(OnePlayerDelta(playerOf[c], d))
    BY <1>2, <1>10, DeltaOfType DEF HandleAuth
  <2> QED
    BY <1>3, <2>1
<1> QED
  BY <1>5, <1>6, <1>7, <1>8, <1>9, <1>10

\* The commands that start and stop games.
LEMMA CommandsInform ==
    ASSUME SessionInv, NEW c \in Peers, UNCHANGED clientVars,
           HandleStart(c) \/ HandleStop(c) \/ HandleRestart(c) \/ HandleMap(c)
    PROVE  MemberStep
<1>1. PollsPlayer(c, "RCon")
  BY DEF HandleStart, HandleStop, HandleRestart, HandleMap, PollsRCon
<1>2. arena \in ArenaState /\ UNCHANGED playerOf
  BY <1>1 DEF SessionInv, TypeOK, PollsPlayer
<1>3. \A m \in Mode : ModeDelta(m) \in ArenaDelta /\ ModeDelta(m).type = "Mode"
  BY DEF ModeDelta, ArenaDelta
<1>4. ResetEnvLoad \in ArenaDelta /\ ResetEnvLoad.type = "ResetEnvLoad"
  BY DEF ResetEnvLoad, ArenaDelta
<1>5. "Game" \in Mode /\ "Lobby" \in Mode
  BY DEF Mode
<1>6. CASE HandleStart(c)
  <2> DEFINE started == ApplyArenaDelta(arena, ModeDelta("Game"))
  <2>1. started \in ArenaState /\ SameMembers(arena.players, started.players)
    BY <1>2, <1>3, <1>5, ApplyArenaDeltaKeeps, DeltaKeepsMembers
  <2>2. arena' = ApplyArenaDelta(started, ResetEnvLoad)
    BY <1>6 DEF HandleStart
  <2> HIDE DEF started
  <2>3. SameMembers(started.players, arena'.players)
    BY <1>4, <2>1, <2>2, DeltaKeepsMembers
  <2>4. SameMembers(arena.players, arena'.players)
    BY <2>1, <2>3 DEF SameMembers
  <2> QED
    BY <1>2, <2>4, KeptIsInform
<1>7. CASE HandleStop(c)
  BY <1>2, <1>3, <1>5, <1>7, DeltaInforms DEF HandleStop, Register
<1>8. CASE HandleRestart(c)
  BY <1>2, <1>8 DEF HandleRestart, MemberStep
<1>9. CASE HandleMap(c)
  <2>1. /\ Head(up[c]) \in ClientPacket /\ Head(up[c]).type = "RCon"
        /\ Head(up[c]).command = "map"
        /\ arena' = ApplyArenaDelta(arena, EnvChange(Head(up[c]).env))
    BY <1>1, <1>9, PolledFromPlayer DEF HandleMap, PollsRCon, Register
  <2>2. Head(up[c]).env \in Envs
    BY <2>1 DEF ClientPacket
  <2>3. /\ EnvChange(Head(up[c]).env) \in ArenaDelta
        /\ EnvChange(Head(up[c]).env).type = "EnvChange"
    BY <2>2 DEF EnvChange, ArenaDelta
  <2> QED
    BY <1>2, <2>1, <2>3, DeltaInforms
<1> QED
  BY <1>6, <1>7, <1>8, <1>9

\* Of a tick, the arena sees the players' statistics.
LEMMA TicksInform ==
    ASSUME SessionInv, ServerTick \/ ServerWorker
    PROVE  MemberStep
<1>1. arena \in ArenaState /\ UNCHANGED playerOf
  BY DEF SessionInv, TypeOK, ServerTick, ServerWorker
<1>2. \/ UNCHANGED arena
      \/ \E stats \in [Keys(arena.players) -> ConnStats] :
            arena' = ApplyArenaDelta(arena, StatsDelta(stats))
  BY DEF ServerTick, ServerWorker
<1>3. ASSUME NEW stats \in [Keys(arena.players) -> ConnStats],
             arena' = ApplyArenaDelta(arena, StatsDelta(stats))
      PROVE  MemberStep
  <2>1. StatsDelta(stats) \in ArenaDelta /\ StatsDelta(stats).type = "Delta"
    BY <1>1, StatsDeltaType
  <2>2. ASSUME NEW p \in Keys(arena.players)
        PROVE  /\ StatsDelta(stats).deltas[p].nickname = None
               /\ StatsDelta(stats).deltas[p].team = None
               /\ StatsDelta(stats).deltas[p].admin = arena.players[p].admin
    BY DEF StatsDelta, PlayersDelta, DeltaOf, Keys
  <2> QED
    BY <1>1, <1>3, <2>1, <2>2, DeltaInforms
<1> QED
  BY <1>1, <1>2, <1>3 DEF MemberStep

\* DISCONNECT: the peer's player leaves, or it had none.
LEMMA DisconnectIsLeave ==
    ASSUME SessionInv, NEW c \in Peers, HandleDisconnect(c)
    PROVE  MemberStep
<1>1. arena \in ArenaState /\ playerOf \in [Peers -> PID \cup {None}]
  BY DEF SessionInv, TypeOK
<1>2. playerOf' = [playerOf EXCEPT ![c] = None]
  BY DEF HandleDisconnect
<1>3. CASE playerOf[c] = None
  BY <1>1, <1>2, <1>3 DEF HandleDisconnect, Ignore, MemberStep
<1>4. CASE playerOf[c] # None
  <2>1. arena' = ApplyArenaDelta(arena, QuitDelta(playerOf[c]))
    BY <1>4 DEF HandleDisconnect, Register
  <2>2. arena' = [arena EXCEPT !.players[playerOf[c]] = None]
    BY <2>1 DEF ApplyArenaDelta, QuitDelta
  <2>3. arena'.players = [arena.players EXCEPT ![playerOf[c]] = None]
    BY <1>1, <2>2 DEF ArenaState
  <2> QED
    BY <1>2, <1>4, <2>3 DEF MemberStep, Arenas!Next, Arenas!Leave
<1> QED
  BY <1>3, <1>4

\* ReqJoin: a new player takes the smallest PID that nobody has.
LEMMA ReqJoinIsJoin ==
    ASSUME SessionInv, NEW c \in Peers, HandleReqJoin(c)
    PROVE  MemberStep
<1> DEFINE d == ConnectPlayer(arena.players, Head(up[c]).nickname)
           nick == AllocNickname(NicksExcept(arena.players, {}), Head(up[c]).nickname)
<1>1. /\ up[c] # <<>> /\ Head(up[c]).type = "ReqJoin"
      /\ up' = [up EXCEPT ![c] = Tail(@)] /\ UNCHANGED <<link, attached>>
      /\ playerOf[c] = None /\ playerOf' = [playerOf EXCEPT ![c] = d.pid]
      /\ arena' = ApplyArenaDelta(arena, d)
  BY DEF HandleReqJoin, Polls
<1>2. Head(up[c]).nickname \in Name
  BY <1>1, PolledEvent DEF ClientPacket
<1>3. arena \in ArenaState /\ arena.players \in MapTo(Player)
  BY DEF SessionInv, TypeOK, ArenaState
<1>4. Cardinality(Keys(arena.players)) < MaxPlayers
  BY <1>1, RoomForPlayer
<1>5. d.pid \in PID /\ d.pid \notin Keys(arena.players)
  BY <1>2, <1>3, <1>4, ConnectPlayerIsFresh
<1>6. d.pid = SmallestUnusedKey(Keys(arena.players)) /\ d.player = NewPlayer(nick)
      /\ d.type = "Join"
  BY DEF ConnectPlayer, AllocPid
<1>7. \A u \in 0 .. d.pid - 1 : u \in Keys(arena.players)
  <2>1. IsFiniteSet(Keys(arena.players))
    BY KeysAreFinite
  <2> QED
    BY <1>6, <2>1, SmallestUnusedKeyIsFree
<1> HIDE DEF d, nick
<1>8. arena'.players = [arena.players EXCEPT ![d.pid] = NewPlayer(nick)]
  <2>1. arena' = [arena EXCEPT !.players[d.pid] = d.player]
    BY <1>1, <1>6 DEF ApplyArenaDelta
  <2> QED
    BY <1>3, <1>6, <2>1 DEF ArenaState
<1>9. arena'.players[d.pid] = NewPlayer(nick) /\ NewPlayer(nick).nickname = nick
  BY <1>3, <1>5, <1>8 DEF MapTo, NewPlayer
<1>10. d.pid \in Keys(arena'.players)
  <2>1. \A p \in PID : p \in Keys(arena'.players) <=> arena'.players[p] # None
    BY DEF Keys
  <2>2. NewPlayer(nick) # None
    <3>1. d \in ArenaDelta
      BY <1>2, <1>3, <1>4, ConnectPlayerIsFresh DEF d
    <3>2. NewPlayer(nick) \in Player
      BY <1>6, <3>1 DEF ArenaDelta
    <3> QED
      BY <3>2, ArenaAssumption
  <2> QED
    BY <1>5, <1>9, <2>1, <2>2
<1>11. arena'.players =
         [arena.players EXCEPT ![d.pid] = NewPlayer(arena'.players[d.pid].nickname)]
  BY <1>8, <1>9
<1>12. Arenas!Join(c)
  BY <1>1, <1>5, <1>7, <1>10, <1>11, SameWords DEF Arenas!Join
<1> QED
  BY <1>12 DEF MemberStep, Arenas!Next

\* Arena and ServerExec::processPacket: a session does to its arena what
\* Membership allows, and nothing else.
THEOREM SessionIsMembership == Spec => IsMembership
<1>1. Init => Arenas!Init
  BY DEF Init, ServerInit, Arenas!Init, Arenas!EmptyMap, EmptyMap, Arenas!PID, PID
<1>2. ASSUME SessionInv, SessionInv', [Next]_vars
      PROVE  MemberStep
  <2>1. ASSUME NEW c \in Peers, ServerHandles(c), UNCHANGED clientVars
        PROVE  MemberStep
    <3>1. CASE HandleConnect(c)
      <4>1. playerOf' = [playerOf EXCEPT ![c] = None] /\ UNCHANGED arena
        BY <3>1 DEF HandleConnect
      <4>2. playerOf[c] = None /\ playerOf \in [Peers -> PID \cup {None}]
        <5>1. ~attached[c]
          BY <1>2, <3>1, PolledConnect DEF HandleConnect, Polls
        <5> QED
          BY <1>2, <5>1 DEF SessionInv, TypeOK, PeersArePlayers
      <4> QED
        BY <4>1, <4>2 DEF MemberStep
    <3> QED
      BY <1>2, <2>1, <3>1, DisconnectIsLeave, ReqJoinIsJoin, RequestsAreAsked,
         CommandsInform DEF ServerHandles
  <2>2. CASE Serves /\ UNCHANGED clientVars
    BY <1>2, <2>1, <2>2, TicksInform DEF Serves
  <2>3. CASE UNCHANGED serverVars
    BY <2>3 DEF serverVars, MemberStep
  <2>4. CASE UNCHANGED vars
    BY <2>3, <2>4 DEF vars
  <2> QED
    BY <1>2, <2>2, <2>3, <2>4 DEF Next
<1>3. SessionInv /\ SessionInv' /\ [Next]_vars => [Arenas!Next]_<<arena.players, playerOf>>
  BY <1>2 DEF MemberStep
<1> QED
  BY <1>1, <1>3, SessionInvariant, PTL DEF Spec, IsMembership, Arenas!Spec
=============================================================================
