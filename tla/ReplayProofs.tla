----------------------------- MODULE ReplayProofs -----------------------------
(***************************************************************************)
(* Whatever is on its way to a client that has joined, it ends with the    *)
(* server's arena and the server's environment: what Init and the deltas   *)
(* around it promise, for queues of any length.                            *)
(*                                                                         *)
(* And what is on its way does not mix up two skies: SkyInv is inductive   *)
(* together with SessionInv, so that a client which plays a sky reads      *)
(* nothing of another one.                                                 *)
(***************************************************************************)
EXTENDS SessionProofs

-----------------------------------------------------------------------------
(* Reading packets one after the other *)

\* f[n] is what the client has after n of the packets.
IsReading(f, k, packets) ==
    /\ f[0] = k
    /\ \A n \in 1 .. Len(packets) : f[n] = ProcessPacket(f[n - 1], packets[n])

ReadsFirst(f, k, packets, n) ==
    f = [i \in 0 .. n |-> IF i = 0 THEN k
                          ELSE ProcessPacket(f[i - 1], packets[i])]

\* The recursive function in Replayed exists, by induction over its domain.
LEMMA ReadingExists ==
    ASSUME NEW k, NEW packets, NEW n \in Nat
    PROVE  \E f : ReadsFirst(f, k, packets, n)
<1> DEFINE T == {m \in Nat : \E f : ReadsFirst(f, k, packets, m)}
<1>1. 0 \in T
  <2>1. ReadsFirst([i \in 0 .. 0 |-> k], k, packets, 0)
    BY DEF ReadsFirst
  <2> QED
    BY <2>1
<1>2. ASSUME NEW m \in Nat, m \in T
      PROVE  m + 1 \in T
  <2>1. PICK f : ReadsFirst(f, k, packets, m)
    BY <1>2
  <2> DEFINE g == [i \in 0 .. m + 1 |->
                      IF i = m + 1 THEN ProcessPacket(f[m], packets[m + 1]) ELSE f[i]]
  <2>2. \A i \in 0 .. m : f[i] = IF i = 0 THEN k ELSE ProcessPacket(f[i - 1], packets[i])
    BY <2>1 DEF ReadsFirst
  <2>3. ASSUME NEW i \in 0 .. m + 1
        PROVE  g[i] = IF i = 0 THEN k ELSE ProcessPacket(g[i - 1], packets[i])
    <3>1. CASE i = m + 1
      BY <3>1
    <3>2. CASE i # m + 1
      <4>1. i \in 0 .. m /\ g[i] = f[i] /\ (i # 0 => g[i - 1] = f[i - 1])
        BY <3>2
      <4> QED
        BY <4>1, <2>2
    <3> QED
      BY <3>1, <3>2
  <2>4. g = [i \in 0 .. m + 1 |-> g[i]]
    OBVIOUS
  <2> HIDE DEF g
  <2>5. ReadsFirst(g, k, packets, m + 1)
    BY <2>3, <2>4 DEF ReadsFirst
  <2> QED
    BY <2>5
<1> HIDE DEF T
<1>3. Nat \subseteq T
  BY <1>1, <1>2, Induction
<1> QED
  BY <1>3 DEF T

\* Replayed is where a reading ends...
LEMMA ReplayedIsRead ==
    ASSUME NEW k, NEW S, NEW packets \in Seq(S)
    PROVE  \E f : IsReading(f, k, packets) /\ Replayed(k, packets) = f[Len(packets)]
<1> DEFINE f == CHOOSE f : ReadsFirst(f, k, packets, Len(packets))
<1>1. Len(packets) \in Nat
  OBVIOUS
<1>2. ReadsFirst(f, k, packets, Len(packets))
  BY <1>1, ReadingExists
<1>3. Replayed(k, packets) = f[Len(packets)]
  BY DEF Replayed, ReadsFirst
<1> HIDE DEF f
<1>4. IsReading(f, k, packets)
  BY <1>1, <1>2 DEF IsReading, ReadsFirst
<1> QED
  BY <1>3, <1>4

\* ... and where every reading of these packets ends.
LEMMA ReadingsAgree ==
    ASSUME NEW k, NEW S, NEW packets \in Seq(S), NEW f, IsReading(f, k, packets)
    PROVE  Replayed(k, packets) = f[Len(packets)]
<1>1. PICK g : IsReading(g, k, packets) /\ Replayed(k, packets) = g[Len(packets)]
  BY ReplayedIsRead
<1> DEFINE T == {n \in Nat : n <= Len(packets) => f[n] = g[n]}
<1>2. Len(packets) \in Nat
  OBVIOUS
<1>3. 0 \in T
  BY <1>1 DEF IsReading
<1>4. ASSUME NEW n \in Nat, n \in T
      PROVE  n + 1 \in T
  <2> SUFFICES ASSUME n + 1 <= Len(packets)
               PROVE  f[n + 1] = g[n + 1]
    OBVIOUS
  <2>1. n + 1 \in 1 .. Len(packets) /\ (n + 1) - 1 = n /\ f[n] = g[n]
    BY <1>2, <1>4
  <2>2. f[n + 1] = ProcessPacket(f[(n + 1) - 1], packets[n + 1])
    BY <2>1 DEF IsReading
  <2>3. g[n + 1] = ProcessPacket(g[(n + 1) - 1], packets[n + 1])
    BY <1>1, <2>1 DEF IsReading
  <2> QED
    BY <2>1, <2>2, <2>3
<1> HIDE DEF T
<1>5. Nat \subseteq T
  BY <1>3, <1>4, Induction
<1> QED
  BY <1>1, <1>2, <1>5 DEF T

LEMMA ReplayedNone ==
    ASSUME NEW k
    PROVE  Replayed(k, <<>>) = k
<1> DEFINE f == [n \in {0} |-> k]
<1>1. IsReading(f, k, <<>>)
  BY DEF IsReading
<1>2. <<>> \in Seq({}) /\ Len(<<>>) = 0
  OBVIOUS
<1> QED
  BY <1>1, <1>2, ReadingsAgree

LEMMA ReplayedOne ==
    ASSUME NEW k, NEW packet
    PROVE  Replayed(k, <<packet>>) = ProcessPacket(k, packet)
<1> DEFINE f == [n \in {0, 1} |-> IF n = 0 THEN k ELSE ProcessPacket(k, packet)]
<1>1. <<packet>> \in Seq({packet}) /\ Len(<<packet>>) = 1 /\ <<packet>>[1] = packet
  OBVIOUS
<1>2. f[0] = k /\ f[1] = ProcessPacket(k, packet)
  OBVIOUS
<1> HIDE DEF f
<1>3. IsReading(f, k, <<packet>>)
  BY <1>1, <1>2 DEF IsReading
<1> QED
  BY <1>1, <1>2, <1>3, ReadingsAgree

\* Reading two queues, one after the other.
LEMMA ReplayedThen ==
    ASSUME NEW k, NEW S, NEW q \in Seq(S), NEW r \in Seq(S)
    PROVE  Replayed(k, q \o r) = Replayed(Replayed(k, q), r)
<1>1. PICK f : IsReading(f, k, q) /\ Replayed(k, q) = f[Len(q)]
  BY ReplayedIsRead
<1>2. PICK g : /\ IsReading(g, Replayed(k, q), r)
               /\ Replayed(Replayed(k, q), r) = g[Len(r)]
  BY ReplayedIsRead
<1> DEFINE s == q \o r
           h == [n \in 0 .. Len(s) |-> IF n <= Len(q) THEN f[n] ELSE g[n - Len(q)]]
<1>3. /\ Len(q) \in Nat /\ Len(r) \in Nat /\ s \in Seq(S)
      /\ Len(s) = Len(q) + Len(r)
      /\ \A n \in 1 .. Len(q) : s[n] = q[n]
      /\ \A n \in Len(q) + 1 .. Len(s) : s[n] = r[n - Len(q)]
  OBVIOUS
<1> HIDE DEF s
<1>4. g[0] = f[Len(q)]
  BY <1>1, <1>2 DEF IsReading
<1>5. h[0] = k /\ h[Len(s)] = g[Len(r)]
  BY <1>1, <1>3, <1>4 DEF IsReading
<1>6. \A n \in 1 .. Len(q) : h[n] = f[n] /\ h[n - 1] = f[n - 1]
  BY <1>3
<1>7. \A n \in Len(q) + 1 .. Len(s) :
         h[n] = g[n - Len(q)] /\ h[n - 1] = g[(n - Len(q)) - 1]
  <2> SUFFICES ASSUME NEW n \in Len(q) + 1 .. Len(s)
               PROVE  h[n] = g[n - Len(q)] /\ h[n - 1] = g[(n - Len(q)) - 1]
    OBVIOUS
  <2>1. n \in 0 .. Len(s) /\ n - 1 \in 0 .. Len(s) /\ ~(n <= Len(q))
    BY <1>3
  <2>2. h[n] = g[n - Len(q)]
    BY <2>1
  <2>3. CASE n = Len(q) + 1
    <3>1. h[n - 1] = f[Len(q)] /\ (n - Len(q)) - 1 = 0
      BY <1>3, <2>3
    <3> QED
      BY <1>4, <2>2, <3>1
  <2>4. CASE n # Len(q) + 1
    <3>1. ~(n - 1 <= Len(q)) /\ (n - 1) - Len(q) = (n - Len(q)) - 1
      BY <1>3, <2>4
    <3>2. h[n - 1] = g[(n - 1) - Len(q)]
      BY <2>1, <3>1
    <3> QED
      BY <2>2, <3>1, <3>2
  <2> QED
    BY <2>3, <2>4
<1> HIDE DEF h
<1>8. ASSUME NEW n \in 1 .. Len(s)
      PROVE  h[n] = ProcessPacket(h[n - 1], s[n])
  <2>1. CASE n \in 1 .. Len(q)
    BY <1>1, <1>3, <1>6, <2>1 DEF IsReading
  <2>2. CASE n \in Len(q) + 1 .. Len(s)
    <3>1. n - Len(q) \in 1 .. Len(r)
      BY <1>3, <2>2
    <3>2. g[n - Len(q)] = ProcessPacket(g[(n - Len(q)) - 1], r[n - Len(q)])
      BY <1>2, <3>1 DEF IsReading
    <3> QED
      BY <1>3, <1>7, <2>2, <3>2
  <2> QED
    BY <1>3, <2>1, <2>2
<1>9. IsReading(h, k, s)
  BY <1>5, <1>8 DEF IsReading
<1>10. Replayed(k, s) = h[Len(s)]
  BY <1>3, <1>9, ReadingsAgree
<1> QED
  BY <1>2, <1>5, <1>10 DEF s

\* Reading a packet leaves what is still to be read.
LEMMA ReplayedHead ==
    ASSUME NEW k, NEW S, NEW q \in Seq(S), q # <<>>
    PROVE  Replayed(k, q) = Replayed(ProcessPacket(k, Head(q)), Tail(q))
<1> DEFINE first == <<Head(q)>>
           rest == Tail(q)
<1>1. first \in Seq(S) /\ rest \in Seq(S) /\ q = first \o rest
  OBVIOUS
<1>2. Replayed(k, first) = ProcessPacket(k, Head(q))
  BY ReplayedOne
<1> HIDE DEF first, rest
<1>3. Replayed(k, first \o rest) = Replayed(Replayed(k, first), rest)
  BY <1>1, ReplayedThen
<1> QED
  BY <1>1, <1>2, <1>3 DEF rest

\* What every packet keeps, reading any number of them keeps.
LEMMA ReplayedStays ==
    ASSUME NEW T, NEW S, \A x \in T, packet \in S : ProcessPacket(x, packet) \in T,
           NEW k \in T, NEW packets \in Seq(S)
    PROVE  Replayed(k, packets) \in T
<1>1. PICK f : IsReading(f, k, packets) /\ Replayed(k, packets) = f[Len(packets)]
  BY ReplayedIsRead
<1> DEFINE U == {n \in Nat : n <= Len(packets) => f[n] \in T}
<1>2. Len(packets) \in Nat
  OBVIOUS
<1>3. 0 \in U
  BY <1>1 DEF IsReading
<1>4. ASSUME NEW n \in Nat, n \in U
      PROVE  n + 1 \in U
  <2> SUFFICES ASSUME n + 1 <= Len(packets)
               PROVE  f[n + 1] \in T
    OBVIOUS
  <2>1. n + 1 \in 1 .. Len(packets) /\ (n + 1) - 1 = n /\ f[n] \in T
    BY <1>2, <1>4
  <2>2. packets[n + 1] \in S
    BY <2>1
  <2>3. f[n + 1] = ProcessPacket(f[(n + 1) - 1], packets[n + 1])
    BY <1>1, <2>1 DEF IsReading
  <2> QED
    BY <2>1, <2>2, <2>3
<1> HIDE DEF U
<1>5. Nat \subseteq U
  BY <1>3, <1>4, Induction
<1> QED
  BY <1>1, <1>2, <1>5 DEF U

-----------------------------------------------------------------------------
(* What of a connection has to become the server's *)

\* k is a connection of the player pid whose arena agrees with a.
Mirrors(k, pid, a) ==
    k \in Conn /\ k.pid = pid /\ Shared(k.arena) = Shared(a)

\* Two connections that will show the same server.
Alike(k, l) ==
    Mirrors(k, l.pid, l.arena) /\ EnvUrl(k.handle) = EnvUrl(l.handle)

LEMMA SharedIs ==
    ASSUME NEW a, NEW b
    PROVE  Shared(a) = Shared(b) <=>
             /\ a.players = b.players /\ a.motd = b.motd
             /\ a.nextEnv = b.nextEnv /\ a.mode = b.mode
BY DEF Shared

\* applyDelta does not look at the team count, the one thing an ArenaInit
\* leaves out: arenas that agree on the rest still do so after a delta.
LEMMA DeltaKeepsShared ==
    ASSUME NEW a \in ArenaState, NEW b \in ArenaState, NEW d \in ArenaDelta,
           Shared(a) = Shared(b)
    PROVE  Shared(ApplyArenaDelta(a, d)) = Shared(ApplyArenaDelta(b, d))
<1> DEFINE x == ApplyArenaDelta(a, d)
           y == ApplyArenaDelta(b, d)
<1>1. /\ a.players = b.players /\ a.motd = b.motd
      /\ a.nextEnv = b.nextEnv /\ a.mode = b.mode
  BY SharedIs
<1>2. CASE d.type \in {"Quit", "Join", "Delta", "ResetEnvLoad"}
  <2>1. PICK P : x = [a EXCEPT !.players = P] /\ y = [b EXCEPT !.players = P]
    BY <1>1, <1>2 DEF ApplyArenaDelta
  <2>2. /\ x.players = P /\ x.motd = a.motd /\ x.nextEnv = a.nextEnv /\ x.mode = a.mode
        /\ y.players = P /\ y.motd = b.motd /\ y.nextEnv = b.nextEnv /\ y.mode = b.mode
    BY <2>1 DEF ArenaState
  <2> HIDE DEF x, y
  <2> QED
    BY <1>1, <2>2, SharedIs DEF x, y
<1>3. CASE d.type \in {"Motd", "Mode", "EnvChange", "TeamCount"}
  <2>1. /\ x.players = a.players /\ y.players = b.players
        /\ x.motd = (IF d.type = "Motd" THEN d.motd ELSE a.motd)
        /\ y.motd = (IF d.type = "Motd" THEN d.motd ELSE b.motd)
        /\ x.mode = (IF d.type = "Mode" THEN d.mode ELSE a.mode)
        /\ y.mode = (IF d.type = "Mode" THEN d.mode ELSE b.mode)
        /\ x.nextEnv = (IF d.type = "EnvChange" THEN d.env ELSE a.nextEnv)
        /\ y.nextEnv = (IF d.type = "EnvChange" THEN d.env ELSE b.nextEnv)
    BY <1>3 DEF ApplyArenaDelta, ArenaState
  <2> HIDE DEF x, y
  <2> QED
    BY <1>1, <2>1, SharedIs DEF x, y
<1> QED
  BY <1>2, <1>3 DEF ArenaDelta

\* What each packet changes of a connection's arena and environment.
LEMMA PacketChanges ==
    ASSUME NEW k \in Conn, NEW packet \in ServerPacket
    PROVE  LET r == ProcessPacket(k, packet)
           IN  /\ r \in Conn /\ r.pid = k.pid
               /\ r.arena = IF packet.type = "DeltaArena"
                            THEN ApplyArenaDelta(k.arena, packet.delta) ELSE k.arena
               /\ EnvUrl(r.handle) = IF packet.type = "DeltaSkyHandle"
                                     THEN packet.env ELSE EnvUrl(k.handle)
<1> DEFINE r == ProcessPacket(k, packet)
<1>1. k # None /\ k.arena \in ArenaState /\ k.handle \in Handle
  BY ClientAssumption DEF Conn
<1>2. CASE packet.type = "DeltaArena"
  <2> DEFINE d == packet.delta
             a == ApplyArenaDelta(k.arena, d)
             changed == [k EXCEPT !.arena = a]
  <2>1. d \in ArenaDelta
    BY <1>2 DEF ServerPacket
  <2>2. r = IF d.type = "Mode" /\ d.mode # k.arena.mode /\ d.mode # "Game"
            THEN LoadView(changed, d.mode) ELSE changed
    BY <1>1, <1>2 DEF ProcessPacket, ReceiveArenaDelta
  <2>3. a \in ArenaState /\ (d.type = "Mode" => d.mode \in Mode)
    BY <1>1, <2>1, ApplyArenaDeltaKeeps DEF ArenaDelta
  <2> HIDE DEF a, d
  <2>4. /\ changed \in Conn /\ changed.arena = a
        /\ changed.pid = k.pid /\ changed.handle = k.handle
    BY <2>3 DEF Conn
  <2> HIDE DEF changed, r
  <2>5. r \in Conn /\ r.pid = k.pid /\ r.arena = a /\ r.handle = k.handle
    BY <2>2, <2>3, <2>4, LoadViewType
  <2> QED
    BY <1>2, <2>5 DEF a, d, r
<1>3. CASE packet.type = "DeltaSkyHandle"
  <2> DEFINE url == packet.env
             h == ApplyHandleDelta(k.handle, url)
             changed == [k EXCEPT !.handle = h]
             ended == [changed EXCEPT !.askedSky = FALSE]
  <2>1. url \in Envs \cup {None}
    BY <1>3 DEF ServerPacket
  <2>2. r = IF url # None
            THEN IF k.arena.mode = "Game" THEN LoadView(changed, "Game") ELSE changed
            ELSE IF k.arena.mode = "Game" THEN LoadView(ended, "Lobby") ELSE ended
    BY <1>1, <1>3 DEF ProcessPacket, ReceiveHandleDelta
  <2>3. h \in Handle /\ EnvUrl(h) = url
    <3>1. url # None => NewEnv(url) \in Env /\ NewEnv(url) # None /\ NewEnv(url).url = url
      BY <2>1, HandleAssumption DEF NewEnv, Env, Stage
    <3> QED
      BY <1>1, <2>1, <3>1 DEF ApplyHandleDelta, Handle, EnvUrl
  <2> HIDE DEF h, url
  <2>4. /\ changed \in Conn /\ changed.arena = k.arena
        /\ changed.pid = k.pid /\ changed.handle = h
    BY <2>3 DEF Conn
  <2> HIDE DEF changed
  <2>5. /\ ended \in Conn /\ ended.arena = k.arena
        /\ ended.pid = k.pid /\ ended.handle = h
    BY <2>4 DEF Conn
  <2>6. "Game" \in Mode /\ "Lobby" \in Mode
    BY DEF Mode
  <2> HIDE DEF ended, r
  <2>7. r \in Conn /\ r.pid = k.pid /\ r.arena = k.arena /\ r.handle = h
    BY <2>2, <2>4, <2>5, <2>6, LoadViewType
  <2> QED
    BY <1>3, <2>3, <2>7 DEF url, r
<1>4. CASE packet.type = "InitSky"
  <2> DEFINE h == InstantiateSky(k.handle, packet.sky)
             changed == [k EXCEPT !.handle = h]
  <2>1. packet.sky \in Nat
    BY <1>4 DEF ServerPacket
  <2>2. r = IF EnvReady(k.handle) THEN changed ELSE k
    BY <1>1, <1>4 DEF ProcessPacket, ReceiveSky
  <2>3. h \in Handle /\ h.env = k.handle.env
    BY <1>1, <2>1 DEF InstantiateSky, Handle
  <2>4. EnvUrl(h) = EnvUrl(k.handle)
    BY <2>3 DEF EnvUrl
  <2> HIDE DEF h
  <2>5. /\ changed \in Conn /\ changed.arena = k.arena
        /\ changed.pid = k.pid /\ changed.handle = h
    BY <2>3 DEF Conn
  <2> HIDE DEF changed, r
  <2> QED
    BY <1>4, <2>2, <2>4, <2>5 DEF r
<1>5. CASE packet.type \notin {"DeltaArena", "DeltaSkyHandle", "InitSky"}
  BY <1>1, <1>5 DEF ProcessPacket
<1> QED
  BY <1>2, <1>3, <1>4, <1>5

\* Connections that are alike stay so when they read the same packet...
LEMMA PacketKeepsAlike ==
    ASSUME NEW k \in Conn, NEW l \in Conn, Alike(k, l), NEW packet \in ServerPacket
    PROVE  Alike(ProcessPacket(k, packet), ProcessPacket(l, packet))
<1> DEFINE r == ProcessPacket(k, packet)
           s == ProcessPacket(l, packet)
<1>1. /\ r \in Conn /\ r.pid = k.pid
      /\ r.arena = IF packet.type = "DeltaArena"
                   THEN ApplyArenaDelta(k.arena, packet.delta) ELSE k.arena
      /\ EnvUrl(r.handle) = IF packet.type = "DeltaSkyHandle"
                            THEN packet.env ELSE EnvUrl(k.handle)
  BY PacketChanges
<1>2. /\ s.pid = l.pid
      /\ s.arena = IF packet.type = "DeltaArena"
                   THEN ApplyArenaDelta(l.arena, packet.delta) ELSE l.arena
      /\ EnvUrl(s.handle) = IF packet.type = "DeltaSkyHandle"
                            THEN packet.env ELSE EnvUrl(l.handle)
  BY PacketChanges
<1>3. Shared(r.arena) = Shared(s.arena)
  <2>1. k.arena \in ArenaState /\ l.arena \in ArenaState /\ Shared(k.arena) = Shared(l.arena)
    BY DEF Conn, Alike, Mirrors
  <2>2. packet.type = "DeltaArena" => packet.delta \in ArenaDelta
    BY DEF ServerPacket
  <2> QED
    BY <1>1, <1>2, <2>1, <2>2, DeltaKeepsShared
<1> HIDE DEF r, s
<1> QED
  BY <1>1, <1>2, <1>3 DEF Alike, Mirrors, r, s

\* ... or any number of them.
LEMMA ReplayedAlike ==
    ASSUME NEW k \in Conn, NEW l \in Conn, Alike(k, l),
           NEW packets \in Seq(ServerPacket)
    PROVE  Alike(Replayed(k, packets), Replayed(l, packets))
<1>1. PICK f : IsReading(f, k, packets) /\ Replayed(k, packets) = f[Len(packets)]
  BY ReplayedIsRead
<1>2. PICK g : IsReading(g, l, packets) /\ Replayed(l, packets) = g[Len(packets)]
  BY ReplayedIsRead
<1> DEFINE U == {n \in Nat : n <= Len(packets) =>
                    f[n] \in Conn /\ g[n] \in Conn /\ Alike(f[n], g[n])}
<1>3. Len(packets) \in Nat
  OBVIOUS
<1>4. 0 \in U
  BY <1>1, <1>2 DEF IsReading
<1>5. ASSUME NEW n \in Nat, n \in U
      PROVE  n + 1 \in U
  <2> SUFFICES ASSUME n + 1 <= Len(packets)
               PROVE  /\ f[n + 1] \in Conn /\ g[n + 1] \in Conn
                      /\ Alike(f[n + 1], g[n + 1])
    OBVIOUS
  <2>1. /\ n + 1 \in 1 .. Len(packets) /\ (n + 1) - 1 = n
        /\ f[n] \in Conn /\ g[n] \in Conn /\ Alike(f[n], g[n])
    BY <1>3, <1>5
  <2>2. packets[n + 1] \in ServerPacket
    BY <2>1
  <2>3. f[n + 1] = ProcessPacket(f[n], packets[n + 1])
    BY <1>1, <2>1 DEF IsReading
  <2>4. g[n + 1] = ProcessPacket(g[n], packets[n + 1])
    BY <1>2, <2>1 DEF IsReading
  <2> QED
    BY <2>1, <2>2, <2>3, <2>4, PacketChanges, PacketKeepsAlike
<1> HIDE DEF U
<1>6. Nat \subseteq U
  BY <1>4, <1>5, Induction
<1> QED
  BY <1>1, <1>2, <1>3, <1>6 DEF U

-----------------------------------------------------------------------------
(* The replay, whoever takes a step *)

\* A connection that agrees with a server's arena and, unless a change of it
\* is still to be announced, with its environment.
Agrees(k, pid, a, h) ==
    Mirrors(k, pid, a) /\ (~h.isNew => EnvUrl(k.handle) = EnvUrl(h))

\* What client c will be with what is on its way.
Follows(c) == Agrees(Replay(c), playerOf[c], arena, handle)

\* ReplayReachesServer and ReplayReachesEnv, with the types they need.
ReplayInv == \A c \in Peers : InTouch(c) => Follows(c)

\* What the server sends a peer comes behind all that is on its way to it.
LEMMA TransmitExtends ==
    ASSUME SessionInv, NEW c \in Peers, link[c] = "open",
           NEW out \in Outgoing, Transmit(out), conn' = conn
    PROVE  Replay(c)' = Replayed(Replay(c), out[c])
<1>1. down[c] \in Seq(ServerPacket) /\ out[c] \in Seq(ServerPacket)
  BY DEF SessionInv, TypeOK, Outgoing
<1>2. down'[c] = down[c] \o out[c]
  BY DEF Transmit
<1>3. Replayed(conn[c], down[c] \o out[c]) = Replayed(Replayed(conn[c], down[c]), out[c])
  BY <1>1, ReplayedThen
<1> QED
  BY <1>2, <1>3 DEF Replay

\* What the server has sent to all, every client in touch gets.
LEMMA ClientsGet ==
    ASSUME SessionInv, NEW c \in Peers, InTouch(c), NEW packet
    PROVE  attached[c] /\ ToClients(packet)[c] = <<packet>> /\ Silence[c] = <<>>
<1>1. attached[c]
  BY DEF SessionInv, PeersArePlayers, InTouch
<1> QED
  BY <1>1 DEF ToClients, ToThose, Silence

LEMMA SendsAreOutgoing ==
    ASSUME NEW packet \in ServerPacket
    PROVE  /\ ToClients(packet) \in Outgoing
           /\ \A c : To(c, packet) \in Outgoing
           /\ \A S : ToThose(S, packet) \in Outgoing
           /\ Silence \in Outgoing
<1>1. <<packet>> \in Seq(ServerPacket) /\ <<>> \in Seq(ServerPacket)
  OBVIOUS
<1> HIDE DEF ServerPacket
<1> QED
  BY <1>1 DEF ToClients, ToThose, To, Silence, Outgoing

LEMMA ThenIsOutgoing ==
    ASSUME NEW first \in Outgoing, NEW second \in Outgoing
    PROVE  /\ Then(first, second) \in Outgoing
           /\ \A c \in Peers : \A k :
                 Replayed(k, Then(first, second)[c]) =
                    Replayed(Replayed(k, first[c]), second[c])
<1>1. ASSUME NEW c \in Peers
      PROVE  /\ first[c] \o second[c] \in Seq(ServerPacket)
             /\ \A k : Replayed(k, first[c] \o second[c]) =
                          Replayed(Replayed(k, first[c]), second[c])
  <2> DEFINE q == first[c]
             r == second[c]
  <2>1. q \in Seq(ServerPacket) /\ r \in Seq(ServerPacket)
    BY DEF Outgoing
  <2> HIDE DEF q, r
  <2>2. q \o r \in Seq(ServerPacket)
    BY <2>1
  <2>3. \A k : Replayed(k, q \o r) = Replayed(Replayed(k, q), r)
    BY <2>1, ReplayedThen
  <2> QED
    BY <2>2, <2>3 DEF q, r
<1> QED
  BY <1>1 DEF Then, Outgoing

\* A client reads a delta that the server has applied.
LEMMA MirrorsDelta ==
    ASSUME NEW k, NEW pid, NEW a \in ArenaState, Mirrors(k, pid, a),
           NEW d \in ArenaDelta
    PROVE  LET r == Replayed(k, <<DeltaArena(d)>>)
           IN  /\ Mirrors(r, pid, ApplyArenaDelta(a, d))
               /\ EnvUrl(r.handle) = EnvUrl(k.handle)
<1> DEFINE packet == DeltaArena(d)
           r == ProcessPacket(k, packet)
<1>1. packet \in ServerPacket /\ packet.type = "DeltaArena" /\ packet.delta = d
  BY DEF DeltaArena, ServerPacket
<1> HIDE DEF packet
<1>2. k \in Conn /\ k.arena \in ArenaState /\ k.pid = pid /\ Shared(k.arena) = Shared(a)
  BY DEF Mirrors, Conn
<1>3. /\ r \in Conn /\ r.pid = k.pid
      /\ r.arena = ApplyArenaDelta(k.arena, d)
      /\ EnvUrl(r.handle) = EnvUrl(k.handle)
  BY <1>1, <1>2, PacketChanges
<1>4. Shared(r.arena) = Shared(ApplyArenaDelta(a, d))
  BY <1>2, <1>3, DeltaKeepsShared
<1>5. Replayed(k, <<packet>>) = r
  BY ReplayedOne
<1> HIDE DEF r
<1> QED
  BY <1>2, <1>3, <1>4, <1>5 DEF Mirrors, packet

\* It reads a packet that is about the sky alone.
LEMMA MirrorsSky ==
    ASSUME NEW k, NEW pid, NEW a, Mirrors(k, pid, a),
           NEW packet \in ServerPacket, packet.type \in {"InitSky", "DeltaSky"}
    PROVE  LET r == Replayed(k, <<packet>>)
           IN  Mirrors(r, pid, a) /\ EnvUrl(r.handle) = EnvUrl(k.handle)
<1> DEFINE r == ProcessPacket(k, packet)
<1>1. r \in Conn /\ r.pid = k.pid /\ r.arena = k.arena /\ EnvUrl(r.handle) = EnvUrl(k.handle)
  BY PacketChanges DEF Mirrors
<1>2. Replayed(k, <<packet>>) = r
  BY ReplayedOne
<1> HIDE DEF r
<1> QED
  BY <1>1, <1>2 DEF Mirrors

\* It reads that the environment is another one.
LEMMA MirrorsHandleDelta ==
    ASSUME NEW k, NEW pid, NEW a, Mirrors(k, pid, a), NEW url \in Envs \cup {None}
    PROVE  LET r == Replayed(k, <<DeltaSkyHandle(url)>>)
           IN  Mirrors(r, pid, a) /\ EnvUrl(r.handle) = url
<1> DEFINE packet == DeltaSkyHandle(url)
           r == ProcessPacket(k, packet)
<1>1. packet \in ServerPacket /\ packet.type = "DeltaSkyHandle" /\ packet.env = url
  BY DEF DeltaSkyHandle, ServerPacket
<1> HIDE DEF packet
<1>2. r \in Conn /\ r.pid = k.pid /\ r.arena = k.arena /\ EnvUrl(r.handle) = url
  BY <1>1, PacketChanges DEF Mirrors
<1>3. Replayed(k, <<packet>>) = r
  BY ReplayedOne
<1> HIDE DEF r
<1> QED
  BY <1>2, <1>3 DEF Mirrors, packet

-----------------------------------------------------------------------------
(* Steps of the server *)

\* What the server sends c does to any client what the step does itself.
Informs(c, out) ==
    \A k : Agrees(k, playerOf[c], arena, handle) =>
              Agrees(Replayed(k, out[c]), playerOf[c], arena', handle')

LEMMA InformedFollows ==
    ASSUME SessionInv, ReplayInv, NEW c \in Peers, InTouch(c),
           NEW out \in Outgoing, Transmit(out), Informs(c, out),
           conn' = conn, playerOf'[c] = playerOf[c]
    PROVE  Follows(c)'
<1>1. Agrees(Replay(c), playerOf[c], arena, handle)
  BY DEF ReplayInv, Follows
<1>2. Replay(c)' = Replayed(Replay(c), out[c])
  BY TransmitExtends DEF InTouch
<1>3. Agrees(Replayed(Replay(c), out[c]), playerOf[c], arena', handle')
  BY <1>1 DEF Informs
<1>4. Agrees(Replay(c)', playerOf'[c], arena', handle')
  BY <1>2, <1>3
<1> QED
  BY <1>4 DEF Follows, Agrees, Mirrors, Shared, EnvUrl

\* Nothing is sent: the arena stays, and the environment too, unless its
\* change is still to be announced.
LEMMA QuietFollows ==
    ASSUME SessionInv, ReplayInv, NEW c \in Peers, InTouch(c),
           UNCHANGED <<arena, down, conn>>, playerOf'[c] = playerOf[c],
           \/ EnvUrl(handle') = EnvUrl(handle) /\ handle'.isNew = handle.isNew
           \/ handle'.isNew
    PROVE  Follows(c)'
<1>1. Agrees(Replay(c), playerOf[c], arena, handle)
  BY DEF ReplayInv, Follows
<1>2. Replay(c)' = Replay(c)
  BY DEF Replay
<1>3. Agrees(Replay(c)', playerOf'[c], arena', handle')
  BY <1>1, <1>2 DEF Agrees
<1> QED
  BY <1>3 DEF Follows, Agrees, Mirrors, Shared, EnvUrl

\* A delta of the arena goes to everybody.
LEMMA RegisterFollows ==
    ASSUME SessionInv, ReplayInv, NEW c \in Peers, InTouch(c),
           NEW d \in ArenaDelta, Register(d), conn' = conn,
           playerOf'[c] = playerOf[c], handle' = handle \/ handle'.isNew
    PROVE  Follows(c)'
<1> DEFINE out == ToClients(DeltaArena(d))
<1>1. DeltaArena(d) \in ServerPacket
  BY DEF DeltaArena, ServerPacket
<1>2. out \in Outgoing /\ out[c] = <<DeltaArena(d)>>
  BY <1>1, ClientsGet, SendsAreOutgoing
<1>3. arena \in ArenaState /\ arena' = ApplyArenaDelta(arena, d) /\ Transmit(out)
  BY DEF SessionInv, TypeOK, Register
<1> HIDE DEF out
<1>4. Informs(c, out)
  BY <1>2, <1>3, MirrorsDelta DEF Informs, Agrees
<1> QED
  BY <1>2, <1>3, <1>4, InformedFollows

-----------------------------------------------------------------------------
(* Every step of the server *)

LEMMA OnePlayerDeltaType ==
    ASSUME NEW pid \in PID, NEW d \in PlayerDelta
    PROVE  OnePlayerDelta(pid, d) \in ArenaDelta
BY DEF OnePlayerDelta, PlayersDelta, ArenaDelta, MapTo, EmptyMap

\* HandleReqSky: the sky for the client that asks, and a delta for all.
LEMMA ReqSkyFollows ==
    ASSUME SessionInv, ReplayInv, NEW c \in Peers, HandleReqSky(c),
           UNCHANGED clientVars, NEW x \in Peers, InTouch(x)
    PROVE  Follows(x)'
<1>1. /\ UNCHANGED <<conn, playerOf, handle>>
      /\ playerOf[c] \in PID /\ PlayerOf(c) \in Player
      /\ arena \in ArenaState /\ handle \in Handle
  BY PolledFromPlayer DEF HandleReqSky
<1>2. CASE handle.sky = None
  BY <1>1, <1>2, QuietFollows DEF HandleReqSky, Ignore
<1>3. CASE handle.sky # None
  <2> DEFINE d == OnePlayerDelta(playerOf[c],
                     [DeltaOf(PlayerOf(c)) EXCEPT !.loadingEnv = FALSE])
             first == To(c, InitSky(handle.sky))
             second == ToClients(DeltaArena(d))
             out == Then(first, second)
  <2>1. d \in ArenaDelta
    BY <1>1, DeltaOfType, OnePlayerDeltaType
  <2>2. arena' = ApplyArenaDelta(arena, d) /\ Transmit(out)
    BY <1>3 DEF HandleReqSky
  <2> HIDE DEF d
  <2>3. /\ InitSky(handle.sky) \in ServerPacket /\ InitSky(handle.sky).type = "InitSky"
        /\ DeltaArena(d) \in ServerPacket
    BY <1>1, <1>3, <2>1 DEF InitSky, DeltaArena, ServerPacket, Handle
  <2>4. /\ first \in Outgoing /\ second \in Outgoing
        /\ second[x] = <<DeltaArena(d)>>
        /\ first[x] = IF x = c THEN <<InitSky(handle.sky)>> ELSE <<>>
    BY <2>3, SendsAreOutgoing, ClientsGet DEF To
  <2>5. /\ out \in Outgoing
        /\ \A k : Replayed(k, out[x]) = Replayed(Replayed(k, first[x]), second[x])
    BY <2>4, ThenIsOutgoing
  <2> HIDE DEF first, second, out
  <2>6. Informs(x, out)
    <3> SUFFICES ASSUME NEW k, Agrees(k, playerOf[x], arena, handle)
                 PROVE  Agrees(Replayed(k, out[x]), playerOf[x], arena', handle')
      BY DEF Informs
    <3> DEFINE mid == Replayed(k, first[x])
    <3>1. Mirrors(mid, playerOf[x], arena) /\ EnvUrl(mid.handle) = EnvUrl(k.handle)
      BY <2>3, <2>4, MirrorsSky, ReplayedNone DEF Agrees
    <3> HIDE DEF mid
    <3>2. LET r == Replayed(mid, second[x])
          IN  /\ Mirrors(r, playerOf[x], ApplyArenaDelta(arena, d))
              /\ EnvUrl(r.handle) = EnvUrl(mid.handle)
      BY <1>1, <2>1, <2>4, <3>1, MirrorsDelta
    <3>3. Replayed(k, out[x]) = Replayed(mid, second[x])
      BY <2>5 DEF mid
    <3> QED
      BY <1>1, <2>2, <3>1, <3>2, <3>3 DEF Agrees
  <2> QED
    BY <1>1, <2>2, <2>5, <2>6, InformedFollows
<1> QED
  BY <1>2, <1>3

\* The other handlers of joined players: they register one delta at most.
LEMMA RequestRegisters ==
    ASSUME SessionInv, NEW c \in Peers, UNCHANGED clientVars,
           \/ HandleReqPlayerDelta(c) \/ HandleReqTeam(c) \/ HandleReqSpawn(c)
           \/ HandleRefused(c) \/ HandleAuth(c)
    PROVE  /\ UNCHANGED <<link, conn, lastSky, playerOf, handle>>
           /\ playerOf[c] \in PID
           /\ Ignore \/ \E d \in PlayerDelta : Register(OnePlayerDelta(playerOf[c], d))
<1>1. PICK type \in {"ReqPlayerDelta", "ReqTeam", "ReqSpawn", "RCon"} :
         PollsPlayer(c, type)
  BY DEF HandleReqPlayerDelta, HandleReqTeam, HandleReqSpawn, HandleRefused,
     HandleAuth, PollsRCon
<1>2. /\ UNCHANGED <<link, conn, lastSky, playerOf>>
      /\ playerOf[c] \in PID /\ PlayerOf(c) \in Player
      /\ Head(up[c]) \in ClientPacket /\ Head(up[c]).type = type
  BY <1>1, PolledFromPlayer
<1>3. handle' = handle
  BY DEF HandleReqPlayerDelta, HandleReqTeam, HandleReqSpawn, HandleRefused,
     HandleAuth
<1>4. Ignore \/ \E d \in PlayerDelta : Register(OnePlayerDelta(playerOf[c], d))
  <2>1. ASSUME NEW team \in Team, ChangeTeam(c, team)
        PROVE  \E d \in PlayerDelta : Register(OnePlayerDelta(playerOf[c], d))
    BY <1>2, <2>1, ChangeTeamIsChange
  <2>2. CASE HandleReqPlayerDelta(c)
    BY <2>2, <1>2, RenameIsChange
  <2>3. CASE HandleReqTeam(c)
    <3>1. type = "ReqTeam"
      BY <1>2, <2>3 DEF HandleReqTeam, PollsPlayer, Polls
    <3>2. Head(up[c]).team \in Team
      BY <1>2, <3>1 DEF ClientPacket
    <3> QED
      BY <2>1, <2>3, <3>2 DEF HandleReqTeam
  <2>4. CASE HandleReqSpawn(c)
    <3>1. AutojoinTeams(arena) \subseteq Team
      BY DEF AutojoinTeams, RandomTeams, Team
    <3> QED
      BY <2>1, <2>4, <3>1 DEF HandleReqSpawn
  <2>5. CASE HandleRefused(c)
    BY <2>5 DEF HandleRefused
  <2>6. CASE HandleAuth(c)
    BY <1>2, <2>6, DeltaOfType DEF HandleAuth
  <2> QED
    BY <2>2, <2>3, <2>4, <2>5, <2>6
<1> QED
  BY <1>2, <1>3, <1>4

LEMMA OtherRequestsFollow ==
    ASSUME SessionInv, ReplayInv, NEW c \in Peers, UNCHANGED clientVars,
           \/ HandleReqPlayerDelta(c) \/ HandleReqTeam(c) \/ HandleReqSpawn(c)
           \/ HandleRefused(c) \/ HandleAuth(c),
           NEW x \in Peers, InTouch(x)
    PROVE  Follows(x)'
<1>1. /\ UNCHANGED <<conn, playerOf, handle>> /\ playerOf[c] \in PID
      /\ Ignore \/ \E d \in PlayerDelta : Register(OnePlayerDelta(playerOf[c], d))
  BY RequestRegisters
<1>2. CASE Ignore
  BY <1>1, <1>2, QuietFollows DEF Ignore, clientVars
<1>3. CASE \E d \in PlayerDelta : Register(OnePlayerDelta(playerOf[c], d))
  BY <1>1, <1>3, RegisterFollows, OnePlayerDeltaType
<1> QED
  BY <1>1, <1>2, <1>3

\* HandleStart: two deltas, and an environment that is new.
LEMMA StartFollows ==
    ASSUME SessionInv, ReplayInv, NEW c \in Peers, HandleStart(c),
           UNCHANGED clientVars, NEW x \in Peers, InTouch(x)
    PROVE  Follows(x)'
<1> DEFINE d == ModeDelta("Game")
           mid == ApplyArenaDelta(arena, d)
           first == ToClients(DeltaArena(d))
           second == ToClients(DeltaArena(ResetEnvLoad))
           out == Then(first, second)
<1>1. /\ UNCHANGED <<conn, playerOf>> /\ arena \in ArenaState
  BY PolledFromPlayer DEF HandleStart, PollsRCon
<1>2. /\ arena' = ApplyArenaDelta(mid, ResetEnvLoad) /\ Transmit(out)
      /\ handle'.isNew
  BY DEF HandleStart, StartGame
<1>3. d \in ArenaDelta /\ ResetEnvLoad \in ArenaDelta
  BY DEF ModeDelta, ResetEnvLoad, ArenaDelta, Mode
<1> HIDE DEF d
<1>4. mid \in ArenaState
  BY <1>1, <1>3, ApplyArenaDeltaKeeps
<1>5. DeltaArena(d) \in ServerPacket /\ DeltaArena(ResetEnvLoad) \in ServerPacket
  BY <1>3 DEF DeltaArena, ServerPacket
<1>6. /\ first \in Outgoing /\ second \in Outgoing
      /\ first[x] = <<DeltaArena(d)>> /\ second[x] = <<DeltaArena(ResetEnvLoad)>>
  BY <1>5, SendsAreOutgoing, ClientsGet
<1>7. /\ out \in Outgoing
      /\ \A k : Replayed(k, out[x]) = Replayed(Replayed(k, first[x]), second[x])
  BY <1>6, ThenIsOutgoing
<1> HIDE DEF first, second, out, mid
<1>8. Informs(x, out)
  <2> SUFFICES ASSUME NEW k, Agrees(k, playerOf[x], arena, handle)
               PROVE  Agrees(Replayed(k, out[x]), playerOf[x], arena', handle')
    BY DEF Informs
  <2>1. Mirrors(Replayed(k, first[x]), playerOf[x], mid)
    BY <1>1, <1>3, <1>6, MirrorsDelta DEF Agrees, mid
  <2>2. Mirrors(Replayed(Replayed(k, first[x]), second[x]), playerOf[x], arena')
    BY <1>2, <1>3, <1>4, <1>6, <2>1, MirrorsDelta
  <2> QED
    BY <1>2, <1>7, <2>2 DEF Agrees
<1> QED
  BY <1>1, <1>2, <1>7, <1>8, InformedFollows

\* The other commands: the environment is new, and a delta at most is sent.
LEMMA CommandsFollow ==
    ASSUME SessionInv, ReplayInv, NEW c \in Peers, UNCHANGED clientVars,
           HandleStop(c) \/ HandleRestart(c) \/ HandleMap(c),
           NEW x \in Peers, InTouch(x)
    PROVE  Follows(x)'
<1>1. PollsPlayer(c, "RCon") /\ handle'.isNew
  BY DEF HandleStop, HandleRestart, HandleMap, PollsRCon, StopGame, StartGame
<1>2. /\ UNCHANGED <<conn, playerOf>>
      /\ Head(up[c]) \in ClientPacket /\ Head(up[c]).type = "RCon"
  BY <1>1, PolledFromPlayer
<1>3. CASE HandleStop(c)
  <2>1. ModeDelta("Lobby") \in ArenaDelta
    BY DEF ModeDelta, ArenaDelta, Mode
  <2> QED
    BY <1>1, <1>2, <1>3, <2>1, RegisterFollows DEF HandleStop
<1>4. CASE HandleRestart(c)
  BY <1>1, <1>2, <1>4, QuietFollows DEF HandleRestart
<1>5. CASE HandleMap(c)
  <2>1. Head(up[c]).env \in Envs
    BY <1>2, <1>5 DEF HandleMap, PollsRCon, ClientPacket
  <2>2. EnvChange(Head(up[c]).env) \in ArenaDelta
    BY <2>1 DEF EnvChange, ArenaDelta
  <2> QED
    BY <1>1, <1>2, <1>5, <2>2, RegisterFollows DEF HandleMap
<1> QED
  BY <1>3, <1>4, <1>5

\* A tick leaves the URL of the environment, and nothing to announce.
LEMMA AdvanceKeepsUrl ==
    ASSUME NEW h \in Handle, lastSky \in Nat
    PROVE  /\ EnvUrl(Advance(h)) = EnvUrl(h)
           /\ EnvUrl(CollectDelta(Advance(h))) = EnvUrl(h)
           /\ ~CollectDelta(Advance(h)).isNew
<1>1. LoadMore(h) \in Handle /\ EnvUrl(LoadMore(h)) = EnvUrl(h)
  BY HandleAssumption DEF LoadMore, EnvUrl, Handle, Env, Stage
<1>2. InstantiateSky(h, lastSky + 1) \in Handle
      /\ EnvUrl(InstantiateSky(h, lastSky + 1)) = EnvUrl(h)
  BY DEF InstantiateSky, EnvUrl, Handle
<1>3. Advance(h) \in Handle /\ EnvUrl(Advance(h)) = EnvUrl(h)
  BY <1>1, <1>2 DEF Advance
<1> DEFINE g == Advance(h)
<1> HIDE DEF g
<1>4. ASSUME g \in Handle
      PROVE  EnvUrl(CollectDelta(g)) = EnvUrl(g) /\ ~CollectDelta(g).isNew
  BY <1>4 DEF CollectDelta, EnvUrl, Handle
<1> QED
  BY <1>3, <1>4 DEF g

\* ServerTick: the environment, if it is to be announced, then what the sky
\* and the statistics have to say.
LEMMA TickFollows ==
    ASSUME SessionInv, ReplayInv, ServerTick, UNCHANGED clientVars,
           NEW x \in Peers, InTouch(x)
    PROVE  Follows(x)'
<1> DEFINE advanced == Advance(handle)
           url == EnvUrl(advanced)
           announced == IF handle.isNew THEN ToClients(DeltaSkyHandle(url)) ELSE Silence
<1>1. /\ UNCHANGED <<conn, playerOf>> /\ handle' = CollectDelta(advanced)
      /\ arena \in ArenaState /\ handle \in Handle /\ lastSky \in Nat
      /\ handle.sky # None => handle.env # None
  BY DEF ServerTick, clientVars, SessionInv, TypeOK, ServerGameHasEnv
<1>2. /\ url = EnvUrl(handle) /\ EnvUrl(handle') = EnvUrl(handle) /\ ~handle'.isNew
  BY <1>1, AdvanceKeepsUrl
<1>3. url \in Envs \cup {None} /\ advanced \in Handle
  BY <1>1, <1>2, EnvUrlType, AdvanceType
<1>4. PICK skyDue \in BOOLEAN, statsDue \in BOOLEAN :
        LET skyOut == IF skyDue /\ advanced.sky # None
                      THEN SkyPackets(advanced) ELSE Silence
            out == Then(announced, skyOut)
        IN  \/ /\ ~statsDue
               /\ Transmit(out)
               /\ UNCHANGED arena
            \/ /\ statsDue
               /\ \E stats \in [Keys(arena.players) -> ConnStats] :
                    LET d == StatsDelta(stats)
                    IN  /\ arena' = ApplyArenaDelta(arena, d)
                        /\ Transmit(Then(out, ToClients(DeltaArena(d))))
  BY DEF ServerTick
<1> DEFINE skyOut == IF skyDue /\ advanced.sky # None
                     THEN SkyPackets(advanced) ELSE Silence
           out == Then(announced, skyOut)
           pid == playerOf[x]
<1> HIDE DEF url
<1>5. /\ announced \in Outgoing
      /\ announced[x] = IF handle.isNew THEN <<DeltaSkyHandle(url)>> ELSE <<>>
  <2>1. DeltaSkyHandle(url) \in ServerPacket
    BY <1>3 DEF DeltaSkyHandle, ServerPacket
  <2> QED
    BY <2>1, SendsAreOutgoing, ClientsGet
<1>6. /\ skyOut \in Outgoing
      /\ skyOut[x] = <<>> \/ \E packet \in ServerPacket :
            packet.type = "DeltaSky" /\ skyOut[x] = <<packet>>
  <2>1. CASE skyDue /\ advanced.sky # None
    <3>1. DeltaSky(advanced.sky) \in ServerPacket /\ DeltaSky(advanced.sky).type = "DeltaSky"
      <4> HIDE DEF advanced
      <4> QED
        BY <1>3, <2>1 DEF DeltaSky, ServerPacket, Handle
    <3> QED
      BY <2>1, <3>1, SendsAreOutgoing DEF SkyPackets, ToThose
  <2>2. CASE ~(skyDue /\ advanced.sky # None)
    <3>1. Silence \in Outgoing /\ Silence[x] = <<>>
      BY DEF Silence, Outgoing
    <3> QED
      BY <2>2, <3>1
  <2> QED
    BY <2>1, <2>2
<1> HIDE DEF advanced, announced, skyOut
<1>7. /\ out \in Outgoing
      /\ \A k : Replayed(k, out[x]) = Replayed(Replayed(k, announced[x]), skyOut[x])
  BY <1>5, <1>6, ThenIsOutgoing
<1> HIDE DEF out
<1>8. ASSUME NEW k, Agrees(k, pid, arena, handle)
      PROVE  LET r == Replayed(k, out[x])
             IN  Mirrors(r, pid, arena) /\ EnvUrl(r.handle) = EnvUrl(handle)
  <2> DEFINE mid == Replayed(k, announced[x])
  <2>1. Mirrors(mid, pid, arena) /\ EnvUrl(mid.handle) = EnvUrl(handle)
    <3>1. CASE handle.isNew
      BY <1>2, <1>3, <1>5, <1>8, <3>1, MirrorsHandleDelta DEF Agrees
    <3>2. CASE ~handle.isNew
      BY <1>5, <1>8, <3>2, ReplayedNone DEF Agrees
    <3> QED
      BY <3>1, <3>2
  <2> HIDE DEF mid
  <2>2. LET r == Replayed(mid, skyOut[x])
        IN  Mirrors(r, pid, arena) /\ EnvUrl(r.handle) = EnvUrl(mid.handle)
    BY <1>6, <2>1, MirrorsSky, ReplayedNone
  <2> QED
    BY <1>7, <2>1, <2>2 DEF mid
<1>9. CASE Transmit(out) /\ UNCHANGED arena
  <2>1. Informs(x, out)
    BY <1>2, <1>8, <1>9 DEF Informs, Agrees
  <2> QED
    BY <1>1, <1>7, <1>9, <2>1, InformedFollows
<1>10. ASSUME NEW stats \in [Keys(arena.players) -> ConnStats],
              arena' = ApplyArenaDelta(arena, StatsDelta(stats)),
              Transmit(Then(out, ToClients(DeltaArena(StatsDelta(stats)))))
       PROVE  Follows(x)'
  <2> DEFINE d == StatsDelta(stats)
             last == ToClients(DeltaArena(d))
             all == Then(out, last)
  <2>1. d \in ArenaDelta
    BY <1>1, StatsDeltaType
  <2>2. arena' = ApplyArenaDelta(arena, d) /\ Transmit(all)
    BY <1>10
  <2> HIDE DEF d
  <2>3. DeltaArena(d) \in ServerPacket
    BY <2>1 DEF DeltaArena, ServerPacket
  <2>4. last \in Outgoing /\ last[x] = <<DeltaArena(d)>>
    BY <2>3, SendsAreOutgoing, ClientsGet
  <2>5. /\ all \in Outgoing
        /\ \A k : Replayed(k, all[x]) = Replayed(Replayed(k, out[x]), last[x])
    BY <1>7, <2>4, ThenIsOutgoing
  <2> HIDE DEF last, all
  <2>6. ASSUME NEW k, Agrees(k, pid, arena, handle)
        PROVE  Agrees(Replayed(k, all[x]), pid, arena', handle')
    <3> DEFINE mid == Replayed(k, out[x])
    <3>1. Mirrors(mid, pid, arena) /\ EnvUrl(mid.handle) = EnvUrl(handle)
      BY <1>8, <2>6
    <3> HIDE DEF mid
    <3>2. LET r == Replayed(mid, last[x])
          IN  /\ Mirrors(r, pid, ApplyArenaDelta(arena, d))
              /\ EnvUrl(r.handle) = EnvUrl(mid.handle)
      BY <1>1, <2>1, <2>4, <3>1, MirrorsDelta
    <3> QED
      BY <1>2, <2>2, <2>5, <3>1, <3>2 DEF Agrees, mid
  <2>7. Informs(x, all)
    BY <2>6 DEF Informs
  <2> QED
    BY <1>1, <2>2, <2>5, <2>7, InformedFollows
<1> QED
  BY <1>4, <1>9, <1>10 DEF out, skyOut

LEMMA ServerWorkerFollows ==
    ASSUME SessionInv, ReplayInv, ServerWorker, UNCHANGED clientVars,
           NEW x \in Peers, InTouch(x)
    PROVE  Follows(x)'
<1>1. /\ UNCHANGED <<arena, down, conn, playerOf>>
      /\ handle.env # None /\ handle' = WorkerEnds(handle)
      /\ handle \in Handle
  BY DEF ServerWorker, WorkerBusy, clientVars, SessionInv, TypeOK
<1>2. EnvUrl(handle') = EnvUrl(handle) /\ handle'.isNew = handle.isNew
  BY <1>1, HandleAssumption DEF WorkerEnds, EnvUrl, Handle, Env, Stage
<1> QED
  BY <1>1, <1>2, QuietFollows

\* A player leaves: the others are told.
LEMMA DisconnectFollows ==
    ASSUME SessionInv, ReplayInv, NEW c \in Peers, HandleDisconnect(c),
           UNCHANGED clientVars, NEW x \in Peers, InTouch(x)'
    PROVE  Follows(x)'
<1>1. /\ playerOf \in [Peers -> PID \cup {None}]
      /\ playerOf' = [playerOf EXCEPT ![c] = None]
      /\ UNCHANGED <<link, conn, handle>>
      /\ IF playerOf[c] = None THEN Ignore ELSE Register(QuitDelta(playerOf[c]))
  BY DEF HandleDisconnect, Polls, clientVars, SessionInv, TypeOK
<1>2. x # c /\ InTouch(x) /\ playerOf'[x] = playerOf[x]
  BY <1>1 DEF InTouch
<1>3. CASE playerOf[c] = None
  BY <1>1, <1>2, <1>3, QuietFollows DEF Ignore
<1>4. CASE playerOf[c] # None
  <2>1. QuitDelta(playerOf[c]) \in ArenaDelta
    BY <1>1, <1>4 DEF QuitDelta, ArenaDelta
  <2> QED
    BY <1>1, <1>2, <1>4, <2>1, RegisterFollows
<1> QED
  BY <1>3, <1>4

LEMMA ConnectFollows ==
    ASSUME SessionInv, ReplayInv, NEW c \in Peers, HandleConnect(c),
           UNCHANGED clientVars, NEW x \in Peers, InTouch(x)'
    PROVE  Follows(x)'
<1>1. /\ playerOf \in [Peers -> PID \cup {None}]
      /\ playerOf' = [playerOf EXCEPT ![c] = None]
      /\ UNCHANGED <<link, down, conn, arena, handle>>
  BY DEF HandleConnect, Polls, clientVars, SessionInv, TypeOK
<1>2. x # c /\ InTouch(x) /\ playerOf'[x] = playerOf[x]
  BY <1>1 DEF InTouch
<1> QED
  BY <1>1, <1>2, QuietFollows

\* A peer that has not joined has no Init to come: whatever is on its way to
\* it will be dropped.
LEMMA StrangerDropsAll ==
    ASSUME SessionInv, NEW c \in Peers, playerOf[c] = None, link[c] = "open"
    PROVE  Replay(c) = None
<1> DEFINE q == down[c]
           S == {packet \in ServerPacket : packet.type # "Init"}
<1>1. None \notin PID
  BY ArenaAssumption DEF PID
<1>2. OwnPid(c) /\ q \in Seq(ServerPacket) /\ conn[c] \in Conn \cup {None}
  BY DEF SessionInv, TypeOK
<1>3. conn[c] = None
  BY <1>1, <1>2 DEF OwnPid, Conn
<1>4. \A i \in DOMAIN q : q[i] \in S
  <2> SUFFICES ASSUME NEW i \in DOMAIN q
               PROVE  q[i] \in ServerPacket /\ q[i].type # "Init"
    OBVIOUS
  <2>1. q[i] \in ServerPacket
    BY <1>2
  <2>2. q[i].type = "Init" => q[i].pid \in PID /\ q[i].pid = None
    BY <1>2, <2>1 DEF OwnPid, Sends, ServerPacket
  <2> QED
    BY <1>1, <2>1, <2>2
<1>5. q \in Seq(S)
  <2>1. Len(q) \in Nat /\ DOMAIN q = 1 .. Len(q) /\ q = [i \in 1 .. Len(q) |-> q[i]]
    BY <1>2
  <2> HIDE DEF q, S
  <2> QED
    BY <1>4, <2>1, IsASeq
<1>6. \A k \in {None}, packet \in S : ProcessPacket(k, packet) \in {None}
  BY DEF ProcessPacket
<1> HIDE DEF q, S
<1>7. Replayed(None, q) \in {None}
  BY <1>5, <1>6, ReplayedStays
<1> QED
  BY <1>3, <1>7 DEF Replay, q

\* Init makes a mirror of the arena it was captured from.
LEMMA InitMirrors ==
    ASSUME NEW pid \in PID, NEW a \in ArenaState, NEW h \in Handle
    PROVE  LET packet == InitPacket(pid, a, h)
               r == Replayed(None, <<packet>>)
           IN  /\ packet \in ServerPacket
               /\ Mirrors(r, pid, a) /\ EnvUrl(r.handle) = EnvUrl(h)
<1> DEFINE packet == InitPacket(pid, a, h)
           url == EnvUrl(h)
<1>1. /\ packet.type = "Init" /\ packet.pid = pid
      /\ packet.arena = CopyArena(a) /\ packet.env = url
      /\ packet \in ServerPacket
  BY CopyArenaType, EnvUrlType DEF InitPacket, ServerPacket
<1> HIDE DEF packet
<1>2. /\ Connect(packet) \in Conn /\ Connect(packet).pid = pid
      /\ Connect(packet).arena = CopyArena(a)
  BY <1>1, ConnectType
<1>3. Connect(packet).handle = NewHandle(url)
  BY <1>1 DEF Connect
<1>4. EnvUrl(NewHandle(url)) = url
  <2>1. url \in Envs \cup {None}
    BY EnvUrlType
  <2> HIDE DEF url
  <2> QED
    BY <2>1, HandleAssumption DEF NewHandle, NewEnv, EnvUrl, Env, Stage
<1>5. Shared(CopyArena(a)) = Shared(a)
  BY DEF CopyArena, Shared, ArenaState
<1>6. Replayed(None, <<packet>>) = Connect(packet)
  BY <1>1, ReplayedOne DEF ProcessPacket
<1> QED
  BY <1>1, <1>2, <1>3, <1>4, <1>5, <1>6 DEF Mirrors, packet, url

\* HandleReqJoin: Init for the new player, a delta for those who have joined.
LEMMA ReqJoinFollows ==
    ASSUME SessionInv, ReplayInv, NEW c \in Peers, HandleReqJoin(c),
           UNCHANGED clientVars, NEW x \in Peers, InTouch(x)'
    PROVE  Follows(x)'
<1> DEFINE d == ConnectPlayer(arena.players, Head(up[c]).nickname)
           init == InitPacket(d.pid, arena', handle)
           first == To(c, init)
           second == ToClientsExcept(d.pid, DeltaArena(d))
           out == Then(first, second)
<1>1. /\ UNCHANGED <<link, conn, handle, attached>>
      /\ up[c] # <<>> /\ Head(up[c]).type = "ReqJoin"
      /\ up' = [up EXCEPT ![c] = Tail(@)]
      /\ playerOf[c] = None
      /\ playerOf' = [playerOf EXCEPT ![c] = d.pid]
      /\ arena' = ApplyArenaDelta(arena, d)
      /\ Transmit(out)
  BY DEF HandleReqJoin, Polls, clientVars
<1>2. Head(up[c]).nickname \in Name
  BY <1>1, PolledEvent DEF ClientPacket
<1>3. /\ playerOf \in [Peers -> PID \cup {None}]
      /\ arena \in ArenaState /\ arena.players \in MapTo(Player)
      /\ handle \in Handle /\ PeersArePlayers
  BY DEF SessionInv, TypeOK, ArenaState
<1>4. Cardinality(Keys(arena.players)) < MaxPlayers
  BY <1>1, RoomForPlayer
<1>5. d \in ArenaDelta /\ d.pid \in PID /\ d.pid \notin Keys(arena.players)
  BY <1>2, <1>3, <1>4, ConnectPlayerIsFresh
<1> HIDE DEF d
<1>6. arena' \in ArenaState
  BY <1>1, <1>3, <1>5, ApplyArenaDeltaKeeps
<1>7. /\ init \in ServerPacket
      /\ LET r == Replayed(None, <<init>>)
         IN  Mirrors(r, d.pid, arena') /\ EnvUrl(r.handle) = EnvUrl(handle)
  BY <1>3, <1>5, <1>6, InitMirrors
<1> HIDE DEF init
<1>8. DeltaArena(d) \in ServerPacket
  BY <1>5 DEF DeltaArena, ServerPacket
<1>9. first \in Outgoing /\ second \in Outgoing
  BY <1>7, <1>8, SendsAreOutgoing DEF ToClientsExcept
<1>10. /\ out \in Outgoing
       /\ \A k : Replayed(k, out[x]) = Replayed(Replayed(k, first[x]), second[x])
  BY <1>9, ThenIsOutgoing
<1> HIDE DEF out
<1>11. link[x] = "open"
  BY <1>1 DEF InTouch
<1>12. CASE x = c
  <2>1. first[c] = <<init>> /\ second[c] = <<>>
    BY <1>1 DEF To, ToClientsExcept, ToThose
  <2>2. Replay(c) = None
    BY <1>1, <1>11, <1>12, StrangerDropsAll
  <2>3. Replay(c)' = Replayed(Replayed(None, <<init>>), <<>>)
    BY <1>1, <1>10, <1>11, <1>12, <2>1, <2>2, TransmitExtends
  <2>4. Replay(c)' = Replayed(None, <<init>>)
    BY <2>3, ReplayedNone
  <2>5. playerOf'[c] = d.pid
    BY <1>1, <1>3
  <2>6. Agrees(Replay(c)', playerOf'[c], arena', handle')
    BY <1>1, <1>7, <2>4, <2>5 DEF Agrees
  <2> QED
    BY <1>12, <2>6 DEF Follows, Agrees, Mirrors, Shared, EnvUrl
<1>13. CASE x # c
  <2>1. playerOf'[x] = playerOf[x] /\ InTouch(x)
    BY <1>1, <1>3, <1>13 DEF InTouch
  <2>2. attached[x] /\ playerOf[x] \in Keys(arena.players)
    BY <1>3, <2>1 DEF PeersArePlayers, InTouch
  <2>3. first[x] = <<>> /\ second[x] = <<DeltaArena(d)>>
    BY <1>5, <1>13, <2>1, <2>2 DEF To, ToClientsExcept, ToThose, InTouch
  <2>4. Informs(x, out)
    <3> SUFFICES ASSUME NEW k, Agrees(k, playerOf[x], arena, handle)
                 PROVE  Agrees(Replayed(k, out[x]), playerOf[x], arena', handle')
      BY DEF Informs
    <3>1. Replayed(k, out[x]) = Replayed(k, <<DeltaArena(d)>>)
      BY <1>10, <2>3, ReplayedNone
    <3> QED
      BY <1>1, <1>3, <1>5, <3>1, MirrorsDelta DEF Agrees
  <2> QED
    BY <1>1, <1>10, <2>1, <2>4, InformedFollows
<1> QED
  BY <1>12, <1>13

\* Every step of the server.
LEMMA ServesFollows ==
    ASSUME SessionInv, ReplayInv, Serves, UNCHANGED clientVars
    PROVE  ReplayInv'
<1> SUFFICES ASSUME NEW x \in Peers, InTouch(x)'
             PROVE  Follows(x)'
  BY DEF ReplayInv
<1>1. ASSUME UNCHANGED <<link, playerOf>>
      PROVE  InTouch(x)
  BY <1>1 DEF InTouch
<1>2. CASE ServerTick \/ ServerWorker
  <2>1. UNCHANGED <<link, playerOf>>
    BY <1>2 DEF ServerTick, ServerWorker
  <2> QED
    BY <1>1, <1>2, <2>1, TickFollows, ServerWorkerFollows
<1>3. ASSUME NEW c \in Peers,
             HandleConnect(c) \/ HandleDisconnect(c) \/ HandleReqJoin(c)
      PROVE  Follows(x)'
  BY <1>3, ConnectFollows, DisconnectFollows, ReqJoinFollows
<1>4. ASSUME NEW c \in Peers,
             \/ HandleReqSky(c)
             \/ HandleReqPlayerDelta(c) \/ HandleReqTeam(c) \/ HandleReqSpawn(c)
             \/ HandleRefused(c) \/ HandleAuth(c)
             \/ HandleStart(c)
             \/ HandleStop(c) \/ HandleRestart(c) \/ HandleMap(c)
      PROVE  Follows(x)'
  <2>1. UNCHANGED <<link, playerOf>>
    BY <1>4 DEF HandleReqSky, HandleReqPlayerDelta, HandleReqTeam, HandleReqSpawn,
       HandleRefused, HandleAuth, HandleStart, HandleStop, HandleRestart, HandleMap,
       PollsRCon, PollsPlayer, Polls
  <2> QED
    BY <1>1, <1>4, <2>1, ReqSkyFollows, OtherRequestsFollow, StartFollows,
       CommandsFollow
<1> QED
  BY <1>2, <1>3, <1>4 DEF Serves, ServerHandles

-----------------------------------------------------------------------------
(* Every step of a client *)

\* A step of a client that is in touch afterwards leaves what it will be, up
\* to its view, the sky and how far the environment is loaded.
LEMMA AlikeFollows ==
    ASSUME SessionInv, ReplayInv, NEW x \in Peers, InTouch(x),
           UNCHANGED serverVars, Alike(Replay(x)', Replay(x))
    PROVE  Follows(x)'
<1>1. Agrees(Replay(x), playerOf[x], arena, handle)
  BY DEF ReplayInv, Follows
<1>2. UNCHANGED <<arena, handle, playerOf>>
  BY DEF serverVars
<1>3. Agrees(Replay(x)', playerOf'[x], arena', handle')
  BY <1>1, <1>2 DEF Agrees, Alike, Mirrors
<1> QED
  BY <1>3 DEF Follows, Agrees, Mirrors, Shared, EnvUrl

LEMMA SameFollows ==
    ASSUME SessionInv, ReplayInv, NEW x \in Peers, InTouch(x),
           UNCHANGED serverVars, Replay(x)' = Replay(x)
    PROVE  Follows(x)'
<1>1. Agrees(Replay(x), playerOf[x], arena, handle)
  BY DEF ReplayInv, Follows
<1>2. Alike(Replay(x)', Replay(x))
  BY <1>1 DEF Agrees, Alike, Mirrors
<1> QED
  BY <1>2, AlikeFollows

\* A client reads a packet: it is one step closer to the same end.
LEMMA ReceivingFollows ==
    ASSUME SessionInv, ReplayInv, NEW c \in Peers, ClientReceives(c),
           UNCHANGED serverVars, InTouch(c)
    PROVE  Follows(c)'
<1>1. /\ down \in [Peers -> Seq(ServerPacket)]
      /\ conn \in [Peers -> Conn \cup {None}]
      /\ down[c] # <<>>
      /\ conn'[c] = ProcessPacket(conn[c], Head(down[c]))
      /\ down'[c] = Tail(down[c])
  BY DEF ClientReceives, SessionInv, TypeOK
<1>2. Replayed(conn[c], down[c]) =
         Replayed(ProcessPacket(conn[c], Head(down[c])), Tail(down[c]))
  BY <1>1, ReplayedHead
<1> QED
  BY <1>1, <1>2, SameFollows DEF Replay

\* A change of the connection that leaves the arena and the URL.
LEMMA ConnChangeFollows ==
    ASSUME SessionInv, ReplayInv, NEW c \in Peers, InTouch(c),
           UNCHANGED serverVars, conn[c] # None, NEW k \in Conn,
           conn'[c] = k, down' = down, k.pid = conn[c].pid,
           k.arena = conn[c].arena, EnvUrl(k.handle) = EnvUrl(conn[c].handle)
    PROVE  Follows(c)'
<1>1. down[c] \in Seq(ServerPacket) /\ conn[c] \in Conn
  BY DEF SessionInv, TypeOK
<1>2. Alike(k, conn[c])
  BY DEF Alike, Mirrors
<1>3. Alike(Replayed(k, down[c]), Replayed(conn[c], down[c]))
  BY <1>1, <1>2, ReplayedAlike
<1>4. Alike(Replay(c)', Replay(c))
  BY <1>3 DEF Replay
<1> QED
  BY <1>4, AlikeFollows

LEMMA ClientTickFollows ==
    ASSUME SessionInv, ReplayInv, NEW c \in Peers, ClientTick(c),
           UNCHANGED serverVars, InTouch(c)
    PROVE  Follows(c)'
<1> DEFINE k == CoreTick(conn[c])
           r == [k EXCEPT !.gameView = @ \/ OpensGame(k)]
<1>1. /\ conn[c] # None /\ conn' = [conn EXCEPT ![c] = r] /\ down' = down
      /\ conn \in [Peers -> Conn \cup {None}]
  BY DEF ClientTick, InArena, SessionInv, TypeOK
<1>2. conn[c] \in Conn /\ ViewHasEnv(conn[c])
  BY <1>1, ClientFacts
<1>3. k \in Conn /\ k.pid = conn[c].pid /\ k.arena = conn[c].arena
  BY <1>2, CoreTickType
<1>4. EnvUrl(k.handle) = EnvUrl(conn[c].handle)
  <2>1. conn[c].handle \in Handle
    BY <1>2 DEF Conn
  <2>2. EnvUrl(LoadMore(conn[c].handle)) = EnvUrl(conn[c].handle)
    BY <2>1, HandleAssumption DEF LoadMore, EnvUrl, Handle, Env, Stage
  <2>3. \/ k.handle = conn[c].handle
        \/ k.handle = LoadMore(conn[c].handle)
    BY <1>2 DEF CoreTick, Conn
  <2> QED
    BY <2>2, <2>3
<1> HIDE DEF k
<1>5. /\ r \in Conn /\ r.pid = k.pid /\ r.arena = k.arena /\ r.handle = k.handle
  <2>1. (k.gameView \/ OpensGame(k)) \in BOOLEAN
    OBVIOUS
  <2> QED
    BY <1>3, <2>1 DEF Conn
<1> HIDE DEF r
<1>6. conn'[c] = r
  BY <1>1
<1> QED
  BY <1>1, <1>3, <1>4, <1>5, <1>6, ConnChangeFollows

LEMMA ClientWorkerFollows ==
    ASSUME SessionInv, ReplayInv, NEW c \in Peers, ClientWorker(c),
           UNCHANGED serverVars, InTouch(c)
    PROVE  Follows(c)'
<1> DEFINE k == conn[c]
           h == WorkerEnds(k.handle)
           r == [k EXCEPT !.handle = h]
<1>1. /\ k # None /\ WorkerBusy(k.handle) /\ conn' = [conn EXCEPT ![c] = r]
      /\ down' = down /\ conn \in [Peers -> Conn \cup {None}]
  BY DEF ClientWorker, SessionInv, TypeOK
<1>2. k \in Conn
  BY <1>1
<1>3. h \in Handle /\ EnvUrl(h) = EnvUrl(k.handle)
  <2>1. k.handle \in Handle /\ k.handle.env # None
    BY <1>1, <1>2 DEF Conn, WorkerBusy
  <2> QED
    BY <2>1, HandleAssumption DEF WorkerEnds, EnvUrl, Handle, Env, Stage
<1>4. conn'[c] = r
  BY <1>1
<1> HIDE DEF h, k
<1>5. r \in Conn /\ r.pid = k.pid /\ r.arena = k.arena /\ r.handle = h
  BY <1>2, <1>3 DEF Conn
<1> HIDE DEF r
<1> QED
  BY <1>1, <1>3, <1>4, <1>5, ConnChangeFollows DEF k

\* The other steps leave the client as it is or out of touch.
LEMMA OtherStepsFollow ==
    ASSUME SessionInv, ReplayInv, NEW c \in Peers, UNCHANGED serverVars,
           \/ Connects(c) \/ Types(c)
           \/ RequestNickname(c) \/ RequestTeam(c) \/ RequestSpawn(c)
           \/ AskToJoin(c) \/ ClientAborts(c) \/ Disconnect(c)
           \/ ClientEnds(c) \/ LinkBreaks(c),
           InTouch(c)'
    PROVE  Follows(c)'
<1>1. link \in [Peers -> {"open", "down"}] /\ playerOf' = playerOf
  BY DEF SessionInv, TypeOK, serverVars
<1>2. CASE Connects(c)
  <2>1. playerOf[c] = None
    BY <1>2 DEF Connects, SessionInv, PeersArePlayers
  <2> QED
    BY <1>1, <2>1 DEF InTouch
<1>3. CASE \/ Types(c) \/ RequestNickname(c) \/ RequestTeam(c)
           \/ RequestSpawn(c) \/ AskToJoin(c)
  <2>1. UNCHANGED <<link, down, conn>>
    BY <1>3 DEF Types, TypeCommand, RequestNickname, RequestTeam, RequestSpawn,
       AskToJoin, Request
  <2>2. InTouch(c) /\ Replay(c)' = Replay(c)
    BY <1>1, <2>1 DEF InTouch, Replay
  <2> QED
    BY <2>2, SameFollows
<1>4. CASE \/ ClientAborts(c) \/ Disconnect(c) \/ ClientEnds(c) \/ LinkBreaks(c)
  <2>1. link'[c] # "open"
    BY <1>1, <1>4 DEF ClientAborts, Disconnect, ClientEnds, LinkBreaks, BreakUp
  <2> QED
    BY <2>1 DEF InTouch
<1> QED
  BY <1>2, <1>3, <1>4

\* A client's steps touch nothing of the others.
LEMMA OthersFollow ==
    ASSUME SessionInv, ReplayInv, NEW c \in Peers, Plays(c), UNCHANGED serverVars,
           NEW x \in Peers, x # c, InTouch(x)'
    PROVE  Follows(x)'
<1>1. /\ link \in [Peers -> {"open", "down"}] /\ playerOf' = playerOf
      /\ down \in [Peers -> Seq(ServerPacket)]
      /\ conn \in [Peers -> Conn \cup {None}]
  BY DEF SessionInv, TypeOK, serverVars
<1>2. link'[x] = link[x] /\ down'[x] = down[x] /\ conn'[x] = conn[x]
  BY <1>1 DEF Plays, ClientActs, Connects, ClientConnects, OpenLink, Types,
     TypeCommand, RequestNickname, RequestTeam, RequestSpawn, Request, AskToJoin,
     ClientAborts, Disconnect, ClientEnds, LinkBreaks, BreakUp, ClientReceives,
     ClientTick, ClientWorker
<1>3. InTouch(x) /\ Replay(x)' = Replay(x)
  BY <1>1, <1>2 DEF InTouch, Replay
<1> QED
  BY <1>3, SameFollows

LEMMA PlaysFollows ==
    ASSUME SessionInv, ReplayInv, NEW c \in Peers, Plays(c), UNCHANGED serverVars
    PROVE  ReplayInv'
<1> SUFFICES ASSUME NEW x \in Peers, InTouch(x)'
             PROVE  Follows(x)'
  BY DEF ReplayInv
<1>1. CASE x # c
  BY <1>1, OthersFollow
<1>2. CASE x = c /\ (ClientReceives(c) \/ ClientTick(c) \/ ClientWorker(c))
  <2>1. InTouch(c)
    BY <1>2 DEF ClientReceives, ClientTick, ClientWorker, InTouch, serverVars
  <2> QED
    BY <1>2, <2>1, ReceivingFollows, ClientTickFollows, ClientWorkerFollows
<1>3. CASE x = c /\ ~(ClientReceives(c) \/ ClientTick(c) \/ ClientWorker(c))
  BY <1>3, OtherStepsFollow DEF Plays, ClientActs
<1> QED
  BY <1>1, <1>2, <1>3

-----------------------------------------------------------------------------
(* The theorems about replays *)

LEMMA InitIsOutOfTouch == Init => ReplayInv
BY DEF Init, NetworkInit, ReplayInv, InTouch

LEMMA NextFollows ==
    ASSUME SessionInv, ReplayInv, [Next]_vars
    PROVE  ReplayInv'
<1>1. CASE Serves /\ UNCHANGED clientVars
  BY <1>1, ServesFollows
<1>2. ASSUME NEW c \in Peers, Plays(c), UNCHANGED serverVars
      PROVE  ReplayInv'
  BY <1>2, PlaysFollows
<1>3. CASE UNCHANGED vars
  BY <1>3 DEF vars, networkVars, serverVars, clientVars, ReplayInv, InTouch,
     Follows, Agrees, Mirrors, Shared, EnvUrl, Replay
<1> QED
  BY <1>1, <1>2, <1>3 DEF Next

LEMMA ReplayInvariant == Spec => []ReplayInv
<1>1. SessionInv /\ ReplayInv /\ [Next]_vars => ReplayInv'
  BY NextFollows
<1> QED
  BY <1>1, InitIsOutOfTouch, SessionInvariant, PTL DEF Spec

\* ServerExec and MultiplayerCore: Init, Join, Quit and every other delta of
\* the arena, in the order in which they are sent, lead every client that has
\* joined to the server's arena.
THEOREM ReplayIsServersArena == Spec => []ReplayReachesServer
<1>1. ReplayInv => ReplayReachesServer
  BY ClientAssumption DEF ReplayInv, ReplayReachesServer, Follows, Agrees, Mirrors
<1> QED
  BY <1>1, ReplayInvariant, PTL

\* SkyHandle: the URL in Init and the deltas of the handle lead it to the
\* server's environment, whenever it joined.
THEOREM ReplayIsServersEnv == Spec => []ReplayReachesEnv
<1>1. ReplayInv => ReplayReachesEnv
  BY ClientAssumption DEF ReplayInv, ReplayReachesEnv, Follows, Agrees, Mirrors
<1> QED
  BY <1>1, ReplayInvariant, PTL

-----------------------------------------------------------------------------
(* The packets about a sky in a queue *)

\* What is left of a queue when its head has been read.
LEMMA SkyAtTail ==
    ASSUME NEW q \in Seq(ServerPacket), q # <<>>
    PROVE  /\ \A i \in SkyAt(Tail(q)) : i + 1 \in SkyAt(q) /\ Tail(q)[i] = q[i + 1]
           /\ \A i \in SkyAt(Tail(q)) : i \in Nat \ {0} /\ i <= Len(Tail(q))
           /\ Len(Tail(q)) \in Nat /\ Len(q) = Len(Tail(q)) + 1
           /\ \A i, j \in 1 .. Len(Tail(q)) :
                 SameEnv(Tail(q), i, j) => SameEnv(q, i + 1, j + 1)
           /\ \A j \in 0 .. Len(Tail(q)) :
                 SameEnv(Tail(q), 1, j) /\ Head(q).type # "DeltaSkyHandle" =>
                    SameEnv(q, 1, j + 1)
           /\ IsSky(Head(q)) => 1 \in SkyAt(q) /\ q[1] = Head(q)
<1> DEFINE r == Tail(q)
<1>1. /\ Head(q) = q[1] /\ Len(q) \in Nat \ {0} /\ Len(r) = Len(q) - 1
      /\ DOMAIN q = 1 .. Len(q) /\ DOMAIN r = 1 .. Len(q) - 1
      /\ \A i \in 1 .. Len(q) - 1 : r[i] = q[i + 1]
  BY TailFacts
<1> HIDE DEF r
<1>2. \A i \in SkyAt(r) : i + 1 \in SkyAt(q) /\ r[i] = q[i + 1]
  BY <1>1 DEF SkyAt
<1>3. \A i \in SkyAt(r) : i \in Nat \ {0} /\ i <= Len(r)
  BY <1>1 DEF SkyAt
<1>4. ASSUME NEW i \in 1 .. Len(r), NEW j \in 1 .. Len(r), SameEnv(r, i, j),
             NEW n \in i + 1 .. j + 1
      PROVE  q[n].type # "DeltaSkyHandle"
  <2>1. n - 1 \in i .. j /\ n - 1 \in 1 .. Len(q) - 1 /\ (n - 1) + 1 = n
    BY <1>1
  <2>2. r[n - 1].type # "DeltaSkyHandle"
    BY <1>4, <2>1 DEF SameEnv
  <2> QED
    BY <1>1, <2>1, <2>2
<1>5. ASSUME NEW j \in 0 .. Len(r), SameEnv(r, 1, j), Head(q).type # "DeltaSkyHandle",
             NEW n \in 1 .. j + 1
      PROVE  q[n].type # "DeltaSkyHandle"
  <2>1. CASE n = 1
    BY <1>1, <1>5, <2>1
  <2>2. CASE n # 1
    <3>1. n - 1 \in 1 .. j /\ n - 1 \in 1 .. Len(q) - 1 /\ (n - 1) + 1 = n
      BY <1>1, <2>2
    <3>2. r[n - 1].type # "DeltaSkyHandle"
      BY <1>5, <3>1 DEF SameEnv
    <3> QED
      BY <1>1, <3>1, <3>2
  <2> QED
    BY <2>1, <2>2
<1>6. IsSky(Head(q)) => 1 \in SkyAt(q) /\ q[1] = Head(q)
  BY <1>1 DEF SkyAt
<1>7. Len(r) \in Nat /\ Len(q) = Len(r) + 1
  BY <1>1
<1>8. \A i, j \in 1 .. Len(r) : SameEnv(r, i, j) => SameEnv(q, i + 1, j + 1)
  BY <1>4 DEF SameEnv
<1>9. \A j \in 0 .. Len(r) :
         SameEnv(r, 1, j) /\ Head(q).type # "DeltaSkyHandle" => SameEnv(q, 1, j + 1)
  BY <1>5 DEF SameEnv
<1> QED
  BY <1>2, <1>3, <1>6, <1>7, <1>8, <1>9 DEF r

\* What is still to be read stays in order when the head has been read.
LEMMA OrderOfTail ==
    ASSUME NEW q \in Seq(ServerPacket), q # <<>>, SkiesInOrder(q)
    PROVE  SkiesInOrder(Tail(q))
<1> DEFINE t == Tail(q)
<1>1. /\ \A i \in SkyAt(t) : i + 1 \in SkyAt(q) /\ t[i] = q[i + 1]
      /\ \A i \in SkyAt(t) : i \in Nat \ {0} /\ i <= Len(t)
      /\ Len(t) \in Nat
      /\ \A i, j \in 1 .. Len(t) : SameEnv(t, i, j) => SameEnv(q, i + 1, j + 1)
  BY SkyAtTail
<1> HIDE DEF t
<1> SUFFICES ASSUME NEW i \in SkyAt(t), NEW j \in SkyAt(t), i < j
             PROVE  t[i].sky <= t[j].sky /\ (SameEnv(t, i, j) => t[i].sky = t[j].sky)
  BY DEF SkiesInOrder, t
<1>2. /\ i + 1 \in SkyAt(q) /\ j + 1 \in SkyAt(q) /\ i + 1 < j + 1
      /\ t[i] = q[i + 1] /\ t[j] = q[j + 1]
      /\ i \in 1 .. Len(t) /\ j \in 1 .. Len(t)
  BY <1>1
<1>3. SameEnv(t, i, j) => SameEnv(q, i + 1, j + 1)
  BY <1>1, <1>2
<1> QED
  BY <1>2, <1>3 DEF SkiesInOrder

IsConcat(s, q, r) == s = q \o r

\* What is there when r has been sent after q: the packets of both, and
\* between two of them what comes after the first and before the second.
LEMMA SkyAtConcat ==
    ASSUME NEW q \in Seq(ServerPacket), NEW r \in Seq(ServerPacket),
           NEW s, IsConcat(s, q, r)
    PROVE  /\ Len(q) \in Nat /\ Len(r) \in Nat /\ Len(s) = Len(q) + Len(r)
           /\ SkyAt(q) \subseteq 1 .. Len(q) /\ SkyAt(s) \subseteq 1 .. Len(s)
           /\ SkyAt(r) \subseteq 1 .. Len(r)
           /\ \A i \in SkyAt(s) \cap SkyAt(q) : s[i] = q[i]
           /\ \A i \in SkyAt(s) \ SkyAt(q) :
                 \E j \in 1 .. Len(r) :
                    j \in SkyAt(r) /\ i = Len(q) + j /\ s[i] = r[j]
           /\ \A i \in 1 .. Len(q), j \in 0 .. Len(q) :
                 SameEnv(s, i, j) <=> SameEnv(q, i, j)
           /\ \A i \in 1 .. Len(q) + 1, j \in 0 .. Len(r) :
                 SameEnv(s, i, Len(q) + j) <=>
                    SameEnv(q, i, Len(q)) /\ SameEnv(r, 1, j)
           /\ \A i \in 1 .. Len(r) :
                 SameEnv(s, Len(q) + i, Len(s)) => SameEnv(r, i, Len(r))
<1>1. /\ Len(q) \in Nat /\ Len(r) \in Nat /\ Len(s) = Len(q) + Len(r)
      /\ DOMAIN q = 1 .. Len(q) /\ DOMAIN r = 1 .. Len(r) /\ DOMAIN s = 1 .. Len(s)
  BY DEF IsConcat
<1>2. /\ \A i \in 1 .. Len(q) : s[i] = q[i]
      /\ \A i \in Len(q) + 1 .. Len(q) + Len(r) : s[i] = r[i - Len(q)]
  BY DEF IsConcat
<1>3. /\ SkyAt(q) \subseteq 1 .. Len(q) /\ SkyAt(s) \subseteq 1 .. Len(s)
      /\ SkyAt(r) \subseteq 1 .. Len(r)
  BY <1>1 DEF SkyAt
<1>4. ASSUME NEW i \in SkyAt(s)
      PROVE  \/ i \in SkyAt(q) /\ s[i] = q[i]
             \/ i > Len(q) /\ i - Len(q) \in SkyAt(r) /\ s[i] = r[i - Len(q)]
  <2>1. i \in 1 .. Len(q) + Len(r) /\ IsSky(s[i])
    BY <1>1 DEF SkyAt
  <2>2. CASE i \in 1 .. Len(q)
    BY <1>1, <1>2, <2>1, <2>2 DEF SkyAt
  <2>3. CASE i \in Len(q) + 1 .. Len(q) + Len(r)
    <3>1. i - Len(q) \in 1 .. Len(r) /\ s[i] = r[i - Len(q)] /\ i > Len(q)
      BY <1>1, <1>2, <2>3
    <3> QED
      BY <1>1, <2>1, <3>1 DEF SkyAt
  <2>4. i \in 1 .. Len(q) \/ i \in Len(q) + 1 .. Len(q) + Len(r)
    BY <1>1, <2>1
  <2> QED
    BY <2>2, <2>3, <2>4, Zenon
<1>5. \A i \in 1 .. Len(q), j \in 0 .. Len(q) : SameEnv(s, i, j) <=> SameEnv(q, i, j)
  <2>1. ASSUME NEW i \in 1 .. Len(q), NEW j \in 0 .. Len(q), NEW m \in i .. j
        PROVE  s[m] = q[m]
    <3>1. m \in 1 .. Len(q)
      BY <1>1
    <3> QED
      BY <1>2, <3>1
  <2> QED
    BY <2>1 DEF SameEnv
<1>6. ASSUME NEW i \in 1 .. Len(q) + 1, NEW j \in 0 .. Len(r)
      PROVE  SameEnv(s, i, Len(q) + j) <=> SameEnv(q, i, Len(q)) /\ SameEnv(r, 1, j)
  <2>1. ASSUME SameEnv(s, i, Len(q) + j), NEW n \in i .. Len(q)
        PROVE  q[n].type # "DeltaSkyHandle"
    <3>1. n \in 1 .. Len(q) /\ n \in i .. Len(q) + j
      BY <1>1
    <3> QED
      BY <1>2, <2>1, <3>1 DEF SameEnv
  <2>2. ASSUME SameEnv(s, i, Len(q) + j), NEW n \in 1 .. j
        PROVE  r[n].type # "DeltaSkyHandle"
    <3>1. /\ Len(q) + n \in i .. Len(q) + j /\ (Len(q) + n) - Len(q) = n
          /\ Len(q) + n \in Len(q) + 1 .. Len(q) + Len(r)
      BY <1>1
    <3>2. s[Len(q) + n] = r[n]
      BY <1>2, <3>1
    <3> QED
      BY <2>2, <3>1, <3>2 DEF SameEnv
  <2>3. ASSUME SameEnv(q, i, Len(q)), SameEnv(r, 1, j), NEW n \in i .. Len(q) + j
        PROVE  s[n].type # "DeltaSkyHandle"
    <3>1. CASE n <= Len(q)
      <4>1. n \in i .. Len(q) /\ n \in 1 .. Len(q)
        BY <1>1, <3>1
      <4> QED
        BY <1>2, <2>3, <4>1 DEF SameEnv
    <3>2. CASE n > Len(q)
      <4>1. n - Len(q) \in 1 .. j /\ n \in Len(q) + 1 .. Len(q) + Len(r)
        BY <1>1, <3>2
      <4> QED
        BY <1>2, <2>3, <4>1 DEF SameEnv
    <3> QED
      BY <1>1, <3>1, <3>2
  <2>4. SameEnv(s, i, Len(q) + j) => SameEnv(q, i, Len(q)) /\ SameEnv(r, 1, j)
    BY <2>1, <2>2 DEF SameEnv
  <2>5. SameEnv(q, i, Len(q)) /\ SameEnv(r, 1, j) => SameEnv(s, i, Len(q) + j)
    BY <2>3 DEF SameEnv
  <2> QED
    BY <2>4, <2>5
<1>7. ASSUME NEW i \in 1 .. Len(r), SameEnv(s, Len(q) + i, Len(s)), NEW n \in i .. Len(r)
      PROVE  r[n].type # "DeltaSkyHandle"
  <2>1. /\ Len(q) + n \in Len(q) + i .. Len(s) /\ (Len(q) + n) - Len(q) = n
        /\ Len(q) + n \in Len(q) + 1 .. Len(q) + Len(r)
    BY <1>1
  <2>2. s[Len(q) + n] = r[n]
    BY <1>2, <2>1
  <2> QED
    BY <1>7, <2>1, <2>2 DEF SameEnv
<1>8. \A i \in 1 .. Len(r) :
         SameEnv(s, Len(q) + i, Len(s)) => SameEnv(r, i, Len(r))
  BY <1>7 DEF SameEnv
<1>9. \A i \in SkyAt(s) \cap SkyAt(q) : s[i] = q[i]
  BY <1>2, <1>3
<1>10. ASSUME NEW i \in SkyAt(s), i \notin SkyAt(q)
       PROVE  \E j \in 1 .. Len(r) :
                 j \in SkyAt(r) /\ i = Len(q) + j /\ s[i] = r[j]
  <2>1. i \in 1 .. Len(s) /\ i > Len(q) /\ i - Len(q) \in SkyAt(r) /\ s[i] = r[i - Len(q)]
    BY <1>3, <1>4, <1>10
  <2>2. i - Len(q) \in 1 .. Len(r) /\ i = Len(q) + (i - Len(q))
    BY <1>1, <1>3, <2>1
  <2> QED
    BY <2>1, <2>2
<1> QED
  BY <1>1, <1>3, <1>5, <1>6, <1>8, <1>9, <1>10

-----------------------------------------------------------------------------
(* What the server sends *)

\* What a handler sends of a sky is of the newest one, and whatever it says of
\* the environment it says first.
SkyIsNewest(r, sky) ==
    \A j \in SkyAt(r) : r[j].sky = sky /\ SameEnv(r, j, Len(r))

\* r is what the server sends c in a step that changes no connection.
Tells(c, r) ==
    /\ r \in Seq(ServerPacket)
    /\ down'[c] = IF link[c] = "open" THEN down[c] \o r ELSE down[c]
    /\ link'[c] = link[c] /\ conn'[c] = conn[c]
    /\ lastSky' \in Nat /\ lastSky <= lastSky'
    /\ SkyIsNewest(r, lastSky')
    /\ SkyAt(r) # {} => playerOf'[c] # None /\ handle'.sky # None
    /\ link[c] = "open" /\ playerOf'[c] = None => playerOf[c] = None
    /\ playerOf[c] # None /\ SameEnv(r, 1, Len(r)) =>
          \A sky \in Nat : Current(sky) => Current(sky)'

\* A peer that has not joined has no connection and is told of no sky.
LEMMA StrangerHasNone ==
    ASSUME SessionInv, NEW c \in Peers, playerOf[c] = None, link[c] = "open"
    PROVE  conn[c] = None
<1>1. None \notin PID
  BY ArenaAssumption DEF PID
<1>2. OwnPid(c) /\ conn[c] \in Conn \cup {None}
  BY DEF SessionInv, TypeOK
<1> QED
  BY <1>1, <1>2 DEF OwnPid, Conn

\* What the server sends keeps the skies of the client it goes to apart.
LEMMA TellingKeeps ==
    ASSUME SessionInv, NEW c \in Peers, SkiesOf(c), NEW r, Tells(c, r)
    PROVE  SkiesOf(c)'
<1> DEFINE q == down[c]
           s == down'[c]
           k == conn[c]
<1>1. /\ q \in Seq(ServerPacket) /\ r \in Seq(ServerPacket)
      /\ lastSky \in Nat /\ k \in Conn \cup {None}
  BY DEF SessionInv, TypeOK, Tells
<1>2. CASE link[c] # "open"
  <2>1. link'[c] # "open" /\ conn'[c] = conn[c] /\ down'[c] = down[c]
    BY <1>2 DEF Tells
  <2> QED
    BY <2>1 DEF SkiesOf
<1>3. CASE link[c] = "open"
  <2>1. s = q \o r /\ conn'[c] = k
    BY <1>3 DEF Tells
  <2>2. SkiesInOrder(q) /\ SkyStays(k, q) /\ SentSkies(c) /\ PlayedSky(c)
    BY <1>3 DEF SkiesOf
  <2>3. playerOf[c] = None => k = None /\ SkyAt(q) = {}
    BY <1>3, <2>2, StrangerHasNone DEF SentSkies
  <2> DEFINE n == Len(q)
             L == lastSky'
  <2>4. /\ n \in Nat /\ Len(r) \in Nat /\ Len(s) = n + Len(r)
        /\ SkyAt(q) \subseteq 1 .. n /\ SkyAt(s) \subseteq 1 .. Len(s)
        /\ SkyAt(r) \subseteq 1 .. Len(r)
        /\ \A i \in SkyAt(s) :
              \/ i \in SkyAt(q) /\ s[i] = q[i]
              \/ i > n /\ i - n \in SkyAt(r) /\ s[i] = r[i - n]
        /\ \A i \in 1 .. n, j \in 0 .. n : SameEnv(s, i, j) <=> SameEnv(q, i, j)
        /\ \A i \in 1 .. n + 1, j \in 0 .. Len(r) :
              SameEnv(s, i, n + j) <=> SameEnv(q, i, n) /\ SameEnv(r, 1, j)
    <3>1. q \in Seq(ServerPacket) /\ r \in Seq(ServerPacket) /\ IsConcat(s, q, r)
      BY <1>1, <2>1 DEF IsConcat
    <3> HIDE DEF q, s
    <3>2. /\ Len(q) \in Nat /\ Len(r) \in Nat /\ Len(s) = Len(q) + Len(r)
          /\ SkyAt(q) \subseteq 1 .. Len(q) /\ SkyAt(s) \subseteq 1 .. Len(s)
          /\ SkyAt(r) \subseteq 1 .. Len(r)
      BY <3>1, SkyAtConcat
    <3>3. ASSUME NEW i \in SkyAt(s), i \notin SkyAt(q)
          PROVE  i > Len(q) /\ i - Len(q) \in SkyAt(r) /\ s[i] = r[i - Len(q)]
      <4>1. PICK j \in 1 .. Len(r) : j \in SkyAt(r) /\ i = Len(q) + j /\ s[i] = r[j]
        BY <3>1, <3>3, SkyAtConcat
      <4>2. j \in Nat /\ j > 0 /\ i - Len(q) = j
        BY <3>2, <4>1
      <4> QED
        BY <3>2, <4>1, <4>2
    <3>6. \A i \in SkyAt(s) \cap SkyAt(q) : s[i] = q[i]
      BY <3>1, SkyAtConcat
    <3>4. \A i \in 1 .. Len(q), j \in 0 .. Len(q) :
              SameEnv(s, i, j) <=> SameEnv(q, i, j)
      BY <3>1, SkyAtConcat
    <3>5. \A i \in 1 .. Len(q) + 1, j \in 0 .. Len(r) :
              SameEnv(s, i, Len(q) + j) <=> SameEnv(q, i, Len(q)) /\ SameEnv(r, 1, j)
      BY <3>1, SkyAtConcat
    <3> QED
      BY <3>2, <3>3, <3>4, <3>5, <3>6
  <2>5. /\ L \in Nat /\ lastSky <= L
        /\ \A j \in SkyAt(r) : r[j].sky = L /\ SameEnv(r, j, Len(r))
        /\ SkyAt(r) # {} => playerOf'[c] # None /\ handle'.sky # None
        /\ playerOf'[c] = None => playerOf[c] = None
        /\ playerOf[c] # None /\ SameEnv(r, 1, Len(r)) =>
              \A sky \in Nat : Current(sky) => Current(sky)'
    BY <1>3 DEF Tells, SkyIsNewest
  <2>6. /\ \A i \in SkyAt(q) :
              /\ q[i].sky \in Nat /\ q[i].sky <= lastSky
              /\ SameEnv(q, i, n) => Current(q[i].sky)
        /\ k # None /\ k.handle.sky # None =>
              /\ k.handle.sky \in Nat /\ k.handle.sky <= lastSky
              /\ EnvReady(k.handle) /\ SameEnv(q, 1, n) => Current(k.handle.sky)
    <3>1. \A i \in SkyAt(q) : q[i].sky \in Nat
      BY <1>1 DEF SkyAt, IsSky, ServerPacket
    <3>2. k # None => k.handle.sky \in Nat \cup {None}
      BY <1>1 DEF Conn, Handle
    <3> QED
      BY <2>2, <3>1, <3>2 DEF SentSkies, PlayedSky
  <2> HIDE DEF q, s, n, k, L
  \* No announcement up to a packet of the new sky: there is none at all.
  <2>7. ASSUME NEW j \in SkyAt(r), SameEnv(r, 1, j)
        PROVE  SameEnv(r, 1, Len(r))
    <3>1. j \in 1 .. Len(r) /\ SameEnv(r, j, Len(r))
      BY <2>4, <2>5
    <3> QED
      BY <2>4, <2>7, <3>1 DEF SameEnv
  <2>8. ASSUME NEW sky \in Nat, Current(sky), playerOf[c] # None,
               NEW j \in SkyAt(r), SameEnv(r, 1, j)
        PROVE  sky = L
    BY <2>5, <2>7, <2>8 DEF Current, L
  <2>9. SkiesInOrder(s)
    <3> SUFFICES ASSUME NEW i \in SkyAt(s), NEW j \in SkyAt(s), i < j
                 PROVE  s[i].sky <= s[j].sky /\ (SameEnv(s, i, j) => s[i].sky = s[j].sky)
      BY DEF SkiesInOrder
    <3>1. i \in Nat /\ j \in Nat /\ i >= 1 /\ j <= Len(s)
      BY <2>4
    <3>2. CASE j \in SkyAt(q) /\ s[j] = q[j]
      <4>1. i \in SkyAt(q) /\ s[i] = q[i]
        BY <2>4, <3>1, <3>2
      <4>2. SameEnv(s, i, j) <=> SameEnv(q, i, j)
        BY <2>4, <3>2, <4>1
      <4> QED
        BY <2>2, <3>2, <4>1, <4>2 DEF SkiesInOrder
    <3>3. CASE j > n /\ j - n \in SkyAt(r) /\ s[j] = r[j - n]
      <4>1. s[j].sky = L
        BY <2>5, <3>3
      <4>2. CASE i \in SkyAt(q) /\ s[i] = q[i]
        <5>1. q[i].sky \in Nat /\ q[i].sky <= L
          BY <1>1, <2>5, <2>6, <4>2
        <5>2. ASSUME SameEnv(s, i, j)
              PROVE  q[i].sky = L
          <6>1. j - n \in 0 .. Len(r) /\ n + (j - n) = j /\ i \in 1 .. n + 1
            BY <2>4, <3>1, <3>3, <4>2
          <6>2. SameEnv(q, i, n) /\ SameEnv(r, 1, j - n)
            BY <2>4, <5>2, <6>1
          <6>3. Current(q[i].sky) /\ playerOf[c] # None
            BY <2>3, <2>6, <4>2, <6>2 DEF q
          <6> QED
            BY <2>8, <3>3, <5>1, <6>2, <6>3
        <5> QED
          BY <4>1, <4>2, <5>1, <5>2
      <4>3. CASE i > n /\ i - n \in SkyAt(r) /\ s[i] = r[i - n]
        BY <2>5, <4>1, <4>3
      <4> QED
        BY <2>4, <4>2, <4>3
    <3> QED
      BY <2>4, <3>2, <3>3
  <2>10. SkyStays(k, s)
    <3> SUFFICES ASSUME k # None, k.handle.sky # None, NEW i \in SkyAt(s)
                 PROVE  /\ k.handle.sky <= s[i].sky
                        /\ EnvReady(k.handle) /\ SameEnv(s, 1, i) =>
                              k.handle.sky = s[i].sky
      BY <2>2 DEF SkyStays, k, q
    <3>1. i \in Nat /\ i >= 1 /\ i <= Len(s) /\ playerOf[c] # None
      BY <2>3, <2>4 DEF k
    <3>2. CASE i \in SkyAt(q) /\ s[i] = q[i]
      <4>1. SameEnv(s, 1, i) <=> SameEnv(q, 1, i)
        BY <2>4, <3>2
      <4> QED
        BY <2>2, <3>2, <4>1 DEF SkyStays, k, q
    <3>3. CASE i > n /\ i - n \in SkyAt(r) /\ s[i] = r[i - n]
      <4>1. s[i].sky = L /\ k.handle.sky \in Nat /\ k.handle.sky <= L
        BY <1>1, <2>5, <2>6, <3>3
      <4>2. ASSUME EnvReady(k.handle), SameEnv(s, 1, i)
            PROVE  k.handle.sky = L
        <5>1. i - n \in 0 .. Len(r) /\ n + (i - n) = i /\ 1 \in 1 .. n + 1
          BY <2>4, <3>1, <3>3
        <5>2. SameEnv(q, 1, n) /\ SameEnv(r, 1, i - n)
          BY <2>4, <4>2, <5>1
        <5> QED
          BY <2>6, <2>8, <3>1, <3>3, <4>1, <4>2, <5>2
      <4> QED
        BY <4>1, <4>2
    <3> QED
      BY <2>4, <3>2, <3>3
  <2>11. SentSkies(c)'
    <3>1. ASSUME playerOf'[c] = None
          PROVE  SkyAt(s) = {}
      <4>1. SkyAt(r) = {} /\ SkyAt(q) = {}
        BY <2>3, <2>5, <3>1 DEF q
      <4> QED
        BY <2>4, <4>1
    <3>2. ASSUME NEW i \in SkyAt(s)
          PROVE  /\ s[i].sky <= L
                 /\ SameEnv(s, i, Len(s)) =>
                       s[i].sky = L /\ (handle'.sky # None \/ handle'.isNew)
      <4>1. CASE i \in SkyAt(q) /\ s[i] = q[i]
        <5>1. q[i].sky \in Nat /\ q[i].sky <= L
          BY <1>1, <2>5, <2>6, <4>1
        <5>2. ASSUME SameEnv(s, i, Len(s))
              PROVE  q[i].sky = L /\ (handle'.sky # None \/ handle'.isNew)
          <6>1. Len(r) \in 0 .. Len(r) /\ Len(s) = n + Len(r) /\ i \in 1 .. n + 1
            BY <2>4, <4>1
          <6>2. SameEnv(q, i, n) /\ SameEnv(r, 1, Len(r))
            BY <2>4, <5>2, <6>1
          <6>3. playerOf[c] # None /\ Current(q[i].sky)
            BY <2>3, <2>6, <4>1, <6>2 DEF q
          <6> DEFINE sky == q[i].sky
          <6>4. sky \in Nat /\ Current(sky) /\ \A x \in Nat : Current(x) => Current(x)'
            BY <2>5, <5>1, <6>2, <6>3
          <6> HIDE DEF sky
          <6>5. sky = L /\ (handle'.sky # None \/ handle'.isNew)
            BY <6>4 DEF Current, L
          <6> QED
            BY <6>5 DEF sky
        <5> QED
          BY <4>1, <5>1, <5>2
      <4>2. CASE i > n /\ i - n \in SkyAt(r) /\ s[i] = r[i - n]
        BY <2>5, <4>2
      <4> QED
        BY <2>4, <4>1, <4>2
    <3> QED
      BY <3>1, <3>2 DEF SentSkies, Current, s, L
  <2>12. PlayedSky(c)'
    <3> SUFFICES ASSUME k # None, k.handle.sky # None
                 PROVE  /\ k.handle.sky <= L
                        /\ EnvReady(k.handle) /\ SameEnv(s, 1, Len(s)) =>
                              /\ k.handle.sky = L
                              /\ handle'.sky # None \/ handle'.isNew
      BY <2>1 DEF PlayedSky, Current, s, L
    <3>1. k.handle.sky \in Nat /\ k.handle.sky <= L /\ playerOf[c] # None
      BY <1>1, <2>3, <2>5, <2>6 DEF k
    <3>2. ASSUME EnvReady(k.handle), SameEnv(s, 1, Len(s))
          PROVE  k.handle.sky = L /\ (handle'.sky # None \/ handle'.isNew)
      <4>1. Len(r) \in 0 .. Len(r) /\ Len(s) = n + Len(r) /\ 1 \in 1 .. n + 1
        BY <2>4
      <4>2. SameEnv(q, 1, n) /\ SameEnv(r, 1, Len(r))
        BY <2>4, <3>2, <4>1
      <4>3. Current(k.handle.sky)
        BY <2>6, <3>2, <4>2
      <4> DEFINE sky == k.handle.sky
      <4>4. sky \in Nat /\ Current(sky) /\ \A x \in Nat : Current(x) => Current(x)'
        BY <2>5, <3>1, <4>2, <4>3
      <4> HIDE DEF sky
      <4>5. sky = lastSky' /\ (handle'.sky # None \/ handle'.isNew)
        BY <4>4 DEF Current
      <4> QED
        BY <4>5 DEF sky, L
    <3> QED
      BY <3>1, <3>2
  <2> QED
    BY <2>1, <2>9, <2>10, <2>11, <2>12 DEF SkiesOf, s
<1> QED
  BY <1>2, <1>3

-----------------------------------------------------------------------------
(* The skies, whatever the server does *)

\* What the handlers of joins, requests and commands send, but for the sky.
IsPlain(r) ==
    /\ r \in Seq(ServerPacket)
    /\ \A i \in DOMAIN r : r[i].type \in {"Init", "DeltaArena"}

AllPlain(out) == out \in Outgoing /\ \A c \in Peers : IsPlain(out[c])

\* What is plain says nothing of skies or of the environment.
LEMMA PlainHasNoSky ==
    ASSUME NEW r, IsPlain(r)
    PROVE  SkyAt(r) = {} /\ SameEnv(r, 1, Len(r))
<1>1. DOMAIN r = 1 .. Len(r)
  BY DEF IsPlain
<1> QED
  BY <1>1 DEF IsPlain, SkyAt, IsSky, SameEnv

\* A packet about the arena is plain, and so is none.
LEMMA OneIsPlain ==
    ASSUME NEW packet \in ServerPacket, packet.type \in {"Init", "DeltaArena"}
    PROVE  IsPlain(<<packet>>) /\ IsPlain(<<>>)
<1>1. <<packet>> \in Seq(ServerPacket) /\ <<>> \in Seq(ServerPacket)
  OBVIOUS
<1>2. DOMAIN <<packet>> = {1} /\ <<packet>>[1] = packet /\ DOMAIN <<>> = {}
  OBVIOUS
<1> QED
  BY <1>1, <1>2 DEF IsPlain

\* To some or to one: an Init or a delta of the arena is plain.
LEMMA PlainSends ==
    ASSUME NEW packet \in ServerPacket, packet.type \in {"Init", "DeltaArena"}
    PROVE  /\ \A S : AllPlain(ToThose(S, packet))
           /\ \A c : AllPlain(To(c, packet))
<1>1. IsPlain(<<packet>>) /\ IsPlain(<<>>)
  BY OneIsPlain
<1> QED
  BY <1>1 DEF AllPlain, IsPlain, ToThose, To, Outgoing

\* To send nothing is plain.
LEMMA PlainSilence == AllPlain(Silence)
<1>1. <<>> \in Seq(ServerPacket) /\ DOMAIN <<>> = {}
  OBVIOUS
<1> QED
  BY <1>1 DEF AllPlain, IsPlain, Silence, Outgoing

\* Plain packets after plain ones.
LEMMA PlainThen ==
    ASSUME NEW first, AllPlain(first), NEW second, AllPlain(second)
    PROVE  AllPlain(Then(first, second))
<1>1. ASSUME NEW q, IsPlain(q), NEW r, IsPlain(r)
      PROVE  IsPlain(q \o r)
  <2> DEFINE s == q \o r
  <2>1. q \in Seq(ServerPacket) /\ r \in Seq(ServerPacket) /\ s = q \o r
    BY <1>1 DEF IsPlain
  <2> HIDE DEF s
  <2>2. /\ s \in Seq(ServerPacket)
        /\ \A i \in DOMAIN q : s[i] = q[i]
        /\ \A i \in DOMAIN s \ DOMAIN q :
              i - Len(q) \in DOMAIN r /\ s[i] = r[i - Len(q)]
    BY <2>1, ConcatFacts
  <2>3. ASSUME NEW i \in DOMAIN s
        PROVE  s[i].type \in {"Init", "DeltaArena"}
    BY <1>1, <2>2 DEF IsPlain
  <2>4. IsPlain(s)
    BY <2>2, <2>3 DEF IsPlain
  <2> QED
    BY <2>4 DEF s
<1>2. \A c \in Peers : IsPlain(first[c] \o second[c])
  BY <1>1 DEF AllPlain
<1>3. \A c \in Peers : first[c] \o second[c] \in Seq(ServerPacket)
  BY <1>2 DEF IsPlain
<1> QED
  BY <1>2, <1>3 DEF AllPlain, Then, Outgoing

\* A step that sends plain packets and keeps the sky that is current.
LEMMA PlainStepKeeps ==
    ASSUME SessionInv, SkyInv, NEW out, AllPlain(out), Transmit(out),
           UNCHANGED <<link, conn, lastSky>>,
           handle'.sky \in {None, handle.sky},
           handle'.isNew \/ UNCHANGED <<handle.sky, handle.isNew>>,
           \A c \in Peers : link[c] = "open" /\ playerOf'[c] = None => playerOf[c] = None
    PROVE  SkyInv'
<1>1. handle'.sky # None => handle'.sky = lastSky'
  BY DEF SkyInv
<1>2. ASSUME NEW c \in Peers
      PROVE  SkiesOf(c)'
  <2> DEFINE r == out[c]
  <2>1. IsPlain(r) /\ r \in Seq(ServerPacket) /\ SkyAt(r) = {}
    BY PlainHasNoSky DEF AllPlain, IsPlain
  <2>2. down'[c] = IF link[c] = "open" THEN down[c] \o r ELSE down[c]
    BY DEF Transmit
  <2>3. lastSky \in Nat /\ lastSky' \in Nat
    BY DEF SessionInv, TypeOK
  <2>4. \A sky \in Nat : Current(sky) => Current(sky)'
    BY DEF Current
  <2> HIDE DEF r
  <2>5. Tells(c, r)
    BY <2>1, <2>2, <2>3, <2>4 DEF Tells, SkyIsNewest
  <2> QED
    BY <2>5, TellingKeeps DEF SkyInv
<1> QED
  BY <1>1, <1>2 DEF SkyInv

\* Nothing is sent at all.
LEMMA SilentStep ==
    ASSUME SessionInv, down' = down
    PROVE  Transmit(Silence) /\ AllPlain(Silence)
<1>1. \A c \in Peers : down[c] \in Seq(ServerPacket) /\ Silence[c] = <<>>
  BY DEF SessionInv, TypeOK, Silence
<1>2. \A c \in Peers : down[c] \o Silence[c] = down[c]
  BY <1>1, ConcatEmptySeq
<1>3. down' = [c \in Peers |-> down[c]]
  BY DEF SessionInv, TypeOK
<1> QED
  BY <1>2, <1>3, PlainSilence DEF Transmit

\* registerArenaDelta sends what is plain.
LEMMA RegisterIsPlain ==
    ASSUME NEW d \in ArenaDelta, Register(d)
    PROVE  \E out : AllPlain(out) /\ Transmit(out)
<1>1. DeltaArena(d) \in ServerPacket /\ DeltaArena(d).type = "DeltaArena"
  BY DEF DeltaArena, ServerPacket
<1> QED
  BY <1>1, PlainSends DEF Register, ToClients

\* The requests that change a player, or nothing.
LEMMA OtherRequestsKeepSkies ==
    ASSUME SessionInv, SkyInv, NEW c \in Peers, UNCHANGED clientVars,
           \/ HandleReqPlayerDelta(c) \/ HandleReqTeam(c) \/ HandleReqSpawn(c)
           \/ HandleRefused(c) \/ HandleAuth(c)
    PROVE  SkyInv'
<1>1. /\ UNCHANGED <<link, conn, lastSky, playerOf, handle>>
      /\ playerOf[c] \in PID
      /\ Ignore \/ \E d \in PlayerDelta : Register(OnePlayerDelta(playerOf[c], d))
  BY RequestRegisters
<1>2. \E out : AllPlain(out) /\ Transmit(out)
  BY <1>1, SilentStep, RegisterIsPlain, OnePlayerDeltaType DEF Ignore
<1> QED
  BY <1>1, <1>2, PlainStepKeeps

\* /start: the sky stays, and its end waits to be announced.
LEMMA StartKeepsSkies ==
    ASSUME SessionInv, SkyInv, NEW c \in Peers, UNCHANGED clientVars, HandleStart(c)
    PROVE  SkyInv'
<1> DEFINE first == ToClients(DeltaArena(ModeDelta("Game")))
           second == ToClients(DeltaArena(ResetEnvLoad))
<1>1. UNCHANGED <<link, conn, lastSky, playerOf>>
  BY PolledFromPlayer DEF HandleStart, PollsRCon
<1>2. handle'.sky = handle.sky /\ handle'.isNew
  BY DEF HandleStart, StartGame
<1>3. /\ DeltaArena(ModeDelta("Game")) \in ServerPacket
      /\ DeltaArena(ResetEnvLoad) \in ServerPacket
  BY DEF DeltaArena, ModeDelta, ResetEnvLoad, ArenaDelta, Mode, ServerPacket
<1>4. AllPlain(first) /\ AllPlain(second)
  BY <1>3, PlainSends DEF ToClients, DeltaArena
<1>5. AllPlain(Then(first, second)) /\ Transmit(Then(first, second))
  BY <1>4, PlainThen DEF HandleStart
<1> QED
  BY <1>1, <1>2, <1>5, PlainStepKeeps

\* The other commands: nothing is sent, or one delta.
LEMMA CommandsKeepSkies ==
    ASSUME SessionInv, SkyInv, NEW c \in Peers, UNCHANGED clientVars,
           HandleStop(c) \/ HandleRestart(c) \/ HandleMap(c)
    PROVE  SkyInv'
<1>1. PollsPlayer(c, "RCon")
  BY DEF HandleStop, HandleRestart, HandleMap, PollsRCon
<1>2. /\ UNCHANGED <<link, conn, lastSky, playerOf>>
      /\ Head(up[c]) \in ClientPacket /\ Head(up[c]).type = "RCon"
  BY <1>1, PolledFromPlayer
<1>3. handle'.sky \in {None, handle.sky} /\ handle'.isNew
  BY DEF HandleStop, HandleRestart, HandleMap, StopGame, StartGame
<1>4. \E out : AllPlain(out) /\ Transmit(out)
  <2>1. CASE HandleStop(c)
    <3>1. ModeDelta("Lobby") \in ArenaDelta
      BY DEF ModeDelta, ArenaDelta, Mode
    <3> QED
      BY <2>1, <3>1, RegisterIsPlain DEF HandleStop
  <2>2. CASE HandleRestart(c)
    BY <2>2, SilentStep DEF HandleRestart
  <2>3. CASE HandleMap(c)
    <3>1. Head(up[c]).env \in Envs
      BY <1>2, <2>3 DEF HandleMap, PollsRCon, ClientPacket
    <3>2. EnvChange(Head(up[c]).env) \in ArenaDelta
      BY <3>1 DEF EnvChange, ArenaDelta
    <3> QED
      BY <2>3, <3>2, RegisterIsPlain DEF HandleMap
  <2> QED
    BY <2>1, <2>2, <2>3
<1> QED
  BY <1>2, <1>3, <1>4, PlainStepKeeps

\* The server's worker changes the environment's stage only.
LEMMA ServerWorkerKeepsSkies ==
    ASSUME SessionInv, SkyInv, ServerWorker, UNCHANGED clientVars
    PROVE  SkyInv'
<1>1. UNCHANGED <<link, down, conn, lastSky, playerOf>> /\ handle \in Handle
  BY DEF ServerWorker, clientVars, SessionInv, TypeOK
<1>2. handle'.sky = handle.sky /\ handle'.isNew = handle.isNew
  BY <1>1 DEF ServerWorker, WorkerEnds, Handle
<1>3. Transmit(Silence) /\ AllPlain(Silence)
  BY <1>1, SilentStep
<1> QED
  BY <1>1, <1>2, <1>3, PlainStepKeeps

\* A peer that connects has no player yet.
LEMMA ConnectKeepsSkies ==
    ASSUME SessionInv, SkyInv, NEW c \in Peers, HandleConnect(c), UNCHANGED clientVars
    PROVE  SkyInv'
<1>1. /\ UNCHANGED <<link, down, conn, lastSky, handle>>
      /\ up[c] # <<>> /\ Head(up[c]).type = "CONNECT"
      /\ playerOf \in [Peers -> PID \cup {None}]
      /\ playerOf' = [playerOf EXCEPT ![c] = None]
  BY DEF HandleConnect, Polls, clientVars, SessionInv, TypeOK
<1>2. playerOf[c] = None
  <2>1. up[c] \in Seq(ClientPacket) /\ UpShape(c)
    BY DEF SessionInv, TypeOK
  <2>2. 1 \in DOMAIN up[c] /\ up[c][1].type = "CONNECT"
    BY <1>1, <2>1
  <2>3. ~attached[c]
    BY <2>1, <2>2 DEF UpShape
  <2> QED
    BY <2>3 DEF SessionInv, PeersArePlayers
<1>3. playerOf' = playerOf
  BY <1>1, <1>2
<1>4. Transmit(Silence) /\ AllPlain(Silence)
  BY <1>1, SilentStep
<1> QED
  BY <1>1, <1>3, <1>4, PlainStepKeeps

\* A peer that is gone is sent nothing more.
LEMMA DisconnectKeepsSkies ==
    ASSUME SessionInv, SkyInv, NEW c \in Peers, HandleDisconnect(c), UNCHANGED clientVars
    PROVE  SkyInv'
<1>1. /\ UNCHANGED <<link, conn, lastSky, handle>>
      /\ up[c] # <<>> /\ Head(up[c]).type = "DISCONNECT"
      /\ up' = [up EXCEPT ![c] = Tail(@)]
      /\ attached' = [attached EXCEPT ![c] = FALSE]
      /\ playerOf \in [Peers -> PID \cup {None}]
      /\ playerOf' = [playerOf EXCEPT ![c] = None]
      /\ IF playerOf[c] = None THEN Ignore ELSE Register(QuitDelta(playerOf[c]))
  BY DEF HandleDisconnect, Polls, clientVars, SessionInv, TypeOK
<1>2. link[c] = "down"
  BY <1>1, PolledDisconnect
<1>3. \E out : AllPlain(out) /\ Transmit(out)
  <2>1. CASE playerOf[c] = None
    BY <1>1, <2>1, SilentStep DEF Ignore
  <2>2. CASE playerOf[c] # None
    <3>1. QuitDelta(playerOf[c]) \in ArenaDelta
      BY <1>1, <2>2 DEF QuitDelta, ArenaDelta
    <3> QED
      BY <1>1, <2>2, <3>1, RegisterIsPlain
  <2> QED
    BY <2>1, <2>2
<1>4. \A x \in Peers : link[x] = "open" => playerOf'[x] = playerOf[x]
  BY <1>1, <1>2
<1> QED
  BY <1>1, <1>3, <1>4, PlainStepKeeps

\* Init and the Join of the others.
LEMMA ReqJoinKeepsSkies ==
    ASSUME SessionInv, SkyInv, NEW c \in Peers, HandleReqJoin(c), UNCHANGED clientVars
    PROVE  SkyInv'
<1> DEFINE d == ConnectPlayer(arena.players, Head(up[c]).nickname)
           init == InitPacket(d.pid, arena', handle)
           first == To(c, init)
           second == ToClientsExcept(d.pid, DeltaArena(d))
<1>1. /\ UNCHANGED <<link, conn, lastSky, handle, attached>>
      /\ up[c] # <<>> /\ Head(up[c]).type = "ReqJoin"
      /\ up' = [up EXCEPT ![c] = Tail(@)]
      /\ playerOf[c] = None
      /\ playerOf' = [playerOf EXCEPT ![c] = d.pid]
      /\ arena' = ApplyArenaDelta(arena, d)
      /\ Transmit(Then(first, second))
  BY DEF HandleReqJoin, Polls, clientVars
<1>2. Head(up[c]).nickname \in Name
  BY <1>1, PolledEvent DEF ClientPacket
<1>3. /\ playerOf \in [Peers -> PID \cup {None}]
      /\ arena \in ArenaState /\ arena.players \in MapTo(Player)
      /\ handle \in Handle /\ None \notin PID
  BY ArenaAssumption DEF SessionInv, TypeOK, ArenaState, PID
<1>4. Cardinality(Keys(arena.players)) < MaxPlayers
  BY <1>1, RoomForPlayer
<1>5. d \in ArenaDelta /\ d.pid \in PID
  BY <1>2, <1>3, <1>4, ConnectPlayerIsFresh
<1> HIDE DEF d
<1>6. arena' \in ArenaState
  BY <1>1, <1>3, <1>5, ApplyArenaDeltaKeeps
<1>7. init \in ServerPacket /\ init.type = "Init"
  BY <1>3, <1>5, <1>6, CopyArenaType, EnvUrlType DEF InitPacket, ServerPacket
<1>8. DeltaArena(d) \in ServerPacket /\ DeltaArena(d).type = "DeltaArena"
  BY <1>5 DEF DeltaArena, ServerPacket
<1> HIDE DEF init
<1>9. AllPlain(first) /\ AllPlain(second)
  BY <1>7, <1>8, PlainSends DEF ToClientsExcept
<1>10. AllPlain(Then(first, second))
  BY <1>9, PlainThen
<1>11. \A x \in Peers : playerOf'[x] = None => playerOf[x] = None
  BY <1>1, <1>3, <1>5
<1> HIDE DEF first, second
<1> QED
  BY <1>1, <1>10, <1>11, PlainStepKeeps

\* What the other steps send: perhaps an environment, perhaps a packet about
\* the sky, and then something plain.
IsTelling(r, sky, announces, shows) ==
    /\ r \in Seq(ServerPacket)
    /\ SkyIsNewest(r, sky)
    /\ SkyAt(r) # {} => shows
    /\ SameEnv(r, 1, Len(r)) => ~announces

\* One sequence after another.
LEMMA ConcatIs ==
    ASSUME NEW S, NEW q \in Seq(S), NEW r \in Seq(S)
    PROVE  /\ q \o r \in Seq(S) /\ Len(q \o r) = Len(q) + Len(r)
           /\ DOMAIN (q \o r) = 1 .. Len(q \o r)
           /\ \A i \in 1 .. Len(q) : (q \o r)[i] = q[i]
           /\ \A i \in Len(q) + 1 .. Len(q \o r) : (q \o r)[i] = r[i - Len(q)]
OBVIOUS

\* What a tick sends: an announcement, then the sky, then what is plain.
LEMMA TellingIs ==
    ASSUME NEW a \in ServerPacket, a.type = "DeltaSkyHandle",
           NEW b \in ServerPacket, IsSky(b),
           NEW p, IsPlain(p), NEW announces \in BOOLEAN, NEW shows \in BOOLEAN,
           NEW head, head = IF announces THEN <<a>> ELSE <<>>,
           NEW mid, mid = IF shows THEN <<b>> ELSE <<>>
    PROVE  IsTelling((head \o mid) \o p, b.sky, announces, shows)
<1> DEFINE r == (head \o mid) \o p
           m == IF announces THEN 1 ELSE 0
           n == IF shows THEN m + 1 ELSE m
<1>1. /\ p \in Seq(ServerPacket) /\ Len(p) \in Nat /\ DOMAIN p = 1 .. Len(p)
      /\ \A i \in 1 .. Len(p) : p[i].type \in {"Init", "DeltaArena"}
  BY DEF IsPlain
<1>2. /\ head \in Seq(ServerPacket) /\ Len(head) = m
      /\ announces => head[1] = a
  OBVIOUS
<1>3. /\ mid \in Seq(ServerPacket) /\ Len(mid) = n - m
      /\ shows => mid[1] = b
  OBVIOUS
<1>4. m \in {0, 1} /\ n \in {m, m + 1}
      /\ (announces <=> m = 1) /\ (shows <=> n = m + 1)
  OBVIOUS
<1> HIDE DEF m, n
<1>5. /\ r \in Seq(ServerPacket) /\ Len(r) = n + Len(p) /\ DOMAIN r = 1 .. Len(r)
      /\ announces => r[1] = a
      /\ shows => r[n] = b
      /\ \A i \in n + 1 .. Len(r) : r[i] = p[i - n]
  <2> DEFINE q == head \o mid
  <2>1. /\ q \in Seq(ServerPacket) /\ Len(q) = n
        /\ announces => q[1] = a
        /\ shows => q[n] = b
    <3>1. CASE announces
      BY <1>2, <1>3, <1>4, <3>1
    <3>2. CASE ~announces
      BY <1>2, <1>3, <1>4, <3>2
    <3> QED
      BY <3>1, <3>2
  <2> HIDE DEF q
  <2>2. r = q \o p
    BY DEF q
  <2>3. /\ r \in Seq(ServerPacket) /\ Len(r) = n + Len(p) /\ DOMAIN r = 1 .. Len(r)
        /\ \A i \in 1 .. n : r[i] = q[i]
        /\ \A i \in n + 1 .. Len(r) : r[i] = p[i - n]
    <3> DEFINE s == q \o p
    <3>1. /\ s \in Seq(ServerPacket) /\ Len(s) = Len(q) + Len(p)
          /\ DOMAIN s = 1 .. Len(s)
          /\ \A i \in 1 .. Len(q) : s[i] = q[i]
          /\ \A i \in Len(q) + 1 .. Len(s) : s[i] = p[i - Len(q)]
      BY <1>1, <2>1, ConcatIs
    <3> HIDE DEF r, s
    <3>2. r = s
      BY <2>2 DEF s
    <3> QED
      BY <2>1, <3>1, <3>2
  <2>4. (announces => 1 \in 1 .. n) /\ (shows => n \in 1 .. n)
    BY <1>4
  <2>5. (announces => r[1] = a) /\ (shows => r[n] = b)
    BY <2>1, <2>3, <2>4
  <2> QED
    BY <2>3, <2>5
<1> HIDE DEF r
<1>6. \A i \in n + 1 .. Len(r) : r[i].type \in {"Init", "DeltaArena"}
  <2> SUFFICES ASSUME NEW i \in n + 1 .. Len(r)
               PROVE  r[i].type \in {"Init", "DeltaArena"}
    OBVIOUS
  <2>1. i - n \in 1 .. Len(p)
    BY <1>1, <1>4, <1>5
  <2> QED
    BY <1>1, <1>5, <2>1
<1>7. \A i \in SkyAt(r) : shows /\ i = n
  <2> SUFFICES ASSUME NEW i \in SkyAt(r)
               PROVE  shows /\ i = n
    OBVIOUS
  <2>1. i \in 1 .. Len(r) /\ r[i].type \in {"InitSky", "DeltaSky"}
    BY <1>5 DEF SkyAt, IsSky
  <2>2. ~(i > n) /\ ~(announces /\ i = 1)
    BY <1>1, <1>4, <1>5, <1>6, <2>1
  <2> QED
    BY <1>4, <2>1, <2>2
<1>8. SkyIsNewest(r, b.sky)
  <2> SUFFICES ASSUME NEW j \in SkyAt(r)
               PROVE  r[j].sky = b.sky /\ SameEnv(r, j, Len(r))
    BY DEF SkyIsNewest
  <2>1. shows /\ j = n /\ r[j] = b
    BY <1>5, <1>7
  <2>2. \A i \in n .. Len(r) : r[i].type # "DeltaSkyHandle"
    BY <1>1, <1>4, <1>5, <1>6, <2>1 DEF IsSky
  <2> QED
    BY <2>1, <2>2 DEF SameEnv
<1>9. SameEnv(r, 1, Len(r)) => ~announces
  BY <1>1, <1>4, <1>5 DEF SameEnv
<1> QED
  BY <1>5, <1>7, <1>8, <1>9 DEF IsTelling, r

\* HandleReqSky: the sky for the client that asks, and a delta for all.
LEMMA ReqSkyKeepsSkies ==
    ASSUME SessionInv, SkyInv, NEW c \in Peers, HandleReqSky(c), UNCHANGED clientVars
    PROVE  SkyInv'
<1>1. /\ UNCHANGED <<link, conn, playerOf, handle, lastSky>>
      /\ playerOf[c] \in PID /\ PlayerOf(c) \in Player
      /\ handle \in Handle /\ lastSky \in Nat
  BY PolledFromPlayer DEF HandleReqSky, SessionInv, TypeOK
<1>2. CASE handle.sky = None
  <2>1. Transmit(Silence) /\ AllPlain(Silence)
    BY <1>2, SilentStep DEF HandleReqSky, Ignore
  <2> QED
    BY <1>1, <2>1, PlainStepKeeps
<1>3. CASE handle.sky # None
  <2> DEFINE d == OnePlayerDelta(playerOf[c],
                     [DeltaOf(PlayerOf(c)) EXCEPT !.loadingEnv = FALSE])
             first == To(c, InitSky(handle.sky))
             second == ToClients(DeltaArena(d))
  <2>1. d \in ArenaDelta
    BY <1>1, DeltaOfType, OnePlayerDeltaType
  <2>2. Transmit(Then(first, second))
    BY <1>3 DEF HandleReqSky
  <2> HIDE DEF d
  <2>3. handle.sky = lastSky
    BY <1>3 DEF SkyInv
  <2> DEFINE a == DeltaSkyHandle(None)
             b == InitSky(handle.sky)
  <2>4. /\ a \in ServerPacket /\ a.type = "DeltaSkyHandle"
        /\ b \in ServerPacket /\ IsSky(b) /\ b.sky = lastSky
    BY <1>1, <2>3 DEF InitSky, IsSky, DeltaSkyHandle, ServerPacket
  <2>5. DeltaArena(d) \in ServerPacket /\ DeltaArena(d).type = "DeltaArena"
    BY <2>1 DEF DeltaArena, ServerPacket
  <2>6. AllPlain(second)
    BY <2>5, PlainSends DEF ToClients
  <2>7. ASSUME NEW x \in Peers
        PROVE  SkiesOf(x)'
    <3> DEFINE shows == x = c
               mid == first[x]
               p == second[x]
               r == (<<>> \o mid) \o p
    <3>1. mid = IF shows THEN <<b>> ELSE <<>>
      BY DEF To
    <3>2. IsPlain(p)
      BY <2>6 DEF AllPlain
    <3>3. Then(first, second)[x] = mid \o p
      BY DEF Then
    <3>10. mid \in Seq(ServerPacket)
      BY <2>4, <3>1
    <3> HIDE DEF mid, p, a, b, first, second
    <3>4. IsTelling(r, b.sky, FALSE, shows)
      BY <2>4, <3>1, <3>2, TellingIs
    <3>5. r = mid \o p
      BY <3>10, ConcatEmptySeq
    <3>6. down'[x] = IF link[x] = "open" THEN down[x] \o r ELSE down[x]
      BY <2>2, <3>3, <3>5 DEF Transmit
    <3> HIDE DEF r
    <3>7. shows => playerOf'[x] # None /\ handle'.sky # None
      BY <1>1, <1>3, ArenaAssumption DEF PID
    <3>8. \A sky \in Nat : Current(sky) => Current(sky)'
      BY <1>1 DEF Current
    <3>9. Tells(x, r)
      BY <1>1, <2>4, <3>4, <3>6, <3>7, <3>8 DEF Tells, IsTelling
    <3> QED
      BY <3>9, TellingKeeps DEF SkyInv
  <2> QED
    BY <1>1, <2>3, <2>7 DEF SkyInv
<1> QED
  BY <1>2, <1>3

\* What a tick makes of the handle, as far as skies go.
LEMMA TickOfHandle ==
    ASSUME SessionInv, SkyInv, ServerTick
    PROVE  LET advanced == Advance(handle)
           IN  /\ advanced \in Handle /\ handle'.sky = advanced.sky
               /\ lastSky' \in Nat /\ lastSky <= lastSky' /\ lastSky \in Nat
               /\ advanced.sky # None => advanced.sky = lastSky'
               /\ handle.sky # None => advanced.sky = handle.sky /\ lastSky' = lastSky
<1> DEFINE advanced == Advance(handle)
<1>1. /\ handle \in Handle /\ lastSky \in Nat
      /\ handle.sky # None => handle.env # None
  BY DEF SessionInv, TypeOK, ServerGameHasEnv
<1>2. advanced \in Handle
  BY <1>1, AdvanceType
<1>3. /\ handle' = CollectDelta(advanced)
      /\ lastSky' = IF handle.sky = None /\ advanced.sky # None
                    THEN lastSky + 1 ELSE lastSky
  BY DEF ServerTick
<1>4. \/ handle.sky # None /\ advanced = handle
      \/ handle.sky = None /\ advanced.sky = lastSky + 1
      \/ handle.sky = None /\ advanced.sky = None
  <2>1. LoadMore(handle).sky = handle.sky
    BY <1>1 DEF LoadMore, Handle
  <2>2. InstantiateSky(handle, lastSky + 1).sky = lastSky + 1
    BY <1>1 DEF InstantiateSky, Handle
  <2> QED
    BY <2>1, <2>2 DEF Advance
<1>5. handle.sky # None => handle.sky = lastSky
  BY DEF SkyInv
<1> HIDE DEF advanced
<1>6. handle'.sky = advanced.sky
  BY <1>2, <1>3 DEF CollectDelta, Handle
<1>7. None \notin Nat
  BY ArenaAssumption
<1> QED
  BY <1>1, <1>2, <1>3, <1>4, <1>5, <1>6, <1>7 DEF advanced

\* ServerTick: the environment, if it is to be announced, then what the sky
\* and the statistics have to say.
LEMMA TickKeepsSkies ==
    ASSUME SessionInv, SkyInv, ServerTick, UNCHANGED clientVars
    PROVE  SkyInv'
<1> DEFINE advanced == Advance(handle)
           url == EnvUrl(advanced)
           announced == IF handle.isNew THEN ToClients(DeltaSkyHandle(url)) ELSE Silence
           a == DeltaSkyHandle(url)
           b == DeltaSky(lastSky')
<1>1. /\ UNCHANGED <<link, conn, playerOf, attached>> /\ arena \in ArenaState
      /\ handle \in Handle
  BY DEF ServerTick, clientVars, SessionInv, TypeOK
<1>2. /\ advanced \in Handle /\ handle'.sky = advanced.sky
      /\ lastSky' \in Nat /\ lastSky <= lastSky' /\ lastSky \in Nat
      /\ advanced.sky # None => advanced.sky = lastSky'
      /\ handle.sky # None => advanced.sky = handle.sky /\ lastSky' = lastSky
  BY TickOfHandle
<1>3. PICK skyDue \in BOOLEAN, statsDue \in BOOLEAN :
        LET skyOut == IF skyDue /\ advanced.sky # None
                      THEN SkyPackets(advanced) ELSE Silence
            out == Then(announced, skyOut)
        IN  \/ /\ ~statsDue
               /\ Transmit(out)
               /\ UNCHANGED arena
            \/ /\ statsDue
               /\ \E stats \in [Keys(arena.players) -> ConnStats] :
                    LET d == StatsDelta(stats)
                    IN  /\ arena' = ApplyArenaDelta(arena, d)
                        /\ Transmit(Then(out, ToClients(DeltaArena(d))))
  BY DEF ServerTick
<1> DEFINE skyOut == IF skyDue /\ advanced.sky # None
                     THEN SkyPackets(advanced) ELSE Silence
           out == Then(announced, skyOut)
<1>4. /\ a \in ServerPacket /\ a.type = "DeltaSkyHandle"
      /\ b \in ServerPacket /\ IsSky(b) /\ b.sky = lastSky'
  BY <1>2, EnvUrlType DEF DeltaSky, DeltaSkyHandle, IsSky, ServerPacket
<1>5. handle'.sky # None => handle'.sky = lastSky'
  BY <1>2
<1>6. PICK plain : /\ AllPlain(plain)
                   /\ \A x \in Peers :
                         down'[x] = IF link[x] = "open"
                                    THEN down[x] \o (out[x] \o plain[x]) ELSE down[x]
  <2>1. CASE Transmit(out)
    <3>1. ASSUME NEW x \in Peers
          PROVE  out[x] \o Silence[x] = out[x]
      <4>1. out[x] \in Seq(ServerPacket)
        <5>1. announced[x] \in Seq(ServerPacket)
          BY <1>4 DEF ToClients, ToThose, Silence
        <5>2. skyOut[x] \in Seq(ServerPacket)
          BY <1>2, <1>4 DEF SkyPackets, ToThose, Silence
        <5> HIDE DEF announced, skyOut
        <5> QED
          BY <5>1, <5>2 DEF Then
      <4>2. Silence[x] = <<>>
        BY DEF Silence
      <4> HIDE DEF out
      <4> QED
        BY <4>1, <4>2, ConcatEmptySeq
    <3> HIDE DEF out
    <3> QED
      BY <2>1, <3>1, PlainSilence DEF Transmit
  <2>2. ASSUME NEW stats \in [Keys(arena.players) -> ConnStats],
               Transmit(Then(out, ToClients(DeltaArena(StatsDelta(stats)))))
        PROVE  \E plain : /\ AllPlain(plain)
                          /\ \A x \in Peers :
                                down'[x] = IF link[x] = "open"
                                           THEN down[x] \o (out[x] \o plain[x])
                                           ELSE down[x]
    <3> DEFINE d == StatsDelta(stats)
               plain == ToClients(DeltaArena(d))
    <3>1. d \in ArenaDelta
      BY <1>1, StatsDeltaType
    <3> HIDE DEF d
    <3>2. DeltaArena(d) \in ServerPacket /\ DeltaArena(d).type = "DeltaArena"
      BY <3>1 DEF DeltaArena, ServerPacket
    <3>3. AllPlain(plain)
      BY <3>2, PlainSends DEF ToClients
    <3>4. Transmit(Then(out, plain))
      BY <2>2 DEF d
    <3> HIDE DEF plain, out
    <3>5. \A x \in Peers : down'[x] = IF link[x] = "open"
                                      THEN down[x] \o (out[x] \o plain[x]) ELSE down[x]
      BY <3>4 DEF Transmit, Then
    <3> QED
      BY <3>3, <3>5
  <2> HIDE DEF announced, advanced
  <2> QED
    BY <1>3, <2>1, <2>2 DEF out, skyOut
<1>7. ASSUME NEW x \in Peers
      PROVE  SkiesOf(x)'
  <2> DEFINE announces == handle.isNew /\ attached[x]
             shows == /\ skyDue /\ advanced.sky # None
                      /\ attached[x] /\ playerOf[x] # None /\ ~PlayerOf(x).loadingEnv
             head == announced[x]
             mid == skyOut[x]
             p == plain[x]
             r == (head \o mid) \o p
  <2>1. head = IF announces THEN <<a>> ELSE <<>>
    BY DEF ToClients, ToThose, Silence
  <2>2. mid = IF shows THEN <<b>> ELSE <<>>
    BY <1>2 DEF SkyPackets, ToThose, Silence
  <2>3. IsPlain(p) /\ announces \in BOOLEAN /\ shows \in BOOLEAN
    <3>1. handle.isNew \in BOOLEAN /\ attached[x] \in BOOLEAN
      BY <1>1 DEF SessionInv, TypeOK, Handle
    <3>2. IsPlain(p)
      BY <1>6 DEF AllPlain
    <3> QED
      BY <3>1, <3>2
  <2>4. down'[x] = IF link[x] = "open" THEN down[x] \o r ELSE down[x]
    BY <1>6 DEF Then
  <2>5. shows => playerOf'[x] # None /\ handle'.sky # None
    BY <1>1, <1>2
  <2>6. playerOf[x] # None /\ ~announces => ~handle.isNew
    BY DEF SessionInv, PeersArePlayers
  <2>7. ~handle.isNew => \A sky \in Nat : Current(sky) => Current(sky)'
    BY <1>2 DEF Current
  <2> HIDE DEF head, mid, p, a, b, announces, shows
  <2>8. IsTelling(r, b.sky, announces, shows)
    BY <1>4, <2>1, <2>2, <2>3, TellingIs
  <2> HIDE DEF r, announced, advanced, skyOut, out
  <2>9. Tells(x, r)
    BY <1>1, <1>2, <1>4, <2>4, <2>5, <2>6, <2>7, <2>8 DEF Tells, IsTelling
  <2> QED
    BY <2>9, TellingKeeps DEF SkyInv
<1> QED
  BY <1>5, <1>7 DEF SkyInv

\* Whatever the server does keeps the skies apart.
LEMMA ServesKeepsSkies ==
    ASSUME SessionInv, SkyInv, Serves, UNCHANGED clientVars
    PROVE  SkyInv'
<1>1. ASSUME NEW c \in Peers, ServerHandles(c)
      PROVE  SkyInv'
  BY <1>1, ConnectKeepsSkies, DisconnectKeepsSkies, ReqJoinKeepsSkies,
     ReqSkyKeepsSkies, OtherRequestsKeepSkies, StartKeepsSkies, CommandsKeepSkies
     DEF ServerHandles
<1> QED
  BY <1>1, TickKeepsSkies, ServerWorkerKeepsSkies DEF Serves

-----------------------------------------------------------------------------
(* The skies, whatever a client does *)

\* What the server knows of the client stays, and so does a client whose
\* queue and sky are as before, or who has none.
LEMMA OwnStepKeeps ==
    ASSUME SkyInv, NEW c \in Peers, UNCHANGED serverVars,
           SkiesInOrder(down'[c]), SkyStays(conn'[c], down'[c]),
           link'[c] = "open" => SentSkies(c)' /\ PlayedSky(c)',
           \A x \in Peers : x # c =>
               link'[x] = link[x] /\ down'[x] = down[x] /\ conn'[x] = conn[x]
    PROVE  SkyInv'
<1>1. UNCHANGED <<handle, lastSky, playerOf>>
  BY DEF serverVars
<1>2. SkiesOf(c)'
  BY DEF SkiesOf
<1>3. ASSUME NEW x \in Peers, x # c
      PROVE  SkiesOf(x)'
  <2>1. link'[x] = link[x] /\ down'[x] = down[x] /\ conn'[x] = conn[x]
    BY <1>3
  <2>2. SkiesOf(x)
    BY DEF SkyInv
  <2> QED
    BY <1>1, <2>1, <2>2 DEF SkiesOf, SentSkies, PlayedSky, Current
<1> QED
  BY <1>1, <1>2, <1>3 DEF SkyInv

\* What each packet does to the handle of the client that reads it.
LEMMA HandleOfPacket ==
    ASSUME NEW k \in Conn, NEW packet \in ServerPacket
    PROVE  LET l == ProcessPacket(k, packet)
           IN  \/ packet.type # "DeltaSkyHandle" /\ l.handle = k.handle
               \/ /\ packet.type = "DeltaSkyHandle"
                  /\ l.handle = ApplyHandleDelta(k.handle, packet.env)
               \/ /\ packet.type = "InitSky" /\ EnvReady(k.handle)
                  /\ l.handle = InstantiateSky(k.handle, packet.sky)
<1> DEFINE l == ProcessPacket(k, packet)
<1>1. k # None
  BY ClientAssumption
<1>2. CASE packet.type = "DeltaArena"
  <2>1. l = ReceiveArenaDelta(k, packet.delta)
    BY <1>1, <1>2 DEF ProcessPacket
  <2>2. l.handle = k.handle
    BY <2>1 DEF ReceiveArenaDelta, LoadView, Conn
  <2> QED
    BY <1>2, <2>2
<1>3. CASE packet.type = "DeltaSkyHandle"
  <2>1. l = ReceiveHandleDelta(k, packet.env)
    BY <1>1, <1>3 DEF ProcessPacket
  <2>2. l.handle = ApplyHandleDelta(k.handle, packet.env)
    BY <2>1 DEF ReceiveHandleDelta, LoadView, Conn
  <2> QED
    BY <1>3, <2>2
<1>4. CASE packet.type = "InitSky"
  <2>1. l = ReceiveSky(k, packet.sky)
    BY <1>1, <1>4 DEF ProcessPacket
  <2> QED
    BY <1>4, <2>1 DEF ReceiveSky, Conn
<1>5. CASE packet.type \notin {"DeltaArena", "DeltaSkyHandle", "InitSky"}
  BY <1>1, <1>5 DEF ProcessPacket
<1> QED
  BY <1>2, <1>3, <1>4, <1>5

\* A client reads a packet.
LEMMA ReadingKeepsSkies ==
    ASSUME NEW k \in Conn, NEW q \in Seq(ServerPacket), q # <<>>,
           SkiesInOrder(q), SkyStays(k, q)
    PROVE  LET l == ProcessPacket(k, Head(q))
           IN  /\ SkiesInOrder(Tail(q))
               /\ SkyStays(l, Tail(q))
               /\ l # None
               /\ l.handle.sky # None =>
                     \/ l.handle.sky = k.handle.sky
                     \/ IsSky(Head(q)) /\ l.handle.sky = Head(q).sky
               /\ l.handle.sky # None /\ EnvReady(l.handle) =>
                     /\ Head(q).type # "DeltaSkyHandle"
                     /\ \/ l.handle = k.handle
                        \/ IsSky(Head(q)) /\ l.handle.sky = Head(q).sky
<1> DEFINE l == ProcessPacket(k, Head(q))
           t == Tail(q)
           packet == Head(q)
<1>1. /\ \A i \in SkyAt(t) : i + 1 \in SkyAt(q) /\ t[i] = q[i + 1]
      /\ \A i \in SkyAt(t) : i \in Nat \ {0} /\ i <= Len(t)
      /\ Len(t) \in Nat /\ Len(q) = Len(t) + 1
      /\ \A i, j \in 1 .. Len(t) : SameEnv(t, i, j) => SameEnv(q, i + 1, j + 1)
      /\ \A j \in 0 .. Len(t) :
            SameEnv(t, 1, j) /\ packet.type # "DeltaSkyHandle" => SameEnv(q, 1, j + 1)
      /\ IsSky(packet) => 1 \in SkyAt(q) /\ q[1] = packet
  BY SkyAtTail
<1>2. packet \in ServerPacket /\ k # None /\ k.handle \in Handle
  BY TailFacts, ClientAssumption DEF Conn
<1>3. SkiesInOrder(t)
  BY OrderOfTail
<1>4. l \in Conn /\ l # None
  BY <1>2, PacketChanges, ClientAssumption
<1>5. \/ packet.type # "DeltaSkyHandle" /\ l.handle = k.handle
      \/ packet.type = "DeltaSkyHandle" /\ l.handle = ApplyHandleDelta(k.handle, packet.env)
      \/ /\ packet.type = "InitSky" /\ EnvReady(k.handle)
         /\ l.handle = InstantiateSky(k.handle, packet.sky)
  BY <1>2, HandleOfPacket
<1> HIDE DEF t, l
<1>6. CASE packet.type # "DeltaSkyHandle" /\ l.handle = k.handle
  <2>1. SkyStays(l, t)
    <3> SUFFICES ASSUME l.handle.sky # None, NEW i \in SkyAt(t)
                 PROVE  /\ k.handle.sky <= t[i].sky
                        /\ EnvReady(k.handle) /\ SameEnv(t, 1, i) =>
                              k.handle.sky = t[i].sky
      BY <1>2, <1>6 DEF SkyStays
    <3>1. i + 1 \in SkyAt(q) /\ t[i] = q[i + 1] /\ i \in 0 .. Len(t)
      BY <1>1
    <3>2. SameEnv(t, 1, i) => SameEnv(q, 1, i + 1)
      BY <1>1, <1>6, <3>1
    <3> QED
      BY <1>2, <1>6, <3>1, <3>2 DEF SkyStays
  <2> QED
    BY <1>3, <1>4, <1>6, <2>1 DEF l, t
<1>7. CASE /\ packet.type = "DeltaSkyHandle"
           /\ l.handle = ApplyHandleDelta(k.handle, packet.env)
  <2>1. packet.env \in Envs \cup {None}
    BY <1>2, <1>7 DEF ServerPacket
  <2>2. CASE l.handle.sky = None
    <3>1. SkyStays(l, t)
      BY <2>2 DEF SkyStays
    <3> QED
      BY <1>3, <1>4, <2>2, <3>1 DEF l, t
  <2>3. CASE l.handle.sky # None
    <3>1. /\ l.handle.sky = k.handle.sky
          /\ l.handle.env = NewEnv(packet.env) /\ NewEnv(packet.env) \in Env
      BY <1>2, <1>7, <2>1, <2>3 DEF ApplyHandleDelta, Handle, NewEnv, Env, Stage
    <3>2. l.handle.env # None /\ l.handle.env.stage = "primary"
      BY <3>1, HandleAssumption DEF NewEnv
    <3>3. SkyStays(l, t)
      <4> SUFFICES ASSUME NEW i \in SkyAt(t)
                   PROVE  k.handle.sky <= t[i].sky
        BY <3>1, <3>2 DEF SkyStays, EnvReady
      <4>1. i + 1 \in SkyAt(q) /\ t[i] = q[i + 1]
        BY <1>1
      <4> QED
        BY <1>2, <2>3, <3>1, <4>1 DEF SkyStays
    <3> QED
      BY <1>3, <1>4, <3>1, <3>2, <3>3 DEF l, t, EnvReady
  <2> QED
    BY <2>2, <2>3
<1>8. CASE /\ packet.type = "InitSky" /\ EnvReady(k.handle)
           /\ l.handle = InstantiateSky(k.handle, packet.sky)
  <2>1. /\ l.handle.sky = packet.sky /\ l.handle.env = k.handle.env
        /\ l.handle.env # None /\ l.handle.env.stage = "ready"
    BY <1>2, <1>8 DEF InstantiateSky, Handle, EnvReady
  <2>2. IsSky(packet) /\ 1 \in SkyAt(q) /\ q[1] = packet
    BY <1>1, <1>8 DEF IsSky
  <2>3. SkyStays(l, t)
    <3> SUFFICES ASSUME NEW i \in SkyAt(t)
                 PROVE  /\ packet.sky <= t[i].sky
                        /\ SameEnv(t, 1, i) => packet.sky = t[i].sky
      BY <2>1 DEF SkyStays
    <3>1. i + 1 \in SkyAt(q) /\ t[i] = q[i + 1] /\ i \in 0 .. Len(t) /\ 1 < i + 1
      BY <1>1
    <3>2. SameEnv(t, 1, i) => SameEnv(q, 1, i + 1)
      BY <1>1, <1>8, <3>1
    <3> QED
      BY <2>2, <3>1, <3>2 DEF SkiesInOrder
  <2> QED
    BY <1>3, <1>4, <1>8, <2>1, <2>2, <2>3 DEF l, t
<1> QED
  BY <1>5, <1>6, <1>7, <1>8

\* ClientReceives, for the client that reads and whatever it makes of it.
LEMMA TailKeepsSent ==
    ASSUME SessionInv, NEW c \in Peers, down[c] # <<>>, SentSkies(c),
           down'[c] = Tail(down[c]), UNCHANGED serverVars
    PROVE  SentSkies(c)'
<1> DEFINE q == down[c]
           t == Tail(q)
<1>1. q \in Seq(ServerPacket) /\ q # <<>>
  BY DEF SessionInv, TypeOK
<1>2. UNCHANGED <<handle, lastSky, playerOf>>
  BY DEF serverVars
<1>3. /\ \A i \in SkyAt(t) : i + 1 \in SkyAt(q) /\ t[i] = q[i + 1]
      /\ \A i \in SkyAt(t) : i \in Nat \ {0} /\ i <= Len(t)
      /\ Len(t) \in Nat /\ Len(q) = Len(t) + 1
      /\ \A i, j \in 1 .. Len(t) : SameEnv(t, i, j) => SameEnv(q, i + 1, j + 1)
  BY <1>1, SkyAtTail
<1>4. /\ playerOf[c] = None => SkyAt(q) = {}
      /\ \A i \in SkyAt(q) :
            /\ q[i].sky <= lastSky
            /\ SameEnv(q, i, Len(q)) => Current(q[i].sky)
  BY DEF SentSkies
<1> HIDE DEF q, t
<1>5. playerOf'[c] = None => SkyAt(t) = {}
  BY <1>2, <1>3, <1>4
<1>6. ASSUME NEW i \in SkyAt(t)
      PROVE  /\ t[i].sky <= lastSky
             /\ SameEnv(t, i, Len(t)) => Current(t[i].sky)
  <2>1. /\ i + 1 \in SkyAt(q) /\ t[i] = q[i + 1]
        /\ i \in 1 .. Len(t) /\ Len(t) \in 1 .. Len(t)
    BY <1>3
  <2>2. SameEnv(t, i, Len(t)) => SameEnv(q, i + 1, Len(q))
    BY <1>3, <2>1
  <2> QED
    BY <1>4, <2>1, <2>2
<1>7. down'[c] = t
  BY DEF t, q
<1> QED
  BY <1>2, <1>5, <1>6, <1>7 DEF SentSkies, Current

\* A client reads the next packet.
LEMMA ReceivingKeepsSkies ==
    ASSUME SessionInv, SkyInv, UNCHANGED serverVars,
           NEW c \in Peers, ClientReceives(c)
    PROVE  SkyInv'
<1> DEFINE q == down[c]
           k == conn[c]
           l == ProcessPacket(k, Head(q))
<1>1. /\ q \in Seq(ServerPacket) /\ q # <<>> /\ k \in Conn \cup {None}
      /\ down \in [Peers -> Seq(ServerPacket)]
      /\ conn \in [Peers -> Conn \cup {None}]
  BY DEF SessionInv, TypeOK, ClientReceives
<1>2. /\ down'[c] = Tail(q) /\ conn'[c] = l /\ UNCHANGED link
      /\ \A x \in Peers : x # c => down'[x] = down[x] /\ conn'[x] = conn[x]
  BY <1>1 DEF ClientReceives
<1>3. /\ SkiesInOrder(q) /\ SkyStays(k, q)
      /\ link[c] = "open" => SentSkies(c) /\ PlayedSky(c)
  BY DEF SkyInv, SkiesOf
<1>4. SkiesInOrder(Tail(q))
  BY <1>1, <1>3, OrderOfTail
<1>5. link[c] = "open" => SentSkies(c)'
  BY <1>1, <1>2, <1>3, TailKeepsSent
<1>6. UNCHANGED <<handle, lastSky>>
  BY DEF serverVars
<1>7. CASE k = None
  <2>1. l # None => l.handle.sky = None
    BY <1>7 DEF ProcessPacket, Connect, NewHandle
  <2>2. SkyStays(l, Tail(q)) /\ PlayedSky(c)'
    BY <1>2, <2>1 DEF SkyStays, PlayedSky
  <2> HIDE DEF l, q, k
  <2> QED
    BY <1>2, <1>4, <1>5, <2>2, OwnStepKeeps
<1>8. CASE k # None
  <2>1. k \in Conn
    BY <1>1, <1>8
  <2>2. /\ SkyStays(l, Tail(q)) /\ l # None
        /\ l.handle.sky # None =>
              \/ l.handle.sky = k.handle.sky
              \/ IsSky(Head(q)) /\ l.handle.sky = Head(q).sky
        /\ l.handle.sky # None /\ EnvReady(l.handle) =>
              /\ Head(q).type # "DeltaSkyHandle"
              /\ \/ l.handle = k.handle
                 \/ IsSky(Head(q)) /\ l.handle.sky = Head(q).sky
    BY <1>1, <1>3, <2>1, ReadingKeepsSkies
  <2>3. ASSUME link[c] = "open"
        PROVE  PlayedSky(c)'
    <3>1. /\ Len(q) = Len(Tail(q)) + 1 /\ Len(Tail(q)) \in 0 .. Len(Tail(q))
          /\ SameEnv(Tail(q), 1, Len(Tail(q))) /\ Head(q).type # "DeltaSkyHandle" =>
                SameEnv(q, 1, Len(q))
          /\ IsSky(Head(q)) => 1 \in SkyAt(q) /\ q[1] = Head(q)
      <4>1. Len(Tail(q)) \in Nat
        BY <1>1, SkyAtTail
      <4>2. Len(Tail(q)) \in 0 .. Len(Tail(q))
        BY <4>1
      <4> QED
        BY <1>1, <4>2, SkyAtTail
    <3>2. /\ k.handle.sky # None =>
                /\ k.handle.sky <= lastSky
                /\ EnvReady(k.handle) /\ SameEnv(q, 1, Len(q)) => Current(k.handle.sky)
          /\ IsSky(Head(q)) =>
                /\ Head(q).sky <= lastSky
                /\ SameEnv(q, 1, Len(q)) => Current(Head(q).sky)
      BY <1>3, <1>8, <2>3, <3>1 DEF PlayedSky, SentSkies
    <3>3. /\ l.handle.sky # None => l.handle.sky <= lastSky
          /\ l.handle.sky # None /\ EnvReady(l.handle)
                /\ SameEnv(Tail(q), 1, Len(Tail(q))) => Current(l.handle.sky)
      <4> HIDE DEF l, q, k
      <4> QED
        BY <2>2, <3>1, <3>2
    <3>4. /\ conn'[c] = l /\ down'[c] = Tail(q)
      BY <1>2
    <3> HIDE DEF l, q, k
    <3> QED
      BY <1>6, <3>3, <3>4 DEF PlayedSky, Current
  <2> HIDE DEF l, q, k
  <2> QED
    BY <1>2, <1>4, <1>5, <2>2, <2>3, OwnStepKeeps
<1> QED
  BY <1>7, <1>8

\* A tick and a worker leave a client that has a sky its sky, and an
\* environment that is not ready is not made so while it has one.
LEMMA OwnChangeKeeps ==
    ASSUME SessionInv, SkyInv, UNCHANGED serverVars, UNCHANGED <<link, down>>,
           NEW c \in Peers, NEW l \in Conn, conn[c] # None,
           conn' = [conn EXCEPT ![c] = l],
           \/ l.handle = conn[c].handle
           \/ l.handle.sky = None
           \/ /\ l.handle.sky = conn[c].handle.sky
              /\ l.handle.env # None
              /\ l.handle.env.stage \notin {"more", "ready"}
    PROVE  SkyInv'
<1> DEFINE q == down[c]
           k == conn[c]
<1>1. conn'[c] = l /\ \A x \in Peers : x # c => conn'[x] = conn[x]
  BY DEF SessionInv, TypeOK
<1>2. /\ SkiesInOrder(q) /\ SkyStays(k, q)
      /\ link[c] = "open" => SentSkies(c) /\ PlayedSky(c)
  BY DEF SkyInv, SkiesOf
<1>3. UNCHANGED <<handle, lastSky, playerOf>>
  BY DEF serverVars
<1>4. SkyStays(l, q)
  BY <1>2 DEF SkyStays, EnvReady
<1>5. link[c] = "open" => PlayedSky(c)'
  BY <1>1, <1>2, <1>3 DEF PlayedSky, Current, EnvReady
<1>6. link[c] = "open" => SentSkies(c)'
  BY <1>2, <1>3 DEF SentSkies, Current
<1> HIDE DEF q, k
<1>7. SkiesInOrder(down'[c]) /\ SkyStays(conn'[c], down'[c])
  BY <1>1, <1>2, <1>4 DEF q
<1> QED
  BY <1>1, <1>5, <1>6, <1>7, OwnStepKeeps

\* A client's tick does not touch its sky, and loads no environment of one.
LEMMA ClientTickKeepsSkies ==
    ASSUME SessionInv, SkyInv, UNCHANGED serverVars,
           NEW c \in Peers, ClientTick(c)
    PROVE  SkyInv'
<1> DEFINE k == conn[c]
           core == CoreTick(k)
           l == [core EXCEPT !.gameView = @ \/ OpensGame(core)]
<1>1. /\ k \in Conn /\ k # None /\ conn' = [conn EXCEPT ![c] = l]
      /\ UNCHANGED <<link, down>>
  BY DEF SessionInv, TypeOK, ClientTick, InArena
<1>2. /\ core \in Conn
      /\ \/ core.handle = k.handle
         \/ k.handle.sky = None /\ core.handle = LoadMore(k.handle)
  <2>1. core \in Conn
    <3>1. ViewHasEnv(k)
      BY <1>1 DEF SessionInv, GameViewHasEnv
    <3> HIDE DEF k
    <3> QED
      BY <1>1, <3>1, CoreTickType
  <2>2. \/ core.handle = k.handle
        \/ k.handle.sky = None /\ core.handle = LoadMore(k.handle)
    <3>1. CASE AsksForSky(k)
      <4>1. core = [k EXCEPT !.askedSky = TRUE]
        BY <3>1 DEF CoreTick
      <4> QED
        BY <1>1, <4>1 DEF Conn
    <3>2. CASE ~AsksForSky(k) /\ k.handle.sky = None
      <4>1. core = [k EXCEPT !.handle = LoadMore(@)]
        BY <3>2 DEF CoreTick
      <4> QED
        BY <1>1, <3>2, <4>1 DEF Conn
    <3>3. CASE ~AsksForSky(k) /\ k.handle.sky # None
      BY <3>3 DEF CoreTick
    <3> QED
      BY <3>1, <3>2, <3>3
  <2> QED
    BY <2>1, <2>2
<1>3. LoadMore(k.handle).sky = k.handle.sky
  BY <1>1 DEF LoadMore, Conn, Handle
<1> HIDE DEF core
<1>4. OpensGame(core) \in BOOLEAN
  BY DEF OpensGame
<1>5. l \in Conn /\ l.handle = core.handle
  BY <1>2, <1>4 DEF Conn
<1> HIDE DEF l
<1> QED
  BY <1>1, <1>2, <1>3, <1>5, OwnChangeKeeps

\* A client's worker ends: with a sky, it was at the environment's first part.
LEMMA ClientWorkerKeepsSkies ==
    ASSUME SessionInv, SkyInv, UNCHANGED serverVars,
           NEW c \in Peers, ClientWorker(c)
    PROVE  SkyInv'
<1> DEFINE k == conn[c]
           l == [k EXCEPT !.handle = WorkerEnds(@)]
<1>1. k \in Conn /\ k # None /\ UNCHANGED <<link, down>>
  BY DEF SessionInv, TypeOK, ClientWorker
<1>2. conn' = [conn EXCEPT ![c] = l]
  BY DEF ClientWorker, SessionInv, TypeOK
<1>3. k.handle \in Handle /\ WorkerBusy(k.handle)
  BY <1>1 DEF Conn, ClientWorker
<1>4. /\ WorkerEnds(k.handle) \in Handle
      /\ WorkerEnds(k.handle).sky = k.handle.sky
      /\ WorkerEnds(k.handle).env # None
      /\ k.handle.env.stage # "more" => WorkerEnds(k.handle).env.stage = "mapped"
  BY <1>3, HandleAssumption DEF WorkerEnds, WorkerBusy, Handle, Env, Stage
<1>5. l \in Conn /\ l.handle = WorkerEnds(k.handle)
  BY <1>1, <1>4 DEF Conn
<1>6. k.handle.sky # None => k.handle.env.stage # "more"
  BY <1>1 DEF SkyInv, SkiesOf, SkyStays
<1> HIDE DEF l
<1> QED
  BY <1>1, <1>2, <1>4, <1>5, <1>6, OwnChangeKeeps

\* A step that leaves the client with an empty queue, or with the queue it
\* had on a link that is not open, and with its connection or without one.
LEMMA ShutKeepsSkies ==
    ASSUME SkyInv, UNCHANGED serverVars, NEW c \in Peers,
           \/ down'[c] = <<>> /\ conn'[c] = None
           \/ down'[c] = <<>> /\ conn'[c] = conn[c] /\ link'[c] # "open"
           \/ down'[c] = down[c] /\ conn'[c] = conn[c] /\ link'[c] # "open",
           \A x \in Peers : x # c =>
               link'[x] = link[x] /\ down'[x] = down[x] /\ conn'[x] = conn[x]
    PROVE  SkyInv'
<1>1. SkyAt(<<>>) = {}
  BY DEF SkyAt
<1>2. SkiesInOrder(<<>>)
  BY <1>1 DEF SkiesInOrder
<1>3. SkiesInOrder(down[c]) /\ SkyStays(conn[c], down[c])
  BY DEF SkyInv, SkiesOf
<1>4. SkiesInOrder(down'[c])
  BY <1>2, <1>3
<1>5. SkyStays(conn[c], <<>>) /\ SkyStays(None, <<>>)
  BY <1>1, <1>3 DEF SkyStays
<1>6. SkyStays(conn'[c], down'[c])
  BY <1>3, <1>5
<1>7. link'[c] = "open" => SentSkies(c)' /\ PlayedSky(c)'
  BY <1>1 DEF SentSkies, PlayedSky
<1> QED
  BY <1>4, <1>6, <1>7, OwnStepKeeps

\* Connecting, ending, leaving and losing the link.
LEMMA LinkStepsKeepSkies ==
    ASSUME SessionInv, SkyInv, UNCHANGED serverVars, NEW c \in Peers,
           \/ Connects(c) \/ ClientAborts(c) \/ Disconnect(c)
           \/ ClientEnds(c) \/ LinkBreaks(c)
    PROVE  SkyInv'
<1>1. /\ conn \in [Peers -> Conn \cup {None}]
      /\ down \in [Peers -> Seq(ServerPacket)]
      /\ link \in [Peers -> {"open", "down"}]
  BY DEF SessionInv, TypeOK
<1>2. CASE Connects(c)
  <2>1. conn[c] = None
    BY <1>2 DEF Connects, ClientConnects, SessionInv, OffIsClean
  <2>2. down'[c] = <<>> /\ conn'[c] = None
    BY <1>1, <1>2, <2>1 DEF Connects, ClientConnects, OpenLink
  <2>3. \A x \in Peers : x # c =>
           link'[x] = link[x] /\ down'[x] = down[x] /\ conn'[x] = conn[x]
    BY <1>1, <1>2 DEF Connects, ClientConnects, OpenLink
  <2> QED
    BY <2>2, <2>3, ShutKeepsSkies
<1>3. CASE ClientAborts(c) \/ ClientEnds(c)
  <2>1. down'[c] = <<>> /\ conn'[c] = None
    BY <1>1, <1>3 DEF ClientAborts, ClientEnds
  <2>2. \A x \in Peers : x # c =>
           link'[x] = link[x] /\ down'[x] = down[x] /\ conn'[x] = conn[x]
    BY <1>1, <1>3 DEF ClientAborts, ClientEnds, BreakUp
  <2> QED
    BY <2>1, <2>2, ShutKeepsSkies
<1>4. CASE Disconnect(c) \/ LinkBreaks(c)
  <2>1. /\ down'[c] = <<>> \/ down'[c] = down[c]
        /\ conn'[c] = conn[c] /\ link'[c] # "open"
    BY <1>1, <1>4 DEF Disconnect, LinkBreaks, BreakUp
  <2>2. \A x \in Peers : x # c =>
           link'[x] = link[x] /\ down'[x] = down[x] /\ conn'[x] = conn[x]
    BY <1>1, <1>4 DEF Disconnect, LinkBreaks, BreakUp
  <2> QED
    BY <2>1, <2>2, ShutKeepsSkies
<1> QED
  BY <1>2, <1>3, <1>4

\* Whatever a client or its user does keeps the skies apart.
LEMMA PlaysKeepsSkies ==
    ASSUME SessionInv, SkyInv, UNCHANGED serverVars,
           \E c \in Peers : Plays(c)
    PROVE  SkyInv'
<1> PICK c \in Peers : Plays(c)
  OBVIOUS
<1>1. CASE UNCHANGED <<link, down, conn>>
  <2>1. UNCHANGED <<handle, lastSky, playerOf>>
    BY DEF serverVars
  <2> QED
    BY <1>1, <2>1 DEF SkyInv, SkiesOf, SentSkies, PlayedSky, Current
<1>2. \/ ClientReceives(c) \/ ClientTick(c) \/ ClientWorker(c)
      \/ Connects(c) \/ ClientAborts(c) \/ Disconnect(c)
      \/ ClientEnds(c) \/ LinkBreaks(c)
      \/ UNCHANGED <<link, down, conn>>
  BY DEF Plays, Types, ClientActs, TypeCommand, Request, RequestNickname,
         RequestTeam, RequestSpawn, AskToJoin
<1> QED
  BY <1>1, <1>2, ReceivingKeepsSkies, ClientTickKeepsSkies,
     ClientWorkerKeepsSkies, LinkStepsKeepSkies

-----------------------------------------------------------------------------
(* The theorem about skies *)

\* There is no sky to begin with.
LEMMA NoSkyAtFirst == Init => SkyInv
<1> SUFFICES ASSUME Init
             PROVE  SkyInv
  OBVIOUS
<1>1. handle.sky = None
  BY DEF Init, ServerInit, NewHandle
<1>2. ASSUME NEW c \in Peers
      PROVE  down[c] = <<>> /\ conn[c] = None /\ link[c] # "open"
  BY DEF Init, NetworkInit, ClientInit
<1>3. SkyAt(<<>>) = {}
  BY DEF SkyAt
<1> QED
  BY <1>1, <1>2, <1>3 DEF SkyInv, SkiesOf, SkiesInOrder, SkyStays

\* Every step of a session keeps the skies apart.
LEMMA NextKeepsSkies == SessionInv /\ SkyInv /\ [Next]_vars => SkyInv'
<1> SUFFICES ASSUME SessionInv, SkyInv, [Next]_vars
             PROVE  SkyInv'
  OBVIOUS
<1>1. CASE Serves /\ UNCHANGED clientVars
  BY <1>1, ServesKeepsSkies
<1>2. CASE \E c \in Peers : Plays(c) /\ UNCHANGED serverVars
  BY <1>2, PlaysKeepsSkies
<1>3. CASE UNCHANGED vars
  BY <1>3 DEF vars, networkVars, serverVars, clientVars, SkyInv, SkiesOf,
              SentSkies, PlayedSky, Current
<1> QED
  BY <1>1, <1>2, <1>3 DEF Next

\* SkyInv always holds.
LEMMA SkyInvariant == Spec => []SkyInv
<1>1. SessionInv /\ SessionInv' /\ SkyInv /\ [Next]_vars => SkyInv'
  BY NextKeepsSkies
<1> QED
  BY <1>1, NoSkyAtFirst, SessionInvariant, PTL DEF Spec

\* What a client reads next is the first of what it has still to read.
LEMMA FirstIsOfSky ==
    ASSUME SessionInv, SkyInv
    PROVE  SkyPacketsMatch
<1> SUFFICES ASSUME NEW c \in Peers, conn[c] # None, conn[c].handle.sky # None,
                    down[c] # <<>>, IsSky(Head(down[c]))
             PROVE  /\ conn[c].handle.sky <= Head(down[c]).sky
                    /\ EnvReady(conn[c].handle) =>
                          conn[c].handle.sky = Head(down[c]).sky
  BY DEF SkyPacketsMatch
<1>1. down[c] \in Seq(ServerPacket)
  BY DEF SessionInv, TypeOK
<1>2. 1 \in SkyAt(down[c]) /\ down[c][1] = Head(down[c])
  BY <1>1, SkyAtTail
<1>3. SameEnv(down[c], 1, 1)
  BY <1>2 DEF SameEnv, IsSky
<1> QED
  BY <1>2, <1>3 DEF SkyInv, SkiesOf, SkyStays

\* However often games are started, stopped and restarted, maps changed and
\* clients come and go, a client that plays a sky never reads what belongs to
\* an earlier one, nor, while its environment is loaded, to a later one.
THEOREM SkiesStayApart == Spec => []SkyPacketsMatch
BY SessionInvariant, SkyInvariant, FirstIsOfSky, PTL
=============================================================================
