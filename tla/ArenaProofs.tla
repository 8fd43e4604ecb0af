----------------------------- MODULE ArenaProofs -----------------------------
(***************************************************************************)
(* What the allocation of player IDs and nicknames guarantees, for every   *)
(* set of players and every request, and what the arena's deltas do to its *)
(* players.                                                                *)
(***************************************************************************)
EXTENDS Arena, FiniteSetTheorems, TLAPS

\* A nonempty set of natural numbers has a least element.
LEMMA LeastElement ==
    ASSUME NEW T, T \subseteq Nat, T # {}
    PROVE  \E x \in T : \A y \in T : x <= y
<1>1. PICK x \in T : \A y \in T : ~(<<y, x>> \in OpToRel(<, Nat))
  BY NatLessThanWellFounded, WFMin
<1>2. ASSUME NEW y \in T
      PROVE  x <= y
  <2>1. x \in Nat /\ y \in Nat
    OBVIOUS
  <2>2. ~(y < x)
    BY <1>1, <2>1 DEF OpToRel
  <2> QED
    BY <2>1, <2>2
<1> QED
  BY <1>2

\* Induction over the natural numbers, for what can be said as membership of
\* a set.
LEMMA Induction ==
    ASSUME NEW T, 0 \in T, \A n \in Nat : n \in T => n + 1 \in T
    PROVE  Nat \subseteq T
<1> SUFFICES ASSUME Nat \ T # {}
             PROVE  FALSE
  OBVIOUS
<1> DEFINE U == Nat \ T
<1>1. U \subseteq Nat /\ U # {}
  OBVIOUS
<1> HIDE DEF U
<1>2. PICK x \in U : \A y \in U : x <= y
  BY <1>1, LeastElement
<1> USE DEF U
<1>3. x \in Nat /\ x # 0
  OBVIOUS
<1>4. x - 1 \in Nat /\ x - 1 \notin U
  BY <1>2, <1>3
<1> QED
  BY <1>3, <1>4

\* Counting: n things do not fill the n + 1 numbers from 0 to n.
LEMMA SomeNumberIsLeft ==
    ASSUME NEW W, IsFiniteSet(W), NEW n \in Nat, Cardinality(W) <= n
    PROVE  \E v \in 0 .. n : v \notin W
<1> SUFFICES ASSUME 0 .. n \subseteq W
             PROVE  FALSE
  OBVIOUS
<1>1. Cardinality(0 .. n) = n + 1
  BY FS_Interval
<1>2. Cardinality(0 .. n) <= Cardinality(W)
  BY FS_Subset
<1>3. Cardinality(W) \in Nat
  BY FS_CardinalityType
<1> QED
  BY <1>1, <1>2, <1>3

\* smallestUnused(map) returns a number that is no key, and no number below
\* it is free; it is at most the number of keys.
LEMMA SmallestUnusedKeyIsFree ==
    ASSUME NEW keys, IsFiniteSet(keys)
    PROVE  LET v == SmallestUnusedKey(keys)
           IN  /\ v \in 0 .. Cardinality(keys)
               /\ v \notin keys
               /\ \A u \in 0 .. v - 1 : u \in keys
<1> DEFINE n == Cardinality(keys)
           T == {v \in 0 .. n : v \notin keys}
<1>1. n \in Nat
  BY FS_CardinalityType
<1>2. T # {}
  BY <1>1, SomeNumberIsLeft
<1>3. T \subseteq Nat
  BY <1>1
<1> HIDE DEF T
<1>4. PICK v \in T : \A y \in T : v <= y
  BY <1>2, <1>3, LeastElement
<1>5. v \in 0 .. n /\ v \notin keys
  BY DEF T
<1>6. \A u \in 0 .. v - 1 : u \in keys
  BY <1>1, <1>4, <1>5 DEF T
<1> QED
  BY <1>5, <1>6 DEF SmallestUnusedKey

-----------------------------------------------------------------------------
(* The numbers of nicknames *)

\* The numbers in use are finitely many, so the count stops.
LEMMA SmallestUnusedStops ==
    ASSUME NEW used, IsFiniteSet(DOMAIN used)
    PROVE  /\ SmallestUnused(used) \in Nat
           /\ StopsAt(used, SmallestUnused(used))
<1> DEFINE D == DOMAIN used
           n == Cardinality(D)
           W == {used[p] : p \in D}
           f == [p \in D |-> used[p]]
           T == {v \in 0 .. n : StopsAt(used, v)}
<1>1. n \in Nat
  BY FS_CardinalityType
<1>2. f \in Surjection(D, W)
  BY DEF Surjection
<1>3. IsFiniteSet(W) /\ Cardinality(W) <= n
  <2> HIDE DEF D, W, f
  <2> QED
    BY <1>2, FS_Surjection DEF D
<1>4. \E v \in 0 .. n : v \notin W
  <2> HIDE DEF n, W
  <2> QED
    BY <1>1, <1>3, SomeNumberIsLeft
<1>5. T # {}
  BY <1>4 DEF StopsAt, IsUsed
<1>6. T \subseteq Nat
  BY <1>1
<1> HIDE DEF T
<1>7. PICK v \in T : \A y \in T : v <= y
  BY <1>5, <1>6, LeastElement
<1>8. v \in 0 .. n /\ StopsAt(used, v)
  BY DEF T
<1>9. \A u \in 0 .. v - 1 : ~StopsAt(used, u)
  BY <1>1, <1>7, <1>8 DEF T
<1> QED
  BY <1>1, <1>8, <1>9 DEF SmallestUnused, Counts

\* Every nickname the arena allocates is a nickname, whatever is in use.
LEMMA AllocatedIsName ==
    ASSUME NEW nicks, IsFiniteSet(DOMAIN nicks), NEW req \in Name
    PROVE  AllocNickname(nicks, req) \in Name
<1> DEFINE used == UsedNumbers(nicks, req)
<1>1. DOMAIN used \subseteq DOMAIN nicks
  BY DEF UsedNumbers
<1>2. IsFiniteSet(DOMAIN used)
  BY <1>1, FS_Subset
<1>3. SmallestUnused(used) \in Nat
  <2> HIDE DEF used
  <2> QED
    BY <1>2, SmallestUnusedStops
<1>4. ASSUME NEW k \in Nat
      PROVE  Tagged(req, k) \in Name
  BY DEF Tagged, Name
<1> QED
  BY <1>3, <1>4 DEF AllocNickname

\* Requests without a number get simple nicknames that nobody has.  (A player
\* that asks for "bob(0)" can make the number of "bob" occur twice.)
LEMMA SimpleRequestIsFresh ==
    ASSUME NEW nicks, IsFiniteSet(DOMAIN nicks),
           \A p \in DOMAIN nicks : nicks[p] \in Name /\ Simple(nicks[p]),
           \A p, q \in DOMAIN nicks : p # q => nicks[p] # nicks[q],
           NEW req \in Name, req.tags = <<>>
    PROVE  /\ Simple(AllocNickname(nicks, req))
           /\ \A p \in DOMAIN nicks : nicks[p] # AllocNickname(nicks, req)
<1> DEFINE used == UsedNumbers(nicks, req)
           v == SmallestUnused(used)
<1>1. DOMAIN used = {q \in DOMAIN nicks : Matches(nicks[q], req)}
  BY DEF UsedNumbers
<1>2. IsFiniteSet(DOMAIN used)
  BY <1>1, FS_Subset
<1>3. v \in Nat /\ StopsAt(used, v)
  <2> HIDE DEF used
  <2> QED
    BY <1>2, SmallestUnusedStops
<1>4. ASSUME NEW k \in Nat
      PROVE  /\ Tagged(req, k) = [base |-> req.base, tags |-> <<k>>]
             /\ Tagged(req, k) # req
             /\ LastTag(Tagged(req, k)) = k
             /\ Matches(Tagged(req, k), req)
  <2>1. Append(req.tags, k) = <<k>>
    OBVIOUS
  <2>2. Tagged(req, k) = [base |-> req.base, tags |-> <<k>>]
    BY <2>1 DEF Tagged, Name
  <2>3. Tagged(req, k).tags = <<k>>
    BY <2>2
  <2>4. LastTag(Tagged(req, k)) = k
    BY <2>3 DEF LastTag
  <2>5. <<k>> # <<>>
    OBVIOUS
  <2> DEFINE name == Tagged(req, k)
  <2>6. name.tags = <<k>> /\ name.tags # <<>> /\ LastTag(name) = k
    BY <2>3, <2>4, <2>5
  <2>7. name = Tagged(req, LastTag(name))
    BY <2>6
  <2> HIDE DEF name
  <2>8. name # req
    BY <2>6
  <2>9. Matches(name, req)
    BY <2>6, <2>7 DEF Matches
  <2> QED
    BY <2>2, <2>4, <2>8, <2>9 DEF name
<1>5. ASSUME NEW p \in DOMAIN used
      PROVE  /\ nicks[p] = req => used[p] = 0
             /\ nicks[p] # req => /\ used[p] \in Nat \ {0}
                                  /\ nicks[p] = Tagged(req, used[p])
  <2>1. used[p] = NumberOf(nicks[p], req)
    BY <1>1 DEF UsedNumbers
  <2>2. nicks[p] \in Name /\ Simple(nicks[p]) /\ Matches(nicks[p], req)
    BY <1>1
  <2>3. CASE nicks[p] = req
    BY <2>1, <2>3 DEF NumberOf
  <2>4. CASE nicks[p] # req
    <3>1. nicks[p].tags # <<>> /\ nicks[p] = Tagged(req, LastTag(nicks[p]))
      BY <2>2, <2>4 DEF Matches
    <3>2. LastTag(nicks[p]) \in Nat \ {0}
      BY <2>2, <3>1 DEF Simple, LastTag, Name
    <3> QED
      BY <2>1, <2>4, <3>1, <3>2 DEF NumberOf
  <2> QED
    BY <2>3, <2>4
<1>6. ASSUME NEW u \in Nat
      PROVE  ~IsDuplicated(used, u)
  <2> SUFFICES ASSUME NEW p \in DOMAIN used, NEW q \in DOMAIN used, p # q,
                      used[p] = u, used[q] = u
               PROVE  FALSE
    BY DEF IsDuplicated
  <2>1. nicks[p] = nicks[q]
    BY <1>5
  <2> QED
    BY <1>1, <2>1
<1>7. ~IsUsed(used, v)
  BY <1>3, <1>6 DEF StopsAt
<1>8. CASE v = 0
  <2>1. AllocNickname(nicks, req) = req
    BY <1>8 DEF AllocNickname
  <2>2. ASSUME NEW p \in DOMAIN nicks, nicks[p] = req
        PROVE  FALSE
    <3>1. p \in DOMAIN used
      BY <1>1, <2>2 DEF Matches
    <3>2. used[p] = 0
      BY <1>5, <2>2, <3>1
    <3> QED
      BY <1>7, <1>8, <3>1, <3>2 DEF IsUsed
  <2> QED
    BY <2>1, <2>2 DEF Simple
<1>9. CASE v # 0
  <2>1. AllocNickname(nicks, req) = Tagged(req, v)
    BY <1>9 DEF AllocNickname
  <2>2. ASSUME NEW p \in DOMAIN nicks, nicks[p] = Tagged(req, v)
        PROVE  FALSE
    <3>1. p \in DOMAIN used /\ nicks[p] # req
      BY <1>1, <1>3, <1>4, <2>2
    <3>2. used[p] = v
      <4>1. used[p] \in Nat /\ Tagged(req, used[p]) = Tagged(req, v)
        BY <1>5, <2>2, <3>1
      <4> HIDE DEF used, v
      <4> QED
        BY <1>3, <1>4, <4>1
    <3> QED
      BY <1>7, <3>1, <3>2 DEF IsUsed
  <2>3. Simple(Tagged(req, v))
    BY <1>3, <1>4, <1>9 DEF Simple
  <2> QED
    BY <2>1, <2>2, <2>3
<1> QED
  BY <1>8, <1>9

-----------------------------------------------------------------------------
(* Players and deltas *)

LEMMA KeyIsPlayer ==
    ASSUME NEW players \in MapTo(Player), NEW p \in Keys(players)
    PROVE  p \in PID /\ players[p] \in Player
BY DEF MapTo, Keys

LEMMA ChangePlayerType ==
    ASSUME NEW player \in Player, NEW d \in PlayerDelta
    PROVE  ChangePlayer(player, d) \in Player
BY DEF ChangePlayer, OrElse, Player, PlayerDelta

\* A default delta, whatever flags, team or statistics are set in it.
LEMMA DeltaOfType ==
    ASSUME NEW player \in Player
    PROVE  /\ DeltaOf(player) \in PlayerDelta
           /\ \A t \in Team : [DeltaOf(player) EXCEPT !.team = t] \in PlayerDelta
           /\ \A b \in BOOLEAN :
                 /\ [DeltaOf(player) EXCEPT !.admin = b] \in PlayerDelta
                 /\ [DeltaOf(player) EXCEPT !.loadingEnv = b] \in PlayerDelta
           /\ \A s \in ConnStats : [DeltaOf(player) EXCEPT !.stats = s] \in PlayerDelta
BY DEF DeltaOf, Player, PlayerDelta

LEMMA ChangePlayersKeeps ==
    ASSUME NEW players \in MapTo(Player), NEW deltas \in MapTo(PlayerDelta)
    PROVE  /\ ChangePlayers(players, deltas) \in MapTo(Player)
           /\ Keys(ChangePlayers(players, deltas)) = Keys(players)
<1>1. ASSUME NEW p \in PID, players[p] # None, deltas[p] # None
      PROVE  /\ ChangePlayer(players[p], deltas[p]) \in Player
             /\ ChangePlayer(players[p], deltas[p]) # None
  <2>1. players[p] \in Player /\ deltas[p] \in PlayerDelta
    BY <1>1 DEF MapTo
  <2> QED
    BY <2>1, ChangePlayerType, ArenaAssumption
<1> QED
  BY <1>1 DEF ChangePlayers, MapTo, Keys

LEMMA SetLoadingEnvKeeps ==
    ASSUME NEW players \in MapTo(Player)
    PROVE  /\ SetLoadingEnv(players) \in MapTo(Player)
           /\ Keys(SetLoadingEnv(players)) = Keys(players)
<1>1. ASSUME NEW p \in PID, players[p] # None
      PROVE  /\ [players[p] EXCEPT !.loadingEnv = TRUE] \in Player
             /\ [players[p] EXCEPT !.loadingEnv = TRUE] # None
  BY <1>1, ArenaAssumption DEF MapTo, Player
<1> QED
  BY <1>1 DEF SetLoadingEnv, MapTo, Keys

\* Applying a delta to an arena gives an arena; only "Join" adds a player,
\* only "Quit" removes one, and only "Mode" changes the mode.
LEMMA ApplyArenaDeltaKeeps ==
    ASSUME NEW a \in ArenaState, NEW d \in ArenaDelta
    PROVE  /\ ApplyArenaDelta(a, d) \in ArenaState
           /\ d.type = "Quit" =>
                 /\ Keys(ApplyArenaDelta(a, d).players) = Keys(a.players) \ {d.pid}
                 /\ d.pid \in PID
           /\ d.type = "Join" =>
                 /\ Keys(ApplyArenaDelta(a, d).players) = Keys(a.players) \cup {d.pid}
                 /\ d.pid \in PID
           /\ d.type \notin {"Quit", "Join"} =>
                 Keys(ApplyArenaDelta(a, d).players) = Keys(a.players)
           /\ ApplyArenaDelta(a, d).mode = IF d.type = "Mode" THEN d.mode ELSE a.mode
<1>1. CASE d.type = "Quit"
  <2>1. d.pid \in PID
    BY <1>1 DEF ArenaDelta
  <2>2. ApplyArenaDelta(a, d) = [a EXCEPT !.players[d.pid] = None]
    BY <1>1 DEF ApplyArenaDelta
  <2> QED
    BY <1>1, <2>1, <2>2 DEF ArenaState, MapTo, Keys
<1>2. CASE d.type = "Join"
  <2>1. d.pid \in PID /\ d.player \in Player
    BY <1>2 DEF ArenaDelta
  <2>2. ApplyArenaDelta(a, d) = [a EXCEPT !.players[d.pid] = d.player]
    BY <1>2 DEF ApplyArenaDelta
  <2>3. d.player # None
    BY <2>1, ArenaAssumption
  <2> QED
    BY <1>2, <2>1, <2>2, <2>3 DEF ArenaState, MapTo, Keys
<1>3. CASE d.type = "Delta"
  <2>1. d.deltas \in MapTo(PlayerDelta)
    BY <1>3 DEF ArenaDelta
  <2>2. ApplyArenaDelta(a, d) = [a EXCEPT !.players = ChangePlayers(a.players, d.deltas)]
    BY <1>3 DEF ApplyArenaDelta
  <2>3. a.players \in MapTo(Player)
    BY DEF ArenaState
  <2>4. /\ ChangePlayers(a.players, d.deltas) \in MapTo(Player)
        /\ Keys(ChangePlayers(a.players, d.deltas)) = Keys(a.players)
    BY <2>1, <2>3, ChangePlayersKeeps
  <2> QED
    BY <1>3, <2>2, <2>4 DEF ArenaState
<1>4. CASE d.type = "ResetEnvLoad"
  <2>1. ApplyArenaDelta(a, d) = [a EXCEPT !.players = SetLoadingEnv(a.players)]
    BY <1>4 DEF ApplyArenaDelta
  <2>2. a.players \in MapTo(Player)
    BY DEF ArenaState
  <2> QED
    BY <1>4, <2>1, <2>2, SetLoadingEnvKeeps DEF ArenaState
<1>5. CASE d.type \in {"Motd", "Mode", "EnvChange", "TeamCount"}
  BY <1>5 DEF ApplyArenaDelta, ArenaDelta, ArenaState
<1> QED
  BY <1>1, <1>2, <1>3, <1>4, <1>5 DEF ArenaDelta

LEMMA CopyArenaType ==
    ASSUME NEW a \in ArenaState
    PROVE  CopyArena(a) \in ArenaState /\ CopyArena(a).players = a.players
                                      /\ CopyArena(a).mode = a.mode
BY DEF CopyArena, ArenaState

\* The names of a map's players: finitely many, since PID is finite.
LEMMA KeysAreFinite ==
    ASSUME NEW players, NEW ignored
    PROVE  /\ IsFiniteSet(Keys(players))
           /\ IsFiniteSet(DOMAIN NicksExcept(players, ignored))
<1>1. IsFiniteSet(PID)
  BY FS_Interval, ArenaAssumption DEF PID
<1>2. Keys(players) \subseteq PID /\ DOMAIN NicksExcept(players, ignored) \subseteq PID
  BY DEF Keys, NicksExcept
<1> QED
  BY <1>1, <1>2, FS_Subset

\* A request to join is answered with the delta of a player whose PID is free
\* and fits, as long as the arena has room.
LEMMA ConnectPlayerIsFresh ==
    ASSUME NEW players \in MapTo(Player), NEW req \in Name,
           Cardinality(Keys(players)) < MaxPlayers
    PROVE  LET d == ConnectPlayer(players, req)
           IN  /\ d \in ArenaDelta
               /\ d.type = "Join"
               /\ d.pid \in PID
               /\ d.pid \notin Keys(players)
<1>1. /\ AllocPid(players) \in 0 .. Cardinality(Keys(players))
      /\ AllocPid(players) \notin Keys(players)
  BY KeysAreFinite, SmallestUnusedKeyIsFree DEF AllocPid
<1>2. Cardinality(Keys(players)) \in Nat
  BY KeysAreFinite, FS_CardinalityType
<1>3. AllocPid(players) \in PID
  BY <1>1, <1>2, ArenaAssumption DEF PID
<1>4. AllocNickname(NicksExcept(players, {}), req) \in Name
  BY KeysAreFinite, AllocatedIsName
<1>5. NewPlayer(AllocNickname(NicksExcept(players, {}), req)) \in Player
  BY <1>4 DEF NewPlayer, Player, Team
<1> QED
  BY <1>1, <1>3, <1>5 DEF ConnectPlayer, ArenaDelta
=============================================================================
