---------------------------- MODULE SkySyncProofs ----------------------------
(***************************************************************************)
(* What is on its way between a server and one of its clients adds up, in  *)
(* both directions: the sky that the client will show is the server's, and *)
(* the controls that the server will know are the client's; for any number *)
(* of players, spawns and packets, whatever the caches hold back.          *)
(***************************************************************************)
EXTENDS SkySync, WellFoundedInduction, SequenceTheorems, TLAPS

-----------------------------------------------------------------------------
(* Induction, and folds of a function over a sequence *)

\* Induction over the natural numbers, for what can be said as membership of
\* a set.
LEMMA Induction ==
    ASSUME NEW T, 0 \in T, \A n \in Nat : n \in T => n + 1 \in T
    PROVE  Nat \subseteq T
<1> SUFFICES ASSUME Nat \ T # {}
             PROVE  FALSE
  OBVIOUS
<1> DEFINE U == Nat \ T
<1>1. U \subseteq Nat /\ U # {}
  OBVIOUS
<1> HIDE DEF U
<1>2. PICK x \in U : \A y \in U : ~(<<y, x>> \in OpToRel(<, Nat))
  BY <1>1, NatLessThanWellFounded, WFMin
<1> USE DEF U
<1>3. x \in Nat /\ x \notin T /\ x # 0
  OBVIOUS
<1>4. x - 1 \in Nat /\ (x - 1) + 1 = x /\ x - 1 < x
  BY <1>3
<1>5. x - 1 \in T
  <2> SUFFICES ASSUME x - 1 \in U
               PROVE  FALSE
    BY <1>4
  <2> QED
    BY <1>2, <1>3, <1>4 DEF OpToRel
<1> QED
  BY <1>3, <1>4, <1>5

\* The same between 0 and N.
LEMMA InductionTo ==
    ASSUME NEW N \in Nat, NEW T, 0 \in T,
           \A n \in 0 .. N - 1 : n \in T => n + 1 \in T
    PROVE  \A n \in 0 .. N : n \in T
<1> DEFINE U == {n \in Nat : n <= N => n \in T}
<1>1. 0 \in U
  OBVIOUS
<1>2. ASSUME NEW n \in Nat, n \in U
      PROVE  n + 1 \in U
  <2> SUFFICES ASSUME n + 1 <= N
               PROVE  n + 1 \in T
    OBVIOUS
  <2>1. n \in 0 .. N - 1 /\ n \in T
    BY <1>2
  <2> QED
    BY <2>1
<1> HIDE DEF U
<1>3. Nat \subseteq U
  BY <1>1, <1>2, Induction
<1> QED
  BY <1>3 DEF U

\* F takes a T and an element of S to a T.
IsStep(F, T, S) == F \in [T \X S -> T]

\* f[n] is what F makes of k and the first n elements of s.
IsFold(f, F, k, s, n) ==
    f[0] = k /\ \A i \in 1 .. n : f[i] = F[<<f[i - 1], s[i]>>]

\* It exists, by induction over the length.
LEMMA FoldExists ==
    ASSUME NEW T, NEW S, NEW F, IsStep(F, T, S), NEW k \in T, NEW s \in Seq(S)
    PROVE  \E f \in [0 .. Len(s) -> T] : IsFold(f, F, k, s, Len(s))
<1> DEFINE U == {n \in Nat : \E f \in [0 .. n -> T] : IsFold(f, F, k, s, n)}
<1>1. 0 \in U
  <2> DEFINE f == [i \in 0 .. 0 |-> k]
  <2>1. f \in [0 .. 0 -> T] /\ IsFold(f, F, k, s, 0)
    BY DEF IsFold
  <2> QED
    BY <2>1
<1>2. Len(s) \in Nat
  OBVIOUS
<1>3. ASSUME NEW n \in 0 .. Len(s) - 1, n \in U
      PROVE  n + 1 \in U
  <2>1. PICK f \in [0 .. n -> T] : IsFold(f, F, k, s, n)
    BY <1>3
  <2>2. n \in Nat /\ n + 1 \in 1 .. Len(s) /\ n \in 0 .. n
    BY <1>2
  <2>3. s[n + 1] \in S /\ f[n] \in T
    BY <2>2
  <2> DEFINE next == F[<<f[n], s[n + 1]>>]
             g == [i \in 0 .. n + 1 |-> IF i = n + 1 THEN next ELSE f[i]]
  <2>4. next \in T
    BY <2>3 DEF IsStep
  <2> HIDE DEF next
  <2>5. g \in [0 .. n + 1 -> T]
    BY <2>2, <2>4
  <2>6. g[0] = k
    BY <2>1, <2>2 DEF IsFold
  <2>7. ASSUME NEW i \in 1 .. n + 1
        PROVE  g[i] = F[<<g[i - 1], s[i]>>]
    <3>1. CASE i = n + 1
      <4>1. i - 1 = n /\ g[i] = next /\ g[i - 1] = f[n]
        BY <2>2, <3>1
      <4> QED
        BY <3>1, <4>1 DEF next
    <3>2. CASE i # n + 1
      <4>1. i \in 1 .. n /\ g[i] = f[i] /\ g[i - 1] = f[i - 1]
        BY <2>2, <3>2
      <4> QED
        BY <2>1, <4>1 DEF IsFold
    <3> QED
      BY <3>1, <3>2
  <2> HIDE DEF g
  <2>8. IsFold(g, F, k, s, n + 1)
    BY <2>6, <2>7 DEF IsFold
  <2> QED
    BY <2>2, <2>5, <2>8
<1> HIDE DEF U
<1>4. \A n \in 0 .. Len(s) : n \in U
  BY <1>1, <1>2, <1>3, InductionTo
<1>5. Len(s) \in 0 .. Len(s)
  BY <1>2
<1> QED
  BY <1>4, <1>5 DEF U

\* Where it ends.
Folded(F, k, s) == (CHOOSE f : IsFold(f, F, k, s, Len(s)))[Len(s)]

LEMMA FoldsAgree ==
    ASSUME NEW F, NEW k, NEW S, NEW s \in Seq(S), NEW f, IsFold(f, F, k, s, Len(s))
    PROVE  Folded(F, k, s) = f[Len(s)]
<1> DEFINE g == CHOOSE g : IsFold(g, F, k, s, Len(s))
<1>1. IsFold(g, F, k, s, Len(s))
  OBVIOUS
<1>2. Folded(F, k, s) = g[Len(s)]
  BY DEF Folded
<1> HIDE DEF g
<1> DEFINE T == {n \in Nat : f[n] = g[n]}
<1>3. Len(s) \in Nat /\ 0 \in T
  BY <1>1 DEF IsFold
<1>4. ASSUME NEW n \in 0 .. Len(s) - 1, n \in T
      PROVE  n + 1 \in T
  <2>1. n + 1 \in 1 .. Len(s) /\ (n + 1) - 1 = n /\ f[n] = g[n] /\ n + 1 \in Nat
    BY <1>3, <1>4
  <2>2. f[n + 1] = F[<<f[(n + 1) - 1], s[n + 1]>>]
    BY <2>1 DEF IsFold
  <2>3. g[n + 1] = F[<<g[(n + 1) - 1], s[n + 1]>>]
    BY <1>1, <2>1 DEF IsFold
  <2> QED
    BY <2>1, <2>2, <2>3
<1> HIDE DEF T
<1>5. \A n \in 0 .. Len(s) : n \in T
  BY <1>3, <1>4, InductionTo
<1>6. Len(s) \in 0 .. Len(s)
  BY <1>3
<1> QED
  BY <1>2, <1>5, <1>6 DEF T

LEMMA FoldedIs ==
    ASSUME NEW T, NEW S, NEW F, IsStep(F, T, S), NEW k \in T, NEW s \in Seq(S)
    PROVE  /\ Folded(F, k, s) \in T
           /\ \E f \in [0 .. Len(s) -> T] :
                 IsFold(f, F, k, s, Len(s)) /\ Folded(F, k, s) = f[Len(s)]
<1>1. PICK f \in [0 .. Len(s) -> T] : IsFold(f, F, k, s, Len(s))
  BY FoldExists
<1>2. Folded(F, k, s) = f[Len(s)]
  BY <1>1, FoldsAgree
<1>3. Len(s) \in 0 .. Len(s)
  OBVIOUS
<1> QED
  BY <1>1, <1>2, <1>3

LEMMA FoldedNone ==
    ASSUME NEW F, NEW k
    PROVE  Folded(F, k, <<>>) = k
<1> DEFINE f == [n \in {0} |-> k]
<1>1. <<>> \in Seq({}) /\ Len(<<>>) = 0
  OBVIOUS
<1>2. IsFold(f, F, k, <<>>, Len(<<>>)) /\ f[0] = k
  BY <1>1 DEF IsFold
<1> HIDE DEF f
<1> QED
  BY <1>1, <1>2, FoldsAgree

LEMMA FoldedOne ==
    ASSUME NEW F, NEW k, NEW e
    PROVE  Folded(F, k, <<e>>) = F[<<k, e>>]
<1> DEFINE f == [n \in {0, 1} |-> IF n = 0 THEN k ELSE F[<<k, e>>]]
<1>1. <<e>> \in Seq({e}) /\ Len(<<e>>) = 1 /\ <<e>>[1] = e
  OBVIOUS
<1>2. f[0] = k /\ f[1] = F[<<k, e>>]
  OBVIOUS
<1> HIDE DEF f
<1>3. IsFold(f, F, k, <<e>>, Len(<<e>>))
  BY <1>1, <1>2 DEF IsFold
<1> QED
  BY <1>1, <1>2, <1>3, FoldsAgree

\* Two sequences, one after the other.
LEMMA FoldedThen ==
    ASSUME NEW T, NEW S, NEW F, IsStep(F, T, S), NEW k \in T,
           NEW q \in Seq(S), NEW r \in Seq(S)
    PROVE  Folded(F, k, q \o r) = Folded(F, Folded(F, k, q), r)
<1>1. PICK f \in [0 .. Len(q) -> T] :
         IsFold(f, F, k, q, Len(q)) /\ Folded(F, k, q) = f[Len(q)]
  BY FoldedIs
<1>2. Folded(F, k, q) \in T
  BY FoldedIs
<1>3. PICK g \in [0 .. Len(r) -> T] :
         /\ IsFold(g, F, Folded(F, k, q), r, Len(r))
         /\ Folded(F, Folded(F, k, q), r) = g[Len(r)]
  BY <1>2, FoldedIs
<1> DEFINE s == q \o r
           h == [n \in 0 .. Len(s) |-> IF n <= Len(q) THEN f[n] ELSE g[n - Len(q)]]
<1>4. /\ Len(q) \in Nat /\ Len(r) \in Nat /\ s \in Seq(S)
      /\ Len(s) = Len(q) + Len(r)
      /\ \A n \in 1 .. Len(q) : s[n] = q[n]
      /\ \A n \in Len(q) + 1 .. Len(s) : s[n] = r[n - Len(q)]
  OBVIOUS
<1> HIDE DEF s
<1>5. g[0] = f[Len(q)]
  BY <1>1, <1>3 DEF IsFold
<1>6. h[0] = k /\ h[Len(s)] = g[Len(r)]
  BY <1>1, <1>4, <1>5 DEF IsFold
<1>7. \A n \in 1 .. Len(q) : h[n] = f[n] /\ h[n - 1] = f[n - 1]
  BY <1>4
<1>8. \A n \in Len(q) + 1 .. Len(s) :
         h[n] = g[n - Len(q)] /\ h[n - 1] = g[(n - Len(q)) - 1]
  <2> SUFFICES ASSUME NEW n \in Len(q) + 1 .. Len(s)
               PROVE  h[n] = g[n - Len(q)] /\ h[n - 1] = g[(n - Len(q)) - 1]
    OBVIOUS
  <2>1. n \in 0 .. Len(s) /\ n - 1 \in 0 .. Len(s) /\ ~(n <= Len(q))
    BY <1>4
  <2>2. h[n] = g[n - Len(q)]
    BY <2>1
  <2>3. CASE n = Len(q) + 1
    <3>1. h[n - 1] = f[Len(q)] /\ (n - Len(q)) - 1 = 0
      BY <1>4, <2>3
    <3> QED
      BY <1>5, <2>2, <3>1
  <2>4. CASE n # Len(q) + 1
    <3>1. ~(n - 1 <= Len(q)) /\ (n - 1) - Len(q) = (n - Len(q)) - 1
      BY <1>4, <2>4
    <3>2. h[n - 1] = g[(n - 1) - Len(q)]
      BY <2>1, <3>1
    <3> QED
      BY <2>2, <3>1, <3>2
  <2> QED
    BY <2>3, <2>4
<1> HIDE DEF h
<1>9. ASSUME NEW n \in 1 .. Len(s)
      PROVE  h[n] = F[<<h[n - 1], s[n]>>]
  <2>1. CASE n \in 1 .. Len(q)
    BY <1>1, <1>4, <1>7, <2>1 DEF IsFold
  <2>2. CASE n \in Len(q) + 1 .. Len(s)
    <3>1. n - Len(q) \in 1 .. Len(r)
      BY <1>4, <2>2
    <3>2. g[n - Len(q)] = F[<<g[(n - Len(q)) - 1], r[n - Len(q)]>>]
      BY <1>3, <3>1 DEF IsFold
    <3> QED
      BY <1>4, <1>8, <2>2, <3>2
  <2> QED
    BY <1>4, <2>1, <2>2
<1>10. IsFold(h, F, k, s, Len(s))
  BY <1>6, <1>9 DEF IsFold
<1>11. s \in Seq(S)
  BY <1>4
<1>12. Folded(F, k, s) = h[Len(s)]
  BY <1>10, <1>11, FoldsAgree
<1> QED
  BY <1>3, <1>6, <1>12 DEF s

\* The first element, and the last one.
LEMMA FoldedHead ==
    ASSUME NEW T, NEW S, NEW F, IsStep(F, T, S), NEW k \in T,
           NEW s \in Seq(S), s # <<>>
    PROVE  /\ F[<<k, Head(s)>>] \in T
           /\ Folded(F, k, s) = Folded(F, F[<<k, Head(s)>>], Tail(s))
<1> DEFINE first == <<Head(s)>>
           rest == Tail(s)
<1>1. Head(s) \in S /\ first \in Seq(S) /\ rest \in Seq(S) /\ s = first \o rest
  OBVIOUS
<1> F[<<k, Head(s)>>] \in T
  BY <1>1 DEF IsStep
<1>2. Folded(F, k, first) = F[<<k, Head(s)>>]
  BY FoldedOne
<1> HIDE DEF first, rest
<1>3. Folded(F, k, first \o rest) = Folded(F, Folded(F, k, first), rest)
  BY <1>1, FoldedThen
<1> QED
  BY <1>1, <1>2, <1>3 DEF rest

LEMMA FoldedLast ==
    ASSUME NEW T, NEW S, NEW F, IsStep(F, T, S), NEW k \in T,
           NEW s \in Seq(S), NEW e \in S
    PROVE  Folded(F, k, Append(s, e)) = F[<<Folded(F, k, s), e>>]
<1> DEFINE last == <<e>>
<1>1. last \in Seq(S) /\ Append(s, e) = s \o last
  OBVIOUS
<1>2. Folded(F, Folded(F, k, s), last) = F[<<Folded(F, k, s), e>>]
  BY FoldedOne
<1> HIDE DEF last
<1> QED
  BY <1>1, <1>2, FoldedThen

\* What every element keeps, the fold keeps.
LEMMA FoldedStays ==
    ASSUME NEW T, NEW S, NEW F, IsStep(F, T, S), NEW U, U \subseteq T,
           \A x \in U, e \in S : F[<<x, e>>] \in U,
           NEW k \in U, NEW s \in Seq(S)
    PROVE  Folded(F, k, s) \in U
<1>1. PICK f \in [0 .. Len(s) -> T] :
         IsFold(f, F, k, s, Len(s)) /\ Folded(F, k, s) = f[Len(s)]
  BY FoldedIs
<1> DEFINE W == {n \in Nat : f[n] \in U}
<1>2. Len(s) \in Nat /\ 0 \in W
  BY <1>1 DEF IsFold
<1>3. ASSUME NEW n \in 0 .. Len(s) - 1, n \in W
      PROVE  n + 1 \in W
  <2>1. n + 1 \in 1 .. Len(s) /\ (n + 1) - 1 = n /\ f[n] \in U /\ n + 1 \in Nat
    BY <1>2, <1>3
  <2>2. s[n + 1] \in S
    BY <2>1
  <2>3. f[n + 1] = F[<<f[(n + 1) - 1], s[n + 1]>>]
    BY <1>1, <2>1 DEF IsFold
  <2> QED
    BY <2>1, <2>2, <2>3
<1> HIDE DEF W
<1>4. \A n \in 0 .. Len(s) : n \in W
  BY <1>2, <1>3, InductionTo
<1>5. Len(s) \in 0 .. Len(s)
  BY <1>2
<1> QED
  BY <1>1, <1>4, <1>5 DEF W

\* A sequence and its two parts.
LEMMA SplitAt ==
    ASSUME NEW S, NEW s \in Seq(S), NEW n \in 0 .. Len(s)
    PROVE  /\ SubSeq(s, 1, n) \in Seq(S) /\ SubSeq(s, n + 1, Len(s)) \in Seq(S)
           /\ s = SubSeq(s, 1, n) \o SubSeq(s, n + 1, Len(s))
<1>1. Len(s) \in Nat
  OBVIOUS
<1>2. /\ 1 \in 1 .. Len(s) + 1 /\ n \in 1 - 1 .. Len(s) /\ Len(s) \in n .. Len(s)
      /\ \A i \in 1 .. Len(s) : s[i] \in S
  BY <1>1
<1>3. SubSeq(s, 1, n) \o SubSeq(s, n + 1, Len(s)) = SubSeq(s, 1, Len(s))
  BY <1>2, ConcatAdjacentSubSeq
<1>4. SubSeq(s, 1, Len(s)) = s
  BY SubSeqFull
<1>5. SubSeq(s, 1, n) \in Seq(S) /\ SubSeq(s, n + 1, Len(s)) \in Seq(S)
  BY <1>1, <1>2
<1> QED
  BY <1>3, <1>4, <1>5

-----------------------------------------------------------------------------
(* Participations *)

LEMMA NoneIsApart ==
    /\ Own \in Players
    /\ None \notin Plane /\ None \notin Controls
    /\ None \notin Participations /\ None \notin ParticipationInit
    /\ None \notin ParticipationDelta /\ None \notin Skies
BY SkyAssumption

LEMMA DefaultIsInit == DefaultInit \in ParticipationInit
BY DEF DefaultInit, ParticipationInit, Controls

LEMMA NewIs ==
    ASSUME NEW init \in ParticipationInit
    PROVE  LET new == NewParticipation(init)
           IN  /\ new \in Participations
               /\ new.plane = init.spawn /\ new.controls = init.controls
               /\ new.lastControls = init.controls
               /\ ~new.newlyAlive /\ ~new.newlyDead
BY DEF NewParticipation, ParticipationInit, Participations

LEMMA CaptureIs ==
    ASSUME NEW x \in Participations
    PROVE  /\ CaptureParticipation(x) \in ParticipationInit
           /\ CaptureParticipation(x).spawn = x.plane
           /\ CaptureParticipation(x).controls = x.controls
BY DEF CaptureParticipation, ParticipationInit, Participations

LEMMA SpawnIs ==
    ASSUME NEW x \in Participations, NEW life \in Lives
    PROVE  LET new == SpawnPlane(x, life)
           IN  /\ new \in Participations
               /\ new.plane \in Plane /\ new.plane.life = life /\ new.newlyAlive
               /\ new.controls = x.controls /\ new.lastControls = x.lastControls
               /\ new.newlyDead = x.newlyDead
BY DEF SpawnPlane, Participations, Plane

\* What neither inputs nor the tick change, and what they may do to a plane.
SameLife(old, new) ==
    /\ new.newlyAlive = old.newlyAlive
    /\ new.lastControls = old.lastControls
    /\ old.plane = None => new.plane = None
    /\ old.plane # None /\ new.plane # None => new.plane.life = old.plane.life
    /\ old.plane # None /\ new.plane = None => new.newlyDead
    /\ old.newlyDead => new.newlyDead
    /\ new.newlyDead => old.newlyDead \/ old.plane # None

LEMMA SameLifeComposes ==
    ASSUME NEW x \in Participations, NEW y \in Participations,
           NEW z \in Participations, SameLife(x, y), SameLife(y, z)
    PROVE  SameLife(x, z)
BY DEF SameLife, Participations

LEMMA ApplyInputIs ==
    ASSUME NEW x \in Participations, NEW input \in ParticipationInput
    PROVE  LET new == ApplyInput(x, input)
           IN  /\ new \in Participations
               /\ SameLife(x, new)
               /\ new.controls = IF input.controls = None THEN x.controls
                                 ELSE input.controls
<1> DEFINE new == ApplyInput(x, input)
           controls == IF input.controls = None THEN x.controls ELSE input.controls
           plane == IF x.plane = None \/ input.planeState = None THEN x.plane
                    ELSE [x.plane EXCEPT !.motion = input.planeState.motion]
<1>1. new = [x EXCEPT !.controls = controls, !.plane = plane]
  BY DEF ApplyInput, Participations
<1>2. controls \in Controls
  BY DEF ParticipationInput, Participations
<1>3. x.plane \in Plane \cup {None} /\ input.planeState \in Plane \cup {None}
  BY DEF ParticipationInput, Participations
<1>4. /\ plane \in Plane \cup {None}
      /\ x.plane = None => plane = None
      /\ x.plane # None => plane # None /\ plane.life = x.plane.life
  <2>1. CASE x.plane = None \/ input.planeState = None
    BY <1>3, <2>1
  <2>2. CASE x.plane # None /\ input.planeState # None
    <3>1. plane \in Plane /\ plane.life = x.plane.life
      BY <1>3, <2>2 DEF Plane
    <3> QED
      BY <3>1, <2>2, NoneIsApart
  <2> QED
    BY <2>1, <2>2
<1> HIDE DEF controls, plane, new
<1>5. /\ new \in Participations
      /\ new.controls = controls /\ new.plane = plane
      /\ new.lastControls = x.lastControls
      /\ new.newlyAlive = x.newlyAlive /\ new.newlyDead = x.newlyDead
  BY <1>1, <1>2, <1>4 DEF Participations
<1>6. SameLife(x, new)
  BY <1>4, <1>5 DEF SameLife
<1> QED
  BY <1>5, <1>6 DEF controls, new

LEMMA ObeySuicideIs ==
    ASSUME NEW x \in Participations
    PROVE  /\ ObeySuicide(x) \in Participations
           /\ SameLife(x, ObeySuicide(x))
           /\ ObeySuicide(x).controls = x.controls
BY DEF ObeySuicide, Suicide, Participations, SameLife

LEMMA AnnouncedIs ==
    ASSUME NEW x \in Participations
    PROVE  LET new == Announced(x)
           IN  /\ new \in Participations
               /\ new.plane = x.plane /\ new.controls = x.controls
               /\ new.lastControls = x.controls
               /\ new.newlyAlive = (x.newlyAlive /\ x.plane = None)
               /\ new.newlyDead = (x.newlyDead /\ x.plane # None)
BY DEF Announced, Participations

\* The delta of p's participation that is sent to the client of Own.
DeltaFor(p, x) ==
    IF p = Own THEN RespectClientAuthority(DeltaOfParticipation(x))
    ELSE DeltaOfParticipation(x)

LEMMA DeltaForIs ==
    ASSUME NEW p, NEW x \in Participations
    PROVE  LET delta == DeltaFor(p, x)
           IN  /\ delta \in ParticipationDelta
               /\ delta.spawn = IF x.newlyAlive THEN x.plane ELSE None
               /\ p = Own => delta.state = None /\ delta.controls = None
               /\ (delta.state = None /\ delta.serverState = None)
                    = (x.newlyAlive \/ x.plane = None)
               /\ p # Own => delta.controls = IF x.controls = x.lastControls
                                              THEN None ELSE x.controls
<1> DEFINE d == DeltaOfParticipation(x)
<1>1. /\ d \in ParticipationDelta
      /\ d.spawn = IF x.newlyAlive THEN x.plane ELSE None
      /\ d.state = IF x.newlyAlive THEN None ELSE x.plane
      /\ d.serverState = None
      /\ d.controls = IF x.controls = x.lastControls THEN None ELSE x.controls
  BY DEF DeltaOfParticipation, ParticipationDelta, Participations
<1> HIDE DEF d
<1>2. LET r == RespectClientAuthority(d)
      IN  /\ r \in ParticipationDelta
          /\ r.spawn = d.spawn /\ r.state = None
          /\ r.serverState = d.state /\ r.controls = None
  BY <1>1 DEF RespectClientAuthority, ParticipationDelta
<1> QED
  BY <1>1, <1>2 DEF DeltaFor, d

LEMMA PlaneAfterIs ==
    ASSUME NEW plane \in Plane \cup {None}, NEW delta \in ParticipationDelta
    PROVE  LET new == PlaneAfter(plane, delta)
           IN  /\ new \in Plane \cup {None}
               /\ new = None <=>
                    plane = None \/ (delta.state = None /\ delta.serverState = None)
               /\ new # None => plane # None /\ new.life = plane.life
               /\ delta.state = None => new \in {None, plane}
<1>1. CASE plane = None \/ (delta.state = None /\ delta.serverState = None)
  BY <1>1 DEF PlaneAfter
<1>2. CASE plane # None /\ delta.state # None
  <2>1. plane \in Plane /\ delta.state \in Plane
    BY <1>2 DEF ParticipationDelta
  <2>2. PlaneAfter(plane, delta) = [plane EXCEPT !.motion = delta.state.motion]
    BY <1>2 DEF PlaneAfter
  <2>3. PlaneAfter(plane, delta) \in Plane /\ PlaneAfter(plane, delta).life = plane.life
    BY <2>1, <2>2 DEF Plane
  <2> QED
    BY <1>2, <2>3, NoneIsApart
<1>3. CASE plane # None /\ delta.state = None /\ delta.serverState # None
  BY <1>3 DEF PlaneAfter
<1> QED
  BY <1>1, <1>2, <1>3

LEMMA ApplyDeltaIs ==
    ASSUME NEW x \in Participations, NEW delta \in ParticipationDelta
    PROVE  LET new == ApplyParticipationDelta(x, delta)
           IN  /\ new \in Participations
               /\ new.plane = IF delta.spawn # None THEN delta.spawn
                              ELSE PlaneAfter(x.plane, delta)
               /\ new.controls = IF delta.controls = None THEN x.controls
                                 ELSE delta.controls
               /\ new.lastControls = x.lastControls
<1> DEFINE plane == IF delta.spawn # None THEN delta.spawn
                    ELSE PlaneAfter(x.plane, delta)
           controls == IF delta.controls = None THEN x.controls ELSE delta.controls
<1>1. ApplyParticipationDelta(x, delta) = [x EXCEPT !.plane = plane, !.controls = controls]
  BY DEF ApplyParticipationDelta, Participations
<1>2. x.plane \in Plane \cup {None} /\ delta.spawn \in Plane \cup {None}
  BY DEF Participations, ParticipationDelta
<1>3. plane \in Plane \cup {None}
  BY <1>2, PlaneAfterIs
<1>4. controls \in Controls
  BY DEF Participations, ParticipationDelta
<1> HIDE DEF plane, controls
<1> QED
  BY <1>1, <1>3, <1>4 DEF Participations, plane, controls

LEMMA InputIs ==
    ASSUME NEW x \in Participations
    PROVE  /\ CollectedInput(x) \in ParticipationInput
           /\ CollectedInput(x).controls = IF x.controls = x.lastControls
                                           THEN None ELSE x.controls
           /\ InputSent(x) \in Participations
           /\ InputSent(x).lastControls = x.controls
           /\ InputSent(x).plane = x.plane
BY DEF CollectedInput, InputSent, Participations, ParticipationInput

-----------------------------------------------------------------------------
(* The client *)

DeltaMap == [Players -> ParticipationDelta \cup {None}]

\* A client whose sky has a participation for each player of its arena.
Proper == {c \in Client : c.sky # None =>
              \A p \in Players : (c.sky[p] # None) = (p \in c.arena)}

WithSky == {c \in Proper : c.sky # None}

LEMMA NewSkyIs ==
    ASSUME NEW arena \in SUBSET Players,
           NEW init \in [Players -> ParticipationInit \cup {None}]
    PROVE  /\ NewSky(arena, init) \in Skies
           /\ \A p \in Players : NewSky(arena, init)[p] =
                IF p \in arena
                THEN NewParticipation(IF init[p] = None THEN DefaultInit ELSE init[p])
                ELSE None
<1>1. ASSUME NEW p \in Players
      PROVE  NewParticipation(IF init[p] = None THEN DefaultInit ELSE init[p])
                \in Participations
  BY NewIs, DefaultIsInit
<1> QED
  BY <1>1 DEF NewSky, MapOf, Skies

LEMMA SetPlayerIs ==
    ASSUME NEW sky \in Skies \cup {None}, NEW p \in Players,
           NEW value \in Participations \cup {None}
    PROVE  LET new == SetPlayer(sky, p, value)
           IN  /\ new \in Skies \cup {None}
               /\ new = None <=> sky = None
               /\ sky # None => \A q \in Players :
                    new[q] = IF q = p THEN value ELSE sky[q]
<1>1. CASE sky = None
  BY <1>1 DEF SetPlayer
<1>2. CASE sky # None
  <2>1. SetPlayer(sky, p, value) = [sky EXCEPT ![p] = value]
    BY <1>2 DEF SetPlayer
  <2>2. SetPlayer(sky, p, value) \in Skies
    BY <1>2, <2>1 DEF Skies
  <2> QED
    BY <1>2, <2>1, <2>2, NoneIsApart DEF Skies
<1> QED
  BY <1>1, <1>2

\* processPacket, one branch after the other.
LEMMA ReceiveInit ==
    ASSUME NEW c \in Proper, NEW packet \in DownPacket, packet.type = "InitSky"
    PROVE  LET r == Receive(c, packet)
           IN  /\ r \in Proper
               /\ r.sky = NewSky(c.arena, packet.sky) /\ r.sky # None
               /\ r.arena = c.arena /\ r.cache = c.cache /\ r.overtaken = c.overtaken
<1> DEFINE sky == NewSky(c.arena, packet.sky)
           r == Receive(c, packet)
<1>1. c \in Client /\ c.arena \in SUBSET Players
  BY DEF Proper, Client
<1>2. packet.sky \in [Players -> ParticipationInit \cup {None}]
  BY DEF DownPacket
<1>3. sky \in Skies /\ \A p \in Players : (sky[p] # None) = (p \in c.arena)
  <2>1. ASSUME NEW p \in c.arena
        PROVE  sky[p] # None
    <3>1. NewParticipation(IF packet.sky[p] = None THEN DefaultInit ELSE packet.sky[p])
             \in Participations
      BY <1>1, <1>2, NewIs, DefaultIsInit
    <3> QED
      BY <1>1, <1>2, <3>1, NewSkyIs, NoneIsApart
  <2> QED
    BY <1>1, <1>2, <2>1, NewSkyIs
<1>4. r = [c EXCEPT !.sky = sky]
  BY DEF Receive
<1> HIDE DEF sky
<1>5. /\ r \in Client /\ r.sky = sky /\ r.arena = c.arena
      /\ r.cache = c.cache /\ r.overtaken = c.overtaken
  BY <1>1, <1>3, <1>4 DEF Client
<1> HIDE DEF r
<1>6. r \in Proper /\ r.sky # None
  BY <1>3, <1>5, NoneIsApart DEF Proper
<1> QED
  BY <1>5, <1>6 DEF r, sky

LEMMA ReceiveDelta ==
    ASSUME NEW c \in Proper, NEW packet \in DownPacket, packet.type = "DeltaSky"
    PROVE  LET r == Receive(c, packet)
           IN  /\ r \in Proper /\ packet.delta \in DeltaMap
               /\ c.sky = None => r = c
               /\ r.cache = IF c.sky = None THEN c.cache ELSE Append(c.cache, packet.delta)
               /\ r.sky = c.sky /\ r.arena = c.arena /\ r.overtaken = c.overtaken
<1> DEFINE r == Receive(c, packet)
           longer == Append(c.cache, packet.delta)
<1>1. c \in Client /\ c.cache \in Seq(DeltaMap)
  BY DEF Proper, Client, DeltaMap
<1>2. packet.delta \in DeltaMap
  BY DEF DownPacket, DeltaMap
<1>3. longer \in Seq(DeltaMap)
  BY <1>1, <1>2
<1>4. r = IF c.sky = None THEN c ELSE [c EXCEPT !.cache = longer]
  BY DEF Receive, Client, Proper
<1> HIDE DEF longer
<1>5. r \in Client /\ r.sky = c.sky /\ r.arena = c.arena /\ r.overtaken = c.overtaken
      /\ r.cache = IF c.sky = None THEN c.cache ELSE longer
  BY <1>1, <1>3, <1>4 DEF Client, DeltaMap
<1>6. c.sky = None => r = c
  BY <1>4
<1> HIDE DEF r
<1>7. r \in Proper
  BY <1>5 DEF Proper
<1> QED
  BY <1>2, <1>5, <1>6, <1>7 DEF r, longer

LEMMA ReceivePlayer ==
    ASSUME NEW c \in Proper, NEW packet \in DownPacket, packet.type \in {"Quit", "Join"}
    PROVE  LET r == Receive(c, packet)
               q == packet.pid
           IN  /\ r \in Proper /\ q \in Others
               /\ r.arena = IF packet.type = "Quit" THEN c.arena \ {q}
                            ELSE c.arena \cup {q}
               /\ r.sky = SetPlayer(c.sky, q, IF packet.type = "Quit" THEN None
                                              ELSE NewParticipation(DefaultInit))
               /\ r.cache = c.cache
               /\ r.overtaken = IF packet.type = "Quit" /\ InCache(c, q)
                                THEN c.overtaken \cup {q} ELSE c.overtaken
<1> DEFINE r == Receive(c, packet)
           q == packet.pid
           value == IF packet.type = "Quit" THEN None ELSE NewParticipation(DefaultInit)
           sky == SetPlayer(c.sky, q, value)
           arena == IF packet.type = "Quit" THEN c.arena \ {q} ELSE c.arena \cup {q}
           overtaken == IF packet.type = "Quit" /\ InCache(c, q)
                        THEN c.overtaken \cup {q} ELSE c.overtaken
<1>1. c \in Client /\ c.arena \in SUBSET Players /\ c.sky \in Skies \cup {None}
  BY DEF Proper, Client
<1>2. q \in Others /\ q \in Players
  BY DEF DownPacket, Others
<1>3. /\ value \in Participations \cup {None}
      /\ value = None <=> packet.type = "Quit"
  BY NewIs, DefaultIsInit, NoneIsApart
<1> HIDE DEF value
<1>4. /\ sky \in Skies \cup {None}
      /\ sky = None <=> c.sky = None
      /\ c.sky # None => \A p \in Players : sky[p] = IF p = q THEN value ELSE c.sky[p]
  BY <1>1, <1>2, <1>3, SetPlayerIs
<1>5. r = [c EXCEPT !.arena = arena, !.sky = sky, !.overtaken = overtaken]
  <2>1. CASE packet.type = "Quit"
    BY <1>1, <2>1 DEF Receive, value, Client
  <2>2. CASE packet.type = "Join"
    BY <1>1, <2>2 DEF Receive, value, Client
  <2> QED
    BY <2>1, <2>2
<1>6. arena \in SUBSET Players /\ overtaken \in SUBSET Players
  BY <1>1, <1>2 DEF Client
<1>7. \A p \in Players : (p \in arena) = IF p = q THEN packet.type = "Join" ELSE p \in c.arena
  BY <1>2
<1> HIDE DEF sky, arena, overtaken
<1>8. /\ r \in Client /\ r.sky = sky /\ r.arena = arena
      /\ r.cache = c.cache /\ r.overtaken = overtaken
  BY <1>1, <1>4, <1>5, <1>6 DEF Client
<1> HIDE DEF r
<1>9. r \in Proper
  <2> SUFFICES ASSUME r.sky # None, NEW p \in Players
               PROVE  (sky[p] # None) = (p \in arena)
    BY <1>8 DEF Proper
  <2>1. c.sky # None /\ (c.sky[p] # None) = (p \in c.arena)
    BY <1>4, <1>8 DEF Proper
  <2> QED
    BY <1>3, <1>4, <1>7, <2>1
<1> QED
  BY <1>2, <1>8, <1>9 DEF r, q, sky, value, arena, overtaken

\* Joins and quits leave the client's own participation alone.
LEMMA ReceivePlayerOwn ==
    ASSUME NEW c \in Proper, NEW packet \in DownPacket, packet.type \in {"Quit", "Join"}
    PROVE  LET r == Receive(c, packet)
           IN  /\ r.sky = None <=> c.sky = None
               /\ c.sky # None => r.sky[Own] = c.sky[Own]
<1> DEFINE q == packet.pid
           value == IF packet.type = "Quit" THEN None ELSE NewParticipation(DefaultInit)
<1>1. q \in Others /\ Receive(c, packet).sky = SetPlayer(c.sky, q, value)
  BY ReceivePlayer
<1>2. /\ q \in Players /\ q # Own /\ c.sky \in Skies \cup {None}
      /\ Own \in Players
  BY <1>1, NoneIsApart DEF Others, Proper, Client
<1>3. value \in Participations \cup {None}
  BY NewIs, DefaultIsInit
<1> HIDE DEF value, q
<1> DEFINE sky == c.sky
<1>4. sky \in Skies \cup {None} /\ q \in Players
  BY <1>2
<1> HIDE DEF sky
<1>5. /\ SetPlayer(sky, q, value) = None <=> sky = None
      /\ sky # None => \A p \in Players :
            SetPlayer(sky, q, value)[p] = IF p = q THEN value ELSE sky[p]
  BY <1>3, <1>4, SetPlayerIs
<1> QED
  BY <1>1, <1>2, <1>5 DEF sky

LEMMA ReceiveKeeps ==
    ASSUME NEW c \in Proper, NEW packet \in DownPacket
    PROVE  /\ Receive(c, packet) \in Proper
           /\ c.overtaken \subseteq Receive(c, packet).overtaken
           /\ c.sky # None => Receive(c, packet).sky # None
<1>1. CASE packet.type = "InitSky"
  BY <1>1, ReceiveInit
<1>2. CASE packet.type = "DeltaSky"
  BY <1>2, ReceiveDelta
<1>3. CASE packet.type \in {"Quit", "Join"}
  <2>1. c.sky \in Skies \cup {None} /\ packet.pid \in Players
    BY <1>3 DEF Proper, Client, DownPacket, Others
  <2> DEFINE value == IF packet.type = "Quit" THEN None ELSE NewParticipation(DefaultInit)
             r == Receive(c, packet)
  <2>2. value \in Participations \cup {None}
    BY NewIs, DefaultIsInit
  <2>3. /\ r \in Proper /\ c.overtaken \subseteq r.overtaken
        /\ r.sky = SetPlayer(c.sky, packet.pid, value)
    BY <1>3, ReceivePlayer
  <2> HIDE DEF value
  <2>4. SetPlayer(c.sky, packet.pid, value) = None <=> c.sky = None
    BY <2>1, <2>2, SetPlayerIs
  <2> QED
    BY <2>3, <2>4
<1> QED
  BY <1>1, <1>2, <1>3 DEF DownPacket

LEMMA ApplySkyDeltaIs ==
    ASSUME NEW c \in WithSky, NEW delta \in DeltaMap
    PROVE  LET r == ApplySkyDelta(c, delta)
           IN  /\ r \in WithSky
               /\ r.arena = c.arena /\ r.cache = c.cache /\ r.overtaken = c.overtaken
               /\ \A p \in Players : r.sky[p] =
                    IF p \notin c.arena \/ delta[p] = None THEN c.sky[p]
                    ELSE ApplyParticipationDelta(c.sky[p], delta[p])
<1> DEFINE r == ApplySkyDelta(c, delta)
           sky == [p \in Players |->
                     IF p \notin c.arena THEN None
                     ELSE IF delta[p] = None THEN c.sky[p]
                     ELSE ApplyParticipationDelta(c.sky[p], delta[p])]
<1>1. /\ c \in Client /\ c.sky \in Skies /\ c.arena \in SUBSET Players
      /\ \A p \in Players : (c.sky[p] # None) = (p \in c.arena)
  BY DEF WithSky, Proper, Client
<1>2. r = [c EXCEPT !.sky = sky]
  BY <1>1 DEF ApplySkyDelta, MapOf
<1>3. ASSUME NEW p \in Players
      PROVE  /\ sky[p] \in Participations \cup {None}
             /\ (sky[p] # None) = (p \in c.arena)
  <2>1. c.sky[p] \in Participations \cup {None} /\ delta[p] \in ParticipationDelta \cup {None}
    BY <1>1 DEF Skies, DeltaMap
  <2>2. CASE p \notin c.arena
    BY <2>2
  <2>3. CASE p \in c.arena /\ delta[p] = None
    BY <1>1, <2>1, <2>3
  <2>4. CASE p \in c.arena /\ delta[p] # None
    <3>1. c.sky[p] \in Participations /\ delta[p] \in ParticipationDelta
      BY <1>1, <2>1, <2>4
    <3>2. ApplyParticipationDelta(c.sky[p], delta[p]) \in Participations
      BY <3>1, ApplyDeltaIs
    <3> QED
      BY <2>4, <3>2, NoneIsApart
  <2> QED
    BY <2>2, <2>3, <2>4
<1>4. sky \in Skies
  BY <1>3 DEF Skies
<1>5. \A p \in Players : sky[p] =
         IF p \notin c.arena \/ delta[p] = None THEN c.sky[p]
         ELSE ApplyParticipationDelta(c.sky[p], delta[p])
  BY <1>1
<1> HIDE DEF sky
<1>6. /\ r \in Client /\ r.sky = sky /\ r.arena = c.arena
      /\ r.cache = c.cache /\ r.overtaken = c.overtaken
  BY <1>1, <1>2, <1>4 DEF Client
<1> HIDE DEF r
<1>7. r \in WithSky
  BY <1>3, <1>4, <1>6, NoneIsApart DEF WithSky, Proper
<1> QED
  BY <1>5, <1>6, <1>7 DEF r

-----------------------------------------------------------------------------
(* The model's recursive functions are what they are written as *)

LEMMA ApplyInputsIs ==
    ASSUME NEW x \in Participations, NEW some \in Seq(ParticipationInput)
    PROVE  \E f \in [0 .. Len(some) -> Participations] :
              /\ f[0] = x
              /\ \A i \in 1 .. Len(some) : f[i] = ApplyInput(f[i - 1], some[i])
              /\ ApplyInputs(x, some) = f[Len(some)]
<1> DEFINE F == [e \in Participations \X ParticipationInput |-> ApplyInput(e[1], e[2])]
           N == Len(some)
           Follows(f) == f = [n \in 0 .. N |-> IF n = 0 THEN x
                                               ELSE ApplyInput(f[n - 1], some[n])]
<1>1. \A y \in Participations, e \in ParticipationInput :
         F[<<y, e>>] = ApplyInput(y, e) /\ ApplyInput(y, e) \in Participations
  BY ApplyInputIs
<1>2. IsStep(F, Participations, ParticipationInput)
  BY ApplyInputIs DEF IsStep
<1> HIDE DEF F
<1>3. PICK f \in [0 .. N -> Participations] : IsFold(f, F, x, some, N)
  BY <1>2, FoldExists
<1>4. N \in Nat /\ \A i \in 1 .. N : some[i] \in ParticipationInput /\ i - 1 \in 0 .. N
  OBVIOUS
<1>5. f[0] = x /\ \A i \in 1 .. N : f[i] = ApplyInput(f[i - 1], some[i])
  BY <1>1, <1>3, <1>4 DEF IsFold
<1>6. Follows(f)
  BY <1>4, <1>5
<1> DEFINE g == CHOOSE g : Follows(g)
<1>7. Follows(g) /\ ApplyInputs(x, some) = g[N]
  BY <1>6 DEF ApplyInputs
<1> HIDE DEF g
<1>8. g[0] = x /\ \A i \in 1 .. N : g[i] = ApplyInput(g[i - 1], some[i])
  BY <1>4, <1>7
<1>9. \A n \in 0 .. N : n \in {i \in 0 .. N : g[i] \in Participations}
  <2> DEFINE T == {i \in 0 .. N : g[i] \in Participations}
  <2>1. 0 \in T
    BY <1>4, <1>8
  <2>2. ASSUME NEW n \in 0 .. N - 1, n \in T
        PROVE  n + 1 \in T
    <3>1. n + 1 \in 1 .. N /\ (n + 1) - 1 = n /\ n + 1 \in 0 .. N
      BY <1>4
    <3>2. g[n] \in Participations /\ some[n + 1] \in ParticipationInput
      BY <1>4, <2>2, <3>1
    <3>3. g[n + 1] = ApplyInput(g[n], some[n + 1])
      BY <1>8, <3>1
    <3> QED
      BY <1>1, <3>1, <3>2, <3>3
  <2> HIDE DEF T
  <2>3. \A n \in 0 .. N : n \in T
    BY <1>4, <2>1, <2>2, InductionTo
  <2> QED
    BY <2>3 DEF T
<1>10. g \in [0 .. N -> Participations]
  BY <1>7, <1>9
<1> QED
  BY <1>7, <1>8, <1>10

LEMMA ReceivedIs ==
    ASSUME NEW c \in Proper, NEW packets \in Seq(DownPacket)
    PROVE  \E f \in [0 .. Len(packets) -> Proper] :
              /\ f[0] = c
              /\ \A i \in 1 .. Len(packets) : f[i] = Receive(f[i - 1], packets[i])
              /\ Received(c, packets) = f[Len(packets)]
<1> DEFINE F == [e \in Proper \X DownPacket |-> Receive(e[1], e[2])]
           N == Len(packets)
           Follows(f) == f = [n \in 0 .. N |-> IF n = 0 THEN c
                                               ELSE Receive(f[n - 1], packets[n])]
<1>1. \A y \in Proper, e \in DownPacket :
         F[<<y, e>>] = Receive(y, e) /\ Receive(y, e) \in Proper
  BY ReceiveKeeps
<1>2. IsStep(F, Proper, DownPacket)
  BY ReceiveKeeps DEF IsStep
<1> HIDE DEF F
<1>3. PICK f \in [0 .. N -> Proper] : IsFold(f, F, c, packets, N)
  BY <1>2, FoldExists
<1>4. N \in Nat /\ \A i \in 1 .. N : packets[i] \in DownPacket /\ i - 1 \in 0 .. N
  OBVIOUS
<1>5. f[0] = c /\ \A i \in 1 .. N : f[i] = Receive(f[i - 1], packets[i])
  BY <1>1, <1>3, <1>4 DEF IsFold
<1>6. Follows(f)
  BY <1>4, <1>5
<1> DEFINE g == CHOOSE g : Follows(g)
<1>7. Follows(g) /\ Received(c, packets) = g[N]
  BY <1>6 DEF Received
<1> HIDE DEF g
<1>8. g[0] = c /\ \A i \in 1 .. N : g[i] = Receive(g[i - 1], packets[i])
  BY <1>4, <1>7
<1> DEFINE T == {i \in 0 .. N : g[i] \in Proper}
<1>9. 0 \in T
  BY <1>4, <1>8
<1>10. ASSUME NEW n \in 0 .. N - 1, n \in T
       PROVE  n + 1 \in T
  <2>1. n + 1 \in 1 .. N /\ (n + 1) - 1 = n /\ n + 1 \in 0 .. N
    BY <1>4
  <2>2. g[n] \in Proper /\ packets[n + 1] \in DownPacket
    BY <1>4, <1>10, <2>1
  <2>3. g[n + 1] = Receive(g[n], packets[n + 1])
    BY <1>8, <2>1
  <2> QED
    BY <1>1, <2>1, <2>2, <2>3
<1> HIDE DEF T
<1>11. \A n \in 0 .. N : n \in T
  BY <1>4, <1>9, <1>10, InductionTo
<1>12. g \in [0 .. N -> Proper]
  BY <1>7, <1>11 DEF T
<1> QED
  BY <1>7, <1>8, <1>12

\* What is left when the first n deltas of the cache have been let go.
Rest(c, n) == SubSeq(c.cache, n + 1, Len(c.cache))

LEMMA ReleaseIs ==
    ASSUME NEW c \in WithSky, NEW n \in 0 .. Len(c.cache)
    PROVE  /\ Rest(c, n) \in Seq(DeltaMap)
           /\ \E f \in [0 .. n -> WithSky] :
              /\ f[0].sky = c.sky
              /\ \A i \in 1 .. n : f[i] = ApplySkyDelta(f[i - 1], c.cache[i])
              /\ \A i \in 0 .. n : /\ f[i].arena = c.arena /\ f[i].cache = Rest(c, n)
                                   /\ f[i].overtaken = c.overtaken
              /\ Release(c, n) = f[n]
<1> DEFINE F == [e \in WithSky \X DeltaMap |-> ApplySkyDelta(e[1], e[2])]
           start == [c EXCEPT !.cache = Rest(c, n)]
           gone == SubSeq(c.cache, 1, n)
           Follows(f) == f = [i \in 0 .. n |-> IF i = 0 THEN start
                                               ELSE ApplySkyDelta(f[i - 1], c.cache[i])]
<1>1. c \in Client /\ c.cache \in Seq(DeltaMap)
  BY DEF WithSky, Proper, Client, DeltaMap
<1>2. /\ n \in Nat /\ gone \in Seq(DeltaMap) /\ Len(gone) = n
      /\ \A i \in 1 .. n : /\ gone[i] = c.cache[i] /\ c.cache[i] \in DeltaMap
                           /\ i - 1 \in 0 .. n
  BY <1>1
<1>3. Rest(c, n) \in Seq(DeltaMap)
  BY <1>1 DEF Rest
<1>4. /\ start \in WithSky /\ start.sky = c.sky /\ start.arena = c.arena
      /\ start.cache = Rest(c, n) /\ start.overtaken = c.overtaken
  <2>1. /\ start \in Client /\ start.sky = c.sky /\ start.arena = c.arena
        /\ start.cache = Rest(c, n) /\ start.overtaken = c.overtaken
    BY <1>1, <1>3 DEF Client, DeltaMap
  <2> HIDE DEF start
  <2> QED
    BY <2>1 DEF WithSky, Proper
<1>5. \A y \in WithSky, e \in DeltaMap :
         F[<<y, e>>] = ApplySkyDelta(y, e) /\ ApplySkyDelta(y, e) \in WithSky
  BY ApplySkyDeltaIs
<1>6. IsStep(F, WithSky, DeltaMap)
  BY ApplySkyDeltaIs DEF IsStep
<1> HIDE DEF F, gone, start
<1>7. PICK f \in [0 .. Len(gone) -> WithSky] : IsFold(f, F, start, gone, Len(gone))
  BY <1>2, <1>4, <1>6, FoldExists
<1>8. f[0] = start /\ \A i \in 1 .. n : f[i] = ApplySkyDelta(f[i - 1], c.cache[i])
  <2>1. f[0] = start /\ \A i \in 1 .. n : f[i] = F[<<f[i - 1], gone[i]>>]
    BY <1>2, <1>7 DEF IsFold
  <2>2. ASSUME NEW i \in 1 .. n
        PROVE  f[i] = ApplySkyDelta(f[i - 1], c.cache[i])
    <3>1. f[i - 1] \in WithSky
      BY <1>2, <1>7
    <3>2. f[i] = F[<<f[i - 1], c.cache[i]>>] /\ c.cache[i] \in DeltaMap
      BY <1>2, <2>1
    <3> QED
      BY <1>5, <3>1, <3>2
  <2> QED
    BY <2>1, <2>2
<1>9. Follows(f)
  BY <1>2, <1>7, <1>8
<1> DEFINE g == CHOOSE g : Follows(g)
<1>10. Follows(g) /\ Release(c, n) = g[n]
  BY <1>9 DEF Release, Rest, start
<1> HIDE DEF g
<1>11. g[0] = start /\ \A i \in 1 .. n : g[i] = ApplySkyDelta(g[i - 1], c.cache[i])
  BY <1>2, <1>10
<1> DEFINE T == {i \in 0 .. n : /\ g[i] \in WithSky /\ g[i].arena = c.arena
                                /\ g[i].cache = Rest(c, n)
                                /\ g[i].overtaken = c.overtaken}
<1>12. 0 \in T
  BY <1>2, <1>4, <1>11
<1>13. ASSUME NEW i \in 0 .. n - 1, i \in T
       PROVE  i + 1 \in T
  <2>1. i + 1 \in 1 .. n /\ (i + 1) - 1 = i /\ i + 1 \in 0 .. n
    BY <1>2
  <2>2. g[i] \in WithSky /\ c.cache[i + 1] \in DeltaMap
    BY <1>2, <1>13, <2>1
  <2>3. g[i + 1] = ApplySkyDelta(g[i], c.cache[i + 1])
    BY <1>11, <2>1
  <2> QED
    BY <1>13, <2>1, <2>2, <2>3, ApplySkyDeltaIs
<1> HIDE DEF T
<1>14. \A i \in 0 .. n : i \in T
  BY <1>2, <1>12, <1>13, InductionTo
<1>15. g \in [0 .. n -> WithSky]
  BY <1>10, <1>14 DEF T
<1> QED
  BY <1>3, <1>4, <1>10, <1>11, <1>14, <1>15 DEF T

LEMMA ReleaseKeeps ==
    ASSUME NEW c \in WithSky, NEW n \in 0 .. Len(c.cache)
    PROVE  LET r == Release(c, n)
           IN  /\ r \in WithSky /\ r.arena = c.arena
               /\ r.cache = Rest(c, n) /\ r.overtaken = c.overtaken
<1>1. PICK f \in [0 .. n -> WithSky] :
         /\ \A i \in 0 .. n : /\ f[i].arena = c.arena /\ f[i].cache = Rest(c, n)
                              /\ f[i].overtaken = c.overtaken
         /\ Release(c, n) = f[n]
  BY ReleaseIs
<1>2. n \in 0 .. n
  BY DEF WithSky, Proper, Client
<1> QED
  BY <1>1, <1>2

LEMMA ApplyInputsKeep ==
    ASSUME NEW x \in Participations, NEW some \in Seq(ParticipationInput)
    PROVE  ApplyInputs(x, some) \in Participations /\ SameLife(x, ApplyInputs(x, some))
<1>1. PICK f \in [0 .. Len(some) -> Participations] :
         /\ f[0] = x
         /\ \A i \in 1 .. Len(some) : f[i] = ApplyInput(f[i - 1], some[i])
         /\ ApplyInputs(x, some) = f[Len(some)]
  BY ApplyInputsIs
<1> DEFINE N == Len(some)
           T == {n \in 0 .. N : SameLife(x, f[n])}
<1>2. N \in Nat /\ \A i \in 1 .. N : some[i] \in ParticipationInput
  OBVIOUS
<1>3. 0 \in T
  BY <1>1, <1>2 DEF SameLife
<1>4. ASSUME NEW n \in 0 .. N - 1, n \in T
      PROVE  n + 1 \in T
  <2>1. n + 1 \in 1 .. N /\ (n + 1) - 1 = n /\ n + 1 \in 0 .. N /\ n \in 0 .. N
    BY <1>2
  <2>2. f[n + 1] = ApplyInput(f[n], some[n + 1]) /\ some[n + 1] \in ParticipationInput
    BY <1>1, <1>2, <2>1
  <2>3. f[n] \in Participations /\ f[n + 1] \in Participations
    BY <1>1, <2>1
  <2>4. SameLife(x, f[n]) /\ SameLife(f[n], f[n + 1])
    BY <1>4, <2>2, <2>3, ApplyInputIs
  <2> QED
    BY <2>1, <2>3, <2>4, SameLifeComposes
<1> HIDE DEF T
<1>5. \A n \in 0 .. N : n \in T
  BY <1>2, <1>3, <1>4, InductionTo
<1>6. N \in 0 .. N
  BY <1>2
<1> QED
  BY <1>1, <1>5, <1>6 DEF T

-----------------------------------------------------------------------------
(* The server *)

\* What a tick of the server makes of a participation.
LEMMA TickedIs ==
    ASSUME TypeOK, NEW n \in 0 .. Len(inputs), NEW news \in [Others \cap Members -> Controls]
    PROVE  LET after == Ticked(n, news)
           IN  /\ after \in Skies
               /\ \A p \in Members : after[p] \in Participations /\ SameLife(part[p], after[p])
               /\ \A p \in Players \ Members : after[p] = None
               /\ after[Own].controls = ApplyInputs(part[Own], SubSeq(inputs, 1, n)).controls
<1> DEFINE first == SubSeq(inputs, 1, n)
           received(p) == IF p = Own THEN ApplyInputs(part[p], first)
                          ELSE [part[p] EXCEPT !.controls = news[p]]
           after == Ticked(n, news)
<1>1. first \in Seq(ParticipationInput)
  BY DEF TypeOK
<1>2. after = [p \in Players |-> IF p \in Members THEN ObeySuicide(received(p)) ELSE None]
  BY DEF Ticked, MapOf
<1>3. Own \in Members /\ \A p \in Members : p \in Players /\ part[p] \in Participations
  BY NoneIsApart DEF TypeOK, Members, Skies
<1> HIDE DEF first, after
<1>4. ASSUME NEW p \in Members
      PROVE  received(p) \in Participations /\ SameLife(part[p], received(p))
  <2>1. CASE p = Own
    BY <1>1, <1>3, <2>1, ApplyInputsKeep
  <2>2. CASE p # Own
    <3>1. news[p] \in Controls
      BY <1>3, <2>2 DEF Others
    <3>2. received(p) = [part[p] EXCEPT !.controls = news[p]]
      BY <2>2
    <3> HIDE DEF received
    <3> QED
      BY <1>3, <3>1, <3>2 DEF Participations, SameLife
  <2> QED
    BY <2>1, <2>2
<1>5. received(Own) = ApplyInputs(part[Own], first)
  OBVIOUS
<1> HIDE DEF received
<1>6. ASSUME NEW p \in Members
      PROVE  /\ after[p] \in Participations /\ SameLife(part[p], after[p])
             /\ after[p].controls = received(p).controls
  <2>1. after[p] = ObeySuicide(received(p))
    BY <1>2, <1>3
  <2> QED
    BY <1>3, <1>4, <2>1, ObeySuicideIs, SameLifeComposes
<1>7. \A p \in Players \ Members : after[p] = None
  BY <1>2
<1>8. after \in Skies
  BY <1>2, <1>6, <1>7 DEF Skies
<1> QED
  BY <1>3, <1>5, <1>6, <1>7, <1>8 DEF first, after

LEMMA CollectedIs ==
    ASSUME NEW after \in Skies, \A p \in Members : after[p] \in Participations
    PROVE  /\ Collected(after) \in Skies
           /\ \A p \in Members : Collected(after)[p] = Announced(after[p])
           /\ \A p \in Players \ Members : Collected(after)[p] = None
BY AnnouncedIs DEF Collected, MapOf, Members, Skies

LEMMA SkyDeltaIs ==
    ASSUME NEW parts \in Skies
    PROVE  /\ SkyDelta(parts) \in DeltaMap
           /\ \A p \in Players : SkyDelta(parts)[p] =
                 IF parts[p] # None /\ Announces(parts[p])
                 THEN DeltaFor(p, parts[p]) ELSE None
<1>1. \A p \in Players : SkyDelta(parts)[p] =
         IF parts[p] # None /\ Announces(parts[p])
         THEN DeltaFor(p, parts[p]) ELSE None
  BY DEF SkyDelta, MapOf, DeltaFor
<1>2. \A p \in Players : parts[p] # None => DeltaFor(p, parts[p]) \in ParticipationDelta
  BY DeltaForIs DEF Skies
<1>3. SkyDelta(parts) = [p \in Players |-> SkyDelta(parts)[p]]
  BY DEF SkyDelta, MapOf
<1> QED
  BY <1>1, <1>2, <1>3 DEF DeltaMap

-----------------------------------------------------------------------------
(* Types, and the one initializer *)

Has(q, type) == \E i \in DOMAIN q : q[i].type = type

Once(q, type) ==
    \A i, j \in DOMAIN q : q[i].type = type /\ q[j].type = type => i = j

LEMMA HasNone ==
    ASSUME NEW type
    PROVE  ~Has(<<>>, type) /\ Once(<<>>, type)
BY DEF Has, Once

LEMMA HasTail ==
    ASSUME NEW S, NEW q \in Seq(S), q # <<>>
    PROVE  /\ Tail(q) \in Seq(S) /\ Head(q) \in S
           /\ \A type : Has(q, type) <=> Head(q).type = type \/ Has(Tail(q), type)
           /\ \A type : Once(q, type) => /\ Once(Tail(q), type)
                                         /\ Head(q).type = type => ~Has(Tail(q), type)
           /\ \A i \in DOMAIN Tail(q) : i + 1 \in DOMAIN q /\ Tail(q)[i] = q[i + 1]
<1>1. /\ Tail(q) \in Seq(S) /\ Head(q) \in S /\ Head(q) = q[1]
      /\ Len(q) \in Nat \ {0} /\ DOMAIN q = 1 .. Len(q)
      /\ DOMAIN Tail(q) = 1 .. Len(q) - 1
      /\ \A i \in 1 .. Len(q) - 1 : Tail(q)[i] = q[i + 1]
  OBVIOUS
<1>2. ASSUME NEW type
      PROVE  Has(q, type) <=> Head(q).type = type \/ Has(Tail(q), type)
  <2>1. ASSUME NEW i \in DOMAIN q, q[i].type = type, i # 1
        PROVE  Has(Tail(q), type)
    <3>1. i - 1 \in DOMAIN Tail(q) /\ Tail(q)[i - 1] = q[(i - 1) + 1] /\ (i - 1) + 1 = i
      BY <1>1, <2>1
    <3> QED
      BY <2>1, <3>1 DEF Has
  <2>2. 1 \in DOMAIN q
    BY <1>1
  <2>3. \A i \in DOMAIN Tail(q) : i + 1 \in DOMAIN q /\ Tail(q)[i] = q[i + 1]
    BY <1>1
  <2> QED
    BY <1>1, <2>1, <2>2, <2>3 DEF Has
<1>3. ASSUME NEW type, Once(q, type)
      PROVE  Once(Tail(q), type) /\ (Head(q).type = type => ~Has(Tail(q), type))
  BY <1>1, <1>3 DEF Once, Has
<1>4. \A i \in DOMAIN Tail(q) : i + 1 \in DOMAIN q /\ Tail(q)[i] = q[i + 1]
  BY <1>1
<1> QED
  BY <1>1, <1>2, <1>3, <1>4

LEMMA HasAppend ==
    ASSUME NEW S, NEW q \in Seq(S), NEW e \in S
    PROVE  /\ Append(q, e) \in Seq(S)
           /\ \A type : Has(Append(q, e), type) <=> Has(q, type) \/ e.type = type
           /\ \A type : Once(q, type) /\ (e.type # type \/ ~Has(q, type))
                           => Once(Append(q, e), type)
           /\ \A i \in DOMAIN Append(q, e) :
                 (i \in DOMAIN q /\ Append(q, e)[i] = q[i])
                 \/ (i = Len(q) + 1 /\ Append(q, e)[i] = e)
<1> DEFINE r == Append(q, e)
<1>1. /\ r \in Seq(S) /\ Len(q) \in Nat
      /\ DOMAIN q = 1 .. Len(q) /\ DOMAIN r = 1 .. Len(q) + 1
      /\ \A i \in 1 .. Len(q) : r[i] = q[i]
      /\ r[Len(q) + 1] = e
  OBVIOUS
<1> HIDE DEF r
<1>2. \A i \in DOMAIN r : (i \in DOMAIN q /\ r[i] = q[i]) \/ (i = Len(q) + 1 /\ r[i] = e)
  BY <1>1
<1>3. ASSUME NEW type
      PROVE  Has(r, type) <=> Has(q, type) \/ e.type = type
  BY <1>1, <1>2 DEF Has
<1>4. ASSUME NEW type, Once(q, type), e.type # type \/ ~Has(q, type)
      PROVE  Once(r, type)
  BY <1>1, <1>2, <1>4 DEF Has, Once
<1> QED
  BY <1>1, <1>2, <1>3, <1>4 DEF r

\* The client has no plane when it is sent the sky.
Blank(packet) ==
    packet.type = "InitSky" =>
       /\ packet.sky[Own] # None
       /\ packet.sky[Own].spawn = None /\ packet.sky[Own].controls = "idle"

\* The sky is asked for and sent once, and before it is there nothing that
\* refers to it is sent or kept.
AskedOnce ==
    /\ Own \in client.arena
    /\ Once(up, "ReqSky") /\ Once(down, "InitSky")
    /\ Has(up, "ReqSky") => loading /\ asked
    /\ ~asked => loading
    /\ loading => client.sky = None /\ ~Has(down, "InitSky")
    /\ client.sky # None => ~Has(down, "InitSky")
    /\ client.sky = None =>
          /\ client.cache = <<>> /\ inputs = <<>>
          /\ ~Has(up, "ReqInput") /\ ~Has(up, "ReqSpawn")
          /\ part[Own].plane = None /\ part[Own].controls = "idle"
    /\ \A i \in DOMAIN down : Blank(down[i])

Typed == TypeOK /\ AskedOnce

LEMMA TypedFacts ==
    ASSUME Typed
    PROVE  /\ Own \in Members /\ part[Own] \in Participations
           /\ client \in Proper
           /\ client.sky # None => client \in WithSky /\ client.sky[Own] \in Participations
           /\ \A p \in Members : p \in Players /\ part[p] \in Participations
           /\ \A p \in Players \ Members : part[p] = None
           /\ Members \subseteq Players
<1>1. client \in Proper
  BY DEF Typed, TypeOK, Proper
<1>2. client.sky # None => client \in WithSky /\ client.sky[Own] \in Participations
  <2> SUFFICES ASSUME client.sky # None
               PROVE  client \in WithSky /\ client.sky[Own] \in Participations
    OBVIOUS
  <2>1. client.sky \in Skies /\ Own \in client.arena
    BY DEF Typed, TypeOK, AskedOnce, Client
  <2>2. client.sky[Own] # None
    BY <2>1, NoneIsApart DEF Typed, TypeOK
  <2> QED
    BY <1>1, <2>1, <2>2, NoneIsApart DEF WithSky, Skies
<1> QED
  BY <1>1, <1>2, NoneIsApart DEF Typed, TypeOK, Members, Skies

LEMMA InitTyped == SkyInit => Typed
<1> SUFFICES ASSUME SkyInit
             PROVE  Typed
  OBVIOUS
<1>1. NewParticipation(DefaultInit) \in Participations
  BY NewIs, DefaultIsInit
<1>2. part \in Skies /\ \A p \in Players : part[p] = NewParticipation(DefaultInit)
  BY <1>1 DEF SkyInit, Skies
<1>3. part[Own].plane = None /\ part[Own].controls = "idle" /\ part[Own] # None
  BY <1>1, <1>2, NewIs, DefaultIsInit, NoneIsApart DEF DefaultInit
<1>4. /\ client \in Client /\ client.sky = None /\ client.arena = Players
      /\ client.cache = <<>>
  BY DEF SkyInit, Client
<1>5. /\ inputs \in Seq(ParticipationInput) /\ spawned \in [Players -> Nat]
      /\ up \in Seq(UpPacket) /\ down \in Seq(DownPacket)
      /\ loading \in BOOLEAN /\ asked \in BOOLEAN /\ unsettled \subseteq Members
  <2>1. inputs \in Seq(ParticipationInput) /\ up \in Seq(UpPacket) /\ down \in Seq(DownPacket)
    BY DEF SkyInit
  <2>2. spawned \in [Players -> Nat]
    BY DEF SkyInit
  <2>3. loading \in BOOLEAN /\ asked \in BOOLEAN
    BY DEF SkyInit
  <2>4. unsettled \subseteq Members
    BY DEF SkyInit
  <2> QED
    BY <2>1, <2>2, <2>3, <2>4
<1> TypeOK
  BY <1>2, <1>3, <1>4, <1>5 DEF TypeOK
<1>6. AskedOnce
  BY <1>3, <1>4, HasNone, NoneIsApart DEF SkyInit, AskedOnce
<1> QED
  BY <1>6 DEF Typed

LEMMA ReqSkyTyped ==
    ASSUME Typed, HandleReqSky
    PROVE  Typed'
<1> USE TypedFacts
<1> DEFINE captured(p) == CaptureParticipation(part[p])
           sky == MapOf(captured, Members)
           packet == InitSky(sky)
<1>1. sky \in [Players -> ParticipationInit \cup {None}]
  BY CaptureIs DEF MapOf
<1>2. sky[Own] = CaptureParticipation(part[Own])
  BY NoneIsApart DEF MapOf
<1>3. down' = Append(down, packet)
  BY DEF HandleReqSky
<1> HIDE DEF sky
<1>4. /\ packet \in DownPacket /\ packet.type = "InitSky" /\ packet.sky = sky
  BY <1>1 DEF InitSky, DownPacket
<1> HIDE DEF packet
<1>5. up # <<>> /\ Head(up).type = "ReqSky" /\ up' = Tail(up)
  BY DEF HandleReqSky, Polls
<1>6. up \in Seq(UpPacket) /\ down \in Seq(DownPacket)
  BY DEF Typed, TypeOK
<1>7. /\ up' \in Seq(UpPacket) /\ Has(up, "ReqSky")
      /\ \A type : Has(up', type) => Has(up, type)
      /\ \A type : Once(up, type) => Once(up', type)
      /\ ~Has(up', "ReqSky")
  BY <1>5, <1>6, HasTail DEF Typed, AskedOnce
<1>8. loading /\ client.sky = None /\ ~Has(down, "InitSky")
  BY <1>7 DEF Typed, AskedOnce
<1>9. down' \in Seq(DownPacket) /\ Once(down', "InitSky")
  BY <1>3, <1>4, <1>6, <1>8, HasAppend DEF Typed, AskedOnce
<1>10. Blank(packet)
  BY <1>2, <1>4, <1>8, CaptureIs, NoneIsApart DEF Blank, Typed, AskedOnce
<1>11. \A i \in DOMAIN down' : Blank(down'[i])
  BY <1>3, <1>4, <1>6, <1>10, HasAppend DEF Typed, AskedOnce
<1>12. TypeOK'
  BY <1>7, <1>9 DEF HandleReqSky, Typed, TypeOK, Members
<1>13. AskedOnce'
  BY <1>7, <1>8, <1>9, <1>11 DEF HandleReqSky, Typed, AskedOnce
<1> QED
  BY <1>12, <1>13 DEF Typed

LEMMA ReqSpawnTyped ==
    ASSUME Typed, HandleReqSpawn
    PROVE  Typed'
<1> USE TypedFacts
<1>1. up # <<>> /\ Head(up).type = "ReqSpawn" /\ up' = Tail(up)
  BY DEF HandleReqSpawn, Polls
<1>2. up \in Seq(UpPacket) /\ spawned[Own] \in Nat
  BY NoneIsApart DEF Typed, TypeOK
<1>3. /\ up' \in Seq(UpPacket) /\ Has(up, "ReqSpawn")
      /\ \A type : Has(up', type) => Has(up, type)
      /\ \A type : Once(up, type) => Once(up', type)
  BY <1>1, <1>2, HasTail
<1>4. client.sky # None
  BY <1>3 DEF Typed, AskedOnce
<1>5. SpawnPlane(part[Own], spawned[Own] + 1) \in Participations
  BY <1>2, SpawnIs DEF Lives
<1>6. part' \in Skies /\ part'[Own] # None /\ spawned' \in [Players -> Nat]
  <2>1. CASE part[Own].plane = None
    <3>1. /\ part' = [part EXCEPT ![Own] = SpawnPlane(part[Own], spawned[Own] + 1)]
          /\ spawned' = [spawned EXCEPT ![Own] = spawned[Own] + 1]
      BY <2>1 DEF HandleReqSpawn, Spawn
    <3>2. part \in Skies /\ spawned \in [Players -> Nat]
      BY DEF Typed, TypeOK
    <3> QED
      BY <1>5, <3>1, <3>2, NoneIsApart DEF Skies
  <2>2. CASE part[Own].plane # None
    BY <2>2 DEF HandleReqSpawn, Typed, TypeOK
  <2> QED
    BY <2>1, <2>2
<1>7. Members' = Members
  BY <1>5, NoneIsApart DEF HandleReqSpawn, Spawn, Typed, TypeOK, Skies, Members
<1>8. TypeOK'
  BY <1>3, <1>6, <1>7 DEF HandleReqSpawn, Typed, TypeOK
<1>9. AskedOnce'
  BY <1>3, <1>4 DEF HandleReqSpawn, Typed, AskedOnce
<1> QED
  BY <1>8, <1>9 DEF Typed

LEMMA ReqInputTyped ==
    ASSUME Typed, HandleReqInput
    PROVE  Typed' /\ Head(up).input \in ParticipationInput
<1> USE TypedFacts
<1>1. /\ up # <<>> /\ Head(up).type = "ReqInput" /\ up' = Tail(up)
      /\ inputs' = Append(inputs, Head(up).input)
  BY DEF HandleReqInput, Polls
<1>2. up \in Seq(UpPacket) /\ inputs \in Seq(ParticipationInput)
  BY DEF Typed, TypeOK
<1>3. /\ up' \in Seq(UpPacket) /\ Has(up, "ReqInput") /\ Head(up) \in UpPacket
      /\ \A type : Has(up', type) => Has(up, type)
      /\ \A type : Once(up, type) => Once(up', type)
  BY <1>1, <1>2, HasTail
<1>4. Head(up).input \in ParticipationInput
  BY <1>1, <1>3 DEF UpPacket
<1>5. client.sky # None
  BY <1>3 DEF Typed, AskedOnce
<1>6. TypeOK'
  BY <1>1, <1>2, <1>3, <1>4 DEF HandleReqInput, Typed, TypeOK, Members
<1>7. AskedOnce'
  BY <1>3, <1>5 DEF HandleReqInput, Typed, AskedOnce
<1> QED
  BY <1>4, <1>6, <1>7 DEF Typed

LEMMA OtherSpawnsTyped ==
    ASSUME Typed, NEW p \in Others, OtherSpawns(p)
    PROVE  Typed'
<1> USE TypedFacts
<1>1. p \in Members /\ p # Own /\ spawned[p] \in Nat
  BY DEF OtherSpawns, Others, Typed, TypeOK
<1>2. SpawnPlane(part[p], spawned[p] + 1) \in Participations
  BY <1>1, SpawnIs DEF Lives
<1>3. /\ part' \in Skies /\ part'[Own] = part[Own] /\ spawned' \in [Players -> Nat]
  BY <1>1, <1>2 DEF OtherSpawns, Spawn, Typed, TypeOK, Skies
<1>4. Members' = Members
  BY <1>1, <1>2, NoneIsApart DEF OtherSpawns, Spawn, Typed, TypeOK, Skies, Members
<1>5. TypeOK'
  BY <1>3, <1>4 DEF OtherSpawns, Typed, TypeOK
<1>6. AskedOnce'
  BY <1>3 DEF OtherSpawns, Typed, AskedOnce
<1> QED
  BY <1>5, <1>6 DEF Typed

LEMMA OtherQuitsTyped ==
    ASSUME Typed, NEW p \in Others, OtherQuits(p)
    PROVE  Typed' /\ Quit(p) \in DownPacket /\ Members' = Members \ {p}
<1> USE TypedFacts
<1>1. p \in Players /\ p # Own
  BY DEF Others
<1>2. Quit(p) \in DownPacket /\ Quit(p).type = "Quit"
  BY DEF Quit, DownPacket
<1>3. down \in Seq(DownPacket) /\ down' = Append(down, Quit(p))
  BY DEF OtherQuits, Typed, TypeOK
<1>4. /\ down' \in Seq(DownPacket) /\ Once(down', "InitSky")
      /\ Has(down', "InitSky") <=> Has(down, "InitSky")
  BY <1>2, <1>3, HasAppend DEF Typed, AskedOnce
<1>5. \A i \in DOMAIN down' : Blank(down'[i])
  BY <1>2, <1>3, HasAppend DEF Typed, AskedOnce, Blank
<1>6. part' \in Skies /\ part'[Own] = part[Own]
  BY <1>1, NoneIsApart DEF OtherQuits, Typed, TypeOK, Skies
<1>7. Members' = Members \ {p}
  BY <1>1 DEF OtherQuits, Typed, TypeOK, Skies, Members
<1>8. TypeOK'
  BY <1>4, <1>6, <1>7 DEF OtherQuits, Typed, TypeOK
<1>9. AskedOnce'
  BY <1>4, <1>5, <1>6 DEF OtherQuits, Typed, AskedOnce
<1> QED
  BY <1>2, <1>7, <1>8, <1>9 DEF Typed

LEMMA OtherJoinsTyped ==
    ASSUME Typed, NEW p \in Others, OtherJoins(p)
    PROVE  Typed' /\ Join(p) \in DownPacket /\ Members' = Members \cup {p}
<1> USE TypedFacts
<1>1. p \in Players /\ p # Own
  BY DEF Others
<1>2. Join(p) \in DownPacket /\ Join(p).type = "Join"
  BY DEF Join, DownPacket
<1>3. down \in Seq(DownPacket) /\ down' = Append(down, Join(p))
  BY DEF OtherJoins, Typed, TypeOK
<1>4. /\ down' \in Seq(DownPacket) /\ Once(down', "InitSky")
      /\ Has(down', "InitSky") <=> Has(down, "InitSky")
  BY <1>2, <1>3, HasAppend DEF Typed, AskedOnce
<1>5. \A i \in DOMAIN down' : Blank(down'[i])
  BY <1>2, <1>3, HasAppend DEF Typed, AskedOnce, Blank
<1>6. NewParticipation(DefaultInit) \in Participations
  BY NewIs, DefaultIsInit
<1>7. part' \in Skies /\ part'[Own] = part[Own]
  BY <1>1, <1>6 DEF OtherJoins, Typed, TypeOK, Skies
<1>8. Members' = Members \cup {p}
  BY <1>1, <1>6, NoneIsApart DEF OtherJoins, Typed, TypeOK, Skies, Members
<1>9. TypeOK'
  BY <1>4, <1>7, <1>8 DEF OtherJoins, Typed, TypeOK
<1>10. AskedOnce'
  BY <1>4, <1>5, <1>7 DEF OtherJoins, Typed, AskedOnce
<1> QED
  BY <1>2, <1>8, <1>9, <1>10 DEF Typed

\* The two outcomes of a tick: a delta is collected, or it is not.
TickKeeps(after) == part' = after /\ UNCHANGED <<unsettled, down>>

TickSends(after) ==
    /\ part' = Collected(after)
    /\ unsettled' = unsettled \ {p \in Members : after[p].controls # after[p].lastControls}
    /\ down' = IF loading THEN down ELSE Append(down, DeltaSky(SkyDelta(after)))

\* What both build on.
TickLeads(after, n) ==
    /\ after \in Skies
    /\ \A p \in Members : after[p] \in Participations /\ SameLife(part[p], after[p])
    /\ \A p \in Players \ Members : after[p] = None
    /\ after[Own].controls = ApplyInputs(part[Own], SubSeq(inputs, 1, n)).controls
    /\ inputs' = SubSeq(inputs, n + 1, Len(inputs))
    /\ UNCHANGED <<loading, spawned, holders, client, asked, up>>

LEMMA ServerTickIs ==
    ASSUME Typed, NEW due \in BOOLEAN, ServerTick(due)
    PROVE  \E n \in 0 .. Len(inputs), after \in Skies :
              TickLeads(after, n) /\ (TickKeeps(after) \/ TickSends(after))
<1>1. PICK n \in 0 .. Len(inputs), news \in [Others \cap Members -> Controls] :
         LET after  == Ticked(n, news)
             useful == \E p \in Members : Announces(after[p])
             sent   == {p \in Members : after[p].controls # after[p].lastControls}
         IN  /\ HasRoom
             /\ inputs' = SubSeq(inputs, n + 1, Len(inputs))
             /\ IF due /\ useful
                THEN /\ part' = Collected(after)
                     /\ unsettled' = unsettled \ sent
                     /\ down' = IF loading THEN down
                                ELSE Append(down, DeltaSky(SkyDelta(after)))
                ELSE /\ part' = after
                     /\ UNCHANGED <<unsettled, down>>
             /\ UNCHANGED <<loading, spawned, holders, client, asked, up>>
  BY DEF ServerTick
<1> DEFINE after == Ticked(n, news)
<1>2. /\ after \in Skies
      /\ \A p \in Members : after[p] \in Participations /\ SameLife(part[p], after[p])
      /\ \A p \in Players \ Members : after[p] = None
      /\ after[Own].controls = ApplyInputs(part[Own], SubSeq(inputs, 1, n)).controls
  BY TickedIs DEF Typed
<1> HIDE DEF after
<1>3. TickLeads(after, n)
  BY <1>1, <1>2 DEF TickLeads, after
<1>4. TickKeeps(after) \/ TickSends(after)
  BY <1>1 DEF TickKeeps, TickSends, after
<1> QED
  BY <1>2, <1>3, <1>4

LEMMA TickSendsDelta ==
    ASSUME NEW after \in Skies
    PROVE  LET packet == DeltaSky(SkyDelta(after))
           IN  packet \in DownPacket /\ packet.type = "DeltaSky"
               /\ packet.delta = SkyDelta(after)
BY SkyDeltaIs DEF DeltaSky, DownPacket, DeltaMap

LEMMA ServerTickTyped ==
    ASSUME Typed, NEW due \in BOOLEAN, ServerTick(due)
    PROVE  Typed' /\ Members' = Members
<1> USE TypedFacts
<1>1. PICK n \in 0 .. Len(inputs), after \in Skies :
         TickLeads(after, n) /\ (TickKeeps(after) \/ TickSends(after))
  BY ServerTickIs
<1>2. /\ \A p \in Members : after[p] \in Participations
      /\ \A p \in Players \ Members : after[p] = None
      /\ SameLife(part[Own], after[Own])
  BY <1>1 DEF TickLeads
<1>3. /\ part' \in Skies
      /\ \A p \in Members : part'[p] \in Participations
      /\ \A p \in Players \ Members : part'[p] = None
      /\ part'[Own].plane = after[Own].plane /\ part'[Own].controls = after[Own].controls
      /\ unsettled' \subseteq unsettled
  <2>1. CASE TickKeeps(after)
    BY <1>2, <2>1 DEF TickKeeps
  <2>2. CASE TickSends(after)
    BY <1>2, <2>2, CollectedIs, AnnouncedIs DEF TickSends
  <2> QED
    BY <1>1, <2>1, <2>2
<1>4. Members' = Members /\ part'[Own] # None
  BY <1>3, NoneIsApart DEF Members
<1>5. inputs' \in Seq(ParticipationInput)
  BY <1>1 DEF TickLeads, Typed, TypeOK
<1>6. /\ down' \in Seq(DownPacket) /\ Once(down', "InitSky")
      /\ Has(down', "InitSky") <=> Has(down, "InitSky")
      /\ \A i \in DOMAIN down' : Blank(down'[i])
  <2>1. CASE down' = down
    BY <2>1 DEF Typed, TypeOK, AskedOnce
  <2>2. CASE down' = Append(down, DeltaSky(SkyDelta(after)))
    <3>1. /\ DeltaSky(SkyDelta(after)) \in DownPacket
          /\ DeltaSky(SkyDelta(after)).type = "DeltaSky"
      BY TickSendsDelta
    <3>2. down \in Seq(DownPacket) /\ Once(down, "InitSky")
          /\ \A i \in DOMAIN down : Blank(down[i])
      BY DEF Typed, TypeOK, AskedOnce
    <3>3. Blank(DeltaSky(SkyDelta(after)))
      BY <3>1 DEF Blank
    <3> QED
      BY <2>2, <3>1, <3>2, <3>3, HasAppend
  <2> QED
    BY <1>1, <2>1, <2>2 DEF TickKeeps, TickSends
<1>7. TypeOK'
  BY <1>1, <1>3, <1>4, <1>5, <1>6 DEF TickLeads, Typed, TypeOK
<1>8. client.sky = None => inputs' = <<>> /\ part'[Own].plane = None /\ part'[Own].controls = "idle"
  <2> SUFFICES ASSUME client.sky = None
               PROVE  inputs' = <<>> /\ part'[Own].plane = None /\ part'[Own].controls = "idle"
    OBVIOUS
  <2>1. inputs = <<>> /\ part[Own].plane = None /\ part[Own].controls = "idle"
    BY DEF Typed, AskedOnce
  <2>2. n = 0 /\ inputs' = <<>> /\ SubSeq(inputs, 1, n) = <<>>
    BY <1>1, <2>1 DEF TickLeads
  <2>3. ApplyInputs(part[Own], <<>>) = part[Own]
    <3> DEFINE none == SubSeq(inputs, 1, 0)
    <3>1. none \in Seq(ParticipationInput)
      BY <2>1
    <3>2. none = <<>> /\ Len(none) = 0
      BY <2>1
    <3> HIDE DEF none
    <3>3. PICK f \in [0 .. Len(none) -> Participations] :
             f[0] = part[Own] /\ ApplyInputs(part[Own], none) = f[Len(none)]
      BY <3>1, ApplyInputsIs
    <3> QED
      BY <3>2, <3>3
  <2>4. after[Own].controls = "idle"
    BY <1>1, <2>1, <2>2, <2>3 DEF TickLeads
  <2>5. after[Own].plane = None
    BY <1>2, <2>1 DEF SameLife
  <2> QED
    BY <1>3, <2>2, <2>4, <2>5
<1>9. AskedOnce'
  BY <1>1, <1>6, <1>8 DEF TickLeads, Typed, AskedOnce
<1> QED
  BY <1>4, <1>7, <1>9 DEF Typed

LEMMA ReceivesTyped ==
    ASSUME Typed, ClientReceives
    PROVE  Typed'
<1> USE TypedFacts
<1>1. down # <<>> /\ client' = Receive(client, Head(down)) /\ down' = Tail(down)
  BY DEF ClientReceives
<1>2. down \in Seq(DownPacket)
  BY DEF Typed, TypeOK
<1>3. /\ down' \in Seq(DownPacket) /\ Head(down) \in DownPacket
      /\ Has(down, "InitSky") <=> Head(down).type = "InitSky" \/ Has(down', "InitSky")
      /\ Once(down', "InitSky")
      /\ Head(down).type = "InitSky" => ~Has(down', "InitSky")
      /\ \A i \in DOMAIN down' : Blank(down'[i])
  BY <1>1, <1>2, HasTail DEF Typed, AskedOnce
<1>4. client' \in Proper
  BY <1>1, <1>3, ReceiveKeeps
<1>5. TypeOK'
  BY <1>3, <1>4 DEF ClientReceives, serverVars, Typed, TypeOK, Members, Proper
<1>6. CASE Head(down).type = "InitSky"
  <2>1. client'.sky # None /\ client'.arena = client.arena
    BY <1>1, <1>3, <1>6, ReceiveInit
  <2>2. client.sky = None /\ ~loading
    BY <1>3, <1>6 DEF Typed, AskedOnce
  <2> QED
    BY <1>3, <1>5, <1>6, <2>1, <2>2 DEF ClientReceives, serverVars, Typed, AskedOnce
<1>7. CASE Head(down).type = "DeltaSky"
  <2>1. /\ client'.sky = client.sky /\ client'.arena = client.arena
        /\ client.sky = None => client' = client
    BY <1>1, <1>3, <1>7, ReceiveDelta
  <2> QED
    BY <1>3, <1>5, <1>7, <2>1 DEF ClientReceives, serverVars, Typed, AskedOnce
<1>8. CASE Head(down).type \in {"Quit", "Join"}
  <2> DEFINE q == Head(down).pid
             value == IF Head(down).type = "Quit" THEN None ELSE NewParticipation(DefaultInit)
  <2>1. /\ client'.cache = client.cache /\ q \in Others
        /\ client'.sky = SetPlayer(client.sky, q, value)
        /\ client'.arena = IF Head(down).type = "Quit" THEN client.arena \ {q}
                            ELSE client.arena \cup {q}
    BY <1>1, <1>3, <1>8, ReceivePlayer
  <2>2. q \in Players /\ q # Own /\ client.sky \in Skies \cup {None}
    BY <2>1 DEF Others, Proper, Client
  <2>3. value \in Participations \cup {None}
    BY NewIs, DefaultIsInit
  <2> HIDE DEF value
  <2>4. client'.sky = None <=> client.sky = None
    BY <2>1, <2>2, <2>3, SetPlayerIs
  <2> QED
    BY <1>3, <1>5, <1>8, <2>1, <2>2, <2>4 DEF ClientReceives, serverVars, Typed, AskedOnce
<1> QED
  BY <1>3, <1>6, <1>7, <1>8 DEF DownPacket

LEMMA PollsTyped ==
    ASSUME Typed, ClientPolls
    PROVE  /\ Typed' /\ client.sky # None
           /\ \E n \in 1 .. Len(client.cache) : client' = Release(client, n)
<1> USE TypedFacts
<1>1. PICK n \in 1 .. Len(client.cache) :
         client' = Release(client, n) /\ UNCHANGED <<serverVars, asked, up, down>>
  BY DEF ClientPolls
<1>2. client.sky # None
  BY <1>1 DEF Typed, AskedOnce
<1>3. n \in 0 .. Len(client.cache)
  BY <1>1
<1>4. client' \in WithSky /\ client'.arena = client.arena
  BY <1>1, <1>2, <1>3, ReleaseKeeps
<1>5. TypeOK'
  BY <1>1, <1>4 DEF serverVars, Typed, TypeOK, Members, WithSky, Proper
<1>6. AskedOnce'
  BY <1>1, <1>2, <1>4 DEF serverVars, Typed, AskedOnce, WithSky
<1> QED
  BY <1>1, <1>2, <1>5, <1>6 DEF Typed

\* What the user and the input schedule do to the client: only its own
\* participation, and not its plane.
LEMMA OwnChangesProper ==
    ASSUME NEW c \in WithSky, Own \in c.arena, NEW x \in Participations
    PROVE  LET r == [c EXCEPT !.sky[Own] = x]
           IN  /\ r \in WithSky /\ r.sky[Own] = x
               /\ \A p \in Players : p # Own => r.sky[p] = c.sky[p]
               /\ r.arena = c.arena /\ r.cache = c.cache /\ r.overtaken = c.overtaken
<1> DEFINE r == [c EXCEPT !.sky[Own] = x]
           sky == [c.sky EXCEPT ![Own] = x]
<1>1. c \in Client /\ c.sky \in Skies /\ Own \in Players
  BY NoneIsApart DEF WithSky, Proper, Client
<1>2. r = [c EXCEPT !.sky = sky]
  BY DEF Client
<1>3. /\ sky \in Skies /\ sky[Own] = x
      /\ \A p \in Players : p # Own => sky[p] = c.sky[p]
  BY <1>1 DEF Skies
<1> HIDE DEF sky
<1>4. /\ r \in Client /\ r.sky = sky
      /\ r.arena = c.arena /\ r.cache = c.cache /\ r.overtaken = c.overtaken
  BY <1>1, <1>2, <1>3 DEF Client
<1> HIDE DEF r
<1>5. r \in WithSky
  BY <1>3, <1>4, NoneIsApart DEF WithSky, Proper
<1> QED
  BY <1>3, <1>4, <1>5 DEF r

\* A packet that a client with a sky sends.
LEMMA SendsTyped ==
    ASSUME Typed, NEW packet \in UpPacket, packet.type # "ReqSky", Transmit(packet),
           client.sky # None, client' \in WithSky, client'.arena = client.arena,
           UNCHANGED <<serverVars, asked, down>>
    PROVE  Typed'
<1> USE TypedFacts
<1>1. up \in Seq(UpPacket) /\ up' = Append(up, packet)
  BY DEF Transmit, Typed, TypeOK
<1>2. /\ up' \in Seq(UpPacket) /\ Once(up', "ReqSky")
      /\ Has(up', "ReqSky") <=> Has(up, "ReqSky")
  BY <1>1, HasAppend DEF Typed, AskedOnce
<1>3. TypeOK'
  BY <1>2 DEF serverVars, Typed, TypeOK, Members, WithSky, Proper
<1>4. AskedOnce'
  BY <1>2 DEF serverVars, Typed, AskedOnce, WithSky
<1> QED
  BY <1>3, <1>4 DEF Typed

LEMMA SendsInputTyped ==
    ASSUME Typed, ClientSendsInput
    PROVE  /\ Typed'
           /\ client' = [client EXCEPT !.sky[Own] = InputSent(client.sky[Own])]
<1> USE TypedFacts
<1> DEFINE packet == [type |-> "ReqInput", input |-> CollectedInput(client.sky[Own])]
<1>1. client.sky # None
  BY DEF ClientSendsInput
<1>2. packet \in UpPacket /\ packet.type # "ReqSky" /\ Transmit(packet)
  BY <1>1, InputIs DEF UpPacket, ClientSendsInput
<1>3. client' = [client EXCEPT !.sky[Own] = InputSent(client.sky[Own])]
  BY <1>1 DEF ClientSendsInput, WithSky, Proper, Client
<1>4. client' \in WithSky /\ client'.arena = client.arena
  BY <1>1, <1>3, InputIs, OwnChangesProper DEF Typed, AskedOnce
<1> HIDE DEF packet
<1>5. Typed'
  BY <1>1, <1>2, <1>4, SendsTyped DEF ClientSendsInput
<1> QED
  BY <1>3, <1>5

LEMMA AsksSkyTyped ==
    ASSUME Typed, ClientAsksSky
    PROVE  Typed'
<1> USE TypedFacts
<1> DEFINE packet == [type |-> "ReqSky"]
<1>1. packet \in UpPacket /\ packet.type = "ReqSky"
  BY DEF UpPacket
<1>2. up \in Seq(UpPacket) /\ up' = Append(up, packet)
  BY DEF ClientAsksSky, Transmit, Typed, TypeOK
<1>3. ~asked /\ asked' /\ loading /\ ~Has(up, "ReqSky")
  BY DEF ClientAsksSky, Typed, AskedOnce
<1> HIDE DEF packet
<1>4. /\ up' \in Seq(UpPacket) /\ Once(up', "ReqSky")
      /\ Has(up', "ReqInput") <=> Has(up, "ReqInput")
      /\ Has(up', "ReqSpawn") <=> Has(up, "ReqSpawn")
  BY <1>1, <1>2, <1>3, HasAppend DEF Typed, AskedOnce
<1>5. TypeOK'
  BY <1>3, <1>4 DEF ClientAsksSky, serverVars, Typed, TypeOK, Members
<1>6. AskedOnce'
  BY <1>3, <1>4 DEF ClientAsksSky, serverVars, Typed, AskedOnce
<1> QED
  BY <1>5, <1>6 DEF Typed

LEMMA ActionTyped ==
    ASSUME Typed, NEW control \in Controls, DoAction(control)
    PROVE  LET x == [client.sky[Own] EXCEPT !.controls = control]
           IN  /\ Typed' /\ x \in Participations
               /\ client' = [client EXCEPT !.sky[Own] = x]
<1> USE TypedFacts
<1> DEFINE x == [client.sky[Own] EXCEPT !.controls = control]
<1>1. client.sky # None
  BY DEF DoAction
<1>2. x \in Participations
  BY <1>1 DEF Participations
<1>3. client' = [client EXCEPT !.sky[Own] = x]
  BY <1>1 DEF DoAction, WithSky, Proper, Client
<1> HIDE DEF x
<1>4. client' \in WithSky /\ client'.arena = client.arena
  BY <1>1, <1>2, <1>3, OwnChangesProper DEF Typed, AskedOnce
<1>5. TypeOK'
  BY <1>1, <1>4 DEF DoAction, serverVars, Typed, TypeOK, Members, WithSky, Proper
<1>6. AskedOnce'
  BY <1>1, <1>4 DEF DoAction, serverVars, Typed, AskedOnce, WithSky
<1> QED
  BY <1>2, <1>3, <1>5, <1>6 DEF Typed, x

LEMMA PressSpawnTyped ==
    ASSUME Typed, PressSpawn
    PROVE  Typed'
<1> USE TypedFacts
<1> DEFINE packet == [type |-> "ReqSpawn"]
<1>1. packet \in UpPacket /\ packet.type # "ReqSky" /\ Transmit(packet) /\ client.sky # None
  BY DEF UpPacket, PressSpawn
<1> HIDE DEF packet
<1>2. client' = client /\ client' \in WithSky
  BY <1>1 DEF PressSpawn
<1> QED
  BY <1>1, <1>2, SendsTyped DEF PressSpawn

\* Types, and that the sky is asked for once, are inductive.
LEMMA NextTyped ==
    ASSUME Typed, [Next]_vars
    PROVE  Typed'
<1>1. CASE UNCHANGED vars
  BY <1>1 DEF vars, serverVars, Typed, TypeOK, AskedOnce, Members
<1>2. CASE Next
  BY <1>2, ReqSkyTyped, ReqSpawnTyped, ReqInputTyped, OtherSpawnsTyped, OtherQuitsTyped,
     OtherJoinsTyped, ServerTickTyped, ReceivesTyped, PollsTyped, SendsInputTyped,
     AsksSkyTyped, ActionTyped, PressSpawnTyped DEF Next
<1> QED
  BY <1>1, <1>2

\* Every variable, packet and cache has its type, with any number of players
\* and bounds: what Sky, its caches and the requests put there.
THEOREM SkySyncTypeCorrect == Spec => []TypeOK
<1>1. Typed /\ [Next]_vars => Typed'
  BY NextTyped
<1>2. Typed => TypeOK
  BY DEF Typed
<1> QED
  BY InitTyped, <1>1, <1>2, PTL DEF Spec

-----------------------------------------------------------------------------
(* The client's own plane *)

\* The life of the client's own plane that a delta starts, 0 for none; that
\* a packet starts; and that the client shows.
Life(delta) ==
    IF delta[Own] # None /\ delta[Own].spawn # None THEN delta[Own].spawn.life ELSE 0

Carried(packet) == IF packet.type = "DeltaSky" THEN Life(packet.delta) ELSE 0

Shown ==
    IF client.sky # None /\ client.sky[Own].plane # None
    THEN client.sky[Own].plane.life ELSE 0

\* The last life that the server may have sent.
Told == IF part[Own].newlyAlive /\ part[Own].plane # None
        THEN spawned[Own] - 1 ELSE spawned[Own]

Fresh(life, told, shown) == life <= told /\ (life # 0 => life # shown)

\* The delta moves no plane that is alive.
Still(delta) == delta[Own] # None => delta[Own].state = None

\* Each life of the client's own plane is sent once, and never again when
\* the client shows it; and no delta moves it.
LivesOnce ==
    /\ part[Own].plane # None => part[Own].plane.life = spawned[Own]
    /\ Shown <= Told
    /\ \A i \in DOMAIN client.cache :
          Still(client.cache[i]) /\ Fresh(Life(client.cache[i]), Told, Shown)
    /\ \A j \in DOMAIN down :
          (down[j].type = "DeltaSky" => Still(down[j].delta)) /\ Fresh(Carried(down[j]), Told, Shown)
    /\ \A i, j \in DOMAIN client.cache :
          i # j /\ Life(client.cache[i]) # 0 => Life(client.cache[i]) # Life(client.cache[j])
    /\ \A i, j \in DOMAIN down :
          i # j /\ Carried(down[i]) # 0 => Carried(down[i]) # Carried(down[j])
    /\ \A i \in DOMAIN client.cache, j \in DOMAIN down :
          Carried(down[j]) # 0 => Life(client.cache[i]) # Carried(down[j])

LEMMA LifeIs ==
    ASSUME NEW delta \in DeltaMap
    PROVE  /\ Life(delta) \in Nat
           /\ Life(delta) # 0 <=> delta[Own] # None /\ delta[Own].spawn # None
           /\ Life(delta) # 0 => Life(delta) = delta[Own].spawn.life
<1>1. delta[Own] \in ParticipationDelta \cup {None}
  BY NoneIsApart DEF DeltaMap
<1>2. CASE delta[Own] # None /\ delta[Own].spawn # None
  <2>1. delta[Own].spawn \in Plane
    BY <1>1, <1>2 DEF ParticipationDelta
  <2>2. delta[Own].spawn.life \in Nat \ {0}
    BY <2>1 DEF Plane, Lives
  <2> QED
    BY <1>2, <2>2 DEF Life
<1>3. CASE ~(delta[Own] # None /\ delta[Own].spawn # None)
  BY <1>3 DEF Life
<1> QED
  BY <1>2, <1>3

LEMMA LivesAreNumbers ==
    ASSUME Typed
    PROVE  /\ Told \in Int /\ Shown \in Nat /\ Told <= spawned[Own]
           /\ \A j \in DOMAIN down : Carried(down[j]) \in Nat
           /\ \A i \in DOMAIN client.cache : /\ client.cache[i] \in DeltaMap
                                             /\ Life(client.cache[i]) \in Nat
<1>1. spawned[Own] \in Nat /\ down \in Seq(DownPacket) /\ client.cache \in Seq(DeltaMap)
  BY NoneIsApart DEF Typed, TypeOK, Client, DeltaMap
<1>2. Told \in Int /\ Told <= spawned[Own]
  BY <1>1 DEF Told
<1>3. Shown \in Nat
  <2> SUFFICES ASSUME client.sky # None, client.sky[Own].plane # None
               PROVE  client.sky[Own].plane.life \in Nat
    BY DEF Shown
  <2>1. client.sky[Own].plane \in Plane
    BY TypedFacts DEF Participations
  <2> QED
    BY <2>1 DEF Plane, Lives
<1>4. ASSUME NEW j \in DOMAIN down
      PROVE  Carried(down[j]) \in Nat
  <2>1. down[j] \in DownPacket
    BY <1>1
  <2>2. down[j].type = "DeltaSky" => down[j].delta \in DeltaMap
    BY <2>1 DEF DownPacket, DeltaMap
  <2> QED
    BY <2>2, LifeIs DEF Carried
<1>5. ASSUME NEW i \in DOMAIN client.cache
      PROVE  client.cache[i] \in DeltaMap /\ Life(client.cache[i]) \in Nat
  BY <1>1, LifeIs
<1> QED
  BY <1>2, <1>3, <1>4, <1>5

LEMMA ToldIsNumber ==
    ASSUME Typed'
    PROVE  Told' \in Int
<1>1. spawned'[Own] \in Nat
  BY NoneIsApart DEF Typed, TypeOK
<1> QED
  BY <1>1 DEF Told

\* Nothing is sent, received or applied.
LEMMA LivesStay ==
    ASSUME Typed, Typed', LivesOnce, UNCHANGED down, client'.cache = client.cache,
           Shown' = Shown, Told <= Told',
           part'[Own].plane # None => part'[Own].plane.life = spawned'[Own]
    PROVE  LivesOnce'
<1>1. Told \in Int /\ Told' \in Int /\ Shown \in Nat
  BY LivesAreNumbers, ToldIsNumber
<1>2. \A i \in DOMAIN client.cache : Life(client.cache[i]) \in Nat
  BY LivesAreNumbers
<1>3. \A j \in DOMAIN down : Carried(down[j]) \in Nat
  BY LivesAreNumbers
<1>4. \A i \in DOMAIN client.cache : Fresh(Life(client.cache[i]), Told', Shown')
  BY <1>1, <1>2 DEF LivesOnce, Fresh
<1>5. \A j \in DOMAIN down : Fresh(Carried(down[j]), Told', Shown')
  BY <1>1, <1>3 DEF LivesOnce, Fresh
<1>6. Shown' <= Told'
  BY <1>1 DEF LivesOnce
<1> QED
  BY <1>4, <1>5, <1>6 DEF LivesOnce, Life, Carried, Still

\* The server sends a packet, with a life that is new or none at all.
LEMMA LivesSent ==
    ASSUME Typed, Typed', LivesOnce, NEW packet \in DownPacket,
           down' = Append(down, packet), client' = client, Told <= Told',
           part'[Own].plane # None => part'[Own].plane.life = spawned'[Own],
           packet.type = "DeltaSky" => Still(packet.delta),
           Carried(packet) # 0 => Told < Carried(packet) /\ Carried(packet) <= Told'
    PROVE  LivesOnce'
<1>1. Told \in Int /\ Told' \in Int /\ Shown \in Nat /\ Shown' = Shown
  BY LivesAreNumbers, ToldIsNumber DEF Shown
<1>2. \A i \in DOMAIN client.cache : Life(client.cache[i]) \in Nat
  BY LivesAreNumbers
<1>3. \A j \in DOMAIN down : Carried(down[j]) \in Nat
  BY LivesAreNumbers
<1>4. \A j \in DOMAIN down' : (j \in DOMAIN down /\ down'[j] = down[j])
                              \/ (j = Len(down) + 1 /\ down'[j] = packet)
  BY HasAppend DEF Typed, TypeOK
<1>5. packet.type = "DeltaSky" => packet.delta \in DeltaMap
  BY DEF DownPacket, DeltaMap
<1>6. Carried(packet) \in Nat
  BY <1>5, LifeIs DEF Carried
<1>7. Shown' <= Told'
  BY <1>1 DEF LivesOnce
<1>8. 0 <= Told'
  BY <1>1, <1>7
<1>9. Fresh(Carried(packet), Told', Shown')
  BY <1>1, <1>6, <1>8 DEF LivesOnce, Fresh, Carried, Life
<1>10. \A i \in DOMAIN client.cache : Fresh(Life(client.cache[i]), Told', Shown')
  BY <1>1, <1>2 DEF LivesOnce, Fresh
<1>11. \A j \in DOMAIN down : Fresh(Carried(down[j]), Told', Shown')
  BY <1>1, <1>3 DEF LivesOnce, Fresh
<1>12. \A j \in DOMAIN down' : /\ down'[j].type = "DeltaSky" => Still(down'[j].delta)
                               /\ Fresh(Carried(down'[j]), Told', Shown')
  BY <1>4, <1>9, <1>11 DEF LivesOnce
<1>13. \A j \in DOMAIN down : Carried(packet) # 0 => Carried(down[j]) # Carried(packet)
  BY <1>1, <1>3, <1>6 DEF LivesOnce, Fresh
<1>14. \A i, j \in DOMAIN down' :
          i # j /\ Carried(down'[i]) # 0 => Carried(down'[i]) # Carried(down'[j])
  BY <1>4, <1>13 DEF LivesOnce
<1>15. \A i \in DOMAIN client.cache : Carried(packet) # 0 => Life(client.cache[i]) # Carried(packet)
  BY <1>1, <1>2, <1>6 DEF LivesOnce, Fresh
<1>16. \A i \in DOMAIN client.cache, j \in DOMAIN down' :
          Carried(down'[j]) # 0 => Life(client.cache[i]) # Carried(down'[j])
  BY <1>4, <1>15 DEF LivesOnce
<1> QED
  BY <1>7, <1>10, <1>12, <1>14, <1>16 DEF LivesOnce

\* What the deltas of the cache make of the client's own participation.
LEMMA ReleaseOwn ==
    ASSUME NEW c \in WithSky, Own \in c.arena, NEW n \in 0 .. Len(c.cache),
           \A i \in DOMAIN c.cache : Still(c.cache[i])
    PROVE  LET old == c.sky[Own]
               new == Release(c, n).sky[Own]
           IN  /\ new \in Participations
               /\ new.lastControls = old.lastControls
               /\ \/ new.plane = None
                  \/ new.plane = old.plane
                  \/ \E j \in 1 .. n : /\ Life(c.cache[j]) # 0
                                       /\ new.plane = c.cache[j][Own].spawn
<1>1. PICK f \in [0 .. n -> WithSky] :
         /\ f[0].sky = c.sky
         /\ \A i \in 1 .. n : f[i] = ApplySkyDelta(f[i - 1], c.cache[i])
         /\ \A i \in 0 .. n : f[i].arena = c.arena
         /\ Release(c, n) = f[n]
  BY ReleaseIs
<1>2. c.cache \in Seq(DeltaMap) /\ Own \in Players /\ n \in Nat
  BY NoneIsApart DEF WithSky, Proper, Client, DeltaMap
<1> DEFINE old == c.sky[Own]
           Kept(m) == /\ f[m].sky[Own].lastControls = old.lastControls
                      /\ \/ f[m].sky[Own].plane = None
                         \/ f[m].sky[Own].plane = old.plane
                         \/ \E j \in 1 .. m : /\ Life(c.cache[j]) # 0
                                              /\ f[m].sky[Own].plane = c.cache[j][Own].spawn
           T == {m \in 0 .. n : Kept(m)}
<1>3. \A m \in 0 .. n : f[m].sky[Own] \in Participations
  BY <1>1, <1>2, NoneIsApart DEF WithSky, Proper, Client, Skies
<1>4. 0 \in T
  BY <1>1, <1>2
<1>5. ASSUME NEW m \in 0 .. n - 1, m \in T
      PROVE  m + 1 \in T
  <2> DEFINE x == f[m].sky[Own]
             y == f[m + 1].sky[Own]
             delta == c.cache[m + 1]
  <2>1. m + 1 \in 1 .. n /\ (m + 1) - 1 = m /\ m + 1 \in 0 .. n /\ m \in 0 .. n
    BY <1>2
  <2>2. m + 1 \in DOMAIN c.cache /\ delta \in DeltaMap /\ Still(delta)
    BY <1>2, <2>1
  <2>3. f[m] \in WithSky /\ f[m + 1] = ApplySkyDelta(f[m], delta) /\ Own \in f[m].arena
    BY <1>1, <2>1
  <2>4. y = IF delta[Own] = None THEN x ELSE ApplyParticipationDelta(x, delta[Own])
    <3> HIDE DEF delta
    <3>1. ApplySkyDelta(f[m], delta).sky[Own] =
             IF Own \notin f[m].arena \/ delta[Own] = None THEN f[m].sky[Own]
             ELSE ApplyParticipationDelta(f[m].sky[Own], delta[Own])
      BY <1>2, <2>2, <2>3, ApplySkyDeltaIs
    <3> QED
      BY <2>3, <3>1
  <2>5. x \in Participations /\ x.plane \in Plane \cup {None}
    BY <1>3, <2>1 DEF Participations
  <2>6. delta[Own] \in ParticipationDelta \cup {None}
    BY <1>2, <2>2 DEF DeltaMap
  <2>7. Kept(m)
    BY <1>5
  <2> HIDE DEF x, y, delta
  <2>8. /\ y.lastControls = x.lastControls
        /\ \/ y.plane = None \/ y.plane = x.plane
           \/ Life(delta) # 0 /\ y.plane = delta[Own].spawn
    <3>1. CASE delta[Own] = None
      BY <2>4, <3>1
    <3>2. CASE delta[Own] # None
      <4>1. delta[Own] \in ParticipationDelta /\ delta[Own].state = None
        BY <2>2, <2>6, <3>2 DEF Still
      <4>2. /\ y.lastControls = x.lastControls
            /\ y.plane = IF delta[Own].spawn # None THEN delta[Own].spawn
                         ELSE PlaneAfter(x.plane, delta[Own])
        BY <2>4, <2>5, <3>2, <4>1, ApplyDeltaIs
      <4>3. PlaneAfter(x.plane, delta[Own]) \in {None, x.plane}
        BY <2>5, <4>1, PlaneAfterIs
      <4>4. delta[Own].spawn # None => Life(delta) # 0
        BY <2>2, <3>2, LifeIs
      <4> QED
        BY <4>2, <4>3, <4>4
    <3> QED
      BY <3>1, <3>2
  <2>9. Kept(m + 1)
    <3>1. f[m + 1].sky[Own].lastControls = old.lastControls
      BY <2>7, <2>8 DEF x, y
    <3>2. CASE y.plane = None
      BY <3>1, <3>2 DEF y
    <3>3. CASE y.plane = x.plane
      <4>1. \A j \in 1 .. m : j \in 1 .. m + 1
        BY <2>1
      <4> QED
        BY <2>7, <3>1, <3>3, <4>1 DEF x, y
    <3>4. CASE Life(delta) # 0 /\ y.plane = delta[Own].spawn
      <4>1. m + 1 \in 1 .. m + 1
        BY <2>1
      <4> QED
        BY <3>1, <3>4, <4>1 DEF y, delta
    <3> QED
      BY <2>8, <3>2, <3>3, <3>4
  <2> HIDE DEF Kept
  <2> QED
    BY <2>1, <2>9
<1> HIDE DEF T
<1>6. \A m \in 0 .. n : m \in T
  BY <1>2, <1>4, <1>5, InductionTo
<1>7. n \in T /\ n \in 0 .. n
  BY <1>2, <1>6
<1> QED
  BY <1>1, <1>3, <1>7 DEF T

LEMMA LivesPolled ==
    ASSUME Typed, LivesOnce, ClientPolls
    PROVE  LivesOnce'
<1>1. PICK n \in 1 .. Len(client.cache) : client' = Release(client, n)
  BY DEF ClientPolls
<1>2. /\ client \in WithSky /\ Own \in client.arena /\ n \in 0 .. Len(client.cache)
      /\ Typed' /\ client.sky # None
  BY <1>1, PollsTyped, TypedFacts DEF Typed, AskedOnce
<1>3. client.cache \in Seq(DeltaMap) /\ client'.cache = Rest(client, n) /\ client'.sky # None
  BY <1>1, <1>2, ReleaseKeeps DEF WithSky, Proper, Client, DeltaMap
<1>4. UNCHANGED <<part, spawned, down>>
  BY DEF ClientPolls, serverVars
<1>5. Told' = Told
  BY <1>4 DEF Told
<1>6. /\ Len(client'.cache) = Len(client.cache) - n /\ Len(client.cache) \in Nat
      /\ DOMAIN client'.cache = 1 .. Len(client.cache) - n
      /\ DOMAIN client.cache = 1 .. Len(client.cache)
      /\ \A i \in DOMAIN client'.cache : client'.cache[i] = client.cache[i + n]
  BY <1>1, <1>3 DEF Rest
<1>7. \A i \in DOMAIN client'.cache :
         /\ i + n \in DOMAIN client.cache /\ client'.cache[i] = client.cache[i + n]
         /\ i + n > n
  BY <1>6
<1>8. \/ Shown' = 0
      \/ Shown' = Shown
      \/ \E j \in 1 .. n : Life(client.cache[j]) # 0 /\ Shown' = Life(client.cache[j])
  <2> DEFINE old == client.sky[Own]
             new == client'.sky[Own]
  <2>1. \/ new.plane = None
        \/ new.plane = old.plane
        \/ \E j \in 1 .. n : /\ Life(client.cache[j]) # 0
                             /\ new.plane = client.cache[j][Own].spawn
    BY <1>1, <1>2, ReleaseOwn DEF LivesOnce
  <2>2. Shown = (IF old.plane # None THEN old.plane.life ELSE 0)
        /\ Shown' = (IF new.plane # None THEN new.plane.life ELSE 0)
    BY <1>2, <1>3 DEF Shown
  <2>3. \A j \in 1 .. n : client.cache[j] \in DeltaMap
    BY <1>2, <1>3
  <2> HIDE DEF old, new
  <2>4. ASSUME NEW j \in 1 .. n, Life(client.cache[j]) # 0,
               new.plane = client.cache[j][Own].spawn
        PROVE  Shown' = Life(client.cache[j])
    BY <2>2, <2>3, <2>4, LifeIs
  <2> QED
    BY <2>1, <2>2, <2>4
<1>9. Told \in Int /\ Shown \in Nat
      /\ \A i \in DOMAIN client.cache : Life(client.cache[i]) \in Nat
      /\ \A j \in DOMAIN down : Carried(down[j]) \in Nat
  BY LivesAreNumbers
<1>10. \A j \in 1 .. n : j \in DOMAIN client.cache
  BY <1>6
<1>11. \A i \in DOMAIN client'.cache :
          Still(client'.cache[i]) /\ Fresh(Life(client'.cache[i]), Told', Shown')
  <2> SUFFICES ASSUME NEW i \in DOMAIN client'.cache
               PROVE  Still(client'.cache[i]) /\ Fresh(Life(client'.cache[i]), Told', Shown')
    OBVIOUS
  <2>1. \A j \in 1 .. n : j # i + n
    BY <1>7
  <2> QED
    BY <1>5, <1>7, <1>8, <1>10, <2>1 DEF LivesOnce, Fresh
<1>12. \A j \in DOMAIN down : Fresh(Carried(down[j]), Told', Shown')
  BY <1>5, <1>8, <1>10 DEF LivesOnce, Fresh
<1>13. Shown' <= Told'
  BY <1>5, <1>8, <1>9, <1>10 DEF LivesOnce, Fresh
<1>14. \A i, j \in DOMAIN client'.cache :
          i # j /\ Life(client'.cache[i]) # 0 => Life(client'.cache[i]) # Life(client'.cache[j])
  <2> SUFFICES ASSUME NEW i \in DOMAIN client'.cache, NEW j \in DOMAIN client'.cache, i # j
               PROVE  Life(client'.cache[i]) # 0 => Life(client'.cache[i]) # Life(client'.cache[j])
    OBVIOUS
  <2>1. i + n # j + n
    BY <1>6
  <2> QED
    BY <1>7, <2>1 DEF LivesOnce
<1>15. \A i \in DOMAIN client'.cache, j \in DOMAIN down :
          Carried(down[j]) # 0 => Life(client'.cache[i]) # Carried(down[j])
  BY <1>7 DEF LivesOnce
<1> QED
  BY <1>4, <1>11, <1>12, <1>13, <1>14, <1>15 DEF LivesOnce

LEMMA LivesReceived ==
    ASSUME Typed, LivesOnce, ClientReceives
    PROVE  LivesOnce'
<1> DEFINE head == Head(down)
<1>1. /\ down # <<>> /\ client' = Receive(client, head) /\ down' = Tail(down)
      /\ UNCHANGED <<part, spawned>>
  BY DEF ClientReceives, serverVars
<1>2. /\ down \in Seq(DownPacket) /\ client \in Proper /\ Own \in client.arena
      /\ client.cache \in Seq(DeltaMap)
  BY TypedFacts DEF Typed, TypeOK, AskedOnce, Client, DeltaMap
<1>3. /\ head \in DownPacket /\ 1 \in DOMAIN down /\ down[1] = head
      /\ \A j \in DOMAIN down' : j + 1 \in DOMAIN down /\ down'[j] = down[j + 1] /\ j + 1 # 1
  <2>1. /\ head \in DownPacket /\ head = down[1] /\ Len(down) \in Nat \ {0}
        /\ DOMAIN down = 1 .. Len(down) /\ DOMAIN Tail(down) = 1 .. Len(down) - 1
        /\ \A j \in 1 .. Len(down) - 1 : Tail(down)[j] = down[j + 1]
    BY <1>1, <1>2
  <2> QED
    BY <1>1, <2>1
<1>4. Told' = Told
  BY <1>1 DEF Told
<1>5. Told \in Int /\ Shown \in Nat
  BY LivesAreNumbers
<1>6. \A j \in DOMAIN down' : /\ down'[j].type = "DeltaSky" => Still(down'[j].delta)
                              /\ Fresh(Carried(down'[j]), Told, Shown)
  BY <1>3 DEF LivesOnce
<1>7. \A i, j \in DOMAIN down' :
         i # j /\ Carried(down'[i]) # 0 => Carried(down'[i]) # Carried(down'[j])
  <2> SUFFICES ASSUME NEW i \in DOMAIN down', NEW j \in DOMAIN down', i # j
               PROVE  Carried(down'[i]) # 0 => Carried(down'[i]) # Carried(down'[j])
    OBVIOUS
  <2>1. i + 1 # j + 1
    BY <1>1, <1>2
  <2> QED
    BY <1>3, <2>1 DEF LivesOnce
<1> HIDE DEF head
<1>8. CASE client'.cache = client.cache /\ Shown' \in {0, Shown}
  <2>1. \A i \in DOMAIN client.cache : Fresh(Life(client.cache[i]), Told', Shown')
    BY <1>4, <1>8 DEF LivesOnce, Fresh
  <2>2. \A j \in DOMAIN down' : Fresh(Carried(down'[j]), Told', Shown')
    BY <1>4, <1>6, <1>8 DEF Fresh
  <2>3. Shown' <= Told'
    BY <1>4, <1>5, <1>8 DEF LivesOnce
  <2>4. \A i \in DOMAIN client.cache, j \in DOMAIN down' :
           Carried(down'[j]) # 0 => Life(client.cache[i]) # Carried(down'[j])
    BY <1>3 DEF LivesOnce
  <2> QED
    BY <1>1, <1>6, <1>7, <1>8, <2>1, <2>2, <2>3, <2>4 DEF LivesOnce
<1>9. CASE head.type = "InitSky"
  <2>1. client'.cache = client.cache /\ client'.sky = NewSky(client.arena, head.sky)
    BY <1>1, <1>2, <1>3, <1>9, ReceiveInit
  <2>2. /\ client.arena \in SUBSET Players
        /\ head.sky \in [Players -> ParticipationInit \cup {None}] /\ Own \in Players
    BY <1>2, <1>3, <1>9, NoneIsApart DEF Proper, Client, DownPacket
  <2>3. head.sky[Own] # None /\ head.sky[Own].spawn = None
    BY <1>3, <1>9 DEF Typed, AskedOnce, Blank
  <2>4. client'.sky[Own] = NewParticipation(head.sky[Own])
    BY <1>2, <2>1, <2>2, <2>3, NewSkyIs
  <2>5. head.sky[Own] \in ParticipationInit
    BY <2>2, <2>3
  <2>6. client'.sky[Own].plane = None
    BY <2>3, <2>4, <2>5, NewIs
  <2>7. Shown' = 0
    BY <2>6 DEF Shown
  <2> QED
    BY <1>8, <2>1, <2>7
<1>10. CASE head.type \in {"Quit", "Join"}
  <2>1. client'.cache = client.cache
    BY <1>1, <1>2, <1>3, <1>10, ReceivePlayer
  <2>2. /\ client'.sky = None <=> client.sky = None
        /\ client.sky # None => client'.sky[Own] = client.sky[Own]
    BY <1>1, <1>2, <1>3, <1>10, ReceivePlayerOwn
  <2>3. Shown' = Shown
    BY <2>2 DEF Shown
  <2> QED
    BY <1>8, <2>1, <2>3
<1>11. CASE head.type = "DeltaSky"
  <2>1. /\ client'.sky = client.sky /\ head.delta \in DeltaMap
        /\ client.sky = None => client' = client
        /\ client.sky # None => client'.cache = Append(client.cache, head.delta)
    BY <1>1, <1>2, <1>3, <1>11, ReceiveDelta
  <2>2. Shown' = Shown
    BY <2>1 DEF Shown
  <2>3. CASE client.sky = None
    BY <1>8, <2>1, <2>2, <2>3
  <2>4. CASE client.sky # None
    <3>1. Carried(head) = Life(head.delta)
      BY <1>11 DEF Carried
    <3>2. \A i \in DOMAIN client'.cache :
             (i \in DOMAIN client.cache /\ client'.cache[i] = client.cache[i])
             \/ (i = Len(client.cache) + 1 /\ client'.cache[i] = head.delta)
      <4>1. client.cache \in Seq(DeltaMap) /\ client'.cache = Append(client.cache, head.delta)
        BY <1>2, <2>1, <2>4
      <4> QED
        BY <2>1, <4>1, HasAppend
    <3>3. Still(head.delta) /\ Fresh(Life(head.delta), Told, Shown)
      BY <1>3, <1>11, <3>1 DEF LivesOnce
    <3>4. \A i \in DOMAIN client'.cache :
             Still(client'.cache[i]) /\ Fresh(Life(client'.cache[i]), Told', Shown')
      BY <1>4, <2>2, <3>2, <3>3 DEF LivesOnce
    <3>5. \A i \in DOMAIN client.cache :
             Life(head.delta) # 0 => Life(client.cache[i]) # Life(head.delta)
      BY <1>3, <3>1 DEF LivesOnce
    <3>6. \A i, j \in DOMAIN client'.cache :
             i # j /\ Life(client'.cache[i]) # 0
                => Life(client'.cache[i]) # Life(client'.cache[j])
      BY <3>2, <3>5 DEF LivesOnce
    <3>7. \A j \in DOMAIN down' : Carried(down'[j]) # 0 => Life(head.delta) # Carried(down'[j])
      BY <1>3, <3>1 DEF LivesOnce
    <3>8. \A i \in DOMAIN client'.cache, j \in DOMAIN down' :
             Carried(down'[j]) # 0 => Life(client'.cache[i]) # Carried(down'[j])
      BY <1>3, <3>2, <3>7 DEF LivesOnce
    <3>9. Shown' <= Told'
      BY <1>4, <2>2 DEF LivesOnce
    <3> QED
      BY <1>1, <1>4, <1>6, <1>7, <2>2, <3>4, <3>6, <3>8, <3>9 DEF LivesOnce
  <2> QED
    BY <2>3, <2>4
<1> QED
  BY <1>3, <1>9, <1>10, <1>11 DEF DownPacket

LEMMA InitLives == SkyInit => LivesOnce
<1> SUFFICES ASSUME SkyInit
             PROVE  LivesOnce
  OBVIOUS
<1>1. part[Own].plane = None /\ Own \in Players
  BY NewIs, DefaultIsInit, NoneIsApart DEF SkyInit, DefaultInit
<1>2. Told = 0
  BY <1>1 DEF SkyInit, Told
<1>3. Shown = 0 /\ client.cache = <<>> /\ down = <<>>
  BY DEF SkyInit, Shown
<1> QED
  BY <1>1, <1>2, <1>3 DEF LivesOnce

LEMMA LivesTicked ==
    ASSUME Typed, LivesOnce, NEW due \in BOOLEAN, ServerTick(due)
    PROVE  LivesOnce'
<1> USE TypedFacts
<1>1. Typed' /\ client' = client /\ spawned' = spawned
  BY ServerTickTyped, ServerTickIs DEF TickLeads
<1>2. PICK n \in 0 .. Len(inputs), after \in Skies :
         TickLeads(after, n) /\ (TickKeeps(after) \/ TickSends(after))
  BY ServerTickIs
<1> DEFINE x == part[Own]
           y == after[Own]
           z == part'[Own]
<1>3. /\ y \in Participations /\ Own \in Players /\ Own \in Members
      /\ y.newlyAlive = x.newlyAlive
      /\ y.plane # None => x.plane # None /\ y.plane.life = x.plane.life
      /\ x.newlyAlive \in BOOLEAN
  BY <1>2 DEF TickLeads, SameLife, Participations
<1>4. spawned[Own] \in Nat /\ (x.plane # None => x.plane.life = spawned[Own])
  BY <1>3 DEF Typed, TypeOK, LivesOnce
<1>5. CASE TickKeeps(after)
  <2>1. z = y /\ down' = down
    BY <1>5 DEF TickKeeps
  <2>2. Told <= Told'
    BY <1>1, <1>3, <1>4, <2>1 DEF Told
  <2>3. z.plane # None => z.plane.life = spawned'[Own]
    BY <1>1, <1>3, <1>4, <2>1
  <2>4. Shown' = Shown
    BY <1>1 DEF Shown
  <2> QED
    BY <1>1, <2>1, <2>2, <2>3, <2>4, LivesStay
<1>6. CASE TickSends(after)
  <2>1. z.plane = y.plane /\ z.newlyAlive = (y.newlyAlive /\ y.plane = None)
    <3>1. z = Announced(y)
      BY <1>2, <1>3, <1>6, CollectedIs DEF TickLeads, TickSends
    <3> QED
      BY <1>3, <3>1, AnnouncedIs
  <2>2. Told <= Told'
    BY <1>1, <1>3, <1>4, <2>1 DEF Told
  <2>3. z.plane # None => z.plane.life = spawned'[Own]
    BY <1>1, <1>3, <1>4, <2>1
  <2>4. CASE down' = down
    <3>1. Shown' = Shown
      BY <1>1 DEF Shown
    <3> QED
      BY <1>1, <2>2, <2>3, <2>4, <3>1, LivesStay
  <2>5. CASE down' = Append(down, DeltaSky(SkyDelta(after)))
    <3> DEFINE packet == DeltaSky(SkyDelta(after))
               delta == SkyDelta(after)
    <3>1. packet \in DownPacket /\ packet.type = "DeltaSky" /\ packet.delta = delta
      BY TickSendsDelta
    <3>2. /\ delta \in DeltaMap
          /\ delta[Own] = IF y # None /\ Announces(y) THEN DeltaFor(Own, y) ELSE None
      BY <1>3, SkyDeltaIs
    <3>3. /\ DeltaFor(Own, y) \in ParticipationDelta /\ DeltaFor(Own, y).state = None
          /\ DeltaFor(Own, y).spawn = IF y.newlyAlive THEN y.plane ELSE None
      BY <1>3, DeltaForIs
    <3> HIDE DEF packet, delta
    <3>4. Still(delta)
      BY <3>2, <3>3 DEF Still
    <3>5. Carried(packet) = Life(delta)
      BY <3>1 DEF Carried
    <3>6. Life(delta) # 0 => y.newlyAlive /\ y.plane # None /\ Life(delta) = y.plane.life
      BY <3>2, <3>3, LifeIs
    <3>7. Carried(packet) # 0 => Told < Carried(packet) /\ Carried(packet) <= Told'
      <4> SUFFICES ASSUME Carried(packet) # 0
                   PROVE  Told < Carried(packet) /\ Carried(packet) <= Told'
        OBVIOUS
      <4>1. y.newlyAlive /\ y.plane # None /\ Carried(packet) = y.plane.life
        BY <3>5, <3>6
      <4>2. x.newlyAlive /\ x.plane # None /\ Carried(packet) = spawned[Own]
        BY <1>3, <1>4, <4>1
      <4>3. Told = spawned[Own] - 1
        BY <4>2 DEF Told
      <4>4. Told' = spawned[Own]
        BY <1>1, <2>1, <4>1 DEF Told
      <4> QED
        BY <1>4, <4>2, <4>3, <4>4
    <3>8. down' = Append(down, packet)
      BY <2>5 DEF packet
    <3> QED
      BY <1>1, <2>2, <2>3, <3>1, <3>4, <3>7, <3>8, LivesSent
  <2> QED
    BY <1>6, <2>4, <2>5 DEF TickSends
<1> QED
  BY <1>2, <1>5, <1>6

\* A packet of another kind than a delta of the sky.
LEMMA LivesPass ==
    ASSUME Typed, Typed', LivesOnce, NEW packet \in DownPacket, packet.type # "DeltaSky",
           down' = Append(down, packet), client' = client,
           part'[Own] = part[Own], spawned' = spawned
    PROVE  LivesOnce'
<1>1. Told' = Told /\ Told \in Int
  BY LivesAreNumbers DEF Told
<1>2. Carried(packet) = 0
  BY DEF Carried
<1>3. part'[Own].plane # None => part'[Own].plane.life = spawned'[Own]
  BY DEF LivesOnce
<1> QED
  BY <1>1, <1>2, <1>3, LivesSent

\* An action in which neither the server nor the client's plane is concerned.
LEMMA LivesRest ==
    ASSUME Typed, Typed', LivesOnce, UNCHANGED down, client'.cache = client.cache,
           Shown' = Shown, part'[Own] = part[Own], spawned'[Own] = spawned[Own]
    PROVE  LivesOnce'
<1>1. Told' = Told /\ Told \in Int
  BY LivesAreNumbers DEF Told
<1>2. part'[Own].plane # None => part'[Own].plane.life = spawned'[Own]
  BY DEF LivesOnce
<1> QED
  BY <1>1, <1>2, LivesStay

LEMMA NextLives ==
    ASSUME Typed, LivesOnce, [Next]_vars
    PROVE  LivesOnce'
<1> USE TypedFacts
<1>1. Typed'
  BY NextTyped
<1>2. CASE HandleReqSky
  <2> DEFINE captured(p) == CaptureParticipation(part[p])
             packet == InitSky(MapOf(captured, Members))
  <2>1. down' = Append(down, packet) /\ UNCHANGED <<part, spawned, client>>
    BY <1>2 DEF HandleReqSky
  <2>2. packet \in DownPacket /\ packet.type # "DeltaSky"
    <3>1. MapOf(captured, Members) \in [Players -> ParticipationInit \cup {None}]
      BY CaptureIs DEF MapOf
    <3> HIDE DEF captured
    <3> QED
      BY <3>1 DEF InitSky, DownPacket
  <2> HIDE DEF packet
  <2> QED
    BY <1>1, <2>1, <2>2, LivesPass
<1>3. CASE HandleReqSpawn
  <2>1. client' = client /\ down' = down /\ Shown' = Shown
    BY <1>3 DEF HandleReqSpawn, Shown
  <2>2. CASE part[Own].plane = None
    <3>1. spawned[Own] \in Nat /\ part \in Skies /\ spawned \in [Players -> Nat] /\ Own \in Players
      BY DEF Typed, TypeOK
    <3>2. /\ part' = [part EXCEPT ![Own] = SpawnPlane(part[Own], spawned[Own] + 1)]
          /\ spawned' = [spawned EXCEPT ![Own] = spawned[Own] + 1]
      BY <1>3, <2>2 DEF HandleReqSpawn, Spawn
    <3>3. /\ part'[Own].plane.life = spawned[Own] + 1 /\ part'[Own].newlyAlive
          /\ spawned'[Own] = spawned[Own] + 1
      BY <3>1, <3>2, SpawnIs DEF Lives, Skies
    <3>4. Told = spawned[Own] /\ Told <= Told'
      BY <2>2, <3>1, <3>3 DEF Told
    <3> QED
      BY <1>1, <2>1, <3>3, <3>4, LivesStay
  <2>3. CASE part[Own].plane # None
    BY <1>1, <1>3, <2>1, <2>3, LivesRest DEF HandleReqSpawn
  <2> QED
    BY <2>2, <2>3
<1>4. CASE HandleReqInput \/ PressSpawn \/ ClientAsksSky \/ UNCHANGED vars
  <2>1. UNCHANGED <<part, spawned, client, down>>
    BY <1>4 DEF HandleReqInput, PressSpawn, ClientAsksSky, vars, serverVars
  <2>2. Shown' = Shown
    BY <2>1 DEF Shown
  <2> QED
    BY <1>1, <2>1, <2>2, LivesRest
<1>5. ASSUME NEW p \in Others, OtherSpawns(p)
      PROVE  LivesOnce'
  <2>1. UNCHANGED <<client, down>> /\ p # Own
    BY <1>5 DEF OtherSpawns, Others
  <2>2. part'[Own] = part[Own] /\ spawned'[Own] = spawned[Own]
    BY <1>5, <2>1 DEF OtherSpawns, Spawn, Typed, TypeOK, Skies
  <2>3. Shown' = Shown
    BY <2>1 DEF Shown
  <2> QED
    BY <1>1, <2>1, <2>2, <2>3, LivesRest
<1>6. ASSUME NEW p \in Others, OtherQuits(p)
      PROVE  LivesOnce'
  <2>1. UNCHANGED <<client, spawned>> /\ down' = Append(down, Quit(p)) /\ p # Own
    BY <1>6 DEF OtherQuits, Others
  <2>2. part'[Own] = part[Own]
    BY <1>6, <2>1 DEF OtherQuits, Typed, TypeOK, Skies
  <2>3. Quit(p) \in DownPacket /\ Quit(p).type # "DeltaSky"
    BY DEF Quit, DownPacket
  <2> QED
    BY <1>1, <2>1, <2>2, <2>3, LivesPass
<1>7. ASSUME NEW p \in Others, OtherJoins(p)
      PROVE  LivesOnce'
  <2>1. UNCHANGED <<client, spawned>> /\ down' = Append(down, Join(p)) /\ p # Own
    BY <1>7 DEF OtherJoins, Others
  <2>2. part'[Own] = part[Own]
    BY <1>7, <2>1 DEF OtherJoins, Typed, TypeOK, Skies
  <2>3. Join(p) \in DownPacket /\ Join(p).type # "DeltaSky"
    BY DEF Join, DownPacket
  <2> QED
    BY <1>1, <2>1, <2>2, <2>3, LivesPass
<1>8. CASE ClientSendsInput
  <2> DEFINE x == InputSent(client.sky[Own])
  <2>1. client' = [client EXCEPT !.sky[Own] = x] /\ client.sky # None
    BY <1>8, SendsInputTyped DEF ClientSendsInput
  <2>2. x \in Participations /\ x.plane = client.sky[Own].plane
    BY <2>1, InputIs
  <2> HIDE DEF x
  <2>3. client'.cache = client.cache /\ client'.sky # None /\ client'.sky[Own] = x
    BY <2>1, <2>2, OwnChangesProper DEF Typed, AskedOnce, WithSky
  <2>4. Shown' = Shown
    BY <2>1, <2>2, <2>3 DEF Shown
  <2> QED
    BY <1>1, <1>8, <2>3, <2>4, LivesRest DEF ClientSendsInput, serverVars
<1>9. ASSUME NEW control \in Controls, DoAction(control)
      PROVE  LivesOnce'
  <2> DEFINE x == [client.sky[Own] EXCEPT !.controls = control]
  <2>1. client' = [client EXCEPT !.sky[Own] = x] /\ client.sky # None /\ x \in Participations
    BY <1>9, ActionTyped DEF DoAction
  <2>2. x.plane = client.sky[Own].plane
    BY <2>1 DEF Participations
  <2> HIDE DEF x
  <2>3. client'.cache = client.cache /\ client'.sky # None /\ client'.sky[Own] = x
    BY <2>1, <2>2, OwnChangesProper DEF Typed, AskedOnce, WithSky
  <2>4. Shown' = Shown
    BY <2>1, <2>2, <2>3 DEF Shown
  <2> QED
    BY <1>1, <1>9, <2>3, <2>4, LivesRest DEF DoAction, serverVars
<1> QED
  BY <1>2, <1>3, <1>4, <1>5, <1>6, <1>7, <1>8, <1>9, LivesTicked, LivesReceived,
     LivesPolled DEF Next

\* The server's deltas decide whether the client's own plane lives, and never
\* where it is: what RespectClientAuthority leaves of a delta moves no plane
\* and no life is announced again to a client that shows it.
THEOREM MotionStaysOwn == Spec => MotionIsOwn
<1> DEFINE Kept ==
             client.sky # None /\ client'.sky # None =>
               LET old == client.sky[Own].plane
                   new == client'.sky[Own].plane
               IN  old # None /\ new # None /\ old.life = new.life
                      => new.motion = old.motion
<1>1. SkyInit => Typed /\ LivesOnce
  BY InitTyped, InitLives
<1>2. Typed /\ LivesOnce /\ [Next]_vars => (Typed /\ LivesOnce)'
  BY NextTyped, NextLives
<1>3. Typed /\ LivesOnce /\ [Next]_vars => [Kept]_vars
  <2> SUFFICES ASSUME Typed, LivesOnce, Next, client.sky # None, client'.sky # None,
                      client.sky[Own].plane # None, client'.sky[Own].plane # None,
                      client.sky[Own].plane.life = client'.sky[Own].plane.life
               PROVE  client'.sky[Own].plane = client.sky[Own].plane
    OBVIOUS
  <2> USE TypedFacts
  <2>1. CASE client' = client
    BY <2>1
  <2>2. CASE ClientPolls
    <3>1. PICK n \in 1 .. Len(client.cache) : client' = Release(client, n)
      BY <2>2 DEF ClientPolls
    <3>2. client.cache \in Seq(DeltaMap) /\ n \in 0 .. Len(client.cache)
      BY <3>1 DEF Proper, Client, DeltaMap
    <3>3. ASSUME NEW j \in 1 .. n, Life(client.cache[j]) # 0,
                 client'.sky[Own].plane = client.cache[j][Own].spawn
          PROVE  FALSE
      <4>1. j \in DOMAIN client.cache /\ client.cache[j] \in DeltaMap
        BY <3>2
      <4>2. Life(client.cache[j]) = client.sky[Own].plane.life
        BY <3>3, <4>1, LifeIs
      <4>3. Life(client.cache[j]) # Shown
        BY <3>3, <4>1 DEF LivesOnce, Fresh
      <4> QED
        BY <4>2, <4>3 DEF Shown
    <3> QED
      BY <3>1, <3>2, <3>3, ReleaseOwn DEF LivesOnce, Typed, AskedOnce
  <2>3. CASE ClientReceives
    <3> DEFINE head == Head(down)
    <3>1. /\ client' = Receive(client, head) /\ head \in DownPacket
          /\ head.type = "InitSky" => Has(down, "InitSky")
      BY <2>3, HasTail DEF ClientReceives, Typed, TypeOK
    <3> HIDE DEF head
    <3>2. head.type # "InitSky"
      BY <3>1 DEF Typed, AskedOnce
    <3>3. CASE head.type = "DeltaSky"
      BY <3>1, <3>3, ReceiveDelta
    <3>4. CASE head.type \in {"Quit", "Join"}
      BY <3>1, <3>4, ReceivePlayerOwn
    <3> QED
      BY <3>1, <3>2, <3>3, <3>4 DEF DownPacket
  <2>4. CASE ClientSendsInput
    <3>1. client' = [client EXCEPT !.sky[Own] = InputSent(client.sky[Own])]
      BY <2>4, SendsInputTyped
    <3> QED
      BY <3>1, InputIs, OwnChangesProper DEF Typed, AskedOnce
  <2>5. ASSUME NEW control \in Controls, DoAction(control)
        PROVE  client'.sky[Own].plane = client.sky[Own].plane
    <3> DEFINE x == [client.sky[Own] EXCEPT !.controls = control]
    <3>1. client' = [client EXCEPT !.sky[Own] = x] /\ x \in Participations
      BY <2>5, ActionTyped
    <3>2. x.plane = client.sky[Own].plane
      BY DEF Participations
    <3> HIDE DEF x
    <3> QED
      BY <3>1, <3>2, OwnChangesProper DEF Typed, AskedOnce
  <2>6. CASE client' = client \/ ClientPolls \/ ClientReceives \/ ClientSendsInput
             \/ \E control \in Controls : DoAction(control)
    BY <2>1, <2>2, <2>3, <2>4, <2>5, <2>6
  <2>7. ASSUME NEW due \in BOOLEAN, ServerTick(due)
        PROVE  client' = client
    BY <2>7, ServerTickIs DEF TickLeads
  <2> QED
    BY <2>6, <2>7 DEF Next, HandleReqSky, HandleReqSpawn, HandleReqInput, OtherSpawns,
       OtherQuits, OtherJoins, ClientAsksSky, PressSpawn
<1> QED
  BY <1>1, <1>2, <1>3, PTL DEF Spec, MotionIsOwn

-----------------------------------------------------------------------------
(* The client's controls on their way to the server *)

\* What an input makes of the controls.
SaidStep == [e \in Controls \X ParticipationInput |->
                IF e[2].controls = None THEN e[1] ELSE e[2].controls]

Said(controls, some) == Folded(SaidStep, controls, some)

InputOf(packet) == IF packet.type = "ReqInput" THEN packet.input ELSE NoInput

InputsOf(packets) == [i \in DOMAIN packets |-> InputOf(packets[i])]

LEMMA SaidSteps ==
    /\ IsStep(SaidStep, Controls, ParticipationInput)
    /\ \A controls \in Controls, input \in ParticipationInput :
          SaidStep[<<controls, input>>] =
             IF input.controls = None THEN controls ELSE input.controls
<1>1. \A e \in Controls \X ParticipationInput :
         (IF e[2].controls = None THEN e[1] ELSE e[2].controls) \in Controls
  BY DEF ParticipationInput
<1> QED
  BY <1>1 DEF SaidStep, IsStep

LEMMA SaidIs ==
    ASSUME NEW x \in Participations, NEW some \in Seq(ParticipationInput)
    PROVE  /\ x.controls \in Controls
           /\ Said(x.controls, some) \in Controls
           /\ ApplyInputs(x, some).controls = Said(x.controls, some)
<1>1. PICK f \in [0 .. Len(some) -> Participations] :
         /\ f[0] = x
         /\ \A i \in 1 .. Len(some) : f[i] = ApplyInput(f[i - 1], some[i])
         /\ ApplyInputs(x, some) = f[Len(some)]
  BY ApplyInputsIs
<1> DEFINE g == [n \in 0 .. Len(some) |-> f[n].controls]
<1>2. Len(some) \in Nat /\ x.controls \in Controls
  BY DEF Participations
<1>3. g[0] = x.controls /\ g[Len(some)] = ApplyInputs(x, some).controls
  BY <1>1, <1>2
<1>4. ASSUME NEW i \in 1 .. Len(some)
      PROVE  g[i] = SaidStep[<<g[i - 1], some[i]>>]
  <2>1. i \in 0 .. Len(some) /\ i - 1 \in 0 .. Len(some) /\ some[i] \in ParticipationInput
    BY <1>2
  <2>2. f[i - 1] \in Participations /\ f[i] = ApplyInput(f[i - 1], some[i])
    BY <1>1, <2>1
  <2>3. f[i - 1].controls \in Controls
    BY <2>2 DEF Participations
  <2> DEFINE y == f[i - 1]
             e == some[i]
  <2>4. f[i].controls = SaidStep[<<y.controls, e>>]
    <3> HIDE DEF y, e
    <3>1. f[i].controls = IF e.controls = None THEN y.controls ELSE e.controls
      <4>1. y \in Participations /\ e \in ParticipationInput /\ f[i] = ApplyInput(y, e)
        BY <2>1, <2>2 DEF y, e
      <4> QED
        BY <4>1, ApplyInputIs
    <3>2. y.controls \in Controls /\ e \in ParticipationInput
      BY <2>1, <2>3 DEF y, e
    <3> QED
      BY <3>1, <3>2, SaidSteps
  <2> QED
    BY <2>1, <2>4
<1> HIDE DEF g
<1>5. IsFold(g, SaidStep, x.controls, some, Len(some))
  BY <1>3, <1>4 DEF IsFold
<1>6. Said(x.controls, some) = g[Len(some)]
  BY <1>5, FoldsAgree DEF Said
<1>7. Said(x.controls, some) \in Controls
  BY <1>2, SaidSteps, FoldedIs DEF Said
<1> QED
  BY <1>2, <1>3, <1>6, <1>7

LEMMA InputOfIs ==
    ASSUME NEW packet \in UpPacket
    PROVE  /\ InputOf(packet) \in ParticipationInput
           /\ packet.type # "ReqInput" => InputOf(packet).controls = None
           /\ packet.type = "ReqInput" => InputOf(packet) = packet.input
BY DEF InputOf, UpPacket, NoInput, ParticipationInput

LEMMA InputsOfAre ==
    ASSUME NEW packets \in Seq(UpPacket)
    PROVE  /\ InputsOf(packets) \in Seq(ParticipationInput)
           /\ packets = <<>> => InputsOf(packets) = <<>>
           /\ packets # <<>> => /\ Head(packets) \in UpPacket
                                /\ InputsOf(packets) # <<>>
                                /\ Head(InputsOf(packets)) = InputOf(Head(packets))
                                /\ Tail(InputsOf(packets)) = InputsOf(Tail(packets))
           /\ \A packet \in UpPacket :
                 InputsOf(Append(packets, packet)) = Append(InputsOf(packets), InputOf(packet))
<1> DEFINE q == InputsOf(packets)
<1>1. Len(packets) \in Nat /\ DOMAIN packets = 1 .. Len(packets)
  OBVIOUS
<1>2. /\ q \in [1 .. Len(packets) -> ParticipationInput]
      /\ \A i \in 1 .. Len(packets) : q[i] = InputOf(packets[i])
  BY <1>1, InputOfIs DEF InputsOf
<1>3. q \in Seq(ParticipationInput) /\ Len(q) = Len(packets)
  BY <1>1, <1>2
<1>4. packets = <<>> => q = <<>>
  BY <1>3
<1>5. ASSUME packets # <<>>
      PROVE  /\ Head(packets) \in UpPacket /\ q # <<>>
             /\ Head(q) = InputOf(Head(packets)) /\ Tail(q) = InputsOf(Tail(packets))
  <2>1. /\ Head(packets) \in UpPacket /\ Head(packets) = packets[1] /\ 1 \in 1 .. Len(packets)
        /\ DOMAIN Tail(packets) = 1 .. Len(packets) - 1
        /\ \A i \in 1 .. Len(packets) - 1 : Tail(packets)[i] = packets[i + 1]
                                            /\ i + 1 \in 1 .. Len(packets)
    BY <1>5
  <2>2. q # <<>> /\ Head(q) = q[1]
    BY <1>3, <2>1
  <2>3. /\ Tail(q) \in Seq(ParticipationInput) /\ DOMAIN Tail(q) = 1 .. Len(packets) - 1
        /\ \A i \in 1 .. Len(packets) - 1 : Tail(q)[i] = q[i + 1]
    BY <1>3, <2>2
  <2>4. Tail(q) = [i \in 1 .. Len(packets) - 1 |-> Tail(q)[i]]
    <3> DEFINE t == Tail(q)
    <3>1. t \in Seq(ParticipationInput) /\ DOMAIN t = 1 .. Len(packets) - 1
      BY <2>3
    <3> HIDE DEF t
    <3>2. t = [i \in 1 .. Len(packets) - 1 |-> t[i]]
      BY <3>1
    <3> QED
      BY <3>2 DEF t
  <2>5. InputsOf(Tail(packets)) = [i \in 1 .. Len(packets) - 1 |-> InputOf(packets[i + 1])]
    BY <2>1 DEF InputsOf
  <2>6. \A i \in 1 .. Len(packets) - 1 : Tail(q)[i] = InputOf(packets[i + 1])
    BY <1>2, <2>1, <2>3
  <2>7. Tail(q) = InputsOf(Tail(packets))
    BY <2>4, <2>5, <2>6
  <2> QED
    BY <1>2, <2>1, <2>2, <2>7
<1>6. ASSUME NEW packet \in UpPacket
      PROVE  InputsOf(Append(packets, packet)) = Append(q, InputOf(packet))
  <2> DEFINE longer == Append(packets, packet)
             r == Append(q, InputOf(packet))
             N == Len(packets) + 1
  <2>1. /\ DOMAIN longer = 1 .. N /\ longer[N] = packet
        /\ \A i \in 1 .. Len(packets) : longer[i] = packets[i]
    BY <1>1
  <2>2. /\ r \in Seq(ParticipationInput) /\ DOMAIN r = 1 .. N /\ r[N] = InputOf(packet)
        /\ \A i \in 1 .. Len(packets) : r[i] = q[i]
    BY <1>1, <1>3, InputOfIs
  <2> HIDE DEF longer, r
  <2>3. \A i \in 1 .. N : r[i] = InputOf(longer[i])
    BY <1>1, <1>2, <2>1, <2>2
  <2>4. r = [i \in 1 .. N |-> r[i]]
    BY <2>2
  <2>5. InputsOf(longer) = [i \in 1 .. N |-> InputOf(longer[i])]
    BY <2>1 DEF InputsOf
  <2> QED
    BY <2>3, <2>4, <2>5 DEF longer, r
<1> QED
  BY <1>3, <1>4, <1>5, <1>6

\* What the server will take the client's controls to be.
Heard(x, some, packets) == Said(Said(x.controls, some), InputsOf(packets))

LEMMA HeardIs ==
    ASSUME Typed
    PROVE  /\ Heard(part[Own], inputs, up) \in Controls
           /\ ApplyInputs(part[Own], inputs \o Sent).controls = Heard(part[Own], inputs, up)
<1>1. /\ part[Own] \in Participations /\ inputs \in Seq(ParticipationInput)
      /\ up \in Seq(UpPacket)
  BY TypedFacts DEF Typed, TypeOK
<1>2. Sent = InputsOf(up) /\ Sent \in Seq(ParticipationInput)
  BY <1>1, InputsOfAre DEF Sent, InputsOf, InputOf
<1> DEFINE x == part[Own]
           some == Sent
<1> HIDE DEF x
<1>3. x.controls \in Controls /\ Said(x.controls, inputs) \in Controls
  BY <1>1, SaidIs DEF x
<1> HIDE DEF some
<1>4. Said(x.controls, inputs \o some) = Said(Said(x.controls, inputs), some)
  BY <1>1, <1>2, <1>3, SaidSteps, FoldedThen DEF Said, some
<1>5. Said(Said(x.controls, inputs), some) \in Controls
  BY <1>2, <1>3, SaidSteps, FoldedIs DEF Said, some
<1>6. inputs \o some \in Seq(ParticipationInput)
  BY <1>1, <1>2 DEF some
<1>7. ApplyInputs(x, inputs \o some).controls = Said(x.controls, inputs \o some)
  BY <1>1, <1>6, SaidIs DEF x
<1> QED
  BY <1>2, <1>4, <1>5, <1>7 DEF Heard, x, some

\* The client's controls, as they are held to be announced.
Agreed == client.sky # None =>
             Heard(part[Own], inputs, up) = client.sky[Own].lastControls

LEMMA AgreedIs == Typed => (Agreed <=> ControlsReachServer)
BY HeardIs DEF Agreed, ControlsReachServer

\* A packet that carries no controls is taken by the server.
LEMMA HeardPolls ==
    ASSUME NEW controls \in Controls, NEW packets \in Seq(UpPacket), packets # <<>>
    PROVE  /\ Tail(packets) \in Seq(UpPacket)
           /\ Said(controls, InputsOf(packets)) =
                 Said(SaidStep[<<controls, InputOf(Head(packets))>>], InputsOf(Tail(packets)))
           /\ Head(packets).type # "ReqInput" =>
                 Said(controls, InputsOf(packets)) = Said(controls, InputsOf(Tail(packets)))
<1>1. /\ InputsOf(packets) \in Seq(ParticipationInput) /\ InputsOf(packets) # <<>>
      /\ Head(InputsOf(packets)) = InputOf(Head(packets)) /\ Head(packets) \in UpPacket
      /\ Tail(InputsOf(packets)) = InputsOf(Tail(packets))
  BY InputsOfAre
<1> DEFINE some == InputsOf(packets)
<1>2. Said(controls, InputsOf(packets)) =
         Said(SaidStep[<<controls, InputOf(Head(packets))>>], InputsOf(Tail(packets)))
  <2>1. some \in Seq(ParticipationInput) /\ some # <<>>
    BY <1>1
  <2> HIDE DEF some
  <2>2. Folded(SaidStep, controls, some) =
           Folded(SaidStep, SaidStep[<<controls, Head(some)>>], Tail(some))
    BY <2>1, SaidSteps, FoldedHead
  <2> QED
    BY <1>1, <2>2 DEF Said, some
<1>3. Head(packets).type # "ReqInput" =>
         SaidStep[<<controls, InputOf(Head(packets))>>] = controls
  BY <1>1, InputOfIs, SaidSteps
<1> QED
  BY <1>2, <1>3

\* A packet is sent.
LEMMA HeardSends ==
    ASSUME NEW controls \in Controls, NEW packets \in Seq(UpPacket), NEW packet \in UpPacket
    PROVE  Said(controls, InputsOf(Append(packets, packet))) =
              SaidStep[<<Said(controls, InputsOf(packets)), InputOf(packet)>>]
<1>1. /\ InputsOf(packets) \in Seq(ParticipationInput) /\ InputOf(packet) \in ParticipationInput
      /\ InputsOf(Append(packets, packet)) = Append(InputsOf(packets), InputOf(packet))
  BY InputsOfAre, InputOfIs
<1> QED
  BY <1>1, SaidSteps, FoldedLast DEF Said

LEMMA InitAgreed == SkyInit => Agreed
BY DEF SkyInit, Agreed

LEMMA TickAgreed ==
    ASSUME Typed, Agreed, NEW due \in BOOLEAN, ServerTick(due)
    PROVE  Agreed'
<1> USE TypedFacts
<1>1. PICK n \in 0 .. Len(inputs), after \in Skies :
         TickLeads(after, n) /\ (TickKeeps(after) \/ TickSends(after))
  BY ServerTickIs
<1> DEFINE first == SubSeq(inputs, 1, n)
           x == part[Own]
<1>2. /\ inputs \in Seq(ParticipationInput) /\ first \in Seq(ParticipationInput)
      /\ inputs' \in Seq(ParticipationInput) /\ inputs = first \o inputs'
  <2>1. inputs \in Seq(ParticipationInput) /\ inputs' = SubSeq(inputs, n + 1, Len(inputs))
    BY <1>1 DEF TickLeads, Typed, TypeOK
  <2> QED
    BY <2>1, SplitAt
<1>3. after[Own].controls = ApplyInputs(x, first).controls
  BY <1>1 DEF TickLeads
<1>4. part'[Own].controls = after[Own].controls
  <2>1. CASE TickKeeps(after)
    BY <2>1 DEF TickKeeps
  <2>2. CASE TickSends(after)
    <3>1. after[Own] \in Participations /\ part'[Own] = Announced(after[Own])
      BY <1>1, <2>2, CollectedIs DEF TickLeads, TickSends
    <3> QED
      BY <3>1, AnnouncedIs
  <2> QED
    BY <1>1, <2>1, <2>2
<1> HIDE DEF first, x
<1>5. x \in Participations
  BY DEF x
<1>6. part'[Own].controls = Said(x.controls, first) /\ x.controls \in Controls
  BY <1>2, <1>3, <1>4, <1>5, SaidIs
<1>7. Said(x.controls, first \o inputs') = Said(Said(x.controls, first), inputs')
  BY <1>2, <1>6, SaidSteps, FoldedThen DEF Said
<1>8. Said(x.controls, inputs) = Said(part'[Own].controls, inputs')
  BY <1>2, <1>6, <1>7
<1>9. Heard(part[Own], inputs, up)' = Heard(part[Own], inputs, up) /\ client' = client
  BY <1>1, <1>8 DEF TickLeads, Heard, x
<1> QED
  BY <1>9 DEF Agreed

LEMMA ReceivesAgreed ==
    ASSUME Typed, Agreed, ClientReceives
    PROVE  Agreed'
<1> USE TypedFacts
<1> DEFINE head == Head(down)
<1>1. /\ client' = Receive(client, head) /\ head \in DownPacket
      /\ Has(down, "InitSky") <=> head.type = "InitSky" \/ Has(Tail(down), "InitSky")
      /\ Blank(head)
      /\ UNCHANGED <<part, inputs, up>>
  <2>1. down \in Seq(DownPacket) /\ down # <<>> /\ UNCHANGED <<part, inputs, up>>
    BY DEF ClientReceives, serverVars, Typed, TypeOK
  <2>2. head = down[1] /\ 1 \in DOMAIN down
    BY <2>1
  <2>3. Blank(head)
    BY <2>2 DEF Typed, AskedOnce
  <2> QED
    BY <2>1, <2>3, HasTail DEF ClientReceives
<1>2. Heard(part[Own], inputs, up)' = Heard(part[Own], inputs, up)
  BY <1>1 DEF Heard
<1> HIDE DEF head
<1>3. CASE head.type = "InitSky"
  <2>1. client.sky = None /\ ~loading
    BY <1>1, <1>3 DEF Typed, AskedOnce
  <2>2. inputs = <<>> /\ part[Own].controls = "idle"
    BY <2>1 DEF Typed, AskedOnce
  <2>3. up = <<>>
    <3> SUFFICES ASSUME up # <<>>
                 PROVE  FALSE
      OBVIOUS
    <3>1. up \in Seq(UpPacket) /\ Head(up) \in UpPacket /\ Has(up, Head(up).type)
      BY HasTail DEF Typed, TypeOK
    <3>2. Head(up).type \in {"ReqSky", "ReqSpawn", "ReqInput"}
      BY <3>1 DEF UpPacket
    <3> QED
      BY <2>1, <3>1, <3>2 DEF Typed, AskedOnce
  <2>4. Heard(part[Own], inputs, up) = "idle"
    <3>1. InputsOf(up) = <<>>
      BY <2>3, InputsOfAre DEF Typed, TypeOK
    <3> QED
      BY <2>2, <3>1, FoldedNone DEF Heard, Said
  <2>5. client'.sky = NewSky(client.arena, head.sky)
    BY <1>1, <1>3, ReceiveInit
  <2>6. /\ head.sky \in [Players -> ParticipationInit \cup {None}]
        /\ head.sky[Own] # None /\ head.sky[Own].controls = "idle"
    BY <1>1, <1>3 DEF Blank, DownPacket
  <2>7. client.arena \in SUBSET Players /\ Own \in client.arena
    BY DEF Proper, Client, Typed, AskedOnce
  <2>8. client'.sky[Own] = NewParticipation(head.sky[Own])
    BY <2>5, <2>6, <2>7, NewSkyIs
  <2>9. client'.sky[Own].lastControls = "idle"
    BY <2>6, <2>8, NewIs, NoneIsApart
  <2> QED
    BY <1>2, <2>4, <2>9 DEF Agreed
<1>4. CASE head.type = "DeltaSky"
  BY <1>1, <1>2, <1>4, ReceiveDelta DEF Agreed
<1>5. CASE head.type \in {"Quit", "Join"}
  BY <1>1, <1>2, <1>5, ReceivePlayerOwn DEF Agreed
<1> QED
  BY <1>1, <1>3, <1>4, <1>5 DEF DownPacket

LEMMA PollsAgreed ==
    ASSUME Typed, LivesOnce, Agreed, ClientPolls
    PROVE  Agreed'
<1> USE TypedFacts
<1>1. PICK n \in 1 .. Len(client.cache) : client' = Release(client, n)
  BY PollsTyped
<1>2. n \in 0 .. Len(client.cache) /\ client.sky # None /\ UNCHANGED <<part, inputs, up>>
  BY <1>1, PollsTyped DEF ClientPolls, serverVars
<1>3. client'.sky[Own].lastControls = client.sky[Own].lastControls
  BY <1>1, <1>2, ReleaseOwn DEF LivesOnce, Typed, AskedOnce
<1>4. Heard(part[Own], inputs, up)' = Heard(part[Own], inputs, up)
  BY <1>2 DEF Heard
<1> QED
  BY <1>2, <1>3, <1>4 DEF Agreed

\* Nothing but one packet to the server is sent or taken.
LEMMA RestAgreed ==
    ASSUME Typed, Agreed,
           client'.sky # None => /\ client.sky # None
                                 /\ client'.sky[Own].lastControls = client.sky[Own].lastControls,
           UNCHANGED inputs, part'[Own].controls = part[Own].controls,
           \/ up' = up
           \/ up # <<>> /\ up' = Tail(up) /\ Head(up).type # "ReqInput"
           \/ \E packet \in UpPacket : up' = Append(up, packet) /\ packet.type # "ReqInput"
    PROVE  Agreed'
<1> USE TypedFacts
<1> DEFINE k == Said(part[Own].controls, inputs)
<1>1. k \in Controls /\ up \in Seq(UpPacket) /\ k' = k
  BY SaidIs DEF Typed, TypeOK
<1> HIDE DEF k
<1>2. Said(k, InputsOf(up')) = Said(k, InputsOf(up))
  <2>1. CASE up # <<>> /\ up' = Tail(up) /\ Head(up).type # "ReqInput"
    BY <1>1, <2>1, HeardPolls
  <2>2. ASSUME NEW packet \in UpPacket, up' = Append(up, packet), packet.type # "ReqInput"
        PROVE  Said(k, InputsOf(up')) = Said(k, InputsOf(up))
    <3>1. Said(k, InputsOf(up)) \in Controls
      BY <1>1, InputsOfAre, SaidSteps, FoldedIs DEF Said
    <3>2. InputOf(packet) \in ParticipationInput /\ InputOf(packet).controls = None
      BY <2>2, InputOfIs
    <3>3. SaidStep[<<Said(k, InputsOf(up)), InputOf(packet)>>] = Said(k, InputsOf(up))
      BY <3>1, <3>2, SaidSteps
    <3> QED
      BY <1>1, <2>2, <3>3, HeardSends
  <2> QED
    BY <2>1, <2>2
<1>3. Heard(part[Own], inputs, up)' = Heard(part[Own], inputs, up)
  BY <1>1, <1>2 DEF Heard, k
<1> QED
  BY <1>3 DEF Agreed

LEMMA NextAgreed ==
    ASSUME Typed, LivesOnce, Agreed, [Next]_vars
    PROVE  Agreed'
<1> USE TypedFacts
<1>1. CASE HandleReqSky
  BY <1>1, RestAgreed DEF HandleReqSky, Polls
<1>2. CASE HandleReqSpawn
  <2>1. part'[Own].controls = part[Own].controls
    <3>1. CASE part[Own].plane = None
      <4>1. spawned[Own] \in Nat /\ part \in Skies
        BY NoneIsApart DEF Typed, TypeOK
      <4>2. part' = [part EXCEPT ![Own] = SpawnPlane(part[Own], spawned[Own] + 1)]
        BY <1>2, <3>1 DEF HandleReqSpawn, Spawn
      <4> QED
        BY <4>1, <4>2, SpawnIs, NoneIsApart DEF Lives, Skies
    <3>2. CASE part[Own].plane # None
      BY <1>2, <3>2 DEF HandleReqSpawn
    <3> QED
      BY <3>1, <3>2
  <2> QED
    BY <1>2, <2>1, RestAgreed DEF HandleReqSpawn, Polls
<1>3. CASE HandleReqInput
  <2> DEFINE c == part[Own].controls
             input == Head(up).input
  <2>1. /\ up # <<>> /\ Head(up).type = "ReqInput" /\ up' = Tail(up)
        /\ inputs' = Append(inputs, input) /\ UNCHANGED <<part, client>>
    BY <1>3 DEF HandleReqInput, Polls
  <2>2. /\ up \in Seq(UpPacket) /\ inputs \in Seq(ParticipationInput) /\ c \in Controls
        /\ Said(c, inputs) \in Controls
    BY SaidIs DEF Typed, TypeOK
  <2>3. input \in ParticipationInput /\ InputOf(Head(up)) = input
    BY <1>3, <2>1, ReqInputTyped DEF InputOf
  <2> HIDE DEF c, input
  <2>4. Said(c, Append(inputs, input)) = SaidStep[<<Said(c, inputs), input>>]
    BY <2>2, <2>3, SaidSteps, FoldedLast DEF Said
  <2>5. Said(Said(c, inputs), InputsOf(up)) =
           Said(SaidStep[<<Said(c, inputs), input>>], InputsOf(Tail(up)))
    BY <2>1, <2>2, <2>3, HeardPolls
  <2>6. c' = c
    BY <2>1 DEF c
  <2>7. Heard(part[Own], inputs, up)' = Heard(part[Own], inputs, up)
    BY <2>1, <2>4, <2>5, <2>6 DEF Heard, c
  <2> QED
    BY <2>1, <2>7 DEF Agreed
<1>4. ASSUME NEW p \in Others, OtherSpawns(p) \/ OtherQuits(p) \/ OtherJoins(p)
      PROVE  Agreed'
  <2>1. part'[Own] = part[Own] /\ UNCHANGED <<inputs, up, client>>
    BY <1>4 DEF OtherSpawns, OtherQuits, OtherJoins, Spawn, Others, Typed, TypeOK, Skies
  <2> QED
    BY <2>1, RestAgreed
<1>5. CASE ClientSendsInput
  <2> DEFINE x == client.sky[Own]
             packet == [type |-> "ReqInput", input |-> CollectedInput(x)]
  <2>1. /\ client' = [client EXCEPT !.sky[Own] = InputSent(x)] /\ client.sky # None
        /\ up' = Append(up, packet) /\ UNCHANGED <<part, inputs>>
    BY <1>5, SendsInputTyped DEF ClientSendsInput, Transmit, serverVars
  <2>2. /\ x \in Participations /\ InputSent(x) \in Participations
        /\ CollectedInput(x) \in ParticipationInput
        /\ CollectedInput(x).controls = IF x.controls = x.lastControls THEN None ELSE x.controls
        /\ InputSent(x).lastControls = x.controls
    BY <2>1, InputIs
  <2>3. packet \in UpPacket /\ InputOf(packet) = CollectedInput(x)
    BY <2>2 DEF UpPacket, InputOf
  <2>4. client'.sky # None /\ client'.sky[Own] = InputSent(x)
    BY <2>1, <2>2, OwnChangesProper DEF Typed, AskedOnce, WithSky
  <2>5. Heard(part[Own], inputs, up) = x.lastControls
    BY <2>1 DEF Agreed
  <2>6. Said(part[Own].controls, inputs) \in Controls /\ up \in Seq(UpPacket)
    BY SaidIs DEF Typed, TypeOK
  <2> HIDE DEF packet, x
  <2>7. Heard(part[Own], inputs, up)' = SaidStep[<<x.lastControls, CollectedInput(x)>>]
    BY <2>1, <2>3, <2>5, <2>6, HeardSends DEF Heard
  <2>8. x.controls \in Controls /\ x.lastControls \in Controls
    BY <2>2 DEF Participations
  <2>9. SaidStep[<<x.lastControls, CollectedInput(x)>>] = x.controls
    BY <2>2, <2>8, SaidSteps, NoneIsApart
  <2> QED
    BY <2>2, <2>4, <2>7, <2>9 DEF Agreed
<1>6. CASE ClientAsksSky
  <2>1. /\ UNCHANGED <<client, part, inputs>>
        /\ up' = Append(up, [type |-> "ReqSky"])
    BY <1>6 DEF ClientAsksSky, serverVars, Transmit
  <2>2. [type |-> "ReqSky"] \in UpPacket
    BY DEF UpPacket
  <2> QED
    BY <2>1, <2>2, RestAgreed
<1>7. CASE PressSpawn
  <2>1. /\ UNCHANGED <<client, part, inputs>>
        /\ up' = Append(up, [type |-> "ReqSpawn"])
    BY <1>7 DEF PressSpawn, serverVars, Transmit
  <2>2. [type |-> "ReqSpawn"] \in UpPacket
    BY DEF UpPacket
  <2> QED
    BY <2>1, <2>2, RestAgreed
<1>8. ASSUME NEW control \in Controls, DoAction(control)
      PROVE  Agreed'
  <2> DEFINE x == [client.sky[Own] EXCEPT !.controls = control]
  <2>1. /\ client' = [client EXCEPT !.sky[Own] = x] /\ x \in Participations
        /\ client.sky # None /\ UNCHANGED <<part, inputs, up>>
    BY <1>8, ActionTyped DEF DoAction, serverVars
  <2>2. x.lastControls = client.sky[Own].lastControls
    BY <2>1 DEF Participations
  <2> HIDE DEF x
  <2>3. client'.sky[Own] = x
    BY <2>1, OwnChangesProper DEF Typed, AskedOnce
  <2> QED
    BY <2>1, <2>2, <2>3, RestAgreed
<1>9. CASE UNCHANGED vars
  BY <1>9, RestAgreed DEF vars, serverVars
<1> QED
  BY <1>1, <1>2, <1>3, <1>4, <1>5, <1>6, <1>7, <1>8, <1>9, TickAgreed, ReceivesAgreed,
     PollsAgreed DEF Next

\* No change of the user's controls is lost or overtaken on its way to the
\* server: the inputs sent and those in the server's cache make of the
\* server's controls what the client believes to have announced.
THEOREM ControlsArrive == Spec => []ControlsReachServer
<1>1. SkyInit => Typed /\ LivesOnce /\ Agreed
  BY InitTyped, InitLives, InitAgreed
<1>2. Typed /\ LivesOnce /\ Agreed /\ [Next]_vars => (Typed /\ LivesOnce /\ Agreed)'
  BY NextTyped, NextLives, NextAgreed
<1>3. Typed /\ LivesOnce /\ Agreed => ControlsReachServer
  BY AgreedIs
<1> QED
  BY <1>1, <1>2, <1>3, PTL DEF Spec

-----------------------------------------------------------------------------
(* What one player's participation will be at the client *)

\* The part of a client that p's participation depends on.  ok: no player
\* has joined with a PID in use, no delta was for a PID that is not.
Views == [sky : BOOLEAN, in : BOOLEAN, ok : BOOLEAN,
          plane : Plane \cup {None}, controls : Controls]

View(p, c) ==
    LET there == c.sky # None /\ p \in c.arena
    IN  [sky |-> c.sky # None, in |-> p \in c.arena, ok |-> TRUE,
         plane |-> IF there THEN c.sky[p].plane ELSE None,
         controls |-> IF there /\ p # Own THEN c.sky[p].controls ELSE "idle"]

ReadsInit(p, x, init) ==
    [x EXCEPT !.sky = TRUE,
              !.plane = IF x.in THEN init.spawn ELSE x.plane,
              !.controls = IF x.in /\ p # Own THEN init.controls ELSE x.controls]

ReadsDelta(p, x, delta) ==
    IF delta = None THEN x
    ELSE IF ~x.in THEN [x EXCEPT !.ok = FALSE]
    ELSE IF ~x.sky THEN x
    ELSE [x EXCEPT
            !.plane = IF delta.spawn # None THEN delta.spawn ELSE PlaneAfter(x.plane, delta),
            !.controls = IF p = Own \/ delta.controls = None THEN x.controls
                         ELSE delta.controls]

ReadsQuit(x) == [x EXCEPT !.in = FALSE, !.plane = None, !.controls = "idle"]

ReadsJoin(x) == [x EXCEPT !.in = TRUE, !.ok = IF x.in THEN FALSE ELSE x.ok,
                          !.plane = None, !.controls = "idle"]

Given(p, sky) == IF sky[p] = None THEN DefaultInit ELSE sky[p]

Reads(p, x, packet) ==
    IF packet.type = "InitSky" THEN ReadsInit(p, x, Given(p, packet.sky))
    ELSE IF packet.type = "DeltaSky" THEN ReadsDelta(p, x, packet.delta[p])
    ELSE IF packet.pid # p THEN x
    ELSE IF packet.type = "Quit" THEN ReadsQuit(x) ELSE ReadsJoin(x)

Reader(p) == [e \in Views \X DownPacket |-> Reads(p, e[1], e[2])]

Waiting(cache) == [i \in DOMAIN cache |-> DeltaSky(cache[i])]

\* What p's participation will be when the cache and then the packets are
\* read.
Will(p, c, packets) ==
    Folded(Reader(p), Folded(Reader(p), View(p, c), Waiting(c.cache)), packets)

LEMMA ViewIs ==
    ASSUME NEW c \in Proper, NEW p \in Players
    PROVE  LET x == View(p, c)
           IN  /\ x \in Views /\ x.ok
               /\ x.sky = (c.sky # None) /\ x.in = (p \in c.arena)
               /\ x.sky /\ x.in => /\ c.sky[p] \in Participations
                                   /\ x.plane = c.sky[p].plane
                                   /\ p # Own => x.controls = c.sky[p].controls
               /\ p = Own => x.controls = "idle"
               /\ ~(x.sky /\ x.in) => x.plane = None /\ x.controls = "idle"
<1>1. c.sky # None /\ p \in c.arena => c.sky[p] \in Participations
  <2> SUFFICES ASSUME c.sky # None, p \in c.arena
               PROVE  c.sky[p] \in Participations
    OBVIOUS
  <2>1. c.sky \in Skies /\ c.sky[p] # None
    BY DEF Proper, Client
  <2> QED
    BY <2>1 DEF Skies
<1> DEFINE there == c.sky # None /\ p \in c.arena
           plane == IF there THEN c.sky[p].plane ELSE None
           controls == IF there /\ p # Own THEN c.sky[p].controls ELSE "idle"
<1>2. plane \in Plane \cup {None} /\ controls \in Controls
  BY <1>1 DEF Participations, Controls
<1> DEFINE x == View(p, c)
<1>3. x = [sky |-> c.sky # None, in |-> p \in c.arena, ok |-> TRUE,
           plane |-> plane, controls |-> controls]
  BY DEF View
<1>4. /\ plane = IF there THEN c.sky[p].plane ELSE None
      /\ controls = IF there /\ p # Own THEN c.sky[p].controls ELSE "idle"
  OBVIOUS
<1> HIDE DEF plane, controls, x
<1>5. /\ x \in Views /\ x.ok
      /\ x.sky = (c.sky # None) /\ x.in = (p \in c.arena)
      /\ x.plane = plane /\ x.controls = controls
  BY <1>2, <1>3 DEF Views
<1> QED
  BY <1>1, <1>4, <1>5 DEF x

LEMMA ReadsInitIs ==
    ASSUME NEW p, NEW x \in Views, NEW init \in ParticipationInit
    PROVE  LET y == ReadsInit(p, x, init)
           IN  /\ y \in Views /\ y.sky /\ y.in = x.in /\ y.ok = x.ok
               /\ y.plane = IF x.in THEN init.spawn ELSE x.plane
               /\ y.controls = IF x.in /\ p # Own THEN init.controls ELSE x.controls
<1> DEFINE plane == IF x.in THEN init.spawn ELSE x.plane
           controls == IF x.in /\ p # Own THEN init.controls ELSE x.controls
<1>1. plane \in Plane \cup {None} /\ controls \in Controls
  BY DEF Views, ParticipationInit
<1>2. ReadsInit(p, x, init) = [x EXCEPT !.sky = TRUE, !.plane = plane, !.controls = controls]
  BY DEF ReadsInit
<1> HIDE DEF plane, controls
<1> QED
  BY <1>1, <1>2 DEF Views, plane, controls

LEMMA ReadsDeltaIs ==
    ASSUME NEW p, NEW x \in Views, NEW delta \in ParticipationDelta \cup {None}
    PROVE  LET y == ReadsDelta(p, x, delta)
           IN  /\ y \in Views /\ y.sky = x.sky /\ y.in = x.in
               /\ y.ok = (x.ok /\ (delta = None \/ x.in))
               /\ delta = None => y = x
               /\ ~x.sky \/ ~x.in => y.plane = x.plane /\ y.controls = x.controls
               /\ delta # None /\ x.in /\ x.sky =>
                    /\ y.plane = IF delta.spawn # None THEN delta.spawn
                                 ELSE PlaneAfter(x.plane, delta)
                    /\ y.controls = IF p = Own \/ delta.controls = None THEN x.controls
                                    ELSE delta.controls
<1>1. CASE delta = None
  BY <1>1 DEF ReadsDelta, Views
<1>2. CASE delta # None /\ ~x.in
  <2>1. ReadsDelta(p, x, delta) = [x EXCEPT !.ok = FALSE]
    BY <1>2 DEF ReadsDelta
  <2> QED
    BY <1>2, <2>1 DEF Views
<1>3. CASE delta # None /\ x.in /\ ~x.sky
  BY <1>3 DEF ReadsDelta, Views
<1>4. CASE delta # None /\ x.in /\ x.sky
  <2> DEFINE plane == IF delta.spawn # None THEN delta.spawn ELSE PlaneAfter(x.plane, delta)
             controls == IF p = Own \/ delta.controls = None THEN x.controls
                         ELSE delta.controls
  <2>1. delta \in ParticipationDelta /\ x.plane \in Plane \cup {None}
    BY <1>4 DEF Views
  <2>2. plane \in Plane \cup {None}
    BY <2>1, PlaneAfterIs DEF ParticipationDelta
  <2>3. controls \in Controls
    BY <2>1 DEF Views, ParticipationDelta
  <2>4. ReadsDelta(p, x, delta) = [x EXCEPT !.plane = plane, !.controls = controls]
    BY <1>4 DEF ReadsDelta
  <2> HIDE DEF plane, controls
  <2> QED
    BY <1>4, <2>2, <2>3, <2>4 DEF Views, plane, controls
<1> QED
  BY <1>1, <1>2, <1>3, <1>4

LEMMA ReadsPlayerIs ==
    ASSUME NEW x \in Views
    PROVE  /\ LET y == ReadsQuit(x)
              IN  /\ y \in Views /\ ~y.in /\ y.ok = x.ok /\ y.sky = x.sky
                  /\ y.plane = None /\ y.controls = "idle"
           /\ LET y == ReadsJoin(x)
              IN  /\ y \in Views /\ y.in /\ y.ok = (x.ok /\ ~x.in) /\ y.sky = x.sky
                  /\ y.plane = None /\ y.controls = "idle"
BY DEF ReadsQuit, ReadsJoin, Views, Controls

LEMMA ReadsIs ==
    ASSUME NEW p \in Players, NEW x \in Views, NEW packet \in DownPacket
    PROVE  /\ Reads(p, x, packet) \in Views
           /\ Reads(p, x, packet).ok => x.ok
<1>1. CASE packet.type = "InitSky"
  <2>1. Given(p, packet.sky) \in ParticipationInit
    BY <1>1, DefaultIsInit DEF DownPacket, Given
  <2> QED
    BY <1>1, <2>1, ReadsInitIs DEF Reads
<1>2. CASE packet.type = "DeltaSky"
  <2>1. packet.delta[p] \in ParticipationDelta \cup {None}
    BY <1>2 DEF DownPacket
  <2> QED
    BY <1>2, <2>1, ReadsDeltaIs DEF Reads
<1>3. CASE packet.type \in {"Quit", "Join"}
  BY <1>3, ReadsPlayerIs DEF Reads
<1> QED
  BY <1>1, <1>2, <1>3 DEF DownPacket

LEMMA ReaderIs ==
    ASSUME NEW p \in Players
    PROVE  /\ IsStep(Reader(p), Views, DownPacket)
           /\ \A x \in Views, packet \in DownPacket :
                 Reader(p)[<<x, packet>>] = Reads(p, x, packet)
BY ReadsIs DEF IsStep, Reader

\* A view that is not ok stays so.
LEMMA NotOkStays ==
    ASSUME NEW p \in Players, NEW x \in Views, NEW packets \in Seq(DownPacket)
    PROVE  /\ Folded(Reader(p), x, packets) \in Views
           /\ Folded(Reader(p), x, packets).ok => x.ok
<1>1. Folded(Reader(p), x, packets) \in Views
  BY ReaderIs, FoldedIs
<1> DEFINE U == {y \in Views : ~y.ok}
<1>2. ASSUME NEW y \in U, NEW packet \in DownPacket
      PROVE  Reader(p)[<<y, packet>>] \in U
  <2>1. y \in Views /\ ~y.ok
    OBVIOUS
  <2>2. Reader(p)[<<y, packet>>] = Reads(p, y, packet)
    BY <2>1, ReaderIs
  <2>3. Reads(p, y, packet) \in Views /\ (Reads(p, y, packet).ok => y.ok)
    BY <2>1, ReadsIs
  <2> QED
    BY <2>1, <2>2, <2>3
<1>3. U \subseteq Views /\ (~x.ok => x \in U)
  OBVIOUS
<1> HIDE DEF U
<1>4. ~x.ok => Folded(Reader(p), x, packets) \in U
  BY <1>2, <1>3, ReaderIs, FoldedStays
<1> QED
  BY <1>1, <1>4 DEF U

LEMMA WaitingIs ==
    ASSUME NEW cache \in Seq(DeltaMap)
    PROVE  /\ Waiting(cache) \in Seq(DownPacket) /\ Len(Waiting(cache)) = Len(cache)
           /\ \A i \in 1 .. Len(cache) : /\ Waiting(cache)[i] = DeltaSky(cache[i])
                                         /\ Waiting(cache)[i].type = "DeltaSky"
                                         /\ Waiting(cache)[i].delta = cache[i]
                                         /\ cache[i] \in DeltaMap
           /\ \A delta \in DeltaMap : DeltaSky(delta) \in DownPacket
<1>1. \A delta \in DeltaMap : /\ DeltaSky(delta) \in DownPacket
                              /\ DeltaSky(delta).type = "DeltaSky"
                              /\ DeltaSky(delta).delta = delta
  BY DEF DeltaSky, DownPacket, DeltaMap
<1>2. DOMAIN cache = 1 .. Len(cache) /\ Len(cache) \in Nat
      /\ \A i \in 1 .. Len(cache) : cache[i] \in DeltaMap
  OBVIOUS
<1>3. /\ Waiting(cache) \in [1 .. Len(cache) -> DownPacket]
      /\ \A i \in 1 .. Len(cache) : Waiting(cache)[i] = DeltaSky(cache[i])
  BY <1>1, <1>2 DEF Waiting
<1>4. Waiting(cache) \in Seq(DownPacket) /\ Len(Waiting(cache)) = Len(cache)
  BY <1>2, <1>3
<1> QED
  BY <1>1, <1>2, <1>3, <1>4

\* What reading a cache of deltas comes to, one after the other.
LEMMA CacheChain ==
    ASSUME NEW p \in Players, NEW x \in Views, NEW cache \in Seq(DeltaMap)
    PROVE  \E f \in [0 .. Len(cache) -> Views] :
              /\ f[0] = x
              /\ \A i \in 1 .. Len(cache) : f[i] = ReadsDelta(p, f[i - 1], cache[i][p])
              /\ Folded(Reader(p), x, Waiting(cache)) = f[Len(cache)]
<1>1. Waiting(cache) \in Seq(DownPacket) /\ Len(Waiting(cache)) = Len(cache)
  BY WaitingIs
<1> DEFINE w == Waiting(cache)
<1> HIDE DEF w
<1>2. PICK f \in [0 .. Len(w) -> Views] :
         IsFold(f, Reader(p), x, w, Len(w)) /\ Folded(Reader(p), x, w) = f[Len(w)]
  BY <1>1, ReaderIs, FoldedIs DEF w
<1>3. f \in [0 .. Len(cache) -> Views] /\ Len(cache) \in Nat
      /\ Folded(Reader(p), x, Waiting(cache)) = f[Len(cache)]
  BY <1>1, <1>2 DEF w
<1>4. f[0] = x /\ \A i \in 1 .. Len(cache) : f[i] = Reader(p)[<<f[i - 1], w[i]>>]
  BY <1>1, <1>2 DEF IsFold, w
<1>5. ASSUME NEW i \in 1 .. Len(cache)
      PROVE  f[i] = ReadsDelta(p, f[i - 1], cache[i][p])
  <2>1. f[i - 1] \in Views
    BY <1>3
  <2>2. w[i] \in DownPacket /\ w[i].type = "DeltaSky" /\ w[i].delta = cache[i]
    BY <1>1, WaitingIs DEF w
  <2>3. f[i] = Reads(p, f[i - 1], w[i])
    BY <1>4, <2>1, <2>2, ReaderIs
  <2> QED
    BY <2>2, <2>3 DEF Reads
<1> QED
  BY <1>3, <1>4, <1>5

\* A cache changes neither whether there is a sky nor who is there; and one
\* that does not mention p changes nothing.
LEMMA CacheKeeps ==
    ASSUME NEW p \in Players, NEW x \in Views, NEW cache \in Seq(DeltaMap)
    PROVE  LET y == Folded(Reader(p), x, Waiting(cache))
           IN  /\ y \in Views /\ y.sky = x.sky /\ y.in = x.in
               /\ y.ok /\ ~x.in => \A i \in DOMAIN cache : cache[i][p] = None
               /\ (\A i \in DOMAIN cache : cache[i][p] = None) => y = x
<1>1. PICK f \in [0 .. Len(cache) -> Views] :
         /\ f[0] = x
         /\ \A i \in 1 .. Len(cache) : f[i] = ReadsDelta(p, f[i - 1], cache[i][p])
         /\ Folded(Reader(p), x, Waiting(cache)) = f[Len(cache)]
  BY CacheChain
<1> DEFINE N == Len(cache)
           Kept(m) == /\ f[m].sky = x.sky /\ f[m].in = x.in
                      /\ f[m].ok /\ ~x.in => \A i \in 1 .. m : cache[i][p] = None
                      /\ (\A i \in 1 .. m : cache[i][p] = None) => f[m] = x
           T == {m \in 0 .. N : Kept(m)}
<1>2. N \in Nat /\ DOMAIN cache = 1 .. N
      /\ \A i \in 1 .. N : cache[i][p] \in ParticipationDelta \cup {None}
  BY DEF DeltaMap
<1>3. 0 \in T
  BY <1>1, <1>2
<1>4. ASSUME NEW m \in 0 .. N - 1, m \in T
      PROVE  m + 1 \in T
  <2>1. /\ m + 1 \in 1 .. N /\ (m + 1) - 1 = m /\ m + 1 \in 0 .. N /\ m \in 0 .. N
        /\ \A i \in 1 .. m + 1 : i \in 1 .. m \/ i = m + 1
        /\ \A i \in 1 .. m : i \in 1 .. m + 1
    BY <1>2
  <2>2. Kept(m)
    BY <1>4
  <2> DEFINE delta == cache[m + 1][p]
             a == f[m]
             b == f[m + 1]
  <2>3. a \in Views /\ b \in Views /\ delta \in ParticipationDelta \cup {None}
        /\ b = ReadsDelta(p, a, delta)
    BY <1>1, <1>2, <2>1
  <2> HIDE DEF delta, a, b
  <2>4. /\ b.sky = a.sky /\ b.in = a.in /\ (b.ok => a.ok /\ (delta = None \/ a.in))
        /\ (delta = None => b = a)
    BY <2>3, ReadsDeltaIs
  <2>5. Kept(m + 1)
    <3>1. f[m + 1].sky = x.sky /\ f[m + 1].in = x.in
      BY <2>2, <2>4 DEF a, b
    <3>2. f[m + 1].ok /\ ~x.in => \A i \in 1 .. m + 1 : cache[i][p] = None
      BY <2>1, <2>2, <2>4 DEF a, b, delta
    <3>3. (\A i \in 1 .. m + 1 : cache[i][p] = None) => f[m + 1] = x
      <4> SUFFICES ASSUME \A i \in 1 .. m + 1 : cache[i][p] = None
                   PROVE  f[m + 1] = x
        OBVIOUS
      <4>1. m + 1 \in 1 .. m + 1 /\ \A i \in 1 .. m : cache[i][p] = None
        BY <2>1
      <4> QED
        BY <2>2, <2>4, <4>1 DEF a, b, delta
    <3> QED
      BY <3>1, <3>2, <3>3
  <2> HIDE DEF Kept
  <2> QED
    BY <2>1, <2>5
<1> HIDE DEF T
<1>5. \A m \in 0 .. N : m \in T
  BY <1>2, <1>3, <1>4, InductionTo
<1>6. N \in T /\ f[N] \in Views
  BY <1>1, <1>2, <1>5
<1>7. Kept(N)
  BY <1>6 DEF T
<1> QED
  BY <1>1, <1>2, <1>6, <1>7

LEMMA ViewsEqual ==
    ASSUME NEW x \in Views, NEW y \in Views, x.sky = y.sky, x.in = y.in, x.ok = y.ok,
           x.plane = y.plane, x.controls = y.controls
    PROVE  x = y
BY DEF Views

LEMMA WaitingNone ==
    ASSUME NEW p, NEW x
    PROVE  Folded(Reader(p), x, Waiting(<<>>)) = x
<1>1. Waiting(<<>>) = <<>>
  BY DEF Waiting
<1> QED
  BY <1>1, FoldedNone

LEMMA WaitingMore ==
    ASSUME NEW cache \in Seq(DeltaMap), NEW delta \in DeltaMap
    PROVE  Waiting(Append(cache, delta)) = Append(Waiting(cache), DeltaSky(delta))
<1> DEFINE longer == Append(cache, delta)
           w == Waiting(longer)
           r == Append(Waiting(cache), DeltaSky(delta))
           N == Len(cache) + 1
<1>1. Len(cache) \in Nat /\ longer \in Seq(DeltaMap) /\ Len(longer) = N
      /\ longer[N] = delta /\ \A i \in 1 .. Len(cache) : longer[i] = cache[i]
  OBVIOUS
<1>2. w \in Seq(DownPacket) /\ Len(w) = N /\ \A i \in 1 .. N : w[i] = DeltaSky(longer[i])
  <2> HIDE DEF longer
  <2> QED
    BY <1>1, WaitingIs
<1>3. Waiting(cache) \in Seq(DownPacket) /\ Len(Waiting(cache)) = Len(cache)
      /\ DeltaSky(delta) \in DownPacket
      /\ \A i \in 1 .. Len(cache) : Waiting(cache)[i] = DeltaSky(cache[i])
  BY WaitingIs
<1>4. r \in Seq(DownPacket) /\ Len(r) = N /\ r[N] = DeltaSky(delta)
      /\ \A i \in 1 .. Len(cache) : r[i] = Waiting(cache)[i]
  BY <1>1, <1>3
<1> HIDE DEF longer, w, r
<1>5. ASSUME NEW i \in 1 .. N
      PROVE  w[i] = r[i]
  <2>1. w[i] = DeltaSky(longer[i])
    BY <1>2
  <2>2. CASE i = N
    BY <1>1, <1>4, <2>1, <2>2
  <2>3. CASE i \in 1 .. Len(cache)
    <3>1. longer[i] = cache[i]
      BY <1>1, <2>3
    <3>2. r[i] = DeltaSky(cache[i])
      BY <1>3, <1>4, <2>3
    <3> QED
      BY <2>1, <3>1, <3>2
  <2> QED
    BY <1>1, <2>2, <2>3
<1>6. w = [i \in 1 .. N |-> w[i]] /\ r = [i \in 1 .. N |-> r[i]]
  BY <1>2, <1>4
<1> QED
  BY <1>5, <1>6 DEF w, r, longer

LEMMA WaitingThen ==
    ASSUME NEW q \in Seq(DeltaMap), NEW r \in Seq(DeltaMap)
    PROVE  Waiting(q \o r) = Waiting(q) \o Waiting(r)
<1> DEFINE both == q \o r
           w == Waiting(both)
           v == Waiting(q) \o Waiting(r)
           N == Len(q) + Len(r)
<1>1. Len(q) \in Nat /\ Len(r) \in Nat /\ both \in Seq(DeltaMap) /\ Len(both) = N
      /\ \A i \in 1 .. N : both[i] = IF i <= Len(q) THEN q[i] ELSE r[i - Len(q)]
  OBVIOUS
<1>2. w \in Seq(DownPacket) /\ Len(w) = N /\ \A i \in 1 .. N : w[i] = DeltaSky(both[i])
  <2> HIDE DEF both
  <2> QED
    BY <1>1, WaitingIs
<1>3. /\ Waiting(q) \in Seq(DownPacket) /\ Len(Waiting(q)) = Len(q)
      /\ Waiting(r) \in Seq(DownPacket) /\ Len(Waiting(r)) = Len(r)
      /\ \A i \in 1 .. Len(q) : Waiting(q)[i] = DeltaSky(q[i])
      /\ \A i \in 1 .. Len(r) : Waiting(r)[i] = DeltaSky(r[i])
  BY WaitingIs
<1>4. v \in Seq(DownPacket) /\ Len(v) = N
      /\ \A i \in 1 .. N : v[i] = IF i <= Len(q) THEN Waiting(q)[i] ELSE Waiting(r)[i - Len(q)]
  <2> DEFINE a == Waiting(q)
             b == Waiting(r)
  <2>1. a \in Seq(DownPacket) /\ Len(a) = Len(q) /\ b \in Seq(DownPacket) /\ Len(b) = Len(r)
    BY <1>3
  <2> HIDE DEF a, b
  <2>2. /\ a \o b \in Seq(DownPacket) /\ Len(a \o b) = Len(a) + Len(b)
        /\ \A i \in 1 .. Len(a) + Len(b) :
              (a \o b)[i] = IF i <= Len(a) THEN a[i] ELSE b[i - Len(a)]
    BY <2>1
  <2> QED
    BY <2>1, <2>2 DEF a, b
<1> HIDE DEF both, w, v
<1>5. ASSUME NEW i \in 1 .. N
      PROVE  w[i] = v[i]
  <2>1. CASE i <= Len(q)
    <3>1. i \in 1 .. Len(q)
      BY <1>1, <2>1
    <3> QED
      BY <1>1, <1>2, <1>3, <1>4, <2>1, <3>1
  <2>2. CASE ~(i <= Len(q))
    <3>1. i - Len(q) \in 1 .. Len(r)
      BY <1>1, <2>2
    <3> QED
      BY <1>1, <1>2, <1>3, <1>4, <2>2, <3>1
  <2> QED
    BY <2>1, <2>2
<1>6. w = [i \in 1 .. N |-> w[i]] /\ v = [i \in 1 .. N |-> v[i]]
  BY <1>2, <1>4
<1> QED
  BY <1>5, <1>6 DEF w, v, both

\* The sky is among the packets only if the client has none yet, and then
\* nothing is in the cache.
Ready(c, packets) ==
    /\ c.sky = None => c.cache = <<>>
    /\ Once(packets, "InitSky")
    /\ c.sky # None => ~Has(packets, "InitSky")

LEMMA ReadyOne ==
    ASSUME NEW c \in Proper, NEW packets \in Seq(DownPacket), packets # <<>>,
           Ready(c, packets)
    PROVE  Ready(Receive(c, Head(packets)), Tail(packets))
<1> DEFINE head == Head(packets)
           d == Receive(c, head)
<1>1. /\ head \in DownPacket /\ Once(Tail(packets), "InitSky")
      /\ Has(packets, "InitSky") <=> head.type = "InitSky" \/ Has(Tail(packets), "InitSky")
      /\ head.type = "InitSky" => ~Has(Tail(packets), "InitSky")
  BY HasTail DEF Ready
<1> HIDE DEF head
<1>2. CASE head.type = "InitSky"
  BY <1>1, <1>2, ReceiveInit DEF Ready, head
<1>3. CASE head.type = "DeltaSky"
  <2>1. d.sky = c.sky /\ (c.sky = None => d = c)
    BY <1>1, <1>3, ReceiveDelta
  <2> QED
    BY <1>1, <2>1 DEF Ready, head
<1>4. CASE head.type \in {"Quit", "Join"}
  <2>1. d.cache = c.cache /\ (d.sky = None <=> c.sky = None)
    BY <1>1, <1>4, ReceivePlayer, ReceivePlayerOwn
  <2> QED
    BY <1>1, <2>1 DEF Ready, head
<1> QED
  BY <1>1, <1>2, <1>3, <1>4 DEF DownPacket

\* The client receives a packet: an initializer, ...
LEMMA ViewInit ==
    ASSUME NEW c \in Proper, NEW packet \in DownPacket, packet.type = "InitSky",
           c.sky = None, NEW p \in Players
    PROVE  View(p, Receive(c, packet)) = Reads(p, View(p, c), packet)
<1> DEFINE d == Receive(c, packet)
           x == View(p, c)
           y == View(p, d)
           init == Given(p, packet.sky)
           z == ReadsInit(p, x, init)
<1>1. d \in Proper /\ d.sky = NewSky(c.arena, packet.sky) /\ d.sky # None /\ d.arena = c.arena
  BY ReceiveInit
<1>2. /\ packet.sky \in [Players -> ParticipationInit \cup {None}] /\ c.arena \in SUBSET Players
      /\ init \in ParticipationInit
  BY DefaultIsInit DEF DownPacket, Proper, Client, Given
<1>3. p \in c.arena => d.sky[p] = NewParticipation(init)
  BY <1>1, <1>2, NewSkyIs DEF Given
<1>4. /\ NewParticipation(init).plane = init.spawn
      /\ NewParticipation(init).controls = init.controls
  BY <1>2, NewIs
<1>5. Reads(p, x, packet) = z
  BY DEF Reads
<1> HIDE DEF init, d
<1>6. /\ x \in Views /\ x.ok /\ ~x.sky /\ x.in = (p \in c.arena)
      /\ x.plane = None /\ x.controls = "idle"
  BY ViewIs
<1>7. /\ y \in Views /\ y.ok /\ y.sky /\ y.in = (p \in c.arena)
      /\ p \in c.arena => /\ y.plane = init.spawn
                          /\ p # Own => y.controls = init.controls
      /\ p = Own => y.controls = "idle"
      /\ p \notin c.arena => y.plane = None /\ y.controls = "idle"
  <2>1. /\ y \in Views /\ y.ok
        /\ y.sky = (d.sky # None) /\ y.in = (p \in d.arena)
        /\ y.sky /\ y.in => /\ y.plane = d.sky[p].plane
                            /\ p # Own => y.controls = d.sky[p].controls
        /\ p = Own => y.controls = "idle"
        /\ ~(y.sky /\ y.in) => y.plane = None /\ y.controls = "idle"
    BY <1>1, ViewIs
  <2> HIDE DEF y
  <2> QED
    BY <1>1, <1>3, <1>4, <2>1
<1> HIDE DEF x, y
<1>8. /\ z \in Views /\ z.sky /\ z.in = x.in /\ z.ok = x.ok
      /\ z.plane = IF x.in THEN init.spawn ELSE x.plane
      /\ z.controls = IF x.in /\ p # Own THEN init.controls ELSE x.controls
  BY <1>2, <1>6, ReadsInitIs
<1> HIDE DEF z
<1>9. y = z
  <2>1. y.plane = z.plane /\ y.controls = z.controls
    BY <1>6, <1>7, <1>8
  <2>2. y.sky = z.sky /\ y.in = z.in /\ y.ok = z.ok
    BY <1>6, <1>7, <1>8
  <2> QED
    BY <1>7, <1>8, <2>1, <2>2, ViewsEqual
<1> QED
  BY <1>5, <1>9 DEF y, x, d

\* ... or that a player has joined or quit.
LEMMA ViewPlayer ==
    ASSUME NEW c \in Proper, NEW packet \in DownPacket, packet.type \in {"Quit", "Join"},
           NEW p \in Players, packet.type = "Join" /\ packet.pid = p => p \notin c.arena
    PROVE  View(p, Receive(c, packet)) = Reads(p, View(p, c), packet)
<1> DEFINE d == Receive(c, packet)
           q == packet.pid
           value == IF packet.type = "Quit" THEN None ELSE NewParticipation(DefaultInit)
           x == View(p, c)
           y == View(p, d)
<1>1. /\ d \in Proper /\ q \in Others
      /\ d.arena = IF packet.type = "Quit" THEN c.arena \ {q} ELSE c.arena \cup {q}
      /\ d.sky = SetPlayer(c.sky, q, value)
  BY ReceivePlayer
<1>2. q \in Players /\ q # Own /\ c.sky \in Skies \cup {None}
  BY <1>1 DEF Others, Proper, Client
<1>3. /\ value \in Participations \cup {None}
      /\ value # None => value.plane = None /\ value.controls = "idle"
      /\ packet.type = "Join" => value # None
  BY NewIs, DefaultIsInit, NoneIsApart DEF DefaultInit
<1> HIDE DEF value
<1>4. /\ d.sky = None <=> c.sky = None
      /\ c.sky # None => d.sky[p] = IF p = q THEN value ELSE c.sky[p]
  <2> DEFINE sky == c.sky
  <2>1. sky \in Skies \cup {None}
    BY <1>2
  <2> HIDE DEF sky
  <2>2. /\ SetPlayer(sky, q, value) = None <=> sky = None
        /\ sky # None => SetPlayer(sky, q, value)[p] = IF p = q THEN value ELSE sky[p]
    BY <1>2, <1>3, <2>1, SetPlayerIs
  <2> QED
    BY <1>1, <2>2 DEF sky
<1> HIDE DEF d, q
<1>5. /\ x \in Views /\ x.ok
      /\ x.sky = (c.sky # None) /\ x.in = (p \in c.arena)
      /\ x.sky /\ x.in => /\ x.plane = c.sky[p].plane
                          /\ p # Own => x.controls = c.sky[p].controls
      /\ p = Own => x.controls = "idle"
      /\ ~(x.sky /\ x.in) => x.plane = None /\ x.controls = "idle"
  BY ViewIs
<1>6. /\ y \in Views /\ y.ok
      /\ y.sky = (d.sky # None) /\ y.in = (p \in d.arena)
      /\ y.sky /\ y.in => /\ y.plane = d.sky[p].plane
                          /\ p # Own => y.controls = d.sky[p].controls
      /\ p = Own => y.controls = "idle"
      /\ ~(y.sky /\ y.in) => y.plane = None /\ y.controls = "idle"
  BY <1>1, ViewIs
<1> HIDE DEF x, y
<1>7. CASE p # q
  <2>1. y.sky = x.sky /\ y.in = x.in /\ y.ok = x.ok
    BY <1>1, <1>4, <1>5, <1>6, <1>7
  <2>2. y.plane = x.plane /\ y.controls = x.controls
    BY <1>4, <1>5, <1>6, <1>7, <2>1
  <2>3. y = x
    BY <1>5, <1>6, <2>1, <2>2, ViewsEqual
  <2>4. Reads(p, x, packet) = x
    BY <1>7 DEF Reads, q
  <2> QED
    BY <2>3, <2>4 DEF d, x, y
<1>8. CASE p = q /\ packet.type = "Quit"
  <2> DEFINE z == ReadsQuit(x)
  <2>1. /\ z \in Views /\ ~z.in /\ z.ok = x.ok /\ z.sky = x.sky
        /\ z.plane = None /\ z.controls = "idle"
    BY <1>5, ReadsPlayerIs
  <2>2. ~y.in /\ y.sky = x.sky /\ y.ok = x.ok /\ y.plane = None /\ y.controls = "idle"
    BY <1>1, <1>4, <1>5, <1>6, <1>8
  <2> HIDE DEF z
  <2>3. y = z
    <3>1. y.in = z.in
      BY <1>6, <2>1, <2>2 DEF Views
    <3> QED
      BY <1>6, <2>1, <2>2, <3>1, ViewsEqual
  <2>4. Reads(p, x, packet) = z
    BY <1>8 DEF Reads, q, z
  <2> QED
    BY <2>3, <2>4 DEF d, x, y
<1>9. CASE p = q /\ packet.type = "Join"
  <2> DEFINE z == ReadsJoin(x)
  <2>1. ~x.in
    BY <1>5, <1>9 DEF q
  <2>2. /\ z \in Views /\ z.in /\ z.ok = x.ok /\ z.sky = x.sky
        /\ z.plane = None /\ z.controls = "idle"
    BY <1>5, <2>1, ReadsPlayerIs
  <2>3. y.in /\ y.sky = x.sky /\ y.ok = x.ok
    BY <1>1, <1>4, <1>5, <1>6, <1>9
  <2>4. y.plane = None /\ y.controls = "idle"
    BY <1>2, <1>3, <1>4, <1>6, <1>9, <2>3
  <2> HIDE DEF z
  <2>5. y = z
    <3>1. y.in = z.in
      BY <1>6, <2>2, <2>3 DEF Views
    <3> QED
      BY <1>6, <2>2, <2>3, <2>4, <3>1, ViewsEqual
  <2>6. Reads(p, x, packet) = z
    BY <1>9 DEF Reads, q, z
  <2> QED
    BY <2>5, <2>6 DEF d, x, y
<1> QED
  BY <1>7, <1>8, <1>9

\* What will be does not depend on how far the client has read, if a PID's
\* next holder has not overtaken a delta.
LEMMA ReadOne ==
    ASSUME NEW c \in Proper, NEW packets \in Seq(DownPacket), packets # <<>>,
           Ready(c, packets), NEW p \in Players,
           p \notin Receive(c, Head(packets)).overtaken, Will(p, c, packets).ok
    PROVE  Will(p, Receive(c, Head(packets)), Tail(packets)) = Will(p, c, packets)
<1> DEFINE head == Head(packets)
           rest == Tail(packets)
           d == Receive(c, head)
           v == View(p, c)
           y == Folded(Reader(p), v, Waiting(c.cache))
           z == Reads(p, y, head)
<1>1. /\ head \in DownPacket /\ rest \in Seq(DownPacket)
      /\ head.type = "InitSky" => Has(packets, "InitSky")
  BY HasTail
<1>2. c.cache \in Seq(DeltaMap) /\ v \in Views
  BY ViewIs DEF Proper, Client, DeltaMap
<1>3. /\ y \in Views /\ y.sky = v.sky /\ y.in = v.in
      /\ y.ok /\ ~v.in => \A i \in DOMAIN c.cache : c.cache[i][p] = None
      /\ (\A i \in DOMAIN c.cache : c.cache[i][p] = None) => y = v
  BY <1>2, CacheKeeps
<1> HIDE DEF y
<1>4. Will(p, c, packets) = Folded(Reader(p), z, rest) /\ z \in Views
  <2>1. Folded(Reader(p), y, packets) = Folded(Reader(p), Reader(p)[<<y, head>>], rest)
    BY <1>3, ReaderIs, FoldedHead
  <2>2. Reader(p)[<<y, head>>] = z
    BY <1>1, <1>3, ReaderIs
  <2> QED
    BY <1>1, <1>3, <2>1, <2>2, ReadsIs DEF Will, y
<1> HIDE DEF head, rest
<1>5. z.ok
  <2> HIDE DEF z
  <2> QED
    BY <1>1, <1>4, NotOkStays
<1>6. y.ok
  BY <1>1, <1>3, <1>5, ReadsIs
<1>7. SUFFICES Folded(Reader(p), View(p, d), Waiting(d.cache)) = z
  BY <1>4 DEF Will, head, rest
<1>8. CASE head.type = "InitSky"
  <2>1. c.sky = None /\ c.cache = <<>>
    BY <1>1, <1>8 DEF Ready
  <2>2. y = v
    BY <2>1, WaitingNone DEF y
  <2>3. d.cache = <<>> /\ View(p, d) = z
    BY <1>1, <1>8, <2>1, <2>2, ReceiveInit, ViewInit
  <2> QED
    BY <2>3, WaitingNone
<1>9. CASE head.type = "DeltaSky"
  <2>1. z = ReadsDelta(p, y, head.delta[p]) /\ head.delta \in DeltaMap
        /\ head.delta[p] \in ParticipationDelta \cup {None}
    BY <1>1, <1>9 DEF Reads, DownPacket, DeltaMap
  <2>2. /\ c.sky = None => d = c
        /\ c.sky # None => d.cache = Append(c.cache, head.delta)
        /\ d.sky = c.sky /\ d.arena = c.arena
    BY <1>1, <1>9, ReceiveDelta
  <2>3. CASE c.sky = None
    <3>1. c.cache = <<>> /\ ~v.sky
      BY <2>3, ViewIs DEF Ready
    <3>2. y = v
      BY <3>1, WaitingNone DEF y
    <3> HIDE DEF z, v
    <3>3. z = y
      <4>1. /\ z \in Views /\ z.sky = y.sky /\ z.in = y.in
            /\ z.plane = y.plane /\ z.controls = y.controls
        BY <1>2, <2>1, <3>1, <3>2, ReadsDeltaIs
      <4>2. z.ok = y.ok
        BY <1>3, <1>5, <1>6, <4>1 DEF Views
      <4> QED
        BY <1>3, <4>1, <4>2, ViewsEqual
    <3> QED
      BY <2>2, <2>3, <3>2, <3>3 DEF y, v
  <2>4. CASE c.sky # None
    <3>1. View(p, d) = v
      BY <2>2 DEF View
    <3>2. Waiting(d.cache) = Append(Waiting(c.cache), DeltaSky(head.delta))
      BY <1>2, <2>1, <2>2, <2>4, WaitingMore
    <3>3. Waiting(c.cache) \in Seq(DownPacket) /\ DeltaSky(head.delta) \in DownPacket
      BY <1>2, <2>1, WaitingIs
    <3>4. Folded(Reader(p), v, Waiting(d.cache)) = Reader(p)[<<y, DeltaSky(head.delta)>>]
      <4> HIDE DEF v
      <4> QED
        BY <1>2, <3>2, <3>3, ReaderIs, FoldedLast DEF y
    <3>5. Reader(p)[<<y, DeltaSky(head.delta)>>] = Reads(p, y, DeltaSky(head.delta))
      BY <1>3, <3>3, ReaderIs
    <3>6. Reads(p, y, DeltaSky(head.delta)) = z
      BY <2>1 DEF Reads, DeltaSky
    <3> QED
      BY <3>1, <3>4, <3>5, <3>6
  <2> QED
    BY <2>3, <2>4
<1>10. CASE head.type \in {"Quit", "Join"}
  <2>1. /\ d.cache = c.cache
        /\ d.overtaken = IF head.type = "Quit" /\ InCache(c, head.pid)
                         THEN c.overtaken \cup {head.pid} ELSE c.overtaken
    BY <1>1, <1>10, ReceivePlayer
  <2>2. CASE head.pid # p
    <3>1. View(p, d) = Reads(p, v, head)
      BY <1>1, <1>10, <2>2, ViewPlayer
    <3>2. Reads(p, v, head) = v /\ z = y
      BY <1>10, <2>2 DEF Reads
    <3> QED
      BY <2>1, <3>1, <3>2 DEF y
  <2>3. CASE head.pid = p
    <3>1. head.type = "Join" => p \notin c.arena
      <4> SUFFICES ASSUME head.type = "Join"
                   PROVE  ~v.in
        BY ViewIs
      <4>1. z = ReadsJoin(y)
        BY <2>3 DEF Reads
      <4>2. ReadsJoin(y).ok = (y.ok /\ ~y.in)
        BY <1>3, ReadsPlayerIs
      <4> HIDE DEF z, v
      <4> QED
        BY <1>3, <1>5, <4>1, <4>2
    <3>2. \A i \in DOMAIN c.cache : c.cache[i][p] = None
      <4>1. CASE head.type = "Quit"
        BY <2>1, <2>3, <4>1 DEF InCache, head
      <4>2. CASE head.type = "Join"
        <5>1. ~v.in
          BY <3>1, <4>2, ViewIs
        <5> QED
          BY <1>3, <1>6, <5>1
      <4> QED
        BY <1>10, <4>1, <4>2
    <3>3. y = v
      BY <1>3, <3>2
    <3>4. View(p, d) = Reads(p, v, head)
      BY <1>1, <1>10, <2>3, <3>1, ViewPlayer
    <3>5. z \in Views /\ View(p, d) = z
      BY <1>4, <3>3, <3>4
    <3> HIDE DEF z, d
    <3>6. Folded(Reader(p), z, Waiting(c.cache)) = z
      BY <1>2, <3>2, <3>5, CacheKeeps
    <3> QED
      BY <2>1, <3>5, <3>6
  <2> QED
    BY <2>2, <2>3
<1> QED
  BY <1>1, <1>8, <1>9, <1>10 DEF DownPacket

\* A delta is applied to a client's sky.
LEMMA ViewDelta ==
    ASSUME NEW c \in WithSky, NEW delta \in DeltaMap, NEW p \in Players,
           delta[p] = None \/ p \in c.arena
    PROVE  View(p, ApplySkyDelta(c, delta)) = ReadsDelta(p, View(p, c), delta[p])
<1> DEFINE d == ApplySkyDelta(c, delta)
           x == View(p, c)
           y == View(p, d)
           e == delta[p]
           z == ReadsDelta(p, x, e)
<1>1. /\ d \in WithSky /\ d.arena = c.arena
      /\ d.sky[p] = IF p \notin c.arena \/ e = None THEN c.sky[p]
                    ELSE ApplyParticipationDelta(c.sky[p], e)
  BY ApplySkyDeltaIs
<1>2. e \in ParticipationDelta \cup {None}
  BY DEF DeltaMap
<1> HIDE DEF d, e
<1>3. /\ c \in Proper /\ d \in Proper /\ c.sky # None /\ d.sky # None
      /\ e = None \/ p \in c.arena
  BY <1>1 DEF WithSky, e
<1>4. /\ x \in Views /\ x.ok /\ x.sky /\ x.in = (p \in c.arena)
      /\ p \in c.arena => /\ c.sky[p] \in Participations
                          /\ x.plane = c.sky[p].plane
                          /\ p # Own => x.controls = c.sky[p].controls
      /\ p = Own => x.controls = "idle"
      /\ p \notin c.arena => x.plane = None /\ x.controls = "idle"
  <2>1. /\ x \in Views /\ x.ok
        /\ x.sky = (c.sky # None) /\ x.in = (p \in c.arena)
        /\ x.sky /\ x.in => /\ c.sky[p] \in Participations
                            /\ x.plane = c.sky[p].plane
                            /\ p # Own => x.controls = c.sky[p].controls
        /\ p = Own => x.controls = "idle"
        /\ ~(x.sky /\ x.in) => x.plane = None /\ x.controls = "idle"
    BY <1>3, ViewIs
  <2> HIDE DEF x
  <2> QED
    BY <1>3, <2>1
<1>5. /\ y \in Views /\ y.ok /\ y.sky /\ y.in = (p \in c.arena)
      /\ p \in c.arena => /\ y.plane = d.sky[p].plane
                          /\ p # Own => y.controls = d.sky[p].controls
      /\ p = Own => y.controls = "idle"
      /\ p \notin c.arena => y.plane = None /\ y.controls = "idle"
  <2>1. /\ y \in Views /\ y.ok
        /\ y.sky = (d.sky # None) /\ y.in = (p \in d.arena)
        /\ y.sky /\ y.in => /\ y.plane = d.sky[p].plane
                            /\ p # Own => y.controls = d.sky[p].controls
        /\ p = Own => y.controls = "idle"
        /\ ~(y.sky /\ y.in) => y.plane = None /\ y.controls = "idle"
    BY <1>3, ViewIs
  <2> HIDE DEF y
  <2> QED
    BY <1>1, <1>3, <2>1
<1> HIDE DEF x, y
<1>6. /\ z \in Views /\ z.sky = x.sky /\ z.in = x.in
      /\ z.ok = (x.ok /\ (e = None \/ x.in))
      /\ e = None => z = x
      /\ e # None /\ x.in /\ x.sky =>
           /\ z.plane = IF e.spawn # None THEN e.spawn ELSE PlaneAfter(x.plane, e)
           /\ z.controls = IF p = Own \/ e.controls = None THEN x.controls ELSE e.controls
  <2>1. x \in Views
    BY <1>4
  <2> QED
    BY ONLY <1>2, <2>1, ReadsDeltaIs
<1> HIDE DEF z
<1>7. y.sky = z.sky /\ y.in = z.in /\ y.ok = z.ok
  <2>1. z.sky /\ z.ok
    BY <1>3, <1>4, <1>6
  <2> QED
    BY <1>4, <1>5, <1>6, <2>1 DEF Views
<1>8. y.plane = z.plane /\ y.controls = z.controls
  <2>1. CASE e = None
    BY <1>1, <1>4, <1>5, <1>6, <2>1
  <2>2. CASE e # None
    <3> DEFINE new == ApplyParticipationDelta(c.sky[p], e)
    <3>1. p \in c.arena /\ e \in ParticipationDelta /\ c.sky[p] \in Participations
          /\ d.sky[p] = new
      BY <1>1, <1>2, <1>3, <1>4, <2>2
    <3>2. /\ new.plane = IF e.spawn # None THEN e.spawn ELSE PlaneAfter(c.sky[p].plane, e)
          /\ new.controls = IF e.controls = None THEN c.sky[p].controls ELSE e.controls
      BY <3>1, ApplyDeltaIs
    <3> HIDE DEF new
    <3>3. /\ z.plane = IF e.spawn # None THEN e.spawn ELSE PlaneAfter(x.plane, e)
          /\ z.controls = IF p = Own \/ e.controls = None THEN x.controls ELSE e.controls
      BY <1>4, <1>6, <2>2, <3>1
    <3> QED
      BY <1>4, <1>5, <3>1, <3>2, <3>3
  <2> QED
    BY <2>1, <2>2
<1> QED
  BY <1>5, <1>6, <1>7, <1>8, ViewsEqual DEF x, y, z, d, e

\* Nor does it depend on how many deltas the cache has let go.
LEMMA ReleaseOne ==
    ASSUME NEW c \in WithSky, NEW n \in 0 .. Len(c.cache), NEW p \in Players,
           NEW packets \in Seq(DownPacket), Will(p, c, packets).ok
    PROVE  Will(p, Release(c, n), packets) = Will(p, c, packets)
<1> DEFINE v == View(p, c)
           first == SubSeq(c.cache, 1, n)
           rest == Rest(c, n)
           g == Folded(Reader(p), v, Waiting(first))
           y == Folded(Reader(p), v, Waiting(c.cache))
           d == Release(c, n)
<1>1. /\ c \in Proper /\ c.sky # None /\ c.cache \in Seq(DeltaMap) /\ v \in Views
  BY ViewIs DEF WithSky, Proper, Client, DeltaMap
<1>2. /\ first \in Seq(DeltaMap) /\ rest \in Seq(DeltaMap) /\ c.cache = first \o rest
      /\ n \in Nat /\ Len(first) = n
      /\ \A i \in 1 .. n : first[i] = c.cache[i] /\ first[i] \in DeltaMap
  <2>1. first \in Seq(DeltaMap) /\ rest \in Seq(DeltaMap) /\ c.cache = first \o rest
    BY <1>1, SplitAt DEF Rest
  <2>2. n \in Nat /\ Len(first) = n /\ \A i \in 1 .. n : first[i] = c.cache[i]
    BY <1>1
  <2> HIDE DEF first
  <2>3. \A i \in 1 .. n : first[i] \in DeltaMap
    BY <2>1, <2>2
  <2> QED
    BY <2>1, <2>2, <2>3
<1>3. PICK f \in [0 .. n -> WithSky] :
         /\ f[0].sky = c.sky
         /\ \A i \in 1 .. n : f[i] = ApplySkyDelta(f[i - 1], c.cache[i])
         /\ \A i \in 0 .. n : f[i].arena = c.arena /\ f[i].cache = rest
         /\ d = f[n]
  <2>1. \E f \in [0 .. n -> WithSky] :
          /\ f[0].sky = c.sky
          /\ \A i \in 1 .. n : f[i] = ApplySkyDelta(f[i - 1], c.cache[i])
          /\ \A i \in 0 .. n : /\ f[i].arena = c.arena /\ f[i].cache = Rest(c, n)
                               /\ f[i].overtaken = c.overtaken
          /\ Release(c, n) = f[n]
    BY ReleaseIs
  <2> QED
    BY <2>1
<1> HIDE DEF first, rest
<1>4. PICK h \in [0 .. n -> Views] :
         /\ h[0] = v
         /\ \A i \in 1 .. n : h[i] = ReadsDelta(p, h[i - 1], first[i][p])
         /\ g = h[n]
  <2>1. first \in Seq(DeltaMap) /\ Len(first) = n /\ v \in Views
    BY <1>1, <1>2
  <2> HIDE DEF v
  <2>2. \E h \in [0 .. Len(first) -> Views] :
           /\ h[0] = v
           /\ \A i \in 1 .. Len(first) : h[i] = ReadsDelta(p, h[i - 1], first[i][p])
           /\ g = h[Len(first)]
    BY <2>1, CacheChain
  <2> QED
    BY <2>1, <2>2
<1> HIDE DEF v
<1>5. y = Folded(Reader(p), g, Waiting(rest)) /\ g \in Views
  <2>1. Waiting(c.cache) = Waiting(first) \o Waiting(rest)
    BY <1>2, WaitingThen
  <2>2. Waiting(first) \in Seq(DownPacket) /\ Waiting(rest) \in Seq(DownPacket)
    BY <1>2, WaitingIs
  <2>3. Folded(Reader(p), v, Waiting(first) \o Waiting(rest))
           = Folded(Reader(p), Folded(Reader(p), v, Waiting(first)), Waiting(rest))
    BY <1>1, <2>2, ReaderIs, FoldedThen
  <2> QED
    BY <1>1, <2>1, <2>2, <2>3, ReaderIs, FoldedIs
<1>6. g.ok
  <2>1. y \in Views /\ y.ok
    <3>1. Waiting(c.cache) \in Seq(DownPacket)
      BY <1>1, WaitingIs
    <3>2. y \in Views
      BY <1>1, <3>1, NotOkStays
    <3> HIDE DEF y
    <3> QED
      BY <3>2, NotOkStays DEF Will, y, v
  <2>2. Waiting(rest) \in Seq(DownPacket)
    BY <1>2, WaitingIs
  <2> HIDE DEF g, y
  <2> QED
    BY <1>5, <2>1, <2>2, NotOkStays
<1> HIDE DEF g, d
<1> DEFINE T == {m \in 0 .. n : h[m].ok => h[m] = View(p, f[m])}
<1>7. 0 \in T
  <2>1. f[0].sky = c.sky /\ f[0].arena = c.arena
    BY <1>2, <1>3
  <2>2. View(p, f[0]) = v
    BY <2>1 DEF View, v
  <2> QED
    BY <1>2, <1>4, <2>2
<1>8. ASSUME NEW m \in 0 .. n - 1, m \in T
      PROVE  m + 1 \in T
  <2> DEFINE delta == first[m + 1]
             e == delta[p]
  <2>1. m + 1 \in 1 .. n /\ (m + 1) - 1 = m /\ m + 1 \in 0 .. n /\ m \in 0 .. n
    BY <1>2
  <2>2. /\ delta \in DeltaMap /\ f[m] \in WithSky /\ h[m] \in Views
        /\ f[m + 1] = ApplySkyDelta(f[m], delta)
        /\ h[m + 1] = ReadsDelta(p, h[m], e)
    BY <1>2, <1>3, <1>4, <2>1
  <2> HIDE DEF delta
  <2>3. SUFFICES ASSUME h[m + 1].ok
                 PROVE  h[m + 1] = View(p, f[m + 1])
    BY <2>1
  <2>4. h[m].ok /\ (e = None \/ h[m].in)
    <3>1. e \in ParticipationDelta \cup {None}
      BY <2>2 DEF DeltaMap
    <3> DEFINE a == h[m]
               b == h[m + 1]
    <3>2. a \in Views /\ b = ReadsDelta(p, a, e) /\ b.ok
      BY <2>2, <2>3
    <3> HIDE DEF e, a, b
    <3>3. b.ok = (a.ok /\ (e = None \/ a.in))
      BY <3>1, <3>2, ReadsDeltaIs
    <3> QED
      BY <3>2, <3>3 DEF a
  <2>5. h[m] = View(p, f[m])
    BY <1>8, <2>4
  <2>6. e = None \/ p \in f[m].arena
    <3>1. h[m].in = (p \in f[m].arena)
      BY <2>2, <2>5, ViewIs DEF WithSky
    <3> QED
      BY <2>4, <3>1
  <2> QED
    BY <2>2, <2>5, <2>6, ViewDelta
<1> HIDE DEF T
<1>9. \A m \in 0 .. n : m \in T
  BY <1>2, <1>7, <1>8, InductionTo
<1>10. n \in T /\ d.cache = rest
  BY <1>2, <1>3, <1>9
<1>11. View(p, d) = g
  BY <1>3, <1>4, <1>6, <1>10 DEF T
<1> QED
  BY <1>5, <1>10, <1>11 DEF Will, d, v

\* The client reads all that is on its way.
LEMMA ReadAll ==
    ASSUME NEW c \in Proper, NEW packets \in Seq(DownPacket), Ready(c, packets)
    PROVE  LET r == Received(c, packets)
           IN  /\ r \in Proper /\ c.overtaken \subseteq r.overtaken
               /\ r.sky = None => r.cache = <<>>
               /\ \A p \in Players \ r.overtaken :
                     Will(p, c, packets).ok => Will(p, r, <<>>) = Will(p, c, packets)
<1>1. PICK f \in [0 .. Len(packets) -> Proper] :
         /\ f[0] = c
         /\ \A i \in 1 .. Len(packets) : f[i] = Receive(f[i - 1], packets[i])
         /\ Received(c, packets) = f[Len(packets)]
  BY ReceivedIs
<1> DEFINE N == Len(packets)
           rest(k) == SubSeq(packets, k + 1, N)
           Kept(k) == /\ Ready(f[k], rest(k)) /\ c.overtaken \subseteq f[k].overtaken
                      /\ \A p \in Players \ f[k].overtaken :
                            Will(p, c, packets).ok => Will(p, f[k], rest(k)) = Will(p, c, packets)
           T == {k \in 0 .. N : Kept(k)}
<1>2. N \in Nat /\ \A i \in 1 .. N : packets[i] \in DownPacket
  OBVIOUS
<1>3. rest(0) = packets /\ rest(N) = <<>>
  BY <1>2, SubSeqFull, SubSeqEmpty
<1>4. ASSUME NEW k \in 0 .. N - 1
      PROVE  /\ rest(k) \in Seq(DownPacket) /\ rest(k) # <<>>
             /\ Head(rest(k)) = packets[k + 1] /\ Tail(rest(k)) = rest(k + 1)
  <2>1. k + 1 \in 1 .. N /\ N \in k + 1 .. N
    BY <1>2
  <2>2. Head(rest(k)) = packets[k + 1] /\ Tail(rest(k)) = rest(k + 1)
    BY <2>1, HeadTailOfSubSeq
  <2>3. rest(k) \in Seq(DownPacket) /\ Len(rest(k)) = N - k
    BY <1>2, <2>1
  <2>4. rest(k) # <<>>
    <3> HIDE DEF rest
    <3> QED
      BY <1>2, <2>3
  <2> QED
    BY <2>2, <2>3, <2>4
<1>5. 0 \in T
  BY <1>1, <1>2, <1>3
<1> HIDE DEF rest
<1>6. ASSUME NEW k \in 0 .. N - 1, k \in T
      PROVE  k + 1 \in T
  <2>1. k + 1 \in 1 .. N /\ (k + 1) - 1 = k /\ k + 1 \in 0 .. N /\ k \in 0 .. N
    BY <1>2
  <2>2. /\ f[k] \in Proper /\ f[k + 1] = Receive(f[k], Head(rest(k)))
        /\ rest(k) \in Seq(DownPacket) /\ rest(k) # <<>> /\ rest(k + 1) = Tail(rest(k))
    BY <1>1, <1>4, <2>1
  <2>3. Kept(k)
    BY <1>6
  <2>4. Ready(f[k + 1], rest(k + 1))
    BY <2>2, <2>3, ReadyOne
  <2>5. f[k].overtaken \subseteq f[k + 1].overtaken
    BY <2>2, HasTail, ReceiveKeeps
  <2>6. ASSUME NEW p \in Players \ f[k + 1].overtaken, Will(p, c, packets).ok
        PROVE  Will(p, f[k + 1], rest(k + 1)) = Will(p, c, packets)
    <3>1. Will(p, f[k], rest(k)) = Will(p, c, packets)
      BY <2>3, <2>5, <2>6
    <3>2. Will(p, f[k + 1], rest(k + 1)) = Will(p, f[k], rest(k))
      <4> DEFINE a == f[k]
                 q == rest(k)
      <4>1. /\ a \in Proper /\ q \in Seq(DownPacket) /\ q # <<>> /\ Ready(a, q)
            /\ f[k + 1] = Receive(a, Head(q)) /\ rest(k + 1) = Tail(q)
            /\ p \in Players /\ Will(p, a, q).ok
        BY <2>2, <2>3, <2>6, <3>1
      <4>2. p \notin Receive(a, Head(q)).overtaken
        BY <2>6, <4>1
      <4> HIDE DEF a, q
      <4>3. Will(p, Receive(a, Head(q)), Tail(q)) = Will(p, a, q)
        BY <4>1, <4>2, ReadOne
      <4> QED
        BY <4>1, <4>3 DEF a, q
    <3> QED
      BY <3>1, <3>2
  <2>7. Kept(k + 1)
    BY <2>3, <2>4, <2>5, <2>6
  <2> HIDE DEF Kept
  <2> QED
    BY <2>1, <2>7
<1> HIDE DEF T
<1>7. \A k \in 0 .. N : k \in T
  BY <1>2, <1>5, <1>6, InductionTo
<1>8. N \in T /\ f[N] \in Proper
  BY <1>1, <1>2, <1>7
<1>9. Kept(N)
  BY <1>8 DEF T
<1> QED
  BY <1>1, <1>3, <1>8, <1>9 DEF Ready

-----------------------------------------------------------------------------
(* Planes and controls on their way to the client *)

\* What the next delta will say of a plane is all that is missing.
Pending(x, y) ==
    /\ y.plane = None => y.newlyDead \/ x.plane = None
    /\ y.plane # None => y.newlyAlive \/ (x.plane # None /\ x.plane.life = y.plane.life)

Matches(x, y) ==
    /\ y.plane = None => x.plane = None
    /\ y.plane # None => x.plane # None /\ x.plane.life = y.plane.life

\* x is what will be of p, y the server's participation; the initializer
\* held what no delta announced of the controls of those in fresh.
Stands(p, x, y, starting, fresh) ==
    /\ x.ok
    /\ x.in = (y # None)
    /\ x.sky = ~starting
    /\ x.sky /\ x.in =>
          /\ Pending(x, y)
          /\ p # Own /\ p \notin fresh => x.controls = y.lastControls

Reaches == \A p \in Players \ client.overtaken :
              Stands(p, Will(p, client, down), part[p], loading, unsettled)

LEMMA DeltaTells ==
    ASSUME NEW p \in Players, NEW y \in Participations, NEW x \in Views,
           x.sky, x.in, Pending(x, y)
    PROVE  LET z == ReadsDelta(p, x, IF Announces(y) THEN DeltaFor(p, y) ELSE None)
           IN  /\ z \in Views /\ z.sky /\ z.in /\ z.ok = x.ok
               /\ Matches(z, y)
               /\ p # Own /\ (x.controls = y.lastControls \/ y.controls # y.lastControls)
                    => z.controls = y.controls
<1> DEFINE delta == IF Announces(y) THEN DeltaFor(p, y) ELSE None
           z == ReadsDelta(p, x, delta)
<1>1. CASE ~Announces(y)
  <2>1. y.plane = None /\ ~y.newlyDead /\ y.controls = y.lastControls
    BY <1>1 DEF Announces
  <2>2. z = x
    BY <1>1 DEF ReadsDelta
  <2> QED
    BY <2>1, <2>2 DEF Pending, Matches
<1>2. CASE Announces(y)
  <2>1. /\ delta \in ParticipationDelta /\ delta # None
        /\ delta.spawn = IF y.newlyAlive THEN y.plane ELSE None
        /\ (delta.state = None /\ delta.serverState = None) = (y.newlyAlive \/ y.plane = None)
        /\ p # Own => delta.controls = IF y.controls = y.lastControls THEN None ELSE y.controls
    BY <1>2, DeltaForIs, NoneIsApart
  <2> HIDE DEF delta
  <2>2. /\ z \in Views /\ z.sky = x.sky /\ z.in = x.in
        /\ z.ok = (x.ok /\ (delta = None \/ x.in))
        /\ z.plane = IF delta.spawn # None THEN delta.spawn ELSE PlaneAfter(x.plane, delta)
        /\ z.controls = IF p = Own \/ delta.controls = None THEN x.controls
                        ELSE delta.controls
    <3>1. delta \in ParticipationDelta \cup {None} /\ x \in Views
      BY <2>1
    <3>2. /\ z \in Views /\ z.sky = x.sky /\ z.in = x.in
          /\ z.ok = (x.ok /\ (delta = None \/ x.in))
          /\ delta # None /\ x.in /\ x.sky =>
               /\ z.plane = IF delta.spawn # None THEN delta.spawn
                            ELSE PlaneAfter(x.plane, delta)
               /\ z.controls = IF p = Own \/ delta.controls = None THEN x.controls
                               ELSE delta.controls
      BY ONLY <3>1, ReadsDeltaIs
    <3> QED
      BY <2>1, <3>2
  <2>3. /\ y.plane \in Plane \cup {None} /\ y.newlyAlive \in BOOLEAN
        /\ y.controls # None /\ x.plane \in Plane \cup {None}
    BY NoneIsApart DEF Participations, Views
  <2>4. LET new == PlaneAfter(x.plane, delta)
        IN  /\ new = None <=>
                 x.plane = None \/ (delta.state = None /\ delta.serverState = None)
            /\ new # None => new.life = x.plane.life
    BY <2>1, <2>3, PlaneAfterIs
  <2> HIDE DEF z
  <2>5. Matches(z, y)
    <3>1. CASE y.plane = None
      <4>1. delta.spawn = None /\ delta.state = None /\ delta.serverState = None
        BY <2>1, <3>1
      <4> QED
        BY <2>2, <2>4, <3>1, <4>1 DEF Matches
    <3>2. CASE y.plane # None /\ y.newlyAlive
      BY <2>1, <2>2, <3>2 DEF Matches
    <3>3. CASE y.plane # None /\ ~y.newlyAlive
      <4>1. delta.spawn = None /\ ~(delta.state = None /\ delta.serverState = None)
        BY <2>1, <3>3
      <4>2. x.plane # None /\ x.plane.life = y.plane.life
        BY <3>3 DEF Pending
      <4> QED
        BY <2>2, <2>4, <3>3, <4>1, <4>2 DEF Matches
    <3> QED
      BY <3>1, <3>2, <3>3
  <2>6. p # Own /\ (x.controls = y.lastControls \/ y.controls # y.lastControls)
           => z.controls = y.controls
    BY <2>1, <2>2, <2>3
  <2>7. z.ok = x.ok
    BY <2>2 DEF Views
  <2> QED
    BY <2>2, <2>5, <2>6, <2>7 DEF z, delta
<1> QED
  BY <1>1, <1>2

LEMMA WillIs ==
    ASSUME NEW p \in Players, NEW c \in Proper, NEW packets \in Seq(DownPacket)
    PROVE  /\ Will(p, c, packets) \in Views
           /\ \A packet \in DownPacket :
                 Will(p, c, Append(packets, packet)) = Reads(p, Will(p, c, packets), packet)
<1> DEFINE y == Folded(Reader(p), View(p, c), Waiting(c.cache))
<1>1. y \in Views
  <2>1. c.cache \in Seq(DeltaMap) /\ View(p, c) \in Views
    BY ViewIs DEF Proper, Client, DeltaMap
  <2> QED
    BY <2>1, CacheKeeps
<1> HIDE DEF y
<1>2. Folded(Reader(p), y, packets) \in Views
  BY <1>1, NotOkStays
<1>3. ASSUME NEW packet \in DownPacket
      PROVE  Folded(Reader(p), y, Append(packets, packet))
                = Reads(p, Folded(Reader(p), y, packets), packet)
  <2>1. Folded(Reader(p), y, Append(packets, packet))
           = Reader(p)[<<Folded(Reader(p), y, packets), packet>>]
    BY <1>1, ReaderIs, FoldedLast
  <2> QED
    BY <1>2, <2>1, ReaderIs
<1> QED
  BY <1>2, <1>3 DEF Will, y

\* Where a client is when nothing is on its way.
LEMMA WillNone ==
    ASSUME NEW p \in Players, NEW c \in Proper, c.cache = <<>>
    PROVE  Will(p, c, <<>>) = View(p, c)
BY WaitingNone, FoldedNone DEF Will

LEMMA ClientReady == Typed => Ready(client, down)
BY DEF Typed, AskedOnce, Ready

\* An action in which the server does nothing that a client will see.
LEMMA ReachesRest ==
    ASSUME Typed, Reaches, UNCHANGED <<part, loading, unsettled>>,
           client'.overtaken = client.overtaken,
           \A p \in Players \ client.overtaken : Will(p, client', down') = Will(p, client, down)
    PROVE  Reaches'
BY DEF Reaches

LEMMA InitReaches == SkyInit => Reaches
<1> SUFFICES ASSUME SkyInit, NEW p \in Players
             PROVE  Stands(p, Will(p, client, down), part[p], loading, unsettled)
  BY DEF Reaches
<1>1. /\ client \in Proper /\ client.cache = <<>> /\ down = <<>> /\ client.sky = None
      /\ client.arena = Players /\ Members = Players /\ loading = TRUE
  <2>1. Typed
    BY InitTyped
  <2>2. NewParticipation(DefaultInit) # None
    BY NewIs, DefaultIsInit, NoneIsApart
  <2> QED
    BY <2>1, <2>2, TypedFacts DEF SkyInit, Members
<1>2. Will(p, client, down) = View(p, client)
  BY <1>1, WillNone
<1>3. View(p, client).ok /\ View(p, client).in = TRUE /\ View(p, client).sky = FALSE
  BY <1>1 DEF View
<1> QED
  BY <1>1, <1>2, <1>3 DEF Stands, Members

LEMMA ReachesReceives ==
    ASSUME Typed, Reaches, ClientReceives
    PROVE  Reaches'
<1> USE TypedFacts
<1>1. /\ down # <<>> /\ client' = Receive(client, Head(down)) /\ down' = Tail(down)
      /\ UNCHANGED <<part, loading, unsettled>>
      /\ down \in Seq(DownPacket)
  BY DEF ClientReceives, serverVars, Typed, TypeOK
<1>2. client.overtaken \subseteq client'.overtaken
  BY <1>1, HasTail, ReceiveKeeps
<1>3. ASSUME NEW p \in Players \ client'.overtaken
      PROVE  /\ Will(p, client', down') = Will(p, client, down)
             /\ Stands(p, Will(p, client, down), part[p], loading, unsettled)
  <2>1. Stands(p, Will(p, client, down), part[p], loading, unsettled)
    BY <1>2 DEF Reaches
  <2>2. Will(p, client, down).ok
    BY <2>1 DEF Stands
  <2>3. Will(p, Receive(client, Head(down)), Tail(down)) = Will(p, client, down)
    BY <1>1, <2>2, ReadOne, ClientReady
  <2> QED
    BY <1>1, <2>1, <2>3
<1> QED
  BY <1>1, <1>3 DEF Reaches

LEMMA ReachesPolls ==
    ASSUME Typed, Reaches, ClientPolls
    PROVE  Reaches'
<1> USE TypedFacts
<1>1. PICK n \in 1 .. Len(client.cache) : client' = Release(client, n)
  BY PollsTyped
<1>2. /\ n \in 0 .. Len(client.cache) /\ client \in WithSky /\ down' = down
      /\ down \in Seq(DownPacket) /\ UNCHANGED <<part, loading, unsettled>>
  BY <1>1, PollsTyped DEF ClientPolls, serverVars, Typed, TypeOK
<1>3. client'.overtaken = client.overtaken
  BY <1>1, <1>2, ReleaseKeeps
<1>4. ASSUME NEW p \in Players \ client.overtaken
      PROVE  Will(p, client', down') = Will(p, client, down)
  <2>1. Will(p, client, down).ok
    BY DEF Reaches, Stands
  <2>2. Will(p, Release(client, n), down) = Will(p, client, down)
    BY <1>2, <2>1, ReleaseOne
  <2> QED
    BY <1>1, <1>2, <2>2
<1> QED
  BY <1>2, <1>3, <1>4, ReachesRest

\* The client changes its own controls.
LEMMA ReachesOwn ==
    ASSUME Typed, Reaches, client.sky # None, NEW x \in Participations,
           client' = [client EXCEPT !.sky[Own] = x], x.plane = client.sky[Own].plane,
           UNCHANGED <<part, loading, unsettled, down>>
    PROVE  Reaches'
<1> USE TypedFacts
<1>1. /\ client' \in WithSky /\ client'.sky[Own] = x
      /\ \A p \in Players : p # Own => client'.sky[p] = client.sky[p]
      /\ client'.arena = client.arena /\ client'.cache = client.cache
      /\ client'.overtaken = client.overtaken
  BY OwnChangesProper DEF Typed, AskedOnce
<1>2. client'.sky # None
  BY <1>1 DEF WithSky
<1>3. ASSUME NEW p \in Players
      PROVE  View(p, client') = View(p, client)
  <2>1. CASE p = Own
    BY <1>1, <1>2, <2>1 DEF View
  <2>2. CASE p # Own
    <3>1. client'.sky[p] = client.sky[p] /\ client'.arena = client.arena
      BY <1>1, <2>2
    <3>2. (client'.sky # None) = (client.sky # None)
      BY <1>2
    <3> QED
      BY ONLY <2>2, <3>1, <3>2 DEF View
  <2> QED
    BY <2>1, <2>2
<1>4. \A p \in Players : Will(p, client', down') = Will(p, client, down)
  BY <1>1, <1>3 DEF Will
<1> QED
  BY <1>1, <1>4, ReachesRest

\* The server sends one packet, and what it makes of what will be stands.
LEMMA ReachesSends ==
    ASSUME Typed, Reaches, NEW packet \in DownPacket,
           down' = Append(down, packet), client' = client,
           \A p \in Players, x \in Views :
              Stands(p, x, part[p], loading, unsettled)
                 => Stands(p, Reads(p, x, packet), part'[p], loading', unsettled')
    PROVE  Reaches'
<1> USE TypedFacts
<1>1. down \in Seq(DownPacket)
  BY DEF Typed, TypeOK
<1>2. ASSUME NEW p \in Players \ client.overtaken
      PROVE  Stands(p, Will(p, client', down'), part'[p], loading', unsettled')
  <2> DEFINE x == Will(p, client, down)
  <2>1. x \in Views /\ Will(p, client', down') = Reads(p, x, packet)
    BY <1>1, WillIs
  <2>2. Stands(p, x, part[p], loading, unsettled)
    BY DEF Reaches
  <2> HIDE DEF x
  <2> QED
    BY <2>1, <2>2
<1> QED
  BY <1>2 DEF Reaches

\* The server sends nothing.
LEMMA ReachesStays ==
    ASSUME Typed, Reaches, UNCHANGED <<client, down>>,
           \A p \in Players, x \in Views :
              Stands(p, x, part[p], loading, unsettled)
                 => Stands(p, x, part'[p], loading', unsettled')
    PROVE  Reaches'
<1> USE TypedFacts
<1>1. \A p \in Players : Will(p, client, down) \in Views
  BY WillIs DEF Typed, TypeOK
<1> QED
  BY <1>1 DEF Reaches

LEMMA ReachesReqSky ==
    ASSUME Typed, Reaches, HandleReqSky
    PROVE  Reaches'
<1> USE TypedFacts
<1> DEFINE captured(p) == CaptureParticipation(part[p])
           sky == MapOf(captured, Members)
           packet == InitSky(sky)
           fresh == {p \in Members : part[p].controls # part[p].lastControls}
<1>1. sky \in [Players -> ParticipationInit \cup {None}]
  BY CaptureIs DEF MapOf
<1>2. \A p \in Members : sky[p] = CaptureParticipation(part[p]) /\ sky[p] # None
  BY CaptureIs, NoneIsApart DEF MapOf
<1>3. /\ down' = Append(down, packet) /\ client' = client /\ part' = part
      /\ loading' = FALSE /\ unsettled' = fresh
  BY DEF HandleReqSky
<1> HIDE DEF sky, fresh
<1>4. /\ packet \in DownPacket /\ packet.type = "InitSky" /\ packet.sky = sky
  BY <1>1 DEF InitSky, DownPacket
<1> HIDE DEF packet
<1>5. ASSUME NEW p \in Players, NEW x \in Views, Stands(p, x, part[p], loading, unsettled)
      PROVE  Stands(p, Reads(p, x, packet), part[p], FALSE, fresh)
  <2> DEFINE init == Given(p, sky)
             z == Reads(p, x, packet)
  <2>1. init \in ParticipationInit /\ z = ReadsInit(p, x, init)
    BY <1>1, <1>4, DefaultIsInit DEF Given, Reads
  <2> HIDE DEF init, z
  <2>2. /\ z \in Views /\ z.sky /\ z.in = x.in /\ z.ok = x.ok
        /\ z.plane = IF x.in THEN init.spawn ELSE x.plane
        /\ z.controls = IF x.in /\ p # Own THEN init.controls ELSE x.controls
    BY <2>1, ReadsInitIs
  <2>3. x.ok /\ x.in = (part[p] # None)
    BY <1>5 DEF Stands
  <2>4. CASE p \in Members
    <3>1. /\ part[p] \in Participations /\ part[p] # None /\ x.in
          /\ init.spawn = part[p].plane /\ init.controls = part[p].controls
      BY <1>2, <2>3, <2>4, CaptureIs DEF Given, init, Members
    <3>2. p \notin fresh => part[p].controls = part[p].lastControls
      BY <2>4 DEF fresh
    <3>3. Pending(z, part[p])
      BY <2>2, <3>1 DEF Pending
    <3>4. z.ok /\ z.in = (part[p] # None) /\ z.sky = ~FALSE
      BY <2>2, <2>3 DEF Views
    <3> QED
      BY <2>2, <3>1, <3>2, <3>3, <3>4 DEF Stands, z
  <2>5. CASE p \notin Members
    <3>1. z.ok /\ z.in = (part[p] # None) /\ z.sky = ~FALSE /\ ~z.in
      BY <2>2, <2>3, <2>5 DEF Views, Members
    <3> QED
      BY <3>1 DEF Stands, z
  <2> QED
    BY <2>4, <2>5
<1> QED
  BY <1>3, <1>4, <1>5, ReachesSends

\* A spawn, of a player who has no plane.
LEMMA ReachesSpawn ==
    ASSUME Typed, Reaches, NEW p \in Members, Spawn(p),
           UNCHANGED <<client, down, loading, unsettled>>
    PROVE  Reaches'
<1> USE TypedFacts
<1> DEFINE new == SpawnPlane(part[p], spawned[p] + 1)
<1>1. /\ spawned[p] + 1 \in Lives /\ part \in Skies
      /\ part' = [part EXCEPT ![p] = new]
  BY DEF Spawn, Typed, TypeOK, Lives
<1>2. /\ new \in Participations /\ new.plane # None /\ new.newlyAlive
      /\ new.lastControls = part[p].lastControls
  BY <1>1, SpawnIs, NoneIsApart
<1> HIDE DEF new
<1>3. part'[p] = new /\ \A q \in Players : q # p => part'[q] = part[q]
  BY <1>1 DEF Skies
<1>4. ASSUME NEW q \in Players, NEW x \in Views, Stands(q, x, part[q], loading, unsettled)
      PROVE  Stands(q, x, part'[q], loading', unsettled')
  <2>1. CASE q # p
    BY <1>3, <1>4, <2>1
  <2>2. CASE q = p
    <3>1. part[p] # None /\ new # None
      BY <1>2, NoneIsApart DEF Members
    <3> QED
      BY <1>2, <1>3, <1>4, <2>2, <3>1 DEF Stands, Pending
  <2> QED
    BY <2>1, <2>2
<1> QED
  BY <1>4, ReachesStays

LEMMA ReachesQuits ==
    ASSUME Typed, Reaches, NEW p \in Others, OtherQuits(p)
    PROVE  Reaches'
<1> USE TypedFacts
<1> DEFINE packet == Quit(p)
<1>1. /\ down' = Append(down, packet) /\ client' = client /\ loading' = loading
      /\ unsettled' = unsettled \ {p} /\ part' = [part EXCEPT ![p] = None]
      /\ part \in Skies /\ p \in Players
  BY DEF OtherQuits, Typed, TypeOK, Others
<1>2. packet \in DownPacket /\ packet.type = "Quit" /\ packet.pid = p
  BY DEF Quit, DownPacket
<1> HIDE DEF packet
<1>3. part'[p] = None /\ \A q \in Players : q # p => part'[q] = part[q]
  BY <1>1 DEF Skies
<1>4. ASSUME NEW q \in Players, NEW x \in Views, Stands(q, x, part[q], loading, unsettled)
      PROVE  Stands(q, Reads(q, x, packet), part'[q], loading', unsettled')
  <2>1. CASE q # p
    <3>1. Reads(q, x, packet) = x
      BY <1>2, <2>1 DEF Reads
    <3>2. q \notin unsettled' => q \notin unsettled
      BY <1>1, <2>1
    <3> QED
      BY <1>1, <1>3, <1>4, <2>1, <3>1, <3>2 DEF Stands
  <2>2. CASE q = p
    <3> DEFINE z == ReadsQuit(x)
    <3>1. Reads(q, x, packet) = z
      BY <1>2, <2>2 DEF Reads
    <3>2. ~z.in /\ z.ok = x.ok /\ z.sky = x.sky /\ z \in Views
      BY ReadsPlayerIs
    <3> HIDE DEF z
    <3>3. x.ok /\ x.sky = ~loading
      BY <1>4 DEF Stands
    <3>4. z.in = (part'[q] # None)
      BY <1>3, <2>2, <3>2 DEF Views
    <3> QED
      BY <1>1, <3>1, <3>2, <3>3, <3>4 DEF Stands
  <2> QED
    BY <2>1, <2>2
<1> QED
  BY <1>1, <1>2, <1>4, ReachesSends

LEMMA ReachesJoins ==
    ASSUME Typed, Reaches, NEW p \in Others, OtherJoins(p)
    PROVE  Reaches'
<1> USE TypedFacts
<1> DEFINE packet == Join(p)
           new == NewParticipation(DefaultInit)
<1>1. /\ down' = Append(down, packet) /\ client' = client /\ loading' = loading
      /\ unsettled' = unsettled /\ part' = [part EXCEPT ![p] = new]
      /\ part \in Skies /\ p \in Players /\ part[p] = None
  BY DEF OtherJoins, Typed, TypeOK, Others
<1>2. packet \in DownPacket /\ packet.type = "Join" /\ packet.pid = p
  BY DEF Join, DownPacket
<1>3. /\ new \in Participations /\ new # None /\ new.plane = None
      /\ new.lastControls = "idle"
  BY NewIs, DefaultIsInit, NoneIsApart DEF DefaultInit
<1> HIDE DEF packet, new
<1>4. part'[p] = new /\ \A q \in Players : q # p => part'[q] = part[q]
  BY <1>1 DEF Skies
<1>5. ASSUME NEW q \in Players, NEW x \in Views, Stands(q, x, part[q], loading, unsettled)
      PROVE  Stands(q, Reads(q, x, packet), part'[q], loading', unsettled')
  <2>1. CASE q # p
    <3>1. Reads(q, x, packet) = x
      BY <1>2, <2>1 DEF Reads
    <3> QED
      BY <1>1, <1>4, <1>5, <2>1, <3>1
  <2>2. CASE q = p
    <3> DEFINE z == ReadsJoin(x)
    <3>1. Reads(q, x, packet) = z
      BY <1>2, <2>2 DEF Reads
    <3>2. /\ z \in Views /\ z.in /\ z.ok = (x.ok /\ ~x.in) /\ z.sky = x.sky
          /\ z.plane = None /\ z.controls = "idle"
      BY ReadsPlayerIs
    <3> HIDE DEF z
    <3>3. x.ok /\ x.sky = ~loading /\ x.in = (part[q] # None)
      BY <1>5 DEF Stands
    <3>4. z.in = (part'[q] # None) /\ z.ok
      BY <1>1, <1>3, <1>4, <2>2, <3>2, <3>3 DEF Views
    <3>5. Pending(z, part'[q]) /\ z.controls = part'[q].lastControls
      BY <1>3, <1>4, <2>2, <3>2 DEF Pending
    <3> QED
      BY <1>1, <3>1, <3>2, <3>3, <3>4, <3>5 DEF Stands
  <2> QED
    BY <2>1, <2>2
<1> QED
  BY <1>1, <1>2, <1>5, ReachesSends

LEMMA ReachesTick ==
    ASSUME Typed, Reaches, NEW due \in BOOLEAN, ServerTick(due)
    PROVE  Reaches'
<1> USE TypedFacts
<1>1. PICK n \in 0 .. Len(inputs), after \in Skies :
         TickLeads(after, n) /\ (TickKeeps(after) \/ TickSends(after))
  BY ServerTickIs
<1>2. /\ \A p \in Members : /\ after[p] \in Participations /\ SameLife(part[p], after[p])
                            /\ after[p] # None /\ part[p] # None
      /\ \A p \in Players \ Members : after[p] = None /\ part[p] = None
      /\ client' = client /\ loading' = loading
  BY <1>1, NoneIsApart DEF TickLeads, Members
<1>3. ASSUME NEW p \in Players, NEW x \in Views, Stands(p, x, part[p], loading, unsettled)
      PROVE  Stands(p, x, after[p], loading, unsettled)
  <2>1. CASE p \in Members
    <3>1. Pending(x, part[p]) => Pending(x, after[p])
      BY <1>2, <2>1 DEF Pending, SameLife
    <3>2. after[p].lastControls = part[p].lastControls
      BY <1>2, <2>1 DEF SameLife
    <3> QED
      BY <1>2, <1>3, <2>1, <3>1, <3>2 DEF Stands
  <2>2. CASE p \notin Members
    <3>1. after[p] = part[p]
      BY <1>2, <2>2
    <3> QED
      BY <1>3, <3>1
  <2> QED
    BY <2>1, <2>2
<1>4. CASE TickKeeps(after)
  <2>1. part' = after /\ unsettled' = unsettled /\ down' = down
    BY <1>4 DEF TickKeeps
  <2> QED
    BY <1>2, <1>3, <2>1, ReachesStays
<1>5. CASE TickSends(after)
  <2> DEFINE sent == {p \in Members : after[p].controls # after[p].lastControls}
  <2>1. /\ unsettled' = unsettled \ sent
        /\ down' = IF loading THEN down ELSE Append(down, DeltaSky(SkyDelta(after)))
        /\ \A p \in Members : part'[p] = Announced(after[p])
        /\ \A p \in Players \ Members : part'[p] = None
    BY <1>2, <1>5, CollectedIs DEF TickSends
  <2> HIDE DEF sent
  <2>2. ASSUME NEW p \in Members
        PROVE  /\ part'[p] \in Participations /\ part'[p] # None
               /\ part'[p].plane = after[p].plane
               /\ part'[p].lastControls = after[p].controls
    BY <1>2, <2>1, AnnouncedIs, NoneIsApart
  <2>3. CASE loading
    <3>1. ASSUME NEW p \in Players, NEW x \in Views, Stands(p, x, part[p], loading, unsettled)
          PROVE  Stands(p, x, part'[p], loading', unsettled')
      <4>1. x.ok /\ x.in = (part[p] # None) /\ x.sky = ~loading
        BY <3>1 DEF Stands
      <4>2. (part'[p] # None) = (part[p] # None)
        BY <1>2, <2>1, <2>2
      <4> QED
        BY <1>2, <2>3, <4>1, <4>2 DEF Stands
    <3> QED
      BY <1>2, <2>1, <2>3, <3>1, ReachesStays
  <2>4. CASE ~loading
    <3> DEFINE packet == DeltaSky(SkyDelta(after))
    <3>1. packet \in DownPacket /\ packet.type = "DeltaSky" /\ packet.delta = SkyDelta(after)
      BY TickSendsDelta
    <3>2. \A p \in Players : SkyDelta(after)[p] =
             IF after[p] # None /\ Announces(after[p]) THEN DeltaFor(p, after[p]) ELSE None
      BY SkyDeltaIs
    <3>3. down' = Append(down, packet)
      BY <2>1, <2>4
    <3> HIDE DEF packet
    <3>4. ASSUME NEW p \in Players, NEW x \in Views, Stands(p, x, part[p], loading, unsettled)
          PROVE  Stands(p, Reads(p, x, packet), part'[p], loading', unsettled')
      <4> DEFINE z == Reads(p, x, packet)
                 y == after[p]
      <4>1. z = ReadsDelta(p, x, SkyDelta(after)[p])
        BY <3>1 DEF Reads
      <4>2. Stands(p, x, y, loading, unsettled)
        BY <1>3, <3>4
      <4>3. CASE p \in Members
        <5>1. y \in Participations /\ y # None
              /\ z = ReadsDelta(p, x, IF Announces(y) THEN DeltaFor(p, y) ELSE None)
          BY <1>2, <3>2, <4>1, <4>3
        <5> HIDE DEF y, z
        <5>2. x.ok /\ x.in /\ x.sky /\ Pending(x, y)
              /\ (p # Own /\ p \notin unsettled => x.controls = y.lastControls)
          <6>1. x.ok /\ x.in = (y # None) /\ x.sky = ~loading
            BY <4>2 DEF Stands
          <6>2. x.in /\ x.sky
            BY <2>4, <5>1, <6>1
          <6> QED
            BY <4>2, <6>1, <6>2 DEF Stands
        <5>3. /\ z \in Views /\ z.sky /\ z.in /\ z.ok = x.ok
              /\ Matches(z, y)
              /\ p # Own /\ (x.controls = y.lastControls \/ y.controls # y.lastControls)
                   => z.controls = y.controls
          BY <5>1, <5>2, DeltaTells
        <5>4. Pending(z, part'[p])
          BY <2>2, <4>3, <5>3 DEF Pending, Matches, y
        <5>5. p # Own /\ p \notin unsettled' => z.controls = part'[p].lastControls
          <6>1. p \notin unsettled' => p \notin unsettled \/ y.controls # y.lastControls
            BY <2>1 DEF sent, y
          <6> QED
            BY <2>2, <4>3, <5>2, <5>3, <6>1 DEF y
        <5>6. z.ok /\ z.in = (part'[p] # None) /\ z.sky = ~loading'
          BY <1>2, <2>2, <2>4, <4>3, <5>2, <5>3 DEF Views
        <5> QED
          BY <5>4, <5>5, <5>6 DEF Stands, z
      <4>4. CASE p \notin Members
        <5>1. y = None /\ part'[p] = None /\ part[p] = None
          BY <1>2, <2>1, <4>4
        <5>2. z = x
          BY <3>2, <4>1, <5>1 DEF ReadsDelta
        <5>3. x.ok /\ x.in = (part[p] # None) /\ x.sky = ~loading
          BY <3>4 DEF Stands
        <5>4. x.in = FALSE
          BY <5>1, <5>3
        <5> HIDE DEF y, z
        <5> QED
          BY <1>2, <5>1, <5>2, <5>3, <5>4 DEF Stands, z
      <4> QED
        BY <4>3, <4>4
    <3> QED
      BY <1>2, <3>1, <3>3, <3>4, ReachesSends
  <2> QED
    BY <2>3, <2>4 DEF Typed, TypeOK
<1> QED
  BY <1>1, <1>4, <1>5

LEMMA NextReaches ==
    ASSUME Typed, Reaches, [Next]_vars
    PROVE  Reaches'
<1> USE TypedFacts
<1>1. CASE HandleReqSpawn
  <2>1. UNCHANGED <<client, down, loading, unsettled>>
    BY <1>1 DEF HandleReqSpawn
  <2>2. CASE part[Own].plane = None
    BY <1>1, <2>1, <2>2, ReachesSpawn DEF HandleReqSpawn
  <2>3. CASE part[Own].plane # None
    BY <1>1, <2>1, <2>3, ReachesStays DEF HandleReqSpawn
  <2> QED
    BY <2>2, <2>3
<1>2. ASSUME NEW p \in Others, OtherSpawns(p)
      PROVE  Reaches'
  BY <1>2, ReachesSpawn DEF OtherSpawns
<1>3. CASE ClientSendsInput
  <2>1. /\ client' = [client EXCEPT !.sky[Own] = InputSent(client.sky[Own])]
        /\ client.sky # None /\ UNCHANGED <<part, loading, unsettled, down>>
    BY <1>3, SendsInputTyped DEF ClientSendsInput, serverVars
  <2>2. /\ InputSent(client.sky[Own]) \in Participations
        /\ InputSent(client.sky[Own]).plane = client.sky[Own].plane
    BY <2>1, InputIs
  <2> QED
    BY <2>1, <2>2, ReachesOwn
<1>4. ASSUME NEW control \in Controls, DoAction(control)
      PROVE  Reaches'
  <2> DEFINE x == [client.sky[Own] EXCEPT !.controls = control]
  <2>1. /\ client' = [client EXCEPT !.sky[Own] = x] /\ x \in Participations
        /\ client.sky # None /\ UNCHANGED <<part, loading, unsettled, down>>
    BY <1>4, ActionTyped DEF DoAction, serverVars
  <2>2. x.plane = client.sky[Own].plane
    BY <2>1 DEF Participations
  <2> HIDE DEF x
  <2> QED
    BY <2>1, <2>2, ReachesOwn
<1>5. CASE HandleReqInput \/ ClientAsksSky \/ PressSpawn \/ UNCHANGED vars
  <2>1. UNCHANGED <<part, loading, unsettled, client, down>>
    BY <1>5 DEF HandleReqInput, ClientAsksSky, PressSpawn, vars, serverVars
  <2> QED
    BY <2>1, ReachesStays
<1> QED
  BY <1>1, <1>2, <1>3, <1>4, <1>5, ReachesReqSky, ReachesQuits, ReachesJoins, ReachesTick,
     ReachesReceives, ReachesPolls DEF Next

\* What the client shows when it has read and applied everything.
LEMMA ReplayIs ==
    ASSUME Typed, Reaches, Replay.sky # None, NEW p \in Members \ Replay.overtaken
    PROVE  /\ Matches(Replay.sky[p], part[p])
           /\ p # Own /\ p \notin unsettled => Replay.sky[p].controls = part[p].controls
<1> USE TypedFacts
<1> DEFINE read == Received(client, down)
           all == Release(read, Len(read.cache))
           delta == SkyDelta(part)
           after == ApplySkyDelta(all, delta)
           will == Will(p, client, down)
<1>1. down \in Seq(DownPacket) /\ part \in Skies /\ p \in Players /\ part[p] # None
  BY NoneIsApart DEF Typed, TypeOK, Members
<1>2. /\ read \in Proper /\ client.overtaken \subseteq read.overtaken
      /\ \A q \in Players \ read.overtaken :
            Will(q, client, down).ok => Will(q, read, <<>>) = Will(q, client, down)
  BY <1>1, ReadAll, ClientReady
<1>3. read.sky # None /\ Replay = after
  BY DEF Replay
<1> HIDE DEF read
<1>4. read \in WithSky /\ Len(read.cache) \in 0 .. Len(read.cache)
  <2>1. read.cache \in Seq(DeltaMap)
    BY <1>2 DEF Proper, Client, DeltaMap
  <2> QED
    BY <1>2, <1>3, <2>1 DEF WithSky
<1>5. /\ all \in WithSky /\ all.arena = read.arena
      /\ all.cache = Rest(read, Len(read.cache)) /\ all.overtaken = read.overtaken
  BY <1>4, ReleaseKeeps
<1>6. all.cache = <<>>
  <2>1. Len(read.cache) \in Nat
    BY <1>2 DEF Proper, Client
  <2> QED
    BY <1>5, <2>1, SubSeqEmpty DEF Rest
<1>7. /\ delta \in DeltaMap
      /\ delta[p] = IF Announces(part[p]) THEN DeltaFor(p, part[p]) ELSE None
  BY <1>1, SkyDeltaIs
<1> HIDE DEF delta
<1>8. after \in WithSky /\ after.arena = all.arena /\ after.overtaken = read.overtaken
  <2> HIDE DEF all
  <2> QED
    BY <1>5, <1>7, ApplySkyDeltaIs
<1>9. p \notin read.overtaken /\ p \notin client.overtaken
  BY <1>2, <1>3, <1>8
<1>10. Stands(p, will, part[p], loading, unsettled) /\ will \in Views
  BY <1>1, <1>9, WillIs DEF Reaches
<1> HIDE DEF will
<1>11. Will(p, read, <<>>) = will /\ will.ok
  BY <1>1, <1>2, <1>9, <1>10 DEF Stands, will
<1>12. View(p, all) = will
  <2>1. Will(p, all, <<>>) = Will(p, read, <<>>)
    <3>1. <<>> \in Seq(DownPacket)
      OBVIOUS
    <3> QED
      BY <1>1, <1>4, <1>11, <3>1, ReleaseOne
  <2>2. all \in Proper
    BY <1>5 DEF WithSky
  <2> HIDE DEF all
  <2>3. Will(p, all, <<>>) = View(p, all)
    BY <1>1, <1>6, <2>2, WillNone
  <2> QED
    BY <1>11, <2>1, <2>3
<1> HIDE DEF all, after
<1>13. /\ will.sky /\ will.in /\ Pending(will, part[p]) /\ p \in all.arena
       /\ (p # Own /\ p \notin unsettled => will.controls = part[p].lastControls)
  <2>1. will.sky = (all.sky # None) /\ will.in = (p \in all.arena)
    BY <1>1, <1>5, <1>12, ViewIs DEF WithSky
  <2>2. will.in = (part[p] # None)
    BY <1>10 DEF Stands
  <2>3. will.sky /\ will.in
    BY <1>1, <1>5, <2>1, <2>2 DEF WithSky
  <2> QED
    BY <1>10, <2>1, <2>3 DEF Stands
<1> DEFINE z == View(p, after)
<1>14. z = ReadsDelta(p, will, delta[p])
  BY <1>1, <1>5, <1>7, <1>12, <1>13, ViewDelta DEF after
<1> HIDE DEF z
<1>15. /\ z.in /\ z.sky /\ Matches(z, part[p])
       /\ p # Own /\ (will.controls = part[p].lastControls
                      \/ part[p].controls # part[p].lastControls)
            => z.controls = part[p].controls
  BY <1>1, <1>7, <1>10, <1>13, <1>14, DeltaTells
<1>16. z.plane = after.sky[p].plane /\ (p # Own => z.controls = after.sky[p].controls)
  BY <1>1, <1>8, <1>15, ViewIs DEF z, WithSky
<1> QED
  BY <1>3, <1>13, <1>15, <1>16 DEF Matches

\* Nobody is alive on one side and dead on the other, wherever the client is
\* in reading the initializer, deltas, quits and joins: what is on its way
\* adds up to the server's planes.
THEOREM PlanesArrive == Spec => []PlanesReachClient
<1>1. SkyInit => Typed /\ Reaches
  BY InitTyped, InitReaches
<1>2. Typed /\ Reaches /\ [Next]_vars => (Typed /\ Reaches)'
  BY NextTyped, NextReaches
<1>3. Typed /\ Reaches => PlanesReachClient
  BY ReplayIs DEF PlanesReachClient, Matches
<1> QED
  BY <1>1, <1>2, <1>3, PTL DEF Spec

\* Nor does the client show others with other controls than the server, but
\* for those that changed before the initializer and changed back after it.
THEOREM OthersControlsArrive == Spec => []ControlsReachClient
<1>1. SkyInit => Typed /\ Reaches
  BY InitTyped, InitReaches
<1>2. Typed /\ Reaches /\ [Next]_vars => (Typed /\ Reaches)'
  BY NextTyped, NextReaches
<1>3. Typed /\ Reaches => ControlsReachClient
  BY ReplayIs DEF ControlsReachClient
<1> QED
  BY <1>1, <1>2, <1>3, PTL DEF Spec
=====
