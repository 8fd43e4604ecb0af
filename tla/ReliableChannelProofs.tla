------------------------- MODULE ReliableChannelProofs ------------------------
(***************************************************************************)
(* An ENet channel is a queue of whole packets, although its numbers wrap  *)
(* and datagrams are lost, repeated and reordered: for any numbers and     *)
(* sizes of windows, any packets and any lifetime of datagrams that the    *)
(* assumptions of ReliableChannel allow.                                   *)
(***************************************************************************)
EXTENDS ReliableChannel, FiniteSetTheorems, SequenceTheorems,
        WellFoundedInduction, TLAPS

-----------------------------------------------------------------------------
(* Division, and numbers that wrap *)

LEMMA Division ==
    ASSUME NEW n \in Nat, NEW k \in Nat \ {0}
    PROVE  /\ n \div k \in Nat /\ n % k \in 0 .. k - 1
           /\ n = k * (n \div k) + (n % k)
OBVIOUS

LEMMA Times ==
    ASSUME NEW k \in Nat, NEW x \in Nat, NEW y \in Nat, x < y
    PROVE  k * x + k <= k * y /\ k * x \in Nat /\ k * y \in Nat
OBVIOUS

LEMMA DivisionIs ==
    ASSUME NEW k \in Nat \ {0}, NEW q \in Nat, NEW r \in 0 .. k - 1
    PROVE  (k * q + r) \div k = q /\ (k * q + r) % k = r
<1> DEFINE n == k * q + r
           a == n \div k
           b == n % k
<1>1. n \in Nat /\ k * q \in Nat
  OBVIOUS
<1> HIDE DEF n
<1>2. a \in Nat /\ b \in 0 .. k - 1 /\ n = k * a + b
  BY <1>1, Division
<1> HIDE DEF a, b
<1>3. k * a \in Nat
  BY <1>2
<1>4. a = q
  <2>1. CASE a < q
    BY <2>1, <1>1, <1>2, <1>3, Times DEF n
  <2>2. CASE q < a
    BY <2>2, <1>1, <1>2, <1>3, Times DEF n
  <2> QED
    BY <2>1, <2>2, <1>2
<1>5. b = r
  BY <1>1, <1>2, <1>3, <1>4 DEF n
<1> QED
  BY <1>4, <1>5 DEF a, b, n

\* The window of a command, counted without wrapping, and the numbers there are.
Absolute(n) == n \div WindowSize
Size == Windows * WindowSize

LEMMA SizeIs ==
    /\ Size \in Nat \ {0} /\ Windows \in Nat \ {0} /\ WindowSize \in Nat \ {0}
    /\ FreeWindows \in Nat /\ Lifetime \in Nat /\ InTransit \in Nat /\ MaxCommands \in Nat
    /\ FreeWindows > 2 /\ Windows >= 2 * FreeWindows
BY ChannelAssumption, Z3 DEF Size

LEMMA Wrapped ==
    ASSUME NEW n \in Nat
    PROVE  \E c \in Nat, w \in 0 .. Windows - 1, r \in 0 .. WindowSize - 1 :
              /\ Absolute(n) = Windows * c + w
              /\ Absolute(n) % Windows = w
              /\ SequenceNumber(n) = WindowSize * w + r
              /\ Window(SequenceNumber(n)) = w
              /\ n = Size * c + WindowSize * w + r
              /\ n % WindowSize = r
              /\ SequenceNumber(n) % WindowSize = r
              /\ SequenceNumber(n) \in 0 .. Size - 1
<1> DEFINE a == n \div WindowSize
           r == n % WindowSize
           c == a \div Windows
           w == a % Windows
           s == WindowSize * w + r
<1>1. a \in Nat /\ r \in 0 .. WindowSize - 1 /\ n = WindowSize * a + r
  BY SizeIs, Division
<1> HIDE DEF a, r
<1>2. c \in Nat /\ w \in 0 .. Windows - 1 /\ a = Windows * c + w
  BY <1>1, SizeIs, Division
<1> HIDE DEF c, w
<1>3. WindowSize * w \in Nat /\ WindowSize * w + WindowSize <= WindowSize * Windows
      /\ WindowSize * Windows = Size
  BY <1>2, SizeIs, Times DEF Size
<1>4. s \in 0 .. Size - 1
  BY <1>1, <1>3, SizeIs
<1>5. n = Size * c + s
  <2>1. WindowSize * (Windows * c + w) = WindowSize * (Windows * c) + WindowSize * w
    BY <1>2, SizeIs
  <2>2. WindowSize * (Windows * c) = Size * c
    BY <1>2, SizeIs DEF Size
  <2>3. Size * c \in Nat
    BY <1>2, SizeIs
  <2> QED
    BY <1>1, <1>2, <1>3, <2>1, <2>2, <2>3
<1>6. s \div WindowSize = w /\ s % WindowSize = r
  BY <1>1, <1>2, SizeIs, DivisionIs
<1> HIDE DEF s
<1>7. n % Size = s
  BY <1>2, <1>4, <1>5, SizeIs, DivisionIs
<1>8. SequenceNumber(n) = s /\ Window(s) = w /\ Absolute(n) = a
  BY <1>6, <1>7 DEF SequenceNumber, Window, Absolute, Size, a
<1>9. Size * c + s = Size * c + WindowSize * w + r
  BY <1>1, <1>2, <1>3, SizeIs DEF s
<1> QED
  BY <1>1, <1>2, <1>4, <1>5, <1>6, <1>8, <1>9 DEF a, r, w, s

\* Less than a turn apart, numbers differ as the commands do, or by a turn.
LEMMA Turn ==
    ASSUME NEW m \in Nat, NEW n \in Nat, m <= n, n - m < Size
    PROVE  \/ /\ SequenceNumber(n) = SequenceNumber(m) + (n - m)
              /\ Window(SequenceNumber(n)) =
                   Window(SequenceNumber(m)) + (Absolute(n) - Absolute(m))
           \/ /\ SequenceNumber(n) = SequenceNumber(m) + (n - m) - Size
              /\ Window(SequenceNumber(n)) =
                   Window(SequenceNumber(m)) + (Absolute(n) - Absolute(m)) - Windows
<1>1. PICK c \in Nat, w \in 0 .. Windows - 1, r \in 0 .. WindowSize - 1 :
              /\ Absolute(m) = Windows * c + w
              /\ Absolute(m) % Windows = w
              /\ SequenceNumber(m) = WindowSize * w + r
              /\ Window(SequenceNumber(m)) = w
              /\ m = Size * c + WindowSize * w + r
              /\ m % WindowSize = r
              /\ SequenceNumber(m) % WindowSize = r
              /\ SequenceNumber(m) \in 0 .. Size - 1
  BY Wrapped
<1>2. PICK d \in Nat, v \in 0 .. Windows - 1, q \in 0 .. WindowSize - 1 :
              /\ Absolute(n) = Windows * d + v
              /\ Absolute(n) % Windows = v
              /\ SequenceNumber(n) = WindowSize * v + q
              /\ Window(SequenceNumber(n)) = v
              /\ n = Size * d + WindowSize * v + q
              /\ n % WindowSize = q
              /\ SequenceNumber(n) % WindowSize = q
              /\ SequenceNumber(n) \in 0 .. Size - 1
  BY Wrapped
<1>3. /\ Size * c \in Nat /\ Size * d \in Nat /\ Windows * c \in Nat /\ Windows * d \in Nat
      /\ WindowSize * w \in Nat /\ WindowSize * v \in Nat
  BY <1>1, <1>2, SizeIs
<1>4. m = Size * c + SequenceNumber(m) /\ n = Size * d + SequenceNumber(n)
  BY <1>1, <1>2, <1>3
<1>5. ~(d < c)
  <2>1. ASSUME d < c
        PROVE  Size * d + Size <= Size * c
    BY <2>1, SizeIs, Times
  <2> QED
    BY <1>1, <1>2, <1>3, <1>4, <2>1, SizeIs
<1>6. ~(c + 1 < d)
  <2>1. ASSUME c + 1 < d
        PROVE  Size * (c + 1) + Size <= Size * d /\ Size * (c + 1) = Size * c + Size
    BY <2>1, SizeIs, Times
  <2> QED
    BY <1>1, <1>2, <1>3, <1>4, <2>1, SizeIs
<1>7. CASE d = c
  BY <1>1, <1>2, <1>3, <1>4, <1>7, SizeIs
<1>8. CASE d = c + 1
  <2>1. Size * d = Size * c + Size /\ Windows * d = Windows * c + Windows
    BY <1>8, SizeIs
  <2> QED
    BY <1>1, <1>2, <1>3, <1>4, <2>1, SizeIs
<1> QED
  BY <1>5, <1>6, <1>7, <1>8

LEMMA AbsoluteSteps ==
    ASSUME NEW m \in Nat, NEW n \in Nat, m <= n, NEW k \in Nat
    PROVE  /\ Absolute(m) \in Nat /\ Absolute(n) \in Nat
           /\ Absolute(m) <= Absolute(n)
           /\ k * WindowSize \in Nat
           /\ n - m <= k * WindowSize => Absolute(n) - Absolute(m) <= k
           /\ Absolute(n) - Absolute(m) <= k => n - m < (k + 1) * WindowSize
<1> DEFINE a == m \div WindowSize
           b == n \div WindowSize
           q == m % WindowSize
           r == n % WindowSize
<1>1. a \in Nat /\ q \in 0 .. WindowSize - 1 /\ m = WindowSize * a + q
  BY SizeIs, Division
<1>2. b \in Nat /\ r \in 0 .. WindowSize - 1 /\ n = WindowSize * b + r
  BY SizeIs, Division
<1> HIDE DEF a, b, q, r
<1>3. /\ WindowSize * a \in Nat /\ WindowSize * b \in Nat /\ k * WindowSize \in Nat
      /\ (k + 1) * WindowSize = k * WindowSize + WindowSize
      /\ WindowSize * (a + k) = WindowSize * a + k * WindowSize
  BY <1>1, <1>2, SizeIs
<1>4. a <= b
  <2>1. ASSUME b < a
        PROVE  WindowSize * b + WindowSize <= WindowSize * a
    BY <2>1, <1>1, <1>2, SizeIs, Times
  <2> QED
    BY <2>1, <1>1, <1>2, <1>3, SizeIs
<1>5. ASSUME n - m <= k * WindowSize
      PROVE  b - a <= k
  <2>1. ASSUME a + k < b
        PROVE  WindowSize * (a + k) + WindowSize <= WindowSize * b
    BY <2>1, <1>1, <1>2, SizeIs, Times
  <2> QED
    BY <2>1, <1>1, <1>2, <1>3, <1>5, SizeIs
<1>6. ASSUME b - a <= k
      PROVE  n - m < (k + 1) * WindowSize
  <2>1. ASSUME b < a + k
        PROVE  WindowSize * b + WindowSize <= WindowSize * (a + k)
    BY <2>1, <1>1, <1>2, SizeIs, Times
  <2>2. WindowSize * b <= WindowSize * (a + k)
    BY <2>1, <1>1, <1>2, <1>3, <1>6, SizeIs
  <2> QED
    BY <2>2, <1>1, <1>2, <1>3, SizeIs
<1> QED
  BY <1>1, <1>2, <1>3, <1>4, <1>5, <1>6 DEF Absolute, a, b

\* Two commands less than Windows windows apart have different numbers.
LEMMA Near ==
    ASSUME NEW m \in Nat, NEW n \in Nat, m <= n, Absolute(n) - Absolute(m) < Windows
    PROVE  /\ n - m < Size
           /\ m # n => SequenceNumber(m) # SequenceNumber(n)
<1> DEFINE k == Windows - 1
<1>1. k \in Nat /\ k + 1 = Windows
  BY SizeIs
<1> HIDE DEF k
<1>2. /\ Absolute(m) \in Nat /\ Absolute(n) \in Nat
      /\ Absolute(n) - Absolute(m) <= k => n - m < (k + 1) * WindowSize
  BY <1>1, AbsoluteSteps
<1>3. n - m < Size
  BY <1>1, <1>2, SizeIs DEF Size
<1>4. SequenceNumber(m) \in 0 .. Size - 1 /\ SequenceNumber(n) \in 0 .. Size - 1
  BY Wrapped
<1> QED
  BY <1>3, <1>4, SizeIs, Turn

\* What the receiver makes of the number of a command after the last in line.
LEMMA AheadIs ==
    ASSUME NEW d \in Nat, NEW f \in Nat, d < f, Absolute(f) - Absolute(d) < Windows
    PROVE  /\ WindowAhead(SequenceNumber(f), SequenceNumber(d)) = Absolute(f) - Absolute(d)
           /\ f - d < Size
           /\ SequenceNumber(f) # SequenceNumber(d)
<1>2. Absolute(d) \in Nat /\ Absolute(f) \in Nat /\ Absolute(d) <= Absolute(f)
  BY AbsoluteSteps
<1>3. f - d < Size /\ SequenceNumber(f) # SequenceNumber(d)
  BY SizeIs, Near
<1>4. /\ SequenceNumber(f) \in 0 .. Size - 1 /\ SequenceNumber(d) \in 0 .. Size - 1
      /\ Window(SequenceNumber(f)) \in 0 .. Windows - 1
      /\ Window(SequenceNumber(d)) \in 0 .. Windows - 1
  BY Wrapped
<1> DEFINE s == SequenceNumber(f)
           t == SequenceNumber(d)
<1>5. \/ s = t + (f - d) /\ Window(s) = Window(t) + (Absolute(f) - Absolute(d))
      \/ s = t + (f - d) - Size /\ Window(s) = Window(t) + (Absolute(f) - Absolute(d)) - Windows
  BY <1>3, Turn
<1> HIDE DEF s, t
<1>6. CASE s = t + (f - d)
  BY <1>2, <1>3, <1>4, <1>5, <1>6, SizeIs DEF WindowAhead, s, t
<1>7. CASE s = t + (f - d) - Size
  BY <1>2, <1>3, <1>4, <1>5, <1>7, SizeIs DEF WindowAhead, s, t
<1> QED
  BY <1>5, <1>6, <1>7, <1>3 DEF s, t

\* And of one before it, as long as that may arrive.
LEMMA BehindIs ==
    ASSUME NEW d \in Nat, NEW f \in Nat, f < d,
           Absolute(d) - Absolute(f) <= Windows - FreeWindows + 1
    PROVE  /\ WindowAhead(SequenceNumber(f), SequenceNumber(d)) \in Nat
           /\ WindowAhead(SequenceNumber(f), SequenceNumber(d)) >= FreeWindows - 1
           /\ SequenceNumber(f) # SequenceNumber(d)
<1>1. /\ Absolute(d) \in Nat /\ Absolute(f) \in Nat /\ Absolute(f) <= Absolute(d)
  BY AbsoluteSteps
<1>2. d - f < Size /\ SequenceNumber(f) # SequenceNumber(d)
  BY <1>1, SizeIs, Near
<1>4. /\ SequenceNumber(f) \in 0 .. Size - 1 /\ SequenceNumber(d) \in 0 .. Size - 1
      /\ Window(SequenceNumber(f)) \in 0 .. Windows - 1
      /\ Window(SequenceNumber(d)) \in 0 .. Windows - 1
  BY Wrapped
<1> DEFINE s == SequenceNumber(f)
           t == SequenceNumber(d)
<1>5. \/ t = s + (d - f) /\ Window(t) = Window(s) + (Absolute(d) - Absolute(f))
      \/ t = s + (d - f) - Size /\ Window(t) = Window(s) + (Absolute(d) - Absolute(f)) - Windows
  BY <1>2, Turn
<1> HIDE DEF s, t
<1>6. CASE t = s + (d - f)
  BY <1>1, <1>2, <1>4, <1>5, <1>6, SizeIs DEF WindowAhead, s, t
<1>7. CASE t = s + (d - f) - Size
  BY <1>1, <1>2, <1>4, <1>5, <1>7, SizeIs DEF WindowAhead, s, t
<1> QED
  BY <1>2, <1>5, <1>6, <1>7 DEF s, t

-----------------------------------------------------------------------------
(* Greatest elements, and the commands of a packet *)

LEMMA MaxIs ==
    ASSUME NEW b \in Int, NEW S \in SUBSET Int, S # {}, \A x \in S : x <= b
    PROVE  Max(S) \in S /\ \A x \in S : x <= Max(S)
<1> DEFINE U == {b - x : x \in S}
<1>0. \A x \in S : b - x \in Nat
  OBVIOUS
<1>1. U \subseteq Nat /\ U # {}
  BY <1>0
<1> HIDE DEF U
<1>2. PICK u \in U : \A y \in U : ~(<<y, u>> \in OpToRel(<, Nat))
  BY <1>1, NatLessThanWellFounded, WFMin
<1> USE DEF U
<1>3. PICK m \in S : u = b - m
  OBVIOUS
<1>4. ASSUME NEW x \in S
      PROVE  m >= x
  <2>1. b - x \in U /\ b - x \in Nat /\ u \in Nat
    BY <1>1
  <2>2. ~(b - x < u)
    BY <1>2, <2>1 DEF OpToRel
  <2> QED
    BY <1>3, <2>1, <2>2
<1>5. \E x \in S : \A y \in S : x >= y
  BY <1>4
<1>6. Max(S) \in S /\ \A y \in S : Max(S) >= y
  BY <1>5 DEF Max
<1> QED
  BY <1>6

LEMMA CommandsAre ==
    /\ Commands = 1 .. MaxCommands /\ MaxCommands \in Nat
    /\ Continued \subseteq 2 .. MaxCommands
    /\ Packets \subseteq Commands /\ Packets = Commands \ Continued
BY ChannelAssumption DEF Commands, Packets

LEMMA FirstIs ==
    ASSUME NEW n \in Commands
    PROVE  /\ First[n] \in Packets /\ First[n] \in Commands /\ First[n] <= n
           /\ \A p \in Packets : p <= n => p <= First[n]
<1> DEFINE S == 1 .. n \ Continued
<1>1. 1 \in S /\ S \subseteq Int /\ n \in Int /\ \A x \in S : x <= n
  BY CommandsAre
<1> HIDE DEF S
<1>2. Max(S) \in S /\ \A x \in S : x <= Max(S)
  BY <1>1, MaxIs
<1>3. First[n] = Max(S)
  BY DEF First, S
<1>4. \A x \in S : x \in Int /\ 1 <= x /\ x <= n /\ x \in Commands /\ x \notin Continued
  BY CommandsAre DEF S
<1>5. \A p \in Packets : p <= n => p \in S
  BY CommandsAre DEF S
<1> QED
  BY <1>2, <1>3, <1>4, <1>5, CommandsAre

LEMMA FirstOfFirst ==
    ASSUME NEW p \in Packets
    PROVE  First[p] = p
BY FirstIs, CommandsAre

LEMMA FirstGrows ==
    ASSUME NEW m \in Commands, NEW n \in Commands, m <= n
    PROVE  First[m] <= First[n]
BY FirstIs, CommandsAre

\* The commands of a packet follow one another.
LEMMA PacketIs ==
    ASSUME NEW n \in Commands
    PROVE  /\ Length[n] \in Nat \ {0}
           /\ Length[First[n]] = Length[n]
           /\ Packet[n] = First[n] .. First[n] + Length[n] - 1
           /\ n \in Packet[n]
           /\ Packet[n] \subseteq Commands
           /\ IsFiniteSet(Packet[n])
           /\ \A m \in Packet[n] : First[m] = First[n] /\ Length[m] = Length[n]
           /\ \A m \in Commands : m > First[n] + Length[n] - 1 => First[m] > First[n] + Length[n] - 1
           /\ Max(Packet[n]) = First[n] + Length[n] - 1
<1> DEFINE S == Packet[n]
           f == First[n]
           e == Max(S)
<1>1. S = {m \in Commands : First[m] = f}
  BY DEF Packet
<1>2. f \in Packets /\ f \in Commands /\ f <= n /\ First[f] = f
  BY FirstIs, FirstOfFirst
<1> HIDE DEF S, f
<1>3. n \in S /\ S \subseteq Int /\ MaxCommands \in Int /\ \A x \in S : x <= MaxCommands
  BY <1>1, CommandsAre DEF f
<1>4. e \in S /\ \A x \in S : x <= e
  BY <1>3, MaxIs
<1> HIDE DEF e
<1>5. e \in Commands /\ First[e] = f /\ f <= e
  BY <1>1, <1>4, FirstIs
<1>6. S = f .. e
  <2>1. ASSUME NEW m \in S
        PROVE  m \in f .. e
    <3>1. m \in Commands /\ First[m] = f
      BY <1>1
    <3> QED
      BY <3>1, <1>2, <1>4, FirstIs, CommandsAre
  <2>2. ASSUME NEW m \in f .. e
        PROVE  m \in S
    <3>1. m \in Commands
      BY <1>2, <1>5, CommandsAre
    <3>2. f <= First[m] /\ First[m] <= f
      BY <3>1, <1>2, <1>5, FirstGrows
    <3> QED
      BY <3>1, <3>2, <1>1, <1>2, FirstIs, CommandsAre
  <2> QED
    BY <2>1, <2>2
<1>7. f \in Int /\ e \in Int
  BY <1>2, <1>5, CommandsAre
<1>8. Cardinality(S) = e - f + 1 /\ IsFiniteSet(S)
  BY <1>5, <1>6, <1>7, FS_Interval
<1>9. Length[n] = Cardinality(S)
  BY DEF Length, S
<1>10. ASSUME NEW m \in S
       PROVE  First[m] = f /\ Length[m] = Length[n]
  <2>1. m \in Commands /\ First[m] = f
    BY <1>1
  <2>2. Packet[m] = S
    BY <2>1, <1>1 DEF Packet
  <2> QED
    BY <2>1, <2>2, <1>9 DEF Length
<1>11. f \in S
  BY <1>5, <1>6, <1>7
<1>12. ASSUME NEW m \in Commands, m > e
       PROVE  First[m] > e
  <2>1. First[m] # f
    BY <1>1, <1>4, <1>12, <1>7, CommandsAre
  <2>2. f <= First[m] /\ First[m] \in Commands /\ First[First[m]] = First[m]
    BY <1>2, <1>5, <1>12, <1>7, FirstGrows, FirstIs, FirstOfFirst, CommandsAre
  <2>3. First[m] \notin S
    BY <1>1, <2>1, <2>2
  <2> QED
    BY <2>2, <2>3, <1>6, <1>7, CommandsAre
<1>13. Length[n] = e - f + 1 /\ e = f + Length[n] - 1
  BY <1>7, <1>8, <1>9
<1>14. Length[n] \in Nat \ {0}
  BY <1>5, <1>7, <1>13
<1>15. S \subseteq Commands
  BY <1>1
<1> QED
  BY <1>3, <1>6, <1>8, <1>10, <1>11, <1>12, <1>13, <1>14, <1>15 DEF S, f, e

-----------------------------------------------------------------------------
(* The inductive invariant *)

IsEnd(d) == d \in 0 .. MaxCommands /\ (d # MaxCommands => d + 1 \in Packets)

\* How many of these commands have a number in this window.
InWindow(S, w) == {n \in S : Window(SequenceNumber(n)) = w}
Count(S, w) == Cardinality(InWindow(S, w))

\* What is in the network is not so far behind that it looks ahead.
Recent(S) ==
    \A n \in S : /\ n \in 1 .. started
                 /\ Absolute(started) - Absolute(First[n]) <= Windows - FreeWindows + 1

SenderOK ==
    /\ queued \in 0 .. MaxCommands /\ started \in 0 .. queued /\ IsEnd(queued)
    /\ sent \subseteq 1 .. started /\ resend \subseteq 1 .. started
    /\ windows \in [0 .. Windows - 1 -> Nat]
    /\ WindowsCount
    /\ \A m \in Unacknowledged : Absolute(started) - Absolute(m) <= Windows - FreeWindows
    /\ Recent(data) /\ Recent(acks)

Arrived == received \o dispatched

\* The packets up to command d, in their order, have come out.
Polled(d) ==
    /\ received \in Seq(Packets) /\ dispatched \in Seq(Packets)
    /\ Len(Arrived) = Rank[d]
    /\ \A i \in 1 .. Len(Arrived) : Rank[Arrived[i]] = i

\* A command that may wait while d is the last one in line.
Waits(command, d) ==
    /\ command.first \in d + 1 .. started
    /\ Absolute(command.first) - Absolute(d) <= FreeWindows - 2
    /\ command.fragments # {}
    /\ command.fragments \subseteq Packet[command.first] \cap 1 .. started

WaitingOK(waiting, d) ==
    /\ waiting \in Seq(Incoming)
    /\ \A i \in 1 .. Len(waiting) : Waits(waiting[i], d)
    /\ \A i, j \in 1 .. Len(waiting) : i < j => waiting[i].first < waiting[j].first

Holds(waiting, n) == \E i \in 1 .. Len(waiting) : n \in waiting[i].fragments

\* The data of n has come, and its window is one the receiver takes.
HasCome(n, waiting, d) ==
    /\ First[n] <= d \/ Holds(waiting, n)
    /\ Absolute(n) - Absolute(d) <= FreeWindows - 2

\* d is the last command in line, of which the receiver knows the number.
LineIs(d) ==
    /\ d \in 0 .. started /\ IsEnd(d)
    /\ number = SequenceNumber(d)
    /\ Absolute(started) - Absolute(d) <= FreeWindows - 1
    /\ Polled(d)
    /\ WaitingOK(incoming, d)
    /\ \A i \in 1 .. Len(incoming) : ~IsNext(incoming[i], number)
    /\ \A n \in (1 .. started \ Unacknowledged) \cup acks : HasCome(n, incoming, d)

IInv == SenderOK /\ \E d \in 0 .. MaxCommands : LineIs(d)

LEMMA ShortPackets ==
    ASSUME NEW n \in Commands
    PROVE  /\ Absolute(n) \in Nat /\ Absolute(First[n]) \in Nat
           /\ Absolute(First[n]) <= Absolute(n) /\ Absolute(n) - Absolute(First[n]) <= 1
<1>1. n \in Nat /\ First[n] \in Nat /\ First[n] <= n
  BY FirstIs, CommandsAre
<1> QED
  BY <1>1, AbsoluteSteps, PacketAssumption DEF Absolute

LEMMA EndSplits ==
    ASSUME NEW d, IsEnd(d), NEW n \in Commands
    PROVE  n <= d <=> First[n] <= d
<1>1. n \in Nat /\ First[n] \in Nat /\ First[n] <= n /\ d \in Nat
      /\ \A p \in Packets : p <= n => p <= First[n]
  BY FirstIs, CommandsAre DEF IsEnd
<1>2. ASSUME n > d
      PROVE  First[n] > d
  <2>1. d + 1 \in Packets /\ d + 1 <= n
    BY <1>1, <1>2, CommandsAre DEF IsEnd
  <2> QED
    BY <1>1, <2>1
<1> QED
  BY <1>1, <1>2

\* Counting, one command more or less.
LEMMA CountIs ==
    ASSUME NEW S \in SUBSET Commands, NEW n \in Commands, NEW w
    PROVE  /\ IsFiniteSet(InWindow(S, w)) /\ Count(S, w) \in Nat
           /\ n \notin S => Count(S \cup {n}, w) =
                 IF Window(SequenceNumber(n)) = w THEN Count(S, w) + 1 ELSE Count(S, w)
           /\ n \in S => Count(S \ {n}, w) =
                 IF Window(SequenceNumber(n)) = w THEN Count(S, w) - 1 ELSE Count(S, w)
           /\ n \in InWindow(S, w) => Count(S, w) > 0
<1>1. IsFiniteSet(Commands)
  BY CommandsAre, FS_Interval
<1> DEFINE U == InWindow(S, w)
<1>2. IsFiniteSet(U) /\ Cardinality(U) \in Nat
  BY <1>1, FS_Subset, FS_CardinalityType DEF InWindow
<1>3. n \notin S => InWindow(S \cup {n}, w) =
                      IF Window(SequenceNumber(n)) = w THEN U \cup {n} ELSE U
  BY DEF InWindow
<1>4. n \in S => InWindow(S \ {n}, w) =
                   IF Window(SequenceNumber(n)) = w THEN U \ {n} ELSE U
  BY DEF InWindow
<1>5. n \in U <=> n \in S /\ Window(SequenceNumber(n)) = w
  BY DEF InWindow
<1> HIDE DEF U
<1>6. Cardinality(U \cup {n}) = IF n \in U THEN Cardinality(U) ELSE Cardinality(U) + 1
  BY <1>2, FS_AddElement
<1>7. Cardinality(U \ {n}) = IF n \in U THEN Cardinality(U) - 1 ELSE Cardinality(U)
  BY <1>2, FS_RemoveElement
<1>8. n \in U => Cardinality(U) # 0
  BY <1>2, FS_EmptySet
<1>9. Count(S, w) = Cardinality(U)
  BY DEF Count, U
<1> QED
  BY <1>2, <1>3, <1>4, <1>5, <1>6, <1>7, <1>8, <1>9 DEF Count, U

\* The commands of a window.
LEMMA WindowHolds ==
    ASSUME NEW n \in Nat, NEW a \in Nat
    PROVE  Absolute(n) = a <=> n \in WindowSize * a .. WindowSize * a + WindowSize - 1
<1>1. WindowSize * a \in Nat
  BY SizeIs
<1>2. ASSUME Absolute(n) = a
      PROVE  n \in WindowSize * a .. WindowSize * a + WindowSize - 1
  BY <1>1, <1>2, SizeIs, Division DEF Absolute
<1>3. ASSUME n \in WindowSize * a .. WindowSize * a + WindowSize - 1
      PROVE  Absolute(n) = a
  <2> DEFINE r == n - WindowSize * a
  <2>1. r \in 0 .. WindowSize - 1 /\ n = WindowSize * a + r
    BY <1>1, <1>3, SizeIs
  <2> HIDE DEF r
  <2> QED
    BY <2>1, SizeIs, DivisionIs DEF Absolute
<1> QED
  BY <1>2, <1>3

LEMMA WindowIs ==
    ASSUME NEW n \in Nat
    PROVE  /\ Window(SequenceNumber(n)) = Absolute(n) % Windows
           /\ Window(SequenceNumber(n)) \in 0 .. Windows - 1
           /\ Absolute(n) \in Nat
           /\ SequenceNumber(n) % WindowSize = n % WindowSize
           /\ SequenceNumber(n) \in 0 .. Size - 1
<1>1. Absolute(n) \in Nat
  BY SizeIs, Division DEF Absolute
<1> QED
  BY <1>1, Wrapped

\* Absolute windows less than a turn apart are different windows.
LEMMA WindowsDiffer ==
    ASSUME NEW a \in Nat, NEW b \in Nat, a < b, b - a < Windows
    PROVE  a % Windows # b % Windows
<1> DEFINE p == a \div Windows
           q == b \div Windows
           v == a % Windows
           w == b % Windows
<1>1. /\ p \in Nat /\ v \in 0 .. Windows - 1 /\ a = Windows * p + v
      /\ q \in Nat /\ w \in 0 .. Windows - 1 /\ b = Windows * q + w
  BY SizeIs, Division
<1> HIDE DEF p, q, v, w
<1>2. Windows * p \in Nat /\ Windows * q \in Nat
  BY <1>1, SizeIs
<1> SUFFICES ASSUME v = w
             PROVE  FALSE
  BY DEF v, w
<1>3. CASE p < q
  BY <1>1, <1>2, <1>3, SizeIs, Times
<1>4. CASE q < p
  BY <1>1, <1>2, <1>4, SizeIs, Times
<1>5. CASE p = q
  BY <1>1, <1>2, <1>5
<1> QED
  BY <1>1, <1>3, <1>4, <1>5

\* The window k after that of a, counted around.
LEMMA WindowAfter ==
    ASSUME NEW a \in Nat, NEW k \in 0 .. Windows - 1, a + k >= Windows
    PROVE  ((a % Windows) + k) % Windows = (a + k - Windows) % Windows
<1> DEFINE p == a \div Windows
           v == a % Windows
<1>1. p \in Nat /\ v \in 0 .. Windows - 1 /\ a = Windows * p + v
  BY SizeIs, Division
<1> HIDE DEF p, v
<1>2. Windows * p \in Nat
  BY <1>1, SizeIs
<1>3. CASE v + k < Windows
  <2>1. p # 0
    BY <1>1, <1>3, SizeIs
  <2>2. p - 1 \in Nat /\ Windows * (p - 1) = Windows * p - Windows
    BY <1>1, <2>1, SizeIs
  <2>3. a + k - Windows = Windows * (p - 1) + (v + k) /\ v + k \in 0 .. Windows - 1
    BY <1>1, <1>2, <1>3, <2>2, SizeIs
  <2>4. (a + k - Windows) % Windows = v + k
    BY <2>2, <2>3, SizeIs, DivisionIs
  <2>5. v + k = Windows * 0 + (v + k)
    BY <1>1, SizeIs
  <2>6. (v + k) % Windows = v + k
    BY <2>3, <2>5, SizeIs, DivisionIs
  <2> QED
    BY <2>4, <2>6 DEF v
<1>4. CASE v + k >= Windows
  <2> DEFINE r == v + k - Windows
  <2>1. r \in 0 .. Windows - 1 /\ a + k - Windows = Windows * p + r
        /\ v + k = Windows * 1 + r
    BY <1>1, <1>2, <1>4, SizeIs
  <2> HIDE DEF r
  <2>2. (Windows * p + r) % Windows = r
    BY <1>1, <2>1, SizeIs, DivisionIs
  <2>3. (Windows * 1 + r) % Windows = r
    BY <2>1, SizeIs, DivisionIs
  <2>4. (a + k - Windows) % Windows = r
    BY <2>1, <2>2
  <2>5. (v + k) % Windows = r
    BY <2>1, <2>3
  <2> QED
    BY <2>4, <2>5 DEF v
<1> QED
  BY <1>1, <1>3, <1>4, SizeIs

\* A window has room for what is not acknowledged.
LEMMA CountBound ==
    ASSUME NEW S \in SUBSET Commands, NEW a \in Nat,
           \A m \in S : Absolute(m) <= a /\ a - Absolute(m) < Windows,
           NEW w
    PROVE  Count(S, w) <= WindowSize
<1> DEFINE U == InWindow(S, w)
<1>1. CASE U = {}
  BY <1>1, FS_EmptySet, SizeIs DEF Count
<1>2. CASE U # {}
  <2>1. PICK m : m \in U
    BY <1>2
  <2>2. m \in S /\ m \in Nat /\ Absolute(m) \in Nat /\ Absolute(m) % Windows = w
        /\ Absolute(m) <= a /\ a - Absolute(m) < Windows
    BY <2>1, CommandsAre, WindowIs DEF InWindow
  <2> DEFINE b == WindowSize * Absolute(m)
             I == b .. b + WindowSize - 1
  <2>3. b \in Int /\ b + WindowSize - 1 \in Int
    BY <2>2, SizeIs
  <2>4. ASSUME NEW n \in U
        PROVE  n \in I
    <3>1. n \in S /\ n \in Nat /\ Absolute(n) \in Nat /\ Absolute(n) % Windows = w
          /\ Absolute(n) <= a /\ a - Absolute(n) < Windows
      BY CommandsAre, WindowIs DEF InWindow
    <3>2. Absolute(n) = Absolute(m)
      <4> DEFINE x == Absolute(n)
                 y == Absolute(m)
      <4>1. /\ x \in Nat /\ y \in Nat /\ x % Windows = y % Windows
            /\ x - y < Windows /\ y - x < Windows
        BY <2>2, <3>1, SizeIs
      <4> HIDE DEF x, y
      <4>2. ~(x < y)
        BY <4>1, WindowsDiffer
      <4>3. ~(y < x)
        BY <4>1, WindowsDiffer
      <4> QED
        BY <4>1, <4>2, <4>3 DEF x, y
    <3> QED
      BY <2>2, <3>1, <3>2, WindowHolds
  <2> HIDE DEF U, b
  <2>5. IsFiniteSet(I) /\ Cardinality(I) = WindowSize
    BY <2>3, SizeIs, FS_Interval
  <2>6. Cardinality(U) <= Cardinality(I)
    BY <2>4, <2>5, FS_Subset
  <2> QED
    BY <2>5, <2>6 DEF Count, U
<1> QED
  BY <1>1, <1>2

-----------------------------------------------------------------------------
(* The sender's half of the invariant *)

LEMMA SenderFacts ==
    ASSUME SenderOK
    PROVE  /\ started \in Nat /\ queued \in Nat /\ started <= queued /\ queued <= MaxCommands
           /\ 1 .. started \subseteq Commands
           /\ Unacknowledged \subseteq 1 .. started /\ Unacknowledged \subseteq Commands
           /\ data \subseteq 1 .. started /\ acks \subseteq 1 .. started
           /\ Absolute(started) \in Nat
           /\ \A m \in 1 .. started : /\ Absolute(m) \in Nat /\ Absolute(m) <= Absolute(started)
                                      /\ First[m] \in 1 .. started
<1>1. started \in Nat /\ queued \in Nat /\ started <= queued /\ queued <= MaxCommands
  BY CommandsAre DEF SenderOK
<1>2. 1 .. started \subseteq Commands
  BY <1>1, CommandsAre
<1>3. Unacknowledged \subseteq 1 .. started /\ data \subseteq 1 .. started /\ acks \subseteq 1 .. started
  BY DEF SenderOK, Recent, Unacknowledged
<1>4. ASSUME NEW m \in 1 .. started
      PROVE  /\ Absolute(m) \in Nat /\ Absolute(m) <= Absolute(started)
             /\ First[m] \in 1 .. started
  <2>1. m \in Nat /\ m <= started
    BY <1>1
  <2>2. Absolute(m) \in Nat /\ Absolute(m) <= Absolute(started)
    BY <1>1, <2>1, AbsoluteSteps
  <2>3. First[m] \in Commands /\ First[m] <= m
    BY <1>2, FirstIs
  <2> QED
    BY <1>1, <2>1, <2>2, <2>3, CommandsAre
<1>5. Absolute(started) \in Nat
  BY <1>1, WindowIs
<1> QED
  BY <1>1, <1>2, <1>3, <1>4, <1>5

LEMMA PacketEnds ==
    ASSUME NEW n \in Commands
    PROVE  IsEnd(First[n] + Length[n] - 1)
<1> DEFINE e == First[n] + Length[n] - 1
<1>1. e \in Packet[n] /\ e \in Commands
  <2>1. First[n] \in Nat /\ Length[n] \in Nat \ {0}
    BY PacketIs, FirstIs, CommandsAre
  <2> QED
    BY <2>1, PacketIs
<1>2. \A m \in Commands : m > e => First[m] > e
  BY PacketIs
<1> HIDE DEF e
<1>3. ASSUME e # MaxCommands
      PROVE  e + 1 \in Packets
  <2>1. e + 1 \in Commands /\ e + 1 > e
    BY <1>1, <1>3, CommandsAre
  <2>2. First[e + 1] > e /\ First[e + 1] <= e + 1 /\ First[e + 1] \in Packets
    BY <1>2, <2>1, FirstIs
  <2>3. First[e + 1] = e + 1
    BY <1>1, <2>2, CommandsAre
  <2> QED
    BY <2>2, <2>3
<1>4. e \in 0 .. MaxCommands
  BY <1>1, CommandsAre
<1>5. IsEnd(e)
  BY <1>3, <1>4 DEF IsEnd
<1> QED
  BY <1>5 DEF e

LEMMA InitSender == Init => SenderOK
<1> SUFFICES ASSUME Init
             PROVE  SenderOK
  OBVIOUS
<1>1. Unacknowledged = {}
  BY DEF Init, Unacknowledged
<1>2. \A w : InWindow({}, w) = {}
  BY DEF InWindow
<1>3. Cardinality({}) = 0
  BY FS_EmptySet
<1>4. WindowsCount
  BY <1>1, <1>3 DEF Init, WindowsCount
<1>5. IsEnd(0)
  BY CommandsAre, SizeIs DEF IsEnd
<1>6. windows \in [0 .. Windows - 1 -> Nat]
  BY DEF Init
<1>7. Recent(data) /\ Recent(acks)
  BY DEF Init, Recent
<1> QED
  BY <1>1, <1>4, <1>5, <1>6, <1>7, SizeIs DEF Init, SenderOK

\* A step that sends nothing new and forgets nothing.
LEMMA SenderStays ==
    ASSUME SenderOK, UNCHANGED <<started, windows>>,
           queued' \in 0 .. MaxCommands, started <= queued', IsEnd(queued'),
           sent' \subseteq 1 .. started, resend' \subseteq 1 .. started,
           Unacknowledged' = Unacknowledged, Recent(data)', Recent(acks)'
    PROVE  SenderOK'
<1>1. started' \in 0 .. queued'
  BY SenderFacts, CommandsAre
<1>2. WindowsCount'
  BY DEF SenderOK, WindowsCount
<1>3. \A m \in Unacknowledged' : Absolute(started)' - Absolute(m) <= Windows - FreeWindows
  BY DEF SenderOK
<1>4. IsEnd(queued)'
  BY DEF IsEnd
<1> QED
  BY <1>1, <1>2, <1>3, <1>4 DEF SenderOK

LEMMA SendPacketSender ==
    ASSUME SenderOK, SendPacket
    PROVE  SenderOK'
<1> DEFINE n == queued + 1
<1>1. n \in Commands /\ n \in Nat /\ queued \in Nat
  BY SenderFacts, CommandsAre DEF SendPacket
<1>2. queued' = First[n] + Length[n] - 1 /\ n \in Packet[n]
  BY <1>1, PacketIs DEF SendPacket
<1>3. IsEnd(queued') /\ n <= queued'
  <2>1. IsEnd(queued')
    BY <1>1, <1>2, PacketEnds
  <2>2. Packet[n] = First[n] .. queued'
    BY <1>1, <1>2, PacketIs
  <2> QED
    BY <1>1, <1>2, <2>1, <2>2
<1>4. queued' \in 0 .. MaxCommands /\ started <= queued'
  BY <1>1, <1>3, SenderFacts, CommandsAre DEF IsEnd
<1>5. Unacknowledged' = Unacknowledged
  BY DEF SendPacket, Unacknowledged
<1>6. Recent(data)' /\ Recent(acks)'
  BY DEF SendPacket, SenderOK, Recent, receiver
<1>7. UNCHANGED <<started, windows>> /\ sent' = sent /\ resend' = resend
  BY DEF SendPacket
<1> QED
  BY <1>3, <1>4, <1>5, <1>6, <1>7, SenderStays DEF SenderOK

LEMMA TimeOutSender ==
    ASSUME SenderOK, NEW n \in sent, TimeOut(n)
    PROVE  SenderOK' /\ Unacknowledged' = Unacknowledged
<1>1. Unacknowledged' = Unacknowledged
  BY DEF TimeOut, Unacknowledged
<1>2. Recent(data)' /\ Recent(acks)'
  BY DEF TimeOut, SenderOK, Recent
<1>3. UNCHANGED <<queued, started, windows>> /\ sent' \subseteq 1 .. started /\ resend' \subseteq 1 .. started
  BY DEF TimeOut, SenderOK
<1> QED
  BY <1>1, <1>2, <1>3, SenderFacts, SenderStays DEF SenderOK

LEMMA WithIs ==
    ASSUME NEW S, NEW n, NEW room, NEW T \in With(S, n, room)
    PROVE  T \subseteq S \cup {n}
BY DEF With

LEMMA SendAgainSender ==
    ASSUME SenderOK, NEW n \in resend, SendAgain(n)
    PROVE  SenderOK' /\ Unacknowledged' = Unacknowledged
<1>1. Unacknowledged' = Unacknowledged
  BY DEF SendAgain, Unacknowledged
<1>2. n \in Unacknowledged /\ n \in 1 .. started /\ n \in Commands
  BY SenderFacts DEF Unacknowledged
<1>3. Absolute(started) - Absolute(First[n]) <= Windows - FreeWindows + 1
  <2>1. Absolute(started) - Absolute(n) <= Windows - FreeWindows
    BY <1>2 DEF SenderOK
  <2>2. Absolute(started) \in Nat
    BY SenderFacts
  <2>3. Absolute(n) \in Nat /\ Absolute(First[n]) \in Nat /\ Absolute(n) - Absolute(First[n]) <= 1
    BY <1>2, ShortPackets
  <2> QED
    BY <2>1, <2>2, <2>3, SizeIs
<1>4. data' \subseteq data \cup {n} /\ acks' = acks /\ started' = started
  BY WithIs DEF SendAgain
<1>5. Recent(data)' /\ Recent(acks)'
  BY <1>2, <1>3, <1>4 DEF SenderOK, Recent
<1>6. UNCHANGED <<queued, started, windows>> /\ sent' \subseteq 1 .. started /\ resend' \subseteq 1 .. started
  BY <1>2 DEF SendAgain, SenderOK
<1> QED
  BY <1>1, <1>5, <1>6, SenderFacts, SenderStays DEF SenderOK

\* Of all that waits for an acknowledgement, one that arrives finds the
\* command it is for, and no other.
LEMMA FindsItsOwn ==
    ASSUME SenderOK, NEW n \in acks
    PROVE  Acknowledged(n) = Unacknowledged \cap {n}
<1>1. /\ n \in 1 .. started /\ n \in Commands /\ n \in Nat /\ Absolute(n) \in Nat
      /\ Absolute(started) \in Nat /\ Absolute(n) <= Absolute(started)
      /\ Absolute(started) - Absolute(n) < Windows
  <2>1. n \in 1 .. started /\ n \in Commands /\ n \in Nat /\ Absolute(started) \in Nat
        /\ Absolute(n) <= Absolute(started)
    BY SenderFacts, CommandsAre
  <2>2. Absolute(started) - Absolute(First[n]) <= Windows - FreeWindows + 1
    BY DEF SenderOK, Recent
  <2>3. Absolute(n) \in Nat /\ Absolute(First[n]) \in Nat /\ Absolute(First[n]) <= Absolute(n)
    BY <2>1, ShortPackets
  <2> QED
    BY <2>1, <2>2, <2>3, SizeIs
<1>2. ASSUME NEW m \in Unacknowledged, SequenceNumber(m) = SequenceNumber(n)
      PROVE  m = n
  <2>5. m \in 1 .. started /\ m \in Nat /\ Absolute(m) \in Nat /\ Absolute(m) <= Absolute(started)
    BY SenderFacts, CommandsAre
  <2>6. Absolute(started) - Absolute(m) <= Windows - FreeWindows
    BY DEF SenderOK
  <2>1. Absolute(started) - Absolute(m) < Windows
    BY <1>1, <2>5, <2>6, SizeIs
  <2>2. Absolute(m) - Absolute(n) < Windows /\ Absolute(n) - Absolute(m) < Windows
    BY <1>1, <2>1, <2>5, SizeIs
  <2>3. CASE m <= n
    BY <1>1, <1>2, <2>5, <2>2, <2>3, Near
  <2>4. CASE n <= m
    BY <1>1, <1>2, <2>5, <2>2, <2>4, Near
  <2> QED
    BY <1>1, <2>5, <2>3, <2>4
<1>3. \A S : S \subseteq Unacknowledged =>
         {m \in S : SequenceNumber(m) = SequenceNumber(n)} = S \cap {n}
  BY <1>2
<1>4. sent \subseteq Unacknowledged /\ resend \subseteq Unacknowledged
  BY DEF Unacknowledged
<1>5. /\ {m \in sent : SequenceNumber(m) = SequenceNumber(n)} = sent \cap {n}
      /\ {m \in resend : SequenceNumber(m) = SequenceNumber(n)} = resend \cap {n}
  BY <1>3, <1>4
<1> QED
  BY <1>5 DEF Acknowledged, Unacknowledged

LEMMA AcknowledgementSender ==
    ASSUME SenderOK, NEW n \in acks, ReceiveAcknowledgement(n)
    PROVE  SenderOK' /\ Unacknowledged' = Unacknowledged \ {n}
<1> DEFINE w == Window(SequenceNumber(n))
           U == Unacknowledged
<1>1. n \in 1 .. started /\ n \in Commands /\ n \in Nat /\ U \subseteq Commands
  BY SenderFacts, CommandsAre
<1>2. w \in 0 .. Windows - 1
  BY <1>1, WindowIs
<1>3. U' = U \ {n} /\ sent' \subseteq sent /\ resend' \subseteq resend
  BY FindsItsOwn DEF ReceiveAcknowledgement, RemoveSent, Unacknowledged
<1>4. /\ windows \in [0 .. Windows - 1 -> Nat]
      /\ \A v \in 0 .. Windows - 1 : windows[v] = Count(U, v)
  BY DEF SenderOK, WindowsCount, Count, InWindow
<1>5. windows' = IF n \in U /\ windows[w] > 0
                 THEN [windows EXCEPT ![w] = @ - 1] ELSE windows
  BY FindsItsOwn DEF ReceiveAcknowledgement, RemoveSent
<1>6. /\ windows' \in [0 .. Windows - 1 -> Nat]
      /\ \A v \in 0 .. Windows - 1 : windows'[v] = Count(U \ {n}, v)
  <2>1. CASE n \notin U
    <3>1. U \ {n} = U /\ windows' = windows
      BY <1>5, <2>1
    <3> QED
      BY <1>4, <3>1
  <2>2. CASE n \in U
    <3>1. windows[w] > 0
      BY <1>1, <1>2, <1>4, <2>2, CountIs DEF InWindow
    <3>2. windows' = [windows EXCEPT ![w] = @ - 1]
      BY <1>5, <2>2, <3>1
    <3>3. ASSUME NEW v \in 0 .. Windows - 1
          PROVE  windows'[v] = Count(U \ {n}, v)
      <4>1. Count(U \ {n}, v) = IF w = v THEN Count(U, v) - 1 ELSE Count(U, v)
        BY <1>1, <2>2, CountIs
      <4> HIDE DEF U, w
      <4> QED
        BY <1>2, <1>4, <3>2, <4>1
    <3>4. windows' \in [0 .. Windows - 1 -> Nat]
      <4> HIDE DEF w
      <4> QED
        BY <1>2, <1>4, <3>1, <3>2
    <3> QED
      BY <3>3, <3>4
  <2> QED
    BY <2>1, <2>2
<1>7. WindowsCount'
  BY <1>3, <1>6 DEF WindowsCount, Count, InWindow
<1>8. UNCHANGED <<queued, started, data>> /\ acks' \subseteq acks
  BY DEF ReceiveAcknowledgement
<1>9. Recent(data)' /\ Recent(acks)'
  BY <1>8 DEF SenderOK, Recent
<1>10. \A m \in U' : Absolute(started)' - Absolute(m) <= Windows - FreeWindows
  BY <1>3, <1>8 DEF SenderOK
<1> QED
  BY <1>3, <1>6, <1>7, <1>8, <1>9, <1>10 DEF SenderOK, IsEnd

\* The command after the last one sent is in its window or begins another.
LEMMA NextCommand ==
    ASSUME NEW m \in Nat
    PROVE  /\ Absolute(m) \in Nat /\ Absolute(m + 1) \in Nat
           /\ \/ Absolute(m + 1) = Absolute(m)
              \/ /\ Absolute(m + 1) = Absolute(m) + 1
                 /\ SequenceNumber(m + 1) % WindowSize = 0
                 /\ m = WindowSize * Absolute(m) + WindowSize - 1
<1> DEFINE n == m + 1
           a == m \div WindowSize
           b == n \div WindowSize
           q == m % WindowSize
           r == n % WindowSize
<1>1. a \in Nat /\ q \in 0 .. WindowSize - 1 /\ m = WindowSize * a + q
  BY SizeIs, Division
<1>2. n \in Nat /\ n = m + 1
  OBVIOUS
<1> HIDE DEF n
<1>3. b \in Nat /\ r \in 0 .. WindowSize - 1 /\ n = WindowSize * b + r
  BY <1>2, SizeIs, Division
<1>4. a <= b /\ b - a <= 1
  <2>1. n - m <= 1 * WindowSize /\ m <= n
    BY <1>2, SizeIs
  <2> QED
    BY <1>2, <2>1, AbsoluteSteps DEF Absolute
<1>5. SequenceNumber(n) % WindowSize = r
  BY <1>2, WindowIs
<1> HIDE DEF a, b, q, r
<1>6. WindowSize * a \in Nat /\ WindowSize * (a + 1) = WindowSize * a + WindowSize
  BY <1>1, SizeIs
<1>7. b = a \/ b = a + 1
  BY <1>1, <1>3, <1>4
<1>8. CASE b = a + 1
  <2>1. r = 0 /\ q = WindowSize - 1
    BY <1>1, <1>2, <1>3, <1>6, <1>8, SizeIs
  <2> QED
    BY <1>1, <1>2, <1>3, <1>5, <1>8, <2>1 DEF Absolute, a, b, n
<1>9. CASE b = a
  BY <1>1, <1>3, <1>9 DEF Absolute, a, b, n
<1> QED
  BY <1>7, <1>8, <1>9

LEMMA SendNewSpan ==
    ASSUME SenderOK, SendNew, NEW m \in Unacknowledged
    PROVE  Absolute(started + 1) - Absolute(m) <= Windows - FreeWindows
<1> DEFINE n == started + 1
           w == Window(SequenceNumber(n))
<1>1. /\ started \in Nat /\ m \in Commands /\ m \in Nat /\ m <= started
      /\ Unacknowledged \subseteq Commands
      /\ Absolute(started) - Absolute(m) <= Windows - FreeWindows
  BY SenderFacts, CommandsAre DEF SenderOK
<1>2. Absolute(m) \in Nat /\ Absolute(n) \in Nat /\ Absolute(started) \in Nat /\ n \in Nat
  BY <1>1, WindowIs
<1> SUFFICES ASSUME Absolute(n) - Absolute(m) > Windows - FreeWindows
             PROVE  FALSE
  BY <1>2, SizeIs
<1>3. Absolute(n) = Absolute(started) + 1 /\ SequenceNumber(n) % WindowSize = 0
  BY <1>1, <1>2, SizeIs, NextCommand
<1>4. Absolute(m) = Absolute(n) + (FreeWindows - 1) - Windows
      /\ Absolute(n) + (FreeWindows - 1) >= Windows
  BY <1>1, <1>2, <1>3, SizeIs
<1>5. FreeWindows - 1 \in 0 .. FreeWindows - 1 /\ FreeWindows - 1 \in 0 .. Windows - 1
  BY SizeIs
<1> DEFINE v == (w + (FreeWindows - 1)) % Windows
<1>6. Window(SequenceNumber(m)) = v /\ v \in 0 .. Windows - 1
  <2>1. w = Absolute(n) % Windows /\ Window(SequenceNumber(m)) = Absolute(m) % Windows
        /\ Window(SequenceNumber(m)) \in 0 .. Windows - 1
    BY <1>1, <1>2, WindowIs
  <2> DEFINE a == Absolute(n)
             k == FreeWindows - 1
  <2>2. a \in Nat /\ k \in 0 .. Windows - 1 /\ a + k >= Windows
    BY <1>2, <1>4, <1>5
  <2> HIDE DEF a, k
  <2>3. ((a % Windows) + k) % Windows = (a + k - Windows) % Windows
    BY <2>2, WindowAfter
  <2> QED
    BY <1>4, <2>1, <2>3 DEF a, k
<1>7. windows[v] \in Nat /\ ~(windows[v] > 0)
  <2>1. windows[v] \in Nat
    BY <1>6 DEF SenderOK
  <2>2. ~WindowWrap(n)
    BY DEF SendNew
  <2> QED
    BY <1>3, <1>5, <2>1, <2>2 DEF WindowWrap
<1>8. windows[v] = Count(Unacknowledged, v)
  BY <1>6 DEF SenderOK, WindowsCount, Count, InWindow
<1>9. Count(Unacknowledged, v) > 0
  BY <1>1, <1>6, CountIs DEF InWindow
<1> QED
  BY <1>7, <1>8, <1>9

LEMMA SendNewSender ==
    ASSUME SenderOK, SendNew
    PROVE  /\ SenderOK' /\ Unacknowledged' = Unacknowledged \cup {started + 1}
           /\ started' = started + 1
<1> DEFINE n == started + 1
           w == Window(SequenceNumber(n))
           U == Unacknowledged
<1>1. /\ started \in Nat /\ n \in Commands /\ n \in Nat /\ n \in 1 .. queued
      /\ U \subseteq Commands /\ n \notin U /\ U \subseteq 1 .. started
      /\ queued \in 0 .. MaxCommands
  BY SenderFacts, CommandsAre DEF SendNew
<1>2. /\ started' = n /\ queued' = queued /\ resend' = resend
      /\ sent' = sent \cup {n}
      /\ U' = U \cup {n}
      /\ windows' = [windows EXCEPT ![w] = @ + 1]
  BY DEF SendNew, Unacknowledged
<1>3. w \in 0 .. Windows - 1
  BY <1>1, WindowIs
<1>4. /\ windows \in [0 .. Windows - 1 -> Nat]
      /\ \A v \in 0 .. Windows - 1 : windows[v] = Count(U, v)
  BY DEF SenderOK, WindowsCount, Count, InWindow
<1>5. /\ windows' \in [0 .. Windows - 1 -> Nat]
      /\ \A v \in 0 .. Windows - 1 : windows'[v] = Count(U \cup {n}, v)
  <2>1. ASSUME NEW v \in 0 .. Windows - 1
        PROVE  windows'[v] = Count(U \cup {n}, v)
    <3>1. Count(U \cup {n}, v) = IF w = v THEN Count(U, v) + 1 ELSE Count(U, v)
      BY <1>1, CountIs
    <3> HIDE DEF U, w
    <3> QED
      BY <1>2, <1>3, <1>4, <3>1
  <2>2. windows' \in [0 .. Windows - 1 -> Nat]
    <3> HIDE DEF w
    <3> QED
      BY <1>2, <1>3, <1>4
  <2> QED
    BY <2>1, <2>2
<1>6. WindowsCount'
  BY <1>2, <1>5 DEF WindowsCount, Count, InWindow
<1>7. \A m \in U' : Absolute(started)' - Absolute(m) <= Windows - FreeWindows
  <2>1. Absolute(started)' = Absolute(n) /\ Absolute(n) \in Nat
    BY <1>1, <1>2, WindowIs DEF Absolute
  <2>2. \A m \in U : Absolute(n) - Absolute(m) <= Windows - FreeWindows
    BY SendNewSpan
  <2>3. Absolute(n) - Absolute(n) <= Windows - FreeWindows
    BY <2>1, SizeIs
  <2> QED
    BY <1>2, <2>1, <2>2, <2>3
<1>8. ASSUME NEW S, Recent(S), NEW T, T \subseteq Live(S, n) \cup {n},
             NEW m \in T
      PROVE  /\ m \in 1 .. n
             /\ Absolute(n) - Absolute(First[m]) <= Windows - FreeWindows + 1
  <2>1. CASE m = n
    <3>1. Absolute(n) \in Nat /\ Absolute(First[n]) \in Nat
          /\ Absolute(n) - Absolute(First[n]) <= 1
      BY <1>1, ShortPackets
    <3> QED
      BY <1>1, <2>1, <3>1, SizeIs
  <2>2. CASE m \in S /\ m + Lifetime >= n
    <3>1. m \in 1 .. started /\ m \in Commands /\ m \in Nat
      BY <1>8, <2>2, SenderFacts, CommandsAre DEF Recent
    <3>2. First[m] \in Nat /\ First[m] <= m
      BY <3>1, FirstIs, CommandsAre
    <3>3. m - First[m] + Lifetime <= (Windows - FreeWindows + 1) * WindowSize
      BY <3>1, LifetimeAssumption
    <3> DEFINE k == Windows - FreeWindows + 1
    <3>4. k \in Nat
      BY SizeIs
    <3> HIDE DEF k
    <3>5. n - First[m] <= k * WindowSize
      <4>1. k * WindowSize \in Nat
        BY <3>4, SizeIs
      <4> QED
        BY <1>1, <2>2, <3>1, <3>2, <3>3, <4>1, SizeIs DEF k
    <3>6. First[m] <= n
      BY <1>1, <3>1, <3>2
    <3>7. Absolute(n) - Absolute(First[m]) <= k
      BY <1>1, <3>2, <3>4, <3>5, <3>6, AbsoluteSteps
    <3> QED
      BY <1>1, <3>1, <3>7 DEF k
  <2> QED
    BY <1>8, <2>1, <2>2 DEF Live
<1>9. data' \subseteq Live(data, n) \cup {n} /\ acks' \subseteq Live(acks, n) \cup {n}
  BY WithIs DEF SendNew
<1>10. Recent(data)' /\ Recent(acks)'
  <2>1. Recent(data) /\ Recent(acks)
    BY DEF SenderOK
  <2> QED
    BY <1>2, <1>8, <1>9, <2>1 DEF Recent
<1>11. sent' \subseteq 1 .. n /\ resend' \subseteq 1 .. n
  BY <1>1, <1>2 DEF SenderOK
<1> QED
  BY <1>1, <1>2, <1>5, <1>6, <1>7, <1>10, <1>11 DEF SenderOK, IsEnd

\* The next command is not beyond the windows the receiver could take.
LEMMA SendNewAhead ==
    ASSUME SenderOK, NEW d \in 0 .. started, SendNew,
           Absolute(started) - Absolute(d) <= FreeWindows - 1,
           \A n \in 1 .. started \ Unacknowledged : Absolute(n) - Absolute(d) <= FreeWindows - 2
    PROVE  Absolute(started + 1) - Absolute(d) <= FreeWindows - 1
<1> DEFINE n == started + 1
           w == Window(SequenceNumber(n))
           b == Absolute(started)
           U == Unacknowledged
<1>1. /\ started \in Nat /\ n \in Nat /\ d \in Nat /\ d <= started
      /\ U \subseteq Commands /\ U \subseteq 1 .. started /\ 1 .. started \subseteq Commands
  BY SenderFacts
<1>2. b \in Nat /\ Absolute(n) \in Nat /\ Absolute(d) \in Nat /\ Absolute(d) <= b
  BY <1>1, WindowIs, AbsoluteSteps
<1> SUFFICES ASSUME Absolute(n) - Absolute(d) > FreeWindows - 1
             PROVE  FALSE
  BY <1>2, SizeIs
<1>3. /\ Absolute(n) = b + 1 /\ SequenceNumber(n) % WindowSize = 0
      /\ started = WindowSize * b + WindowSize - 1
  BY <1>1, <1>2, SizeIs, NextCommand
<1>4. b - Absolute(d) = FreeWindows - 1 /\ b >= 1
  BY <1>2, <1>3, SizeIs
<1> DEFINE c == WindowSize * b
           I == c .. c + WindowSize - 1
           v == b % Windows
<1>5. c \in Nat /\ c >= 1
  <2>1. WindowSize * (b - 1) \in Nat /\ c = WindowSize * (b - 1) + WindowSize
    BY <1>2, <1>4, SizeIs
  <2> QED
    BY <2>1, SizeIs
<1>6. v \in 0 .. Windows - 1 /\ v = (w + (Windows - 1)) % Windows
  <2>1. w = Absolute(n) % Windows
    BY <1>1, WindowIs
  <2> DEFINE a == Absolute(n)
             k == Windows - 1
  <2>2. a \in Nat /\ k \in 0 .. Windows - 1 /\ a + k >= Windows /\ a + k - Windows = b
    BY <1>2, <1>3, SizeIs
  <2> HIDE DEF a, k
  <2>3. ((a % Windows) + k) % Windows = (a + k - Windows) % Windows
    BY <2>2, WindowAfter
  <2>4. v \in 0 .. Windows - 1
    BY <1>2, SizeIs, Division
  <2> QED
    BY <2>1, <2>2, <2>3, <2>4 DEF a, k
<1>7. ASSUME NEW m \in I
      PROVE  m \in InWindow(U, v)
  <2>1. m \in 1 .. started /\ m \in Nat
    BY <1>1, <1>3, <1>5, SizeIs
  <2>2. Absolute(m) = b
    BY <1>2, <2>1, WindowHolds
  <2>3. ~(Absolute(m) - Absolute(d) <= FreeWindows - 2)
    BY <1>2, <1>4, <2>2, SizeIs
  <2>4. m \in U
    BY <2>1, <2>3
  <2>5. Window(SequenceNumber(m)) = v
    BY <2>1, <2>2, WindowIs
  <2> QED
    BY <2>4, <2>5 DEF InWindow
<1> DEFINE V == InWindow(U, v)
<1>8. IsFiniteSet(V) /\ Cardinality(V) = Count(U, v)
  <2>1. IsFiniteSet(Commands)
    BY CommandsAre, FS_Interval
  <2>2. V \subseteq Commands
    BY <1>1 DEF InWindow
  <2> QED
    BY <2>1, <2>2, FS_Subset DEF Count
<1> HIDE DEF U, V, c, v, w
<1>9. IsFiniteSet(I) /\ Cardinality(I) = WindowSize
  <2> DEFINE e == c + WindowSize - 1
  <2>1. c \in Int /\ e \in Int /\ ~(c > e) /\ e - c + 1 = WindowSize
    BY <1>5, SizeIs
  <2> HIDE DEF e
  <2>2. IsFiniteSet(c .. e) /\ Cardinality(c .. e) = e - c + 1
    BY <2>1, FS_Interval
  <2> QED
    BY <2>1, <2>2 DEF e
<1>10. Cardinality(I) <= Cardinality(V)
  <2>1. I \subseteq V
    BY <1>7 DEF V
  <2> HIDE DEF I
  <2> QED
    BY <1>8, <2>1, FS_Subset
<1>11. windows[v] = Count(U, v)
  BY <1>6 DEF SenderOK, WindowsCount, Count, InWindow, U
<1>12. windows[v] \in Nat /\ ~(windows[v] >= WindowSize)
  <2>1. windows[v] \in Nat
    BY <1>6 DEF SenderOK
  <2>2. ~WindowWrap(n)
    BY DEF SendNew
  <2>3. (w + Windows - 1) % Windows = v
    <3>1. w \in Nat
      BY <1>1, WindowIs DEF w
    <3>2. w + Windows - 1 = w + (Windows - 1)
      BY <3>1, SizeIs
    <3> QED
      BY <1>6, <3>2
  <2> QED
    BY <1>3, <2>1, <2>2, <2>3 DEF WindowWrap, w
<1> QED
  BY <1>8, <1>9, <1>10, <1>11, <1>12, SizeIs

-----------------------------------------------------------------------------
(* Induction, ranks of packets, and the sums of the loop over what waits *)

LEMMA Induction ==
    ASSUME NEW S, 0 \in S, \A i \in Nat : i \in S => i + 1 \in S
    PROVE  Nat \subseteq S
<1> DEFINE T == Nat \ S
<1> SUFFICES ASSUME T # {}
             PROVE  FALSE
  OBVIOUS
<1>1. T \subseteq Nat
  OBVIOUS
<1> HIDE DEF T
<1>2. PICK u \in T : \A y \in T : ~(<<y, u>> \in OpToRel(<, Nat))
  BY <1>1, NatLessThanWellFounded, WFMin
<1>3. u \in Nat /\ u \notin S /\ u # 0
  BY <1>1 DEF T
<1>4. u - 1 \in Nat /\ u - 1 \notin S
  BY <1>3
<1>5. u - 1 \in T /\ <<u - 1, u>> \in OpToRel(<, Nat)
  BY <1>3, <1>4 DEF OpToRel, T
<1> QED
  BY <1>2, <1>5

LEMMA RankIs ==
    /\ Rank[0] = 0
    /\ \A n \in 0 .. MaxCommands : Rank[n] \in Nat
    /\ \A m, n \in 0 .. MaxCommands : m <= n => Rank[m] <= Rank[n]
    /\ \A p \in Packets : p - 1 \in 0 .. MaxCommands /\ Rank[p] = Rank[p - 1] + 1
    /\ \A n \in Commands : Rank[n] = Rank[First[n]]
<1> DEFINE R(n) == Packets \cap 1 .. n
<1>1. \A n \in 0 .. MaxCommands : Rank[n] = Cardinality(R(n))
  BY DEF Rank
<1>2. \A n \in 0 .. MaxCommands : IsFiniteSet(R(n)) /\ Cardinality(R(n)) \in Nat
  <2> TAKE n \in 0 .. MaxCommands
  <2>1. n \in Int /\ IsFiniteSet(1 .. n)
    BY FS_Interval
  <2> QED
    BY <2>1, FS_Subset, FS_CardinalityType
<1>3. R(0) = {} /\ Cardinality({}) = 0 /\ 0 \in 0 .. MaxCommands
  BY CommandsAre, FS_EmptySet
<1>4. ASSUME NEW m \in 0 .. MaxCommands, NEW n \in 0 .. MaxCommands, m <= n
      PROVE  Rank[m] <= Rank[n]
  <2>1. R(m) \subseteq R(n)
    BY <1>4, CommandsAre
  <2> HIDE DEF R
  <2> QED
    BY <1>1, <1>2, <2>1, FS_Subset
<1>5. ASSUME NEW p \in Packets
      PROVE  p - 1 \in 0 .. MaxCommands /\ Rank[p] = Rank[p - 1] + 1
  <2>1. p \in 1 .. MaxCommands
    BY CommandsAre
  <2>2. p - 1 \in 0 .. MaxCommands /\ p \in 0 .. MaxCommands
    BY <2>1, CommandsAre
  <2>3. R(p) = R(p - 1) \cup {p} /\ p \notin R(p - 1)
    BY <2>1, CommandsAre
  <2> HIDE DEF R
  <2>4. Cardinality(R(p - 1) \cup {p}) = Cardinality(R(p - 1)) + 1
    BY <1>2, <2>2, <2>3, FS_AddElement
  <2> QED
    BY <1>1, <2>2, <2>3, <2>4
<1>6. ASSUME NEW n \in Commands
      PROVE  Rank[n] = Rank[First[n]]
  <2>1. n \in 0 .. MaxCommands /\ First[n] \in 0 .. MaxCommands /\ First[n] <= n
        /\ \A p \in Packets : p <= n => p <= First[n]
    BY FirstIs, CommandsAre
  <2>2. R(n) = R(First[n])
    BY <2>1, CommandsAre
  <2> HIDE DEF R
  <2> QED
    BY <1>1, <2>1, <2>2
<1> HIDE DEF R
<1> QED
  BY <1>1, <1>2, <1>3, <1>4, <1>5, <1>6

LEMMA RankGrows ==
    ASSUME NEW p \in Packets, NEW n \in 0 .. MaxCommands
    PROVE  Rank[n] < Rank[p] <=> n < p
<1>1. p \in 0 .. MaxCommands /\ p - 1 \in 0 .. MaxCommands /\ p \in Nat /\ n \in Nat
  BY CommandsAre
<1>2. Rank[p] = Rank[p - 1] + 1 /\ Rank[p - 1] \in Nat /\ Rank[n] \in Nat
  BY <1>1, RankIs
<1>3. CASE n < p
  <2>1. n <= p - 1
    BY <1>1, <1>3
  <2>2. Rank[n] <= Rank[p - 1]
    BY <1>1, <2>1, RankIs
  <2> QED
    BY <1>2, <1>3, <2>2
<1>4. CASE p <= n
  <2>1. Rank[p] <= Rank[n]
    BY <1>1, <1>4, RankIs
  <2> QED
    BY <1>1, <1>2, <1>4, <2>1
<1> QED
  BY <1>1, <1>3, <1>4

\* The recursive function in LastOf.
LastFirst(f, waiting, k) ==
    f = [i \in 0 .. k |-> IF i = 0 THEN number
                          ELSE f[i - 1] + Length[waiting[i].first]]

LEMMA LastExists ==
    ASSUME NEW waiting, NEW k \in Nat
    PROVE  \E f : LastFirst(f, waiting, k)
<1> DEFINE T == {m \in Nat : \E f : LastFirst(f, waiting, m)}
<1>1. 0 \in T
  <2>1. LastFirst([i \in 0 .. 0 |-> number], waiting, 0)
    BY DEF LastFirst
  <2> QED
    BY <2>1
<1>2. ASSUME NEW m \in Nat, m \in T
      PROVE  m + 1 \in T
  <2>1. PICK f : LastFirst(f, waiting, m)
    BY <1>2
  <2> DEFINE last == f[m] + Length[waiting[m + 1].first]
             g == [i \in 0 .. m + 1 |-> IF i = m + 1 THEN last ELSE f[i]]
  <2>2. \A i \in 0 .. m : f[i] = IF i = 0 THEN number
                                 ELSE f[i - 1] + Length[waiting[i].first]
    BY <2>1 DEF LastFirst
  <2>3. ASSUME NEW i \in 0 .. m + 1
        PROVE  g[i] = IF i = 0 THEN number ELSE g[i - 1] + Length[waiting[i].first]
    <3>1. CASE i = m + 1
      <4>1. i - 1 = m /\ i - 1 \in 0 .. m + 1 /\ i - 1 # m + 1 /\ i # 0
        BY <3>1
      <4>2. g[i] = last /\ g[i - 1] = f[m]
        BY <3>1, <4>1
      <4> QED
        BY <3>1, <4>1, <4>2
    <3>2. CASE i # m + 1
      <4>1. i \in 0 .. m /\ g[i] = f[i] /\ (i # 0 => g[i - 1] = f[i - 1])
        BY <3>2
      <4> HIDE DEF g
      <4> QED
        BY <4>1, <2>2
    <3> QED
      BY <3>1, <3>2
  <2>4. g = [i \in 0 .. m + 1 |-> g[i]]
    OBVIOUS
  <2> HIDE DEF g
  <2>5. LastFirst(g, waiting, m + 1)
    BY <2>3, <2>4 DEF LastFirst
  <2> QED
    BY <2>5
<1> HIDE DEF T
<1>3. Nat \subseteq T
  BY <1>1, <1>2, Induction
<1> QED
  BY <1>3 DEF T

LEMMA LastOfSteps ==
    ASSUME NEW waiting, NEW k \in Nat
    PROVE  /\ LastOf(waiting, 0) = number
           /\ LastOf(waiting, k + 1) = LastOf(waiting, k) + Length[waiting[k + 1].first]
<1> DEFINE F(n) == CHOOSE f : LastFirst(f, waiting, n)
<1>1. ASSUME NEW n \in Nat
      PROVE  LastFirst(F(n), waiting, n) /\ LastOf(waiting, n) = F(n)[n]
  <2>1. LastFirst(F(n), waiting, n)
    BY LastExists
  <2>2. LastOf(waiting, n) = F(n)[n]
    BY DEF LastOf, LastFirst
  <2> QED
    BY <2>1, <2>2
<1> HIDE DEF F
<1> DEFINE f == F(k + 1)
           g == F(k)
           T == {n \in Nat : n <= k => f[n] = g[n]}
<1>2. /\ \A n \in 0 .. k + 1 : f[n] = IF n = 0 THEN number
                                      ELSE f[n - 1] + Length[waiting[n].first]
      /\ \A n \in 0 .. k : g[n] = IF n = 0 THEN number
                                  ELSE g[n - 1] + Length[waiting[n].first]
  <2>1. LastFirst(f, waiting, k + 1) /\ LastFirst(g, waiting, k)
    BY <1>1
  <2> HIDE DEF f, g
  <2> QED
    BY <2>1 DEF LastFirst
<1> HIDE DEF f, g
<1>3. 0 \in T
  BY <1>2
<1>4. ASSUME NEW n \in Nat, n \in T
      PROVE  n + 1 \in T
  <2> SUFFICES ASSUME n + 1 <= k
               PROVE  f[n + 1] = g[n + 1]
    OBVIOUS
  <2>1. n + 1 \in 0 .. k /\ n + 1 \in 0 .. k + 1 /\ n + 1 # 0 /\ (n + 1) - 1 = n /\ f[n] = g[n]
    BY <1>4
  <2>2. f[n + 1] = f[(n + 1) - 1] + Length[waiting[n + 1].first]
    BY <1>2, <2>1
  <2>3. g[n + 1] = g[(n + 1) - 1] + Length[waiting[n + 1].first]
    BY <1>2, <2>1
  <2> QED
    BY <2>1, <2>2, <2>3
<1> HIDE DEF T
<1>5. Nat \subseteq T
  BY <1>3, <1>4, Induction
<1>6. f[k] = g[k]
  BY <1>5 DEF T
<1>7. f[k + 1] = f[k] + Length[waiting[k + 1].first]
  <2>1. k + 1 \in 0 .. k + 1 /\ k + 1 # 0 /\ (k + 1) - 1 = k
    OBVIOUS
  <2>2. f[k + 1] = f[(k + 1) - 1] + Length[waiting[k + 1].first]
    BY <1>2, <2>1
  <2> QED
    BY <2>1, <2>2
<1>8. LastOf(waiting, 0) = number
  <2>1. LastFirst(F(0), waiting, 0) /\ LastOf(waiting, 0) = F(0)[0]
    BY <1>1
  <2> DEFINE h == F(0)
  <2> HIDE DEF h
  <2>2. LastFirst(h, waiting, 0) /\ LastOf(waiting, 0) = h[0]
    BY <2>1 DEF h
  <2> QED
    BY <2>2 DEF LastFirst
<1> QED
  BY <1>1, <1>6, <1>7, <1>8 DEF f, g

-----------------------------------------------------------------------------
(* What arrives is put where it belongs *)

LEMMA LineFacts ==
    ASSUME SenderOK, NEW d \in 0 .. MaxCommands, LineIs(d)
    PROVE  /\ d \in Nat /\ d <= started /\ Absolute(d) \in Nat
           /\ number = SequenceNumber(d) /\ number \in 0 .. Size - 1
           /\ \A f \in d + 1 .. started :
                 /\ f \in 1 .. started /\ f \in Commands /\ f \in Nat /\ f > d
                 /\ Absolute(f) \in Nat /\ Absolute(d) <= Absolute(f)
                 /\ Absolute(f) - Absolute(d) <= FreeWindows - 1
<1>1. d \in Nat /\ d <= started /\ started \in Nat /\ 1 .. started \subseteq Commands
  BY SenderFacts DEF LineIs
<1>2. Absolute(d) \in Nat /\ number = SequenceNumber(d) /\ number \in 0 .. Size - 1
      /\ Absolute(started) \in Nat
  BY <1>1, WindowIs DEF LineIs
<1>3. ASSUME NEW f \in d + 1 .. started
      PROVE  /\ f \in 1 .. started /\ f \in Commands /\ f \in Nat /\ f > d
             /\ Absolute(f) \in Nat /\ Absolute(d) <= Absolute(f)
             /\ Absolute(f) - Absolute(d) <= FreeWindows - 1
  <2>1. f \in 1 .. started /\ f \in Nat /\ f > d /\ f <= started
    BY <1>1
  <2>2. Absolute(f) \in Nat /\ Absolute(d) <= Absolute(f) /\ Absolute(f) <= Absolute(started)
    <3>1. Absolute(f) \in Nat /\ Absolute(d) <= Absolute(f)
      <4>1. d \in Nat /\ d <= f
        BY <1>1, <2>1
      <4> QED
        BY <2>1, <4>1, AbsoluteSteps
    <3>2. Absolute(f) <= Absolute(started)
      BY <1>1, <2>1, AbsoluteSteps
    <3> QED
      BY <3>1, <3>2
  <2>3. Absolute(started) - Absolute(d) <= FreeWindows - 1
    BY DEF LineIs
  <2> QED
    BY <1>1, <1>2, <2>1, <2>2, <2>3, SizeIs
<1> QED
  BY <1>1, <1>2, <1>3

\* Near the last one in line, numbers are the commands.
LEMMA SameNumber ==
    ASSUME NEW d \in Nat, NEW m \in Nat, NEW f \in Nat, d <= m, d <= f,
           Absolute(m) - Absolute(d) <= FreeWindows, Absolute(f) - Absolute(d) <= FreeWindows
    PROVE  SequenceNumber(m) = SequenceNumber(f) <=> m = f
<1>1. /\ Absolute(d) \in Nat /\ Absolute(m) \in Nat /\ Absolute(f) \in Nat
      /\ Absolute(d) <= Absolute(m) /\ Absolute(d) <= Absolute(f)
  BY AbsoluteSteps
<1>2. Absolute(f) - Absolute(m) < Windows /\ Absolute(m) - Absolute(f) < Windows
  BY <1>1, SizeIs
<1>3. CASE m <= f
  BY <1>2, <1>3, Near
<1>4. CASE f <= m
  BY <1>2, <1>4, Near
<1> QED
  BY <1>3, <1>4

\* The loop stops at the commands that are not after the one that arrived.
LEMMA StopsIs ==
    ASSUME NEW d \in Nat, number = SequenceNumber(d),
           NEW m \in Nat, NEW f \in Nat, d < m, d < f,
           Absolute(m) - Absolute(d) <= FreeWindows, Absolute(f) - Absolute(d) <= FreeWindows
    PROVE  Stops(m, SequenceNumber(f)) <=> m <= f
<1>1. /\ Absolute(m) - Absolute(d) < Windows /\ Absolute(f) - Absolute(d) < Windows
      /\ Absolute(d) \in Nat /\ Absolute(m) \in Nat /\ Absolute(f) \in Nat
  BY AbsoluteSteps, SizeIs
<1>2. m - d < Size /\ f - d < Size
  BY <1>1, AheadIs
<1> DEFINE s == SequenceNumber(f)
           t == SequenceNumber(d)
           o == SequenceNumber(m)
<1>3. s \in 0 .. Size - 1 /\ t \in 0 .. Size - 1 /\ o \in 0 .. Size - 1
  BY WindowIs
<1>4. s = t + (f - d) \/ s = t + (f - d) - Size
  BY <1>2, Turn
<1>5. o = t + (m - d) \/ o = t + (m - d) - Size
  BY <1>2, Turn
<1>6. Stops(m, s) <=> IF s >= t THEN o >= t /\ o <= s ELSE o >= t \/ o <= s
  BY DEF Stops
<1> HIDE DEF s, t, o
<1>7. Stops(m, s) <=> m <= f
  BY <1>2, <1>3, <1>4, <1>5, <1>6, SizeIs
<1> QED
  BY <1>7 DEF s

\* The command a fragment's packet begins with, if it has been sent.
Taken(f, d) == f \in d + 1 .. started /\ Absolute(f) - Absolute(d) <= FreeWindows - 2

LEMMA WaitingFacts ==
    ASSUME SenderOK, NEW d \in 0 .. MaxCommands, LineIs(d),
           NEW i \in DOMAIN incoming
    PROVE  /\ Len(incoming) \in Nat /\ i \in 1 .. Len(incoming)
           /\ incoming[i] \in Incoming /\ incoming[i] = [first |-> incoming[i].first,
                                                         fragments |-> incoming[i].fragments]
           /\ incoming[i].first \in Packets /\ incoming[i].first \in Nat
           /\ Taken(incoming[i].first, d)
           /\ Waits(incoming[i], d)
<1>1. WaitingOK(incoming, d)
  BY DEF LineIs
<1>2. Len(incoming) \in Nat /\ i \in 1 .. Len(incoming) /\ incoming[i] \in Incoming
  BY <1>1 DEF WaitingOK
<1>3. incoming[i].first \in Packets /\ incoming[i].first \in Nat
      /\ incoming[i] = [first |-> incoming[i].first, fragments |-> incoming[i].fragments]
  BY <1>2, CommandsAre DEF Incoming
<1>4. Waits(incoming[i], d)
  BY <1>1, <1>2 DEF WaitingOK
<1> QED
  BY <1>2, <1>3, <1>4 DEF Waits, Taken

LEMMA TakenFacts ==
    ASSUME SenderOK, NEW d \in 0 .. MaxCommands, LineIs(d), NEW f, Taken(f, d)
    PROVE  /\ Accepts(SequenceNumber(f)) /\ SequenceNumber(f) # number
           /\ Found(SequenceNumber(f)) = {i \in DOMAIN incoming : incoming[i].first = f}
           /\ \A i \in DOMAIN incoming :
                 Stops(incoming[i].first, SequenceNumber(f)) <=> incoming[i].first <= f
<1>1. /\ d \in Nat /\ f \in Nat /\ d < f /\ Absolute(f) \in Nat /\ Absolute(d) \in Nat
      /\ Absolute(d) <= Absolute(f) /\ number = SequenceNumber(d)
      /\ Absolute(f) - Absolute(d) <= FreeWindows - 2
  BY LineFacts DEF Taken
<1>2. Absolute(f) - Absolute(d) < Windows /\ Absolute(f) - Absolute(d) <= FreeWindows
  BY <1>1, SizeIs
<1>3. /\ WindowAhead(SequenceNumber(f), number) = Absolute(f) - Absolute(d)
      /\ SequenceNumber(f) # number
  BY <1>1, <1>2, AheadIs
<1>4. Accepts(SequenceNumber(f))
  BY <1>1, <1>3, SizeIs DEF Accepts
<1>5. ASSUME NEW i \in DOMAIN incoming
      PROVE  /\ SequenceNumber(incoming[i].first) = SequenceNumber(f) <=> incoming[i].first = f
             /\ Stops(incoming[i].first, SequenceNumber(f)) <=> incoming[i].first <= f
  <2> DEFINE m == incoming[i].first
  <2>1. Taken(m, d) /\ m \in Nat
    BY WaitingFacts
  <2>2. d < m /\ Absolute(m) - Absolute(d) <= FreeWindows - 2 /\ Absolute(m) \in Nat
    BY <1>1, <2>1, LineFacts DEF Taken
  <2> HIDE DEF m
  <2>3. d <= m /\ d <= f /\ Absolute(m) - Absolute(d) <= FreeWindows
    BY <1>1, <2>1, <2>2, SizeIs
  <2>4. SequenceNumber(m) = SequenceNumber(f) <=> m = f
    BY <1>1, <1>2, <2>1, <2>3, SameNumber
  <2>5. Stops(m, SequenceNumber(f)) <=> m <= f
    BY <1>1, <1>2, <2>1, <2>2, <2>3, StopsIs
  <2> QED
    BY <2>4, <2>5 DEF m
<1>6. Found(SequenceNumber(f)) = {i \in DOMAIN incoming : incoming[i].first = f}
  BY <1>5 DEF Found
<1> QED
  BY <1>3, <1>4, <1>5, <1>6

\* What was behind, or comes too early, leaves the waiting commands alone.
LEMMA NotTaken ==
    ASSUME SenderOK, NEW d \in 0 .. MaxCommands, LineIs(d), NEW n \in data,
           ~Taken(First[n], d)
    PROVE  Queued(n) = incoming
<1> DEFINE f == First[n]
           s == SequenceNumber(f)
<1>1. /\ n \in Commands /\ n \in 1 .. started /\ f \in 1 .. started /\ f \in Nat
      /\ started \in Nat /\ Absolute(started) \in Nat
      /\ Absolute(started) - Absolute(f) <= Windows - FreeWindows + 1
  BY SenderFacts DEF SenderOK, Recent
<1>2. d \in Nat /\ d <= started /\ number = SequenceNumber(d) /\ Absolute(d) \in Nat
  BY LineFacts
<1>3. Absolute(f) \in Nat /\ Absolute(d) <= Absolute(started)
  <2>1. Absolute(d) <= Absolute(started)
    BY <1>1, <1>2, AbsoluteSteps
  <2> QED
    BY <1>1, <2>1, WindowIs
<1>4. Length[n] = 1 => n = f
  <2>1. n \in Packet[n] /\ Packet[n] = f .. f + Length[n] - 1
    BY <1>1, PacketIs
  <2> QED
    BY <1>1, <2>1
<1>5. CASE f < d
  <2>1. Absolute(d) - Absolute(f) <= Windows - FreeWindows + 1
    BY <1>1, <1>2, <1>3, SizeIs
  <2> HIDE DEF f
  <2>2. WindowAhead(SequenceNumber(f), number) >= FreeWindows - 1
        /\ WindowAhead(SequenceNumber(f), number) \in Nat
    BY <1>1, <1>2, <1>5, <2>1, BehindIs
  <2>3. ~Accepts(SequenceNumber(f))
    BY <2>2, SizeIs DEF Accepts
  <2> QED
    BY <1>4, <2>3 DEF Queued, WithWhole, WithFragment, f
<1>6. CASE f = d
  <2>1. s = number
    BY <1>2, <1>6
  <2>2. Found(s) = {}
    <3> SUFFICES ASSUME NEW i \in DOMAIN incoming, SequenceNumber(incoming[i].first) = number
                 PROVE  FALSE
      BY <2>1 DEF Found
    <3> DEFINE m == incoming[i].first
    <3>1. Taken(m, d) /\ m \in Nat /\ SequenceNumber(m) = number
      BY WaitingFacts
    <3> HIDE DEF m
    <3>2. SequenceNumber(m) # number
      BY <3>1, TakenFacts
    <3> QED
      BY <3>1, <3>2
  <2>3. Length[n] # 1 => ~Accepts(s) \/ Refuses(n)
    BY <2>1, <2>2 DEF Refuses
  <2> QED
    BY <1>4, <2>1, <2>2, <2>3 DEF Queued, WithWhole, WithFragment
<1>7. CASE f > d
  <2>1. f \in d + 1 .. started
    BY <1>1, <1>2, <1>7
  <2>2. /\ Absolute(d) <= Absolute(f) /\ Absolute(f) - Absolute(d) <= FreeWindows - 1
        /\ ~(Absolute(f) - Absolute(d) <= FreeWindows - 2)
    BY <2>1, LineFacts DEF Taken
  <2>3. Absolute(f) - Absolute(d) < Windows
    BY <1>2, <1>3, <2>2, SizeIs
  <2> HIDE DEF f
  <2>4. WindowAhead(SequenceNumber(f), number) = Absolute(f) - Absolute(d)
    BY <1>1, <1>2, <1>7, <2>3, AheadIs
  <2>5. ~Accepts(SequenceNumber(f))
    BY <1>2, <1>3, <2>2, <2>4, SizeIs DEF Accepts
  <2> QED
    BY <1>4, <2>5 DEF Queued, WithWhole, WithFragment, f
<1> QED
  BY <1>1, <1>2, <1>5, <1>6, <1>7

LEMMA ExceptIs ==
    ASSUME NEW c \in Incoming, NEW n \in Commands
    PROVE  [c EXCEPT !.fragments = @ \cup {n}] =
              [first |-> c.first, fragments |-> c.fragments \cup {n}]
BY DEF Incoming

LEMMA RestIs ==
    ASSUME NEW S, NEW s \in Seq(S), NEW p \in 0 .. Len(s)
    PROVE  /\ SubSeq(s, p + 1, Len(s)) \in Seq(S)
           /\ Len(SubSeq(s, p + 1, Len(s))) = Len(s) - p
           /\ \A i \in 1 .. Len(s) - p : SubSeq(s, p + 1, Len(s))[i] = s[p + i]
<1>1. Len(s) \in Nat /\ p + 1 \in 1 .. Len(s) + 1 /\ Len(s) \in p .. Len(s)
  OBVIOUS
<1>2. /\ SubSeq(s, p + 1, Len(s)) \in Seq(S)
      /\ Len(SubSeq(s, p + 1, Len(s))) = IF p + 1 <= Len(s) THEN Len(s) - (p + 1) + 1 ELSE 0
      /\ \A i \in 1 .. Len(s) - (p + 1) + 1 : SubSeq(s, p + 1, Len(s))[i] = s[p + 1 + i - 1]
  BY <1>1, SubSeqProperties
<1> DEFINE X == SubSeq(s, p + 1, Len(s))
<1> HIDE DEF X
<1>3. \A i \in 1 .. Len(s) - p : X[i] = s[p + i]
  <2> TAKE i \in 1 .. Len(s) - p
  <2>1. i \in 1 .. Len(s) - (p + 1) + 1 /\ p + 1 + i - 1 = p + i
    BY <1>1
  <2> QED
    BY <1>2, <2>1 DEF X
<1>4. X \in Seq(S) /\ Len(X) = Len(s) - p
  BY <1>1, <1>2 DEF X
<1> QED
  BY <1>3, <1>4 DEF X

\* A place for a new packet among those that wait.
LEMMA InsertIs ==
    ASSUME SenderOK, NEW d \in 0 .. MaxCommands, LineIs(d),
           NEW n \in data, Taken(First[n], d), Found(SequenceNumber(First[n])) = {}
    PROVE  /\ WaitingOK(Insert(n), d)
           /\ \A m : Holds(incoming, m) => Holds(Insert(n), m)
           /\ Holds(Insert(n), n)
<1> DEFINE f == First[n]
           s == SequenceNumber(f)
           L == Len(incoming)
           new == [first |-> f, fragments |-> {n}]
           B == {0} \cup {i \in DOMAIN incoming : Stops(incoming[i].first, s)}
           p == Max(B)
           W == InsertAt(incoming, p + 1, new)
<1>1. n \in Commands /\ n \in 1 .. started /\ f \in Packets /\ f \in Nat
  BY SenderFacts, FirstIs, CommandsAre
<1>2. incoming \in Seq(Incoming) /\ L \in Nat /\ DOMAIN incoming = 1 .. L
  BY DEF LineIs, WaitingOK
<1>3. \A i \in 1 .. L : /\ incoming[i].first \in Nat /\ incoming[i].first # f
                        /\ Waits(incoming[i], d)
                        /\ Stops(incoming[i].first, s) <=> incoming[i].first <= f
  BY <1>2, WaitingFacts, TakenFacts
<1>4. \A i, j \in 1 .. L : i < j => incoming[i].first < incoming[j].first
  BY <1>2 DEF LineIs, WaitingOK
<1>5. p \in B /\ \A i \in B : i <= p
  <2>1. B \subseteq Int /\ 0 \in B /\ L \in Int /\ \A i \in B : i <= L
    BY <1>2
  <2> HIDE DEF B
  <2> QED
    BY <2>1, MaxIs
<1>6. p \in 0 .. L
  BY <1>2, <1>5
<1>7. \A i \in 1 .. L : /\ i <= p => incoming[i].first < f
                        /\ i > p => f < incoming[i].first
  <2> TAKE i \in 1 .. L
  <2>1. ASSUME i <= p
        PROVE  incoming[i].first < f
    <3>1. p \in 1 .. L /\ incoming[p].first <= f
      BY <1>2, <1>3, <1>5, <1>6, <2>1
    <3>2. incoming[i].first <= incoming[p].first
      BY <1>3, <1>4, <2>1, <3>1
    <3> QED
      BY <1>1, <1>3, <3>1, <3>2
  <2>2. ASSUME i > p
        PROVE  f < incoming[i].first
    <3>1. ~Stops(incoming[i].first, s)
      BY <1>2, <1>5, <1>6, <2>2
    <3> QED
      BY <1>1, <1>3, <3>1
  <2> QED
    BY <2>1, <2>2
<1>8. new \in Incoming
  BY <1>1 DEF Incoming
<1>9. Waits(new, d)
  <2>1. n \in Packet[f]
    <3>1. First[f] = f
      BY <1>1, FirstOfFirst
    <3> QED
      BY <1>1, <3>1, CommandsAre DEF Packet
  <2> QED
    BY <1>1, <2>1 DEF Waits, Taken
<1> HIDE DEF new, p, s, f, B
<1>10. W = SubSeq(incoming, 1, p) \o <<new>> \o SubSeq(incoming, p + 1, L)
  <2>1. (p + 1) - 1 = p
    BY <1>6
  <2> QED
    BY <2>1 DEF InsertAt
<1>11. /\ W \in Seq(Incoming) /\ Len(W) = L + 1
       /\ \A i \in 1 .. L + 1 : W[i] = IF i <= p THEN incoming[i]
                                       ELSE IF i = p + 1 THEN new ELSE incoming[i - 1]
  <2>1. SubSeq(incoming, 1, p) \in Seq(Incoming) /\ Len(SubSeq(incoming, 1, p)) = p
        /\ \A i \in 1 .. p : SubSeq(incoming, 1, p)[i] = incoming[i]
    BY <1>2, <1>6
  <2>2. SubSeq(incoming, p + 1, L) \in Seq(Incoming) /\ Len(SubSeq(incoming, p + 1, L)) = L - p
        /\ \A i \in 1 .. L - p : SubSeq(incoming, p + 1, L)[i] = incoming[p + i]
    BY <1>2, <1>6, RestIs DEF L
  <2> DEFINE X == SubSeq(incoming, 1, p)
             Y == SubSeq(incoming, p + 1, L)
  <2> HIDE DEF X, Y
  <2>3. X \in Seq(Incoming) /\ Y \in Seq(Incoming) /\ Len(X) = p /\ Len(Y) = L - p
        /\ W = X \o <<new>> \o Y
    BY <2>1, <2>2, <1>10 DEF X, Y
  <2> HIDE DEF W
  <2>4. X \o <<new>> \in Seq(Incoming) /\ Len(X \o <<new>>) = p + 1
        /\ \A i \in 1 .. p + 1 : (X \o <<new>>)[i] = IF i <= p THEN X[i] ELSE new
    BY <1>6, <1>8, <2>3
  <2> DEFINE Z == X \o <<new>>
  <2>5. Z \in Seq(Incoming) /\ Len(Z) = p + 1 /\ W = Z \o Y
    BY <2>3, <2>4
  <2> HIDE DEF Z
  <2>6. W \in Seq(Incoming) /\ Len(W) = L + 1
        /\ \A i \in 1 .. L + 1 : W[i] = IF i <= p + 1 THEN Z[i] ELSE Y[i - (p + 1)]
    <3>1. p \in Nat /\ L \in Nat /\ Len(Y) = L - p /\ Y \in Seq(Incoming)
      BY <1>2, <1>6, <2>3
    <3>2. W \in Seq(Incoming) /\ Len(W) = (p + 1) + (L - p)
      <4>1. Z \in Seq(Incoming) /\ Y \in Seq(Incoming)
        BY <2>5, <3>1
      <4>2. Z \o Y \in Seq(Incoming)
        BY <4>1
      <4>3. Len(Z \o Y) = Len(Z) + Len(Y)
        BY <4>1
      <4> QED
        BY <2>5, <3>1, <4>2, <4>3
    <3>3. ASSUME NEW i \in 1 .. (p + 1) + (L - p)
          PROVE  W[i] = IF i <= p + 1 THEN Z[i] ELSE Y[i - (p + 1)]
      <4>1. Z \in Seq(Incoming) /\ Y \in Seq(Incoming) /\ i \in 1 .. Len(Z) + Len(Y)
        BY <2>5, <3>1, <3>3
      <4>2. (Z \o Y)[i] = IF i <= Len(Z) THEN Z[i] ELSE Y[i - Len(Z)]
        BY <4>1, ConcatProperties
      <4> QED
        BY <2>5, <4>2
    <3>4. (p + 1) + (L - p) = L + 1
      BY <3>1
    <3> QED
      BY <3>2, <3>3, <3>4
  <2>7. ASSUME NEW i \in 1 .. L + 1
        PROVE  W[i] = IF i <= p THEN incoming[i]
                      ELSE IF i = p + 1 THEN new ELSE incoming[i - 1]
    <3>1. CASE i <= p
      BY <1>6, <2>1, <2>4, <2>6, <3>1 DEF X, Z
    <3>2. CASE i = p + 1
      BY <1>6, <2>4, <2>6, <3>2 DEF Z
    <3>3. CASE i > p + 1
      <4>1. i - (p + 1) \in 1 .. L - p /\ p + (i - (p + 1)) = i - 1
        BY <1>2, <1>6, <3>3
      <4>2. W[i] = Y[i - (p + 1)]
        BY <1>6, <2>6, <3>3
      <4>3. Y[i - (p + 1)] = incoming[p + (i - (p + 1))]
        BY <2>2, <4>1 DEF Y
      <4> QED
        BY <1>6, <3>3, <4>1, <4>2, <4>3
    <3> QED
      BY <1>6, <3>1, <3>2, <3>3
  <2> QED
    BY <2>6, <2>7
<1> HIDE DEF W, L
<1>12. \A i \in 1 .. L + 1 : Waits(W[i], d)
  <2> TAKE i \in 1 .. L + 1
  <2>1. CASE i <= p
    BY <1>2, <1>3, <1>6, <1>11, <2>1
  <2>2. CASE i = p + 1
    BY <1>6, <1>9, <1>11, <2>2
  <2>3. CASE i > p + 1
    <3>1. i - 1 \in 1 .. L /\ W[i] = incoming[i - 1]
      BY <1>2, <1>6, <1>11, <2>3
    <3> QED
      BY <1>3, <3>1
  <2> QED
    BY <1>6, <2>1, <2>2, <2>3
<1>13. \A i, j \in 1 .. L + 1 : i < j => W[i].first < W[j].first
  <2>1. new.first = f
    BY DEF new
  <2> SUFFICES ASSUME NEW i \in 1 .. L + 1, NEW j \in 1 .. L + 1, i < j
               PROVE  W[i].first < W[j].first
    OBVIOUS
  <2>2. CASE j <= p
    BY <1>2, <1>4, <1>6, <1>11, <2>2
  <2>3. CASE j = p + 1
    <3>1. i \in 1 .. L /\ i <= p /\ W[i] = incoming[i] /\ W[j] = new
      BY <1>2, <1>6, <1>11, <2>3
    <3> QED
      BY <1>7, <2>1, <3>1
  <2>4. CASE j > p + 1
    <3>1. j - 1 \in 1 .. L /\ j - 1 > p /\ W[j] = incoming[j - 1]
      BY <1>2, <1>6, <1>11, <2>4
    <3>2. CASE i <= p
      <4>1. i \in 1 .. L /\ i < j - 1 /\ W[i] = incoming[i]
        BY <1>2, <1>6, <1>11, <2>4, <3>2
      <4> QED
        BY <1>4, <3>1, <4>1
    <3>3. CASE i = p + 1
      BY <1>6, <1>7, <1>11, <2>1, <3>1, <3>3
    <3>4. CASE i > p + 1
      <4>1. i - 1 \in 1 .. L /\ i - 1 < j - 1 /\ W[i] = incoming[i - 1]
        BY <1>2, <1>6, <1>11, <3>4
      <4> QED
        BY <1>4, <3>1, <4>1
    <3> QED
      BY <1>6, <3>2, <3>3, <3>4
  <2> QED
    BY <1>6, <2>2, <2>3, <2>4
<1>14. WaitingOK(W, d)
  BY <1>11, <1>12, <1>13 DEF WaitingOK
<1>15. Holds(W, n)
  <2>1. p + 1 \in 1 .. Len(W) /\ W[p + 1] = new
    BY <1>2, <1>6, <1>11
  <2>2. n \in new.fragments
    BY DEF new
  <2> QED
    BY <2>1, <2>2 DEF Holds
<1>16. ASSUME NEW m, Holds(incoming, m)
       PROVE  Holds(W, m)
  <2>1. PICK i \in 1 .. L : m \in incoming[i].fragments
    BY <1>16 DEF Holds, L
  <2>2. CASE i <= p
    <3>1. i \in 1 .. Len(W) /\ W[i] = incoming[i]
      BY <1>2, <1>11, <2>2
    <3> QED
      BY <2>1, <3>1 DEF Holds
  <2>3. CASE i > p
    <3>1. i + 1 \in 1 .. Len(W) /\ W[i + 1] = incoming[i]
      BY <1>2, <1>6, <1>11, <2>3
    <3> QED
      BY <2>1, <3>1 DEF Holds
  <2> QED
    BY <1>6, <2>2, <2>3
<1>17. W = Insert(n)
  BY DEF Insert, Position, W, p, B, s, f, new
<1> QED
  BY <1>14, <1>15, <1>16, <1>17

\* A fragment is added to what has come of its packet.
LEMMA AddIs ==
    ASSUME SenderOK, NEW d \in 0 .. MaxCommands, LineIs(d),
           NEW n \in data, Taken(First[n], d), Found(SequenceNumber(First[n])) # {}
    PROVE  /\ WaitingOK(Queued(n), d)
           /\ \A m : Holds(incoming, m) => Holds(Queued(n), m)
           /\ Holds(Queued(n), n)
<1> DEFINE f == First[n]
           s == SequenceNumber(f)
           L == Len(incoming)
<1>1. n \in Commands /\ n \in 1 .. started /\ f \in Packets /\ f \in Nat /\ First[f] = f
      /\ n \in Packet[f] /\ Length[f] = Length[n]
  <2>1. n \in Commands /\ n \in 1 .. started /\ f \in Packets /\ f \in Nat /\ First[f] = f
    BY SenderFacts, FirstIs, FirstOfFirst, CommandsAre
  <2>2. n \in Packet[f]
    BY <2>1, CommandsAre DEF Packet
  <2> QED
    BY <2>1, <2>2, PacketIs
<1>2. incoming \in Seq(Incoming) /\ L \in Nat /\ DOMAIN incoming = 1 .. L
      /\ WaitingOK(incoming, d)
  BY DEF LineIs, WaitingOK
<1>3. /\ Accepts(s) /\ s # number
      /\ Found(s) = {i \in 1 .. L : incoming[i].first = f}
  BY <1>2, TakenFacts
<1>4. PICK x \in 1 .. L : incoming[x].first = f /\ x \in Found(s)
  BY <1>3
<1>5. incoming[x] \in Incoming /\ Waits(incoming[x], d)
      /\ incoming[x] = [first |-> f, fragments |-> incoming[x].fragments]
  BY <1>2, <1>4, WaitingFacts
<1>6. incoming[x].fragments \subseteq Packet[f] /\ incoming[x].fragments # {}
  BY <1>4, <1>5 DEF Waits
<1>7. Found(s) = {x}
  <2>1. \A i \in 1 .. L : incoming[i].first \in Nat
    BY <1>2, WaitingFacts
  <2>2. \A i \in 1 .. L : incoming[i].first = f => i = x
    BY <1>2, <1>4, <2>1 DEF WaitingOK
  <2> QED
    BY <1>3, <1>4, <2>2
<1>8. CASE Length[n] = 1
  <2>1. n = f /\ Packet[f] = {n}
    <3>1. n \in Packet[n] /\ Packet[n] = f .. f + Length[n] - 1 /\ Packet[f] = f .. f + Length[f] - 1
      BY <1>1, PacketIs, CommandsAre
    <3> QED
      BY <1>1, <1>8, <3>1
  <2>2. n \in incoming[x].fragments
    BY <1>6, <2>1
  <2>3. Queued(n) = incoming
    BY <1>4, <1>8, <2>1 DEF Queued, WithWhole
  <2>4. Holds(incoming, n)
    BY <1>4, <2>2 DEF Holds
  <2> QED
    BY <1>2, <2>3, <2>4
<1>9. CASE Length[n] # 1
  <2>1. ~Refuses(n)
    <3>1. \A i \in Found(s) : Length[incoming[i].first] = Length[n]
      BY <1>1, <1>4, <1>7
    <3> QED
      BY <1>4, <3>1 DEF Refuses
  <2>2. Has(incoming[x], n) => n \in incoming[x].fragments
    <3> SUFFICES ASSUME NEW m \in incoming[x].fragments, m - First[m] = n - First[n]
                 PROVE  m = n
      BY DEF Has
    <3>1. m \in Packet[f]
      BY <1>6
    <3>2. m \in Commands /\ First[m] = f
      <4>1. f \in Commands /\ First[f] = f
        BY <1>1, CommandsAre
      <4> HIDE DEF f
      <4> QED
        BY <3>1, <4>1, PacketIs
    <3>3. m \in Nat /\ n \in Nat
      BY <1>1, <3>2, CommandsAre
    <3> QED
      BY <1>1, <3>2, <3>3
  <2> DEFINE W == [i \in DOMAIN incoming |->
                     IF i \notin Found(s) \/ Has(incoming[i], n) THEN incoming[i]
                     ELSE [incoming[i] EXCEPT !.fragments = @ \cup {n}]]
  <2>3. Queued(n) = W
    BY <1>3, <1>4, <1>9, <2>1 DEF Queued, WithFragment
  <2> DEFINE all == incoming[x].fragments \cup {n}
             new == [first |-> f, fragments |-> all]
  <2>4. W = [i \in 1 .. L |-> IF i = x THEN new ELSE incoming[i]]
    <3>1. Has(incoming[x], n) => incoming[x] = new
      <4>1. Has(incoming[x], n) => all = incoming[x].fragments
        BY <2>2
      <4> QED
        BY <1>5, <4>1
    <3>2. [incoming[x] EXCEPT !.fragments = @ \cup {n}] = new
      <4>1. [incoming[x] EXCEPT !.fragments = @ \cup {n}] =
                [first |-> incoming[x].first, fragments |-> incoming[x].fragments \cup {n}]
        BY <1>1, <1>5, ExceptIs
      <4> QED
        BY <1>4, <4>1
    <3> HIDE DEF new, all
    <3> QED
      BY <1>2, <1>7, <3>1, <3>2
  <2>5. new \in Incoming /\ Waits(new, d) /\ new.first = f
    <3>1. all \subseteq Packet[f] \cap 1 .. started /\ all # {}
      BY <1>1, <1>4, <1>5 DEF Waits
    <3>2. Packet[f] \subseteq Commands
      BY <1>1, PacketIs, CommandsAre
    <3> HIDE DEF all
    <3> QED
      BY <1>1, <1>4, <1>5, <3>1, <3>2 DEF Incoming, Waits
  <2>6. incoming[x].fragments \subseteq new.fragments /\ n \in new.fragments
    OBVIOUS
  <2> HIDE DEF W, new, all
  <2>7. W \in Seq(Incoming) /\ Len(W) = L
        /\ \A i \in 1 .. L : W[i] = IF i = x THEN new ELSE incoming[i]
    <3>1. \A i \in 1 .. L : incoming[i] \in Incoming
      BY <1>2
    <3>2. W \in [1 .. L -> Incoming]
      BY <2>4, <2>5, <3>1
    <3> QED
      BY <1>2, <2>4, <3>2
  <2>8. \A i \in 1 .. L : W[i].first = incoming[i].first /\ Waits(W[i], d)
    BY <1>2, <1>4, <2>5, <2>7 DEF WaitingOK
  <2>9. WaitingOK(W, d)
    <3>1. \A i, j \in 1 .. L : i < j => incoming[i].first < incoming[j].first
      BY <1>2 DEF WaitingOK
    <3> QED
      BY <2>7, <2>8, <3>1 DEF WaitingOK
  <2>10. Holds(W, n)
    BY <1>4, <2>6, <2>7 DEF Holds
  <2>11. ASSUME NEW m, Holds(incoming, m)
         PROVE  Holds(W, m)
    <3>1. PICK i \in 1 .. L : m \in incoming[i].fragments
      BY <2>11 DEF Holds
    <3>2. m \in W[i].fragments
      BY <2>6, <2>7, <3>1
    <3> QED
      BY <2>7, <3>1, <3>2 DEF Holds
  <2> QED
    BY <2>3, <2>9, <2>10, <2>11
<1> QED
  BY <1>8, <1>9

LEMMA QueuedIs ==
    ASSUME SenderOK, NEW d \in 0 .. MaxCommands, LineIs(d), NEW n \in data
    PROVE  /\ WaitingOK(Queued(n), d)
           /\ \A m : Holds(incoming, m) => Holds(Queued(n), m)
           /\ Taken(First[n], d) => Holds(Queued(n), n)
           /\ ~Taken(First[n], d) => Queued(n) = incoming
<1>1. CASE ~Taken(First[n], d)
  BY <1>1, NotTaken DEF LineIs
<1>2. CASE Taken(First[n], d) /\ Found(SequenceNumber(First[n])) # {}
  BY <1>2, AddIs
<1>3. CASE Taken(First[n], d) /\ Found(SequenceNumber(First[n])) = {}
  <2> DEFINE f == First[n]
             s == SequenceNumber(f)
  <2>1. Accepts(s) /\ s # number
    BY <1>3, TakenFacts
  <2>2. n \in Commands /\ f \in Nat /\ (Length[n] = 1 => n = f)
    <3>1. n \in Commands /\ n \in Nat /\ f \in Nat
      BY SenderFacts, FirstIs, CommandsAre
    <3>2. n \in Packet[n] /\ Packet[n] = f .. f + Length[n] - 1
      BY <3>1, PacketIs
    <3> QED
      BY <3>1, <3>2
  <2>3. ~Refuses(n)
    BY <1>3, <2>1 DEF Refuses
  <2>4. Queued(n) = Insert(n)
    BY <1>3, <2>1, <2>2, <2>3 DEF Queued, WithWhole, WithFragment
  <2> QED
    BY <1>3, <2>4, InsertIs
<1> QED
  BY <1>1, <1>2, <1>3

-----------------------------------------------------------------------------
(* What is in line is dispatched *)

LEMMA WrapsTo ==
    ASSUME NEW d \in Nat, NEW x \in Nat
    PROVE  SequenceNumber(SequenceNumber(d) + x) = SequenceNumber(d + x)
<1> DEFINE c == d \div Size
           s == d % Size
           y == s + x
           q == y \div Size
           r == y % Size
<1>1. c \in Nat /\ s \in 0 .. Size - 1 /\ d = Size * c + s
  BY SizeIs, Division
<1>2. y \in Nat /\ y = s + x
  BY <1>1, SizeIs
<1> HIDE DEF y
<1>3. q \in Nat /\ r \in 0 .. Size - 1 /\ y = Size * q + r
  BY <1>2, SizeIs, Division
<1>4. SequenceNumber(d) = s /\ SequenceNumber(y) = r /\ \A z : SequenceNumber(z) = z % Size
  BY DEF SequenceNumber, Size
<1> HIDE DEF c, s, q, r
<1>5. Size * (c + q) = Size * c + Size * q /\ Size * c \in Nat /\ Size * q \in Nat
  BY <1>1, <1>3, SizeIs
<1>6. d + x = Size * (c + q) + r
  BY <1>1, <1>2, <1>3, <1>5, SizeIs
<1>7. (Size * (c + q) + r) % Size = r
  BY <1>1, <1>3, SizeIs, DivisionIs
<1> QED
  BY <1>2, <1>4, <1>6, <1>7

\* The last command in line when i have been dispatched, counted from d.
EndOf(waiting, i, d) == LastOf(waiting, i) + (d - number)

AtEnd(waiting, i, d) ==
    /\ EndOf(waiting, i, d) \in d .. started
    /\ IsEnd(EndOf(waiting, i, d))
    /\ LastOf(waiting, i) = number + (EndOf(waiting, i, d) - d)
    /\ Rank[EndOf(waiting, i, d)] = Rank[d] + i

\* The next one in line, by its number, is the next one.
LEMMA NextIs ==
    ASSUME SenderOK, NEW d \in 0 .. MaxCommands, LineIs(d),
           NEW e \in d .. started, NEW p, Taken(p, d),
           NEW x, SequenceNumber(x) = SequenceNumber(e + 1)
    PROVE  SequenceNumber(p) = SequenceNumber(x) <=> p = e + 1
<1>1. /\ d \in Nat /\ e \in Nat /\ d <= e + 1 /\ e <= started /\ started \in Nat
      /\ p \in Nat /\ d <= p /\ Absolute(d) \in Nat /\ e + 1 \in Nat
      /\ Absolute(p) - Absolute(d) <= FreeWindows - 2 /\ Absolute(p) \in Nat
  BY SenderFacts, LineFacts DEF Taken
<1>2. Absolute(started) - Absolute(d) <= FreeWindows - 1 /\ Absolute(started) \in Nat
  BY SenderFacts DEF LineIs
<1>3. Absolute(e) <= Absolute(started) /\ Absolute(e) \in Nat /\ Absolute(e + 1) \in Nat
      /\ Absolute(e + 1) <= Absolute(e) + 1
  <2>1. Absolute(e) <= Absolute(started)
    BY <1>1, AbsoluteSteps
  <2>2. Absolute(e) \in Nat /\ Absolute(e + 1) \in Nat
        /\ (Absolute(e + 1) = Absolute(e) \/ Absolute(e + 1) = Absolute(e) + 1)
    BY <1>1, NextCommand
  <2> QED
    BY <2>1, <2>2
<1>4. Absolute(e + 1) - Absolute(d) <= FreeWindows /\ Absolute(p) - Absolute(d) <= FreeWindows
  BY <1>1, <1>2, <1>3, SizeIs
<1> DEFINE f == e + 1
<1>5. f \in Nat /\ d <= f /\ Absolute(f) - Absolute(d) <= FreeWindows
      /\ SequenceNumber(x) = SequenceNumber(f)
  BY <1>1, <1>4
<1> HIDE DEF f
<1>6. SequenceNumber(p) = SequenceNumber(f) <=> p = f
  BY <1>1, <1>4, <1>5, SameNumber
<1> QED
  BY <1>5, <1>6 DEF f

LEMMA LoopStep ==
    ASSUME SenderOK, NEW d \in 0 .. MaxCommands, LineIs(d),
           NEW waiting, WaitingOK(waiting, d),
           NEW i \in 0 .. Len(waiting) - 1, AtEnd(waiting, i, d),
           IsNext(waiting[i + 1], LastOf(waiting, i))
    PROVE  /\ AtEnd(waiting, i + 1, d)
           /\ waiting[i + 1].first = EndOf(waiting, i, d) + 1
           /\ waiting[i + 1].first \in Packets
           /\ waiting[i + 1].fragments = Packet[waiting[i + 1].first]
           /\ EndOf(waiting, i + 1, d) \in Packet[waiting[i + 1].first]
           /\ Rank[waiting[i + 1].first] = Rank[d] + (i + 1)
<1> DEFINE e == EndOf(waiting, i, d)
           g == EndOf(waiting, i + 1, d)
           p == waiting[i + 1].first
           F == waiting[i + 1].fragments
<1>1. waiting \in Seq(Incoming) /\ Len(waiting) \in Nat /\ i + 1 \in 1 .. Len(waiting) /\ i \in Nat
  BY DEF WaitingOK
<1>2. p \in Packets /\ F \in SUBSET Commands /\ Waits(waiting[i + 1], d)
  <2>1. waiting[i + 1] \in Incoming /\ Waits(waiting[i + 1], d)
    BY <1>1 DEF WaitingOK
  <2> QED
    BY <2>1 DEF Incoming
<1>3. Taken(p, d) /\ F \subseteq Packet[p] /\ F \subseteq 1 .. started
  BY <1>2 DEF Waits, Taken
<1>4. /\ d \in Nat /\ number = SequenceNumber(d) /\ number \in Nat /\ started \in Nat
      /\ e \in d .. started /\ e \in Nat /\ IsEnd(e)
      /\ LastOf(waiting, i) = number + (e - d) /\ Rank[e] = Rank[d] + i
  BY LineFacts, SenderFacts DEF AtEnd
<1>5. p \in Commands /\ p \in Nat /\ First[p] = p /\ Length[p] \in Nat \ {0}
      /\ Packet[p] = p .. p + Length[p] - 1 /\ IsFiniteSet(Packet[p])
      /\ Length[p] = Cardinality(Packet[p])
  <2>1. p \in Commands /\ p \in Nat /\ First[p] = p
    BY <1>2, FirstOfFirst, CommandsAre
  <2> QED
    BY <2>1, PacketIs DEF Length
<1>6. LastOf(waiting, i + 1) = LastOf(waiting, i) + Length[p]
  BY <1>1, LastOfSteps
<1>7. p = e + 1
  <2> DEFINE x == LastOf(waiting, i) + 1
  <2>1. x = number + (e - d + 1) /\ e - d + 1 \in Nat /\ d + (e - d + 1) = e + 1
    BY <1>4
  <2>2. SequenceNumber(x) = SequenceNumber(e + 1)
    BY <1>4, <2>1, WrapsTo
  <2>3. SequenceNumber(p) = SequenceNumber(x)
    BY DEF IsNext
  <2> HIDE DEF x, p, e
  <2> QED
    BY <1>3, <1>4, <2>2, <2>3, NextIs
<1>8. F = Packet[p]
  <2>1. Cardinality(F) = Length[p]
    BY DEF IsNext, Complete
  <2> HIDE DEF F, p
  <2> QED
    BY <1>3, <1>5, <2>1, FS_Subset
<1>9. /\ g = p + Length[p] - 1 /\ g \in Nat /\ LastOf(waiting, i + 1) = number + (g - d)
      /\ d <= g /\ p - 1 = e
  <2> DEFINE l == Length[p]
             x == LastOf(waiting, i)
             y == LastOf(waiting, i + 1)
  <2>1. g = y + (d - number) /\ y = x + l
    BY <1>6 DEF EndOf
  <2>2. /\ d \in Nat /\ number \in Nat /\ e \in Nat /\ d <= e /\ l \in Nat \ {0}
        /\ x = number + (e - d) /\ p = e + 1
    BY <1>4, <1>5, <1>7
  <2> HIDE DEF g, e, p, l, x, y
  <2>3. g = p + l - 1 /\ g \in Nat /\ y = number + (g - d) /\ d <= g /\ p - 1 = e
    BY <2>1, <2>2
  <2> QED
    BY <2>3 DEF l, y
<1> HIDE DEF e, g, p, F
<1>10. g \in Packet[p]
  BY <1>5, <1>9
<1>11. g \in 1 .. started /\ g \in d .. started /\ g \in Commands /\ First[g] = p
  <2>1. g \in 1 .. started
    BY <1>3, <1>8, <1>10
  <2>2. d <= g
    BY <1>9
  <2>3. g \in Commands /\ First[g] = First[p]
    BY <1>5, <1>10, PacketIs
  <2> QED
    BY <1>4, <1>5, <2>1, <2>2, <2>3
<1>12. IsEnd(g)
  <2>1. IsEnd(First[p] + Length[p] - 1)
    BY <1>5, PacketEnds
  <2> QED
    BY <1>5, <1>9, <2>1
<1>13. Rank[p] = Rank[d] + (i + 1) /\ Rank[g] = Rank[p]
  <2>1. Rank[p] = Rank[p - 1] + 1 /\ Rank[g] = Rank[First[g]] /\ Rank[d] \in Nat
    BY <1>2, <1>11, RankIs DEF p
  <2>2. p - 1 = e
    BY <1>9
  <2>3. Rank[e] = Rank[d] + i /\ Rank[d] \in Nat /\ i \in Nat
    BY <1>1, <1>4, <2>1
  <2> QED
    BY <1>11, <2>1, <2>2, <2>3
<1>14. AtEnd(waiting, i + 1, d)
  BY <1>9, <1>11, <1>12, <1>13 DEF AtEnd, g
<1> QED
  BY <1>2, <1>7, <1>8, <1>10, <1>13, <1>14 DEF e, g, p, F

LEMMA LoopSteps ==
    ASSUME SenderOK, NEW d \in 0 .. MaxCommands, LineIs(d),
           NEW waiting, WaitingOK(waiting, d)
    PROVE  \A i \in 0 .. Len(waiting) - 1 :
              AtEnd(waiting, i, d) /\ IsNext(waiting[i + 1], LastOf(waiting, i)) =>
                 /\ AtEnd(waiting, i + 1, d)
                 /\ waiting[i + 1].first \in Packets
                 /\ waiting[i + 1].fragments = Packet[waiting[i + 1].first]
                 /\ EndOf(waiting, i + 1, d) \in Packet[waiting[i + 1].first]
                 /\ Rank[waiting[i + 1].first] = Rank[d] + (i + 1)
<1> SUFFICES ASSUME NEW i \in 0 .. Len(waiting) - 1, AtEnd(waiting, i, d),
                    IsNext(waiting[i + 1], LastOf(waiting, i))
             PROVE  /\ AtEnd(waiting, i + 1, d)
                    /\ waiting[i + 1].first \in Packets
                    /\ waiting[i + 1].fragments = Packet[waiting[i + 1].first]
                    /\ EndOf(waiting, i + 1, d) \in Packet[waiting[i + 1].first]
                    /\ Rank[waiting[i + 1].first] = Rank[d] + (i + 1)
  OBVIOUS
<1> QED
  BY LoopStep

LEMMA LoopStart ==
    ASSUME SenderOK, NEW d \in 0 .. MaxCommands, LineIs(d), NEW waiting
    PROVE  AtEnd(waiting, 0, d) /\ EndOf(waiting, 0, d) = d /\ LastOf(waiting, 0) = number
<1>1. LastOf(waiting, 0) = number
  BY LastOfSteps
<1>2. /\ d \in Nat /\ number \in Nat /\ d <= started /\ started \in Nat
      /\ IsEnd(d) /\ Rank[d] \in Nat
  BY LineFacts, SenderFacts, RankIs DEF LineIs
<1>3. EndOf(waiting, 0, d) = d
  BY <1>1, <1>2 DEF EndOf
<1> QED
  BY <1>1, <1>2, <1>3 DEF AtEnd

\* However many are next in line: they are the packets after d, all of each.
LEMMA LoopIs ==
    ASSUME SenderOK, NEW d \in 0 .. MaxCommands, LineIs(d),
           NEW waiting, WaitingOK(waiting, d),
           NEW k \in 0 .. Len(waiting),
           \A i \in 1 .. k : IsNext(waiting[i], LastOf(waiting, i - 1))
    PROVE  /\ AtEnd(waiting, k, d)
           /\ \A i \in 1 .. k : /\ waiting[i].first \in Packets
                                /\ waiting[i].fragments = Packet[waiting[i].first]
                                /\ Rank[waiting[i].first] = Rank[d] + i
           /\ k # 0 => EndOf(waiting, k, d) \in Packet[waiting[k].first]
<1>0. Len(waiting) \in Nat /\ k \in Nat
  BY DEF WaitingOK
<1>1. \A i \in 0 .. Len(waiting) - 1 :
          AtEnd(waiting, i, d) /\ IsNext(waiting[i + 1], LastOf(waiting, i)) =>
             /\ AtEnd(waiting, i + 1, d)
             /\ waiting[i + 1].first \in Packets
             /\ waiting[i + 1].fragments = Packet[waiting[i + 1].first]
             /\ EndOf(waiting, i + 1, d) \in Packet[waiting[i + 1].first]
             /\ Rank[waiting[i + 1].first] = Rank[d] + (i + 1)
  BY LoopSteps
<1> DEFINE T == {i \in Nat : i <= k => AtEnd(waiting, i, d)}
<1>2. 0 \in T
  BY LoopStart
<1>3. ASSUME NEW i \in Nat, i \in T
      PROVE  i + 1 \in T
  <2> SUFFICES ASSUME i + 1 <= k
               PROVE  AtEnd(waiting, i + 1, d)
    OBVIOUS
  <2>1. i \in 0 .. Len(waiting) - 1 /\ i + 1 \in 1 .. k /\ (i + 1) - 1 = i /\ AtEnd(waiting, i, d)
    BY <1>0, <1>3
  <2>2. IsNext(waiting[i + 1], LastOf(waiting, i))
    BY <2>1
  <2> QED
    BY <1>1, <2>1, <2>2
<1> HIDE DEF T
<1>4. Nat \subseteq T
  BY <1>2, <1>3, Induction
<1>5. \A i \in 0 .. k : AtEnd(waiting, i, d)
  BY <1>0, <1>4 DEF T
<1>6. ASSUME NEW i \in 1 .. k
      PROVE  /\ waiting[i].first \in Packets
             /\ waiting[i].fragments = Packet[waiting[i].first]
             /\ Rank[waiting[i].first] = Rank[d] + i
             /\ EndOf(waiting, i, d) \in Packet[waiting[i].first]
  <2> DEFINE j == i - 1
  <2>1. j \in 0 .. Len(waiting) - 1 /\ j \in 0 .. k /\ j + 1 = i
    BY <1>0
  <2>2. IsNext(waiting[j + 1], LastOf(waiting, j)) /\ AtEnd(waiting, j, d)
    BY <1>5, <2>1
  <2> HIDE DEF j
  <2>3. /\ waiting[j + 1].first \in Packets
        /\ waiting[j + 1].fragments = Packet[waiting[j + 1].first]
        /\ EndOf(waiting, j + 1, d) \in Packet[waiting[j + 1].first]
        /\ Rank[waiting[j + 1].first] = Rank[d] + (j + 1)
    BY <1>1, <2>1, <2>2
  <2> QED
    BY <2>1, <2>3
<1>7. AtEnd(waiting, k, d)
  BY <1>0, <1>5
<1>8. ASSUME k # 0
      PROVE  EndOf(waiting, k, d) \in Packet[waiting[k].first]
  <2>1. k \in 1 .. k
    BY <1>0, <1>8
  <2> QED
    BY <1>6, <2>1
<1> QED
  BY <1>6, <1>7, <1>8

LEMMA DispatchIs ==
    ASSUME SenderOK, NEW d \in 0 .. MaxCommands, LineIs(d),
           NEW waiting, WaitingOK(waiting, d)
    PROVE  \E k \in 0 .. Len(waiting), e \in d .. started :
              LET rest == SubSeq(waiting, k + 1, Len(waiting)) IN
              /\ k = InLine(waiting) /\ IsEnd(e)
              /\ SequenceNumber(LastOf(waiting, k)) = SequenceNumber(e)
              /\ Rank[e] = Rank[d] + k
              /\ \A i \in 1 .. k : /\ Contents(waiting[i]) \in Packets
                                   /\ Rank[Contents(waiting[i])] = Rank[d] + i
              /\ WaitingOK(rest, e)
              /\ \A i \in 1 .. Len(rest) : ~IsNext(rest[i], SequenceNumber(e))
              /\ \A m : Holds(waiting, m) => m \in Commands /\ (First[m] <= e \/ Holds(rest, m))
              /\ waiting = incoming => e = d
<1> DEFINE L == Len(waiting)
           K == {k \in 0 .. L : \A i \in 1 .. k : IsNext(waiting[i], LastOf(waiting, i - 1))}
           k == Max(K)
           e == EndOf(waiting, k, d)
           rest == SubSeq(waiting, k + 1, L)
<1>1. /\ waiting \in Seq(Incoming) /\ L \in Nat
      /\ \A i \in 1 .. L : /\ Waits(waiting[i], d) /\ waiting[i] \in Incoming
                           /\ waiting[i].first \in Packets /\ waiting[i].first \in Nat
      /\ \A i, j \in 1 .. L : i < j => waiting[i].first < waiting[j].first
  <2>1. \A i \in 1 .. Len(waiting) : waiting[i] \in Incoming
    BY DEF WaitingOK
  <2> QED
    BY <2>1, CommandsAre DEF WaitingOK, Incoming
<1>2. k \in K /\ \A j \in K : j <= k
  <2>1. 0 \in K /\ K \subseteq Int /\ L \in Int /\ \A j \in K : j <= L
    BY <1>1
  <2> HIDE DEF K
  <2> QED
    BY <2>1, MaxIs
<1>3. k = InLine(waiting)
  BY DEF InLine
<1> HIDE DEF k
<1>4. k \in 0 .. L /\ k \in Nat /\ \A i \in 1 .. k : IsNext(waiting[i], LastOf(waiting, i - 1))
  BY <1>1, <1>2
<1>5. /\ AtEnd(waiting, k, d)
      /\ \A i \in 1 .. k : /\ waiting[i].first \in Packets
                           /\ waiting[i].fragments = Packet[waiting[i].first]
                           /\ Rank[waiting[i].first] = Rank[d] + i
      /\ k # 0 => e \in Packet[waiting[k].first]
  BY <1>4, LoopIs
<1>6. /\ d \in Nat /\ e \in Nat /\ d <= e /\ e <= started /\ e \in d .. started /\ IsEnd(e)
      /\ number = SequenceNumber(d) /\ started \in Nat /\ number \in Nat
      /\ LastOf(waiting, k) = number + (e - d) /\ Rank[e] = Rank[d] + k
  BY <1>5, LineFacts, SenderFacts DEF AtEnd
<1> HIDE DEF e
<1>7. SequenceNumber(LastOf(waiting, k)) = SequenceNumber(e)
  <2>1. e - d \in Nat /\ d + (e - d) = e
    BY <1>6
  <2> QED
    BY <1>6, <2>1, WrapsTo
<1>8. \A x \in Nat : SequenceNumber(SequenceNumber(e) + x) = SequenceNumber(e + x)
  BY <1>6, WrapsTo
<1>9. \A i \in 1 .. k : Contents(waiting[i]) = waiting[i].first
  BY <1>5 DEF Contents
<1>10. rest \in Seq(Incoming) /\ Len(rest) = L - k
       /\ \A i \in 1 .. L - k : rest[i] = waiting[k + i]
  BY <1>1, <1>4, RestIs
<1> HIDE DEF rest
<1>11. ASSUME NEW i \in 1 .. L, i > k
       PROVE  waiting[i].first > e
  <2> DEFINE p == waiting[i].first
  <2>1. p \in Packets /\ p \in Nat /\ p \in Commands /\ p \in d + 1 .. started
    BY <1>1, CommandsAre DEF Waits
  <2>2. CASE k = 0
    <3>1. e = d
      BY <2>2, LoopStart DEF e
    <3> QED
      BY <1>6, <2>1, <3>1
  <2>3. CASE k # 0
    <3> DEFINE q == waiting[k].first
    <3>1. q \in Packets /\ q \in Commands /\ q < p /\ e \in Packet[q]
      BY <1>1, <1>4, <1>5, <1>11, <2>3, CommandsAre
    <3>2. e \in Commands /\ First[e] = q
      <4>1. First[q] = q
        BY <3>1, FirstOfFirst
      <4> QED
        BY <3>1, <4>1, PacketIs
    <3>3. p <= e => p <= q
      BY <2>1, <3>2, FirstIs
    <3>4. q \in Nat
      BY <3>1, CommandsAre
    <3> HIDE DEF p, q
    <3>5. p > e
      BY <1>6, <2>1, <3>1, <3>3, <3>4
    <3> QED
      BY <3>5 DEF p
  <2> QED
    BY <2>2, <2>3
<1>12. \A i \in 1 .. L - k : Waits(rest[i], e) /\ Taken(rest[i].first, d) /\ rest[i].first \in Nat
                             /\ rest[i].first > e
  <2> TAKE i \in 1 .. L - k
  <2>1. k + i \in 1 .. L /\ k + i > k /\ rest[i] = waiting[k + i]
    BY <1>1, <1>4, <1>10
  <2> DEFINE p == rest[i].first
  <2>2. p > e /\ p \in d + 1 .. started /\ p \in Nat /\ Waits(rest[i], d) /\ Taken(p, d)
    BY <1>1, <1>11, <2>1 DEF Waits, Taken
  <2>3. Absolute(p) - Absolute(e) <= FreeWindows - 2
    <3>1. Absolute(d) <= Absolute(e) /\ Absolute(d) \in Nat /\ Absolute(e) \in Nat
      BY <1>6, AbsoluteSteps
    <3>2. Absolute(p) - Absolute(d) <= FreeWindows - 2
      BY <2>2 DEF Taken
    <3>3. Absolute(p) \in Nat
      <4> HIDE DEF p
      <4> QED
        BY <2>2, WindowIs
    <3>4. FreeWindows \in Nat
      BY SizeIs
    <3> HIDE DEF p
    <3> QED
      BY <3>1, <3>2, <3>3, <3>4
  <2>4. p \in e + 1 .. started
    BY <1>6, <2>2
  <2> QED
    BY <2>2, <2>3, <2>4 DEF Waits
<1>13. \A i, j \in 1 .. L - k : i < j => rest[i].first < rest[j].first
  <2> SUFFICES ASSUME NEW i \in 1 .. L - k, NEW j \in 1 .. L - k, i < j
               PROVE  rest[i].first < rest[j].first
    OBVIOUS
  <2>1. k + i \in 1 .. L /\ k + j \in 1 .. L /\ k + i < k + j
    BY <1>1, <1>4
  <2> QED
    BY <1>1, <1>10, <2>1
<1>14. WaitingOK(rest, e)
  BY <1>10, <1>12, <1>13 DEF WaitingOK
<1>15. ASSUME NEW i \in 1 .. L - k, IsNext(rest[i], SequenceNumber(e))
       PROVE  FALSE
  <2> DEFINE p == rest[i].first
  <2>1. Taken(p, d) /\ SequenceNumber(p) = SequenceNumber(SequenceNumber(e) + 1)
    BY <1>12, <1>15 DEF IsNext
  <2>2. p = e + 1
    <3>1. SequenceNumber(SequenceNumber(e) + 1) = SequenceNumber(e + 1)
      BY <1>8
    <3> HIDE DEF p
    <3> QED
      BY <1>6, <2>1, <3>1, NextIs
  <2>3. CASE i = 1
    <3>1. k + 1 \in 1 .. L /\ k + 1 \in 0 .. L /\ rest[i] = waiting[k + 1]
      <4> HIDE DEF p
      <4>1. 1 \in 1 .. L - k
        BY <2>3
      <4>2. rest[1] = waiting[k + 1]
        BY <1>10, <4>1
      <4> QED
        BY <1>1, <1>4, <2>3, <4>1, <4>2
    <3>2. SequenceNumber(LastOf(waiting, k) + 1) = SequenceNumber(e + 1)
      <4>1. LastOf(waiting, k) + 1 = number + (e - d + 1) /\ e - d + 1 \in Nat
            /\ d + (e - d + 1) = e + 1
        BY <1>6
      <4> QED
        BY <1>6, <4>1, WrapsTo
    <3>3. IsNext(waiting[k + 1], LastOf(waiting, k))
      BY <1>15, <2>2, <3>1, <3>2 DEF IsNext
    <3>4. ASSUME NEW j \in 1 .. k + 1
          PROVE  IsNext(waiting[j], LastOf(waiting, j - 1))
      <4>1. CASE j = k + 1
        <5>1. j - 1 = k
          BY <1>4, <4>1
        <5> QED
          BY <3>3, <4>1, <5>1
      <4>2. CASE j # k + 1
        <5>1. j \in 1 .. k
          BY <1>4, <4>2
        <5> QED
          BY <1>4, <5>1
      <4> QED
        BY <4>1, <4>2
    <3>5. k + 1 \in K
      BY <3>1, <3>4
    <3> HIDE DEF K
    <3> QED
      BY <1>2, <1>4, <3>5
  <2>4. CASE i # 1
    <3>1. 1 \in 1 .. L - k /\ 1 < i
      BY <1>1, <1>4, <2>4
    <3>2. rest[1].first > e /\ rest[1].first < rest[i].first /\ rest[1].first \in Nat
      BY <1>12, <1>13, <3>1
    <3> QED
      BY <1>6, <2>2, <3>2
  <2> QED
    BY <2>3, <2>4
<1>16. ASSUME NEW m, Holds(waiting, m)
       PROVE  m \in Commands /\ (First[m] <= e \/ Holds(rest, m))
  <2>1. PICK i \in 1 .. L : m \in waiting[i].fragments
    BY <1>16 DEF Holds
  <2> DEFINE p == waiting[i].first
  <2>2. m \in Packet[p] /\ p \in Packets /\ p \in Commands /\ p \in Nat
    BY <1>1, <2>1, CommandsAre DEF Waits
  <2>3. m \in Commands /\ First[m] = p
    <3>1. First[p] = p
      BY <2>2, FirstOfFirst
    <3> HIDE DEF p
    <3> QED
      BY <2>2, <3>1, PacketIs
  <2>4. CASE i > k
    <3>1. i - k \in 1 .. L - k /\ k + (i - k) = i
      BY <1>1, <1>4, <2>4
    <3>2. rest[i - k] = waiting[i]
      BY <1>10, <3>1
    <3> QED
      BY <1>10, <2>1, <2>3, <3>1, <3>2 DEF Holds
  <2>5. CASE i <= k
    <3> DEFINE q == waiting[k].first
    <3>1. k # 0 /\ k \in 1 .. L /\ i \in 1 .. k
      BY <1>4, <2>5
    <3>2. p <= q
      BY <1>1, <2>5, <3>1
    <3>3. q \in Packets /\ e \in Packet[q] /\ q \in Nat /\ q \in Commands
      BY <1>1, <1>5, <3>1, CommandsAre
    <3>4. q <= e
      <4>1. First[q] = q
        BY <3>3, FirstOfFirst
      <4>2. e \in Commands /\ First[e] = q
        BY <3>3, <4>1, PacketIs
      <4> QED
        BY <4>2, FirstIs
    <3> HIDE DEF p, q
    <3> QED
      BY <1>6, <2>2, <2>3, <3>2, <3>3, <3>4
  <2> QED
    BY <1>4, <2>4, <2>5
<1>17. ASSUME waiting = incoming
       PROVE  e = d
  <2>1. CASE k = 0
    BY <2>1, LoopStart DEF e
  <2>2. CASE k # 0
    <3>1. 1 \in 1 .. k /\ 1 \in 1 .. Len(incoming) /\ 1 - 1 = 0
      BY <1>1, <1>4, <1>17, <2>2
    <3>2. IsNext(incoming[1], LastOf(waiting, 0))
      BY <1>4, <1>17, <3>1
    <3>3. LastOf(waiting, 0) = number
      BY LoopStart
    <3> QED
      BY <3>1, <3>2, <3>3 DEF LineIs
  <2> QED
    BY <2>1, <2>2
<1> HIDE DEF K
<1>18. /\ k = InLine(waiting) /\ IsEnd(e)
       /\ SequenceNumber(LastOf(waiting, k)) = SequenceNumber(e)
       /\ Rank[e] = Rank[d] + k
       /\ \A i \in 1 .. k : /\ Contents(waiting[i]) \in Packets
                            /\ Rank[Contents(waiting[i])] = Rank[d] + i
       /\ WaitingOK(rest, e)
       /\ \A i \in 1 .. Len(rest) : ~IsNext(rest[i], SequenceNumber(e))
       /\ \A m : Holds(waiting, m) => m \in Commands /\ (First[m] <= e \/ Holds(rest, m))
       /\ waiting = incoming => e = d
  BY <1>3, <1>5, <1>6, <1>7, <1>9, <1>10, <1>14, <1>15, <1>16, <1>17
<1> QED
  BY <1>4, <1>6, <1>18, Zenon DEF rest

-----------------------------------------------------------------------------
(* Every step keeps the invariant *)

LEMMA InitLine == Init => IInv
<1> SUFFICES ASSUME Init
             PROVE  IInv
  OBVIOUS
<1>1. SenderOK
  BY InitSender
<1>2. /\ queued = 0 /\ started = 0 /\ incoming = <<>> /\ number = 0
      /\ dispatched = <<>> /\ received = <<>> /\ acks = {}
  BY DEF Init
<1>3. 0 \in 0 .. MaxCommands /\ IsEnd(0)
  BY <1>1, <1>2 DEF SenderOK, IsEnd
<1>4. SequenceNumber(0) = 0
  <2>1. 0 = Size * 0 + 0 /\ 0 \in 0 .. Size - 1
    BY SizeIs
  <2>2. (Size * 0 + 0) % Size = 0
    BY <2>1, SizeIs, DivisionIs
  <2> QED
    BY <2>1, <2>2 DEF SequenceNumber, Size
<1>5. Absolute(started) - Absolute(0) <= FreeWindows - 1
  <2>1. Absolute(0) \in Nat
    BY WindowIs
  <2> QED
    BY <1>2, <2>1, SizeIs
<1>6. Polled(0)
  <2>1. Arrived = <<>>
    BY <1>2 DEF Arrived
  <2> QED
    BY <1>2, <2>1, RankIs DEF Polled
<1>7. WaitingOK(incoming, 0)
  BY <1>2 DEF WaitingOK
<1>8. (1 .. started \ Unacknowledged) \cup acks = {}
  BY <1>2
<1>9. LineIs(0)
  BY <1>2, <1>3, <1>4, <1>5, <1>6, <1>7, <1>8 DEF LineIs
<1> QED
  BY <1>1, <1>3, <1>9 DEF IInv

\* What the sender does leaves the line as it is.
LEMMA LineStays ==
    ASSUME SenderOK, NEW d \in 0 .. MaxCommands, LineIs(d), UNCHANGED receiver,
           started' \in Nat, started <= started',
           Absolute(started') - Absolute(d) <= FreeWindows - 1,
           (1 .. started' \ Unacknowledged') \cup acks' \subseteq
               (1 .. started \ Unacknowledged) \cup acks
    PROVE  LineIs(d)'
<1>1. /\ incoming' = incoming /\ number' = number /\ dispatched' = dispatched
      /\ received' = received
  BY DEF receiver
<1>2. started \in Nat /\ d \in Nat /\ d <= started /\ 1 .. started \subseteq 1 .. started'
      /\ d + 1 .. started \subseteq d + 1 .. started'
  BY LineFacts, SenderFacts
<1>3. Polled(d)'
  BY <1>1 DEF LineIs, Polled, Arrived
<1>4. WaitingOK(incoming, d)'
  BY <1>1, <1>2 DEF LineIs, WaitingOK, Waits
<1>5. \A i \in 1 .. Len(incoming)' : ~IsNext(incoming[i], number)'
  BY <1>1 DEF LineIs
<1>6. \A n \in (1 .. started' \ Unacknowledged') \cup acks' : HasCome(n, incoming, d)'
  BY <1>1 DEF LineIs, HasCome, Holds
<1>7. d \in 0 .. started'
  BY <1>2
<1> QED
  BY <1>1, <1>3, <1>4, <1>5, <1>6, <1>7 DEF LineIs, IsEnd

LEMMA SenderLine ==
    ASSUME SenderOK, NEW d \in 0 .. MaxCommands, LineIs(d),
           \/ SendPacket \/ SendNew
           \/ \E n \in sent : TimeOut(n)
           \/ \E n \in resend : SendAgain(n)
           \/ \E n \in acks : ReceiveAcknowledgement(n)
    PROVE  SenderOK' /\ LineIs(d)'
<1>1. started \in Nat /\ Absolute(started) - Absolute(d) <= FreeWindows - 1
  BY SenderFacts DEF LineIs
<1>2. CASE SendPacket
  <2>1. UNCHANGED receiver /\ started' = started /\ Unacknowledged' = Unacknowledged /\ acks' = acks
    BY <1>2 DEF SendPacket, Unacknowledged
  <2> QED
    BY <1>1, <1>2, <2>1, SendPacketSender, LineStays
<1>3. CASE SendNew
  <2>1. UNCHANGED receiver /\ acks' \subseteq acks
    BY <1>3 DEF SendNew, Live
  <2>2. /\ SenderOK' /\ Unacknowledged' = Unacknowledged \cup {started + 1}
        /\ started' = started + 1
    BY <1>3, SendNewSender
  <2>3. 1 .. started' \ Unacknowledged' \subseteq 1 .. started \ Unacknowledged
    BY <1>1, <2>2
  <2>4. Absolute(started + 1) - Absolute(d) <= FreeWindows - 1
    <3>1. \A n \in 1 .. started \ Unacknowledged : Absolute(n) - Absolute(d) <= FreeWindows - 2
      BY DEF LineIs, HasCome
    <3>2. d \in 0 .. started
      BY DEF LineIs
    <3> QED
      BY <1>1, <1>3, <3>1, <3>2, SendNewAhead
  <2>5. started' \in Nat /\ started <= started'
    BY <1>1, <2>2
  <2> QED
    BY <2>1, <2>2, <2>3, <2>4, <2>5, LineStays
<1>4. ASSUME NEW n \in sent, TimeOut(n)
      PROVE  SenderOK' /\ LineIs(d)'
  <2>1. UNCHANGED receiver /\ started' = started /\ acks' = acks
    BY <1>4 DEF TimeOut
  <2> QED
    BY <1>1, <1>4, <2>1, TimeOutSender, LineStays
<1>5. ASSUME NEW n \in resend, SendAgain(n)
      PROVE  SenderOK' /\ LineIs(d)'
  <2>1. UNCHANGED receiver /\ started' = started /\ acks' = acks
    BY <1>5 DEF SendAgain
  <2> QED
    BY <1>1, <1>5, <2>1, SendAgainSender, LineStays
<1>6. ASSUME NEW n \in acks, ReceiveAcknowledgement(n)
      PROVE  SenderOK' /\ LineIs(d)'
  <2>1. UNCHANGED receiver /\ started' = started /\ acks' \subseteq acks
    BY <1>6 DEF ReceiveAcknowledgement
  <2>2. SenderOK' /\ Unacknowledged' = Unacknowledged \ {n}
    BY <1>6, AcknowledgementSender
  <2>3. (1 .. started' \ Unacknowledged') \cup acks' \subseteq
               (1 .. started \ Unacknowledged) \cup acks
    BY <1>6, <2>1, <2>2
  <2> QED
    BY <1>1, <2>1, <2>2, <2>3, LineStays
<1> QED
  BY <1>2, <1>3, <1>4, <1>5, <1>6

LEMMA PollLine ==
    ASSUME SenderOK, NEW d \in 0 .. MaxCommands, LineIs(d), Receive
    PROVE  SenderOK' /\ LineIs(d)' /\ Arrived' = Arrived
<1>1. /\ dispatched # <<>> /\ received' = Append(received, Head(dispatched))
      /\ dispatched' = Tail(dispatched)
      /\ UNCHANGED <<sender, incoming, number, data, acks>>
  BY DEF Receive
<1>2. received \in Seq(Packets) /\ dispatched \in Seq(Packets)
  BY DEF LineIs, Polled
<1>3. /\ received' \in Seq(Packets) /\ dispatched' \in Seq(Packets)
      /\ Arrived' = Arrived
  <2>1. /\ Head(dispatched) \in Packets /\ Tail(dispatched) \in Seq(Packets)
        /\ dispatched = <<Head(dispatched)>> \o Tail(dispatched)
    BY <1>1, <1>2
  <2> DEFINE h == Head(dispatched)
             t == Tail(dispatched)
  <2>2. h \in Packets /\ t \in Seq(Packets) /\ dispatched = <<h>> \o t
        /\ received' = Append(received, h) /\ dispatched' = t
    BY <1>1, <2>1
  <2> HIDE DEF h, t
  <2>3. Append(received, h) \o t = received \o (<<h>> \o t)
    BY <1>2, <2>2
  <2> QED
    BY <1>2, <2>2, <2>3 DEF Arrived
<1>4. Polled(d)'
  BY <1>3 DEF LineIs, Polled
<1>5. SenderOK'
  <2>1. UNCHANGED <<queued, started, sent, resend, windows, data, acks>>
    BY <1>1 DEF sender
  <2>2. UNCHANGED Unacknowledged
    BY <2>1 DEF Unacknowledged
  <2>3. Recent(data)' /\ Recent(acks)'
    BY <2>1 DEF SenderOK, Recent
  <2> QED
    BY <2>1, <2>2, <2>3, SenderFacts, SenderStays DEF SenderOK
<1>6. WaitingOK(incoming, d)'
  BY <1>1 DEF LineIs, WaitingOK, Waits, sender
<1>7. /\ started' = started /\ number' = number /\ incoming' = incoming /\ acks' = acks
      /\ Unacknowledged' = Unacknowledged
  BY <1>1 DEF sender, Unacknowledged
<1>8. \A n \in (1 .. started' \ Unacknowledged') \cup acks' : HasCome(n, incoming, d)'
  BY <1>7 DEF LineIs, HasCome, Holds
<1>9. \A i \in 1 .. Len(incoming)' : ~IsNext(incoming[i], number)'
  BY <1>7 DEF LineIs
<1>10. d \in 0 .. started' /\ IsEnd(d)' /\ number' = SequenceNumber(d)
       /\ Absolute(started)' - Absolute(d) <= FreeWindows - 1
  BY <1>7 DEF LineIs, IsEnd
<1> QED
  BY <1>3, <1>4, <1>5, <1>6, <1>8, <1>9, <1>10 DEF LineIs

\* A command is only acknowledged when its data is there.
LEMMA AcknowledgedHasCome ==
    ASSUME SenderOK, NEW d \in 0 .. MaxCommands, LineIs(d), NEW n \in data,
           NEW e \in d .. started, IsEnd(e), NEW rest,
           Queued(n) = incoming => e = d,
           \A m : Holds(Queued(n), m) => First[m] <= e \/ Holds(rest, m),
           Acknowledges(SequenceNumber(n), SequenceNumber(e))
    PROVE  HasCome(n, rest, e)
<1>1. /\ n \in Commands /\ n \in Nat /\ n \in 1 .. started /\ started \in Nat
      /\ d \in Nat /\ e \in Nat /\ d <= e /\ e <= started
      /\ First[n] \in Nat /\ First[n] <= n /\ First[n] \in 1 .. started
  BY SenderFacts, LineFacts, FirstIs, CommandsAre
<1>2. /\ Absolute(d) <= Absolute(e) /\ Absolute(n) <= Absolute(started)
      /\ Absolute(First[n]) <= Absolute(n)
      /\ Absolute(d) \in Nat /\ Absolute(e) \in Nat /\ Absolute(n) \in Nat
      /\ Absolute(First[n]) \in Nat /\ Absolute(started) \in Nat
  <2>1. Absolute(d) <= Absolute(e)
    BY <1>1, AbsoluteSteps
  <2>2. Absolute(n) <= Absolute(started)
    BY SenderFacts, <1>1
  <2>3. Absolute(First[n]) <= Absolute(n)
    BY <1>1, ShortPackets
  <2> QED
    BY <1>1, <2>1, <2>2, <2>3, WindowIs
<1>3. Absolute(started) - Absolute(d) <= FreeWindows - 1
  BY DEF LineIs
<1>4. CASE n <= e
  <2>1. First[n] <= e
    BY <1>1, <1>4
  <2>2. Absolute(n) <= Absolute(e)
    BY <1>1, <1>4, AbsoluteSteps
  <2> QED
    BY <1>2, <2>1, <2>2, SizeIs DEF HasCome
<1>5. CASE e < n
  <2>1. Absolute(n) - Absolute(e) <= FreeWindows - 1 /\ Absolute(n) - Absolute(e) < Windows
        /\ Absolute(e) <= Absolute(n)
    <3>1. Absolute(e) <= Absolute(n)
      BY <1>1, <1>5, AbsoluteSteps
    <3> QED
      BY <1>2, <1>3, <3>1, SizeIs
  <2>2. WindowAhead(SequenceNumber(n), SequenceNumber(e)) = Absolute(n) - Absolute(e)
    BY <1>1, <1>5, <2>1, AheadIs
  <2>3. Absolute(n) - Absolute(e) <= FreeWindows - 2
    <3> DEFINE x == Absolute(n) - Absolute(e)
    <3>1. x \in Nat /\ x <= FreeWindows - 1 /\ x \notin FreeWindows - 1 .. FreeWindows
      BY <1>2, <2>1, <2>2 DEF Acknowledges
    <3> HIDE DEF x
    <3>2. x <= FreeWindows - 2
      BY <3>1, SizeIs
    <3> QED
      BY <3>2 DEF x
  <2>4. First[n] > e
    <3>1. ~(n <= e)
      BY <1>1, <1>5
    <3>2. ~(First[n] <= e)
      BY <1>1, <3>1, EndSplits
    <3> QED
      BY <1>1, <3>2
  <2>5. Taken(First[n], d)
    <3>1. CASE Absolute(First[n]) - Absolute(d) <= FreeWindows - 2
      BY <1>1, <2>4, <3>1 DEF Taken
    <3>2. CASE ~(Absolute(First[n]) - Absolute(d) <= FreeWindows - 2)
      <4>1. e = d
        BY <3>2, QueuedIs DEF Taken
      <4> QED
        BY <1>2, <2>3, <3>2, <4>1, SizeIs
    <3> QED
      BY <3>1, <3>2
  <2>6. Holds(Queued(n), n)
    BY <2>5, QueuedIs
  <2>7. First[n] <= e \/ Holds(rest, n)
    BY <2>6
  <2> QED
    BY <2>3, <2>7 DEF HasCome
<1> QED
  BY <1>1, <1>4, <1>5

LEMMA RanksGoOn ==
    ASSUME NEW A \in Seq(Packets), NEW B \in Seq(Packets),
           \A i \in 1 .. Len(A) : Rank[A[i]] = i,
           \A i \in 1 .. Len(B) : Rank[B[i]] = Len(A) + i
    PROVE  /\ Len(A \o B) = Len(A) + Len(B)
           /\ \A i \in 1 .. Len(A) + Len(B) : Rank[(A \o B)[i]] = i
<1> DEFINE r == Len(A)
           k == Len(B)
<1>1. r \in Nat /\ k \in Nat /\ Len(A \o B) = r + k
      /\ \A i \in 1 .. r + k : (A \o B)[i] = IF i <= r THEN A[i] ELSE B[i - r]
  BY ConcatProperties
<1>2. ASSUME NEW i \in 1 .. r + k
      PROVE  Rank[(A \o B)[i]] = i
  <2>1. CASE i <= r
    BY <1>1, <2>1
  <2>2. CASE i > r
    <3>1. i - r \in 1 .. k /\ r + (i - r) = i
      BY <1>1, <2>2
    <3>2. (A \o B)[i] = B[i - r]
      BY <1>1, <2>2
    <3> QED
      BY <3>1, <3>2
  <2> QED
    BY <1>1, <2>1, <2>2
<1> QED
  BY <1>1, <1>2

LEMMA CommandLine ==
    ASSUME SenderOK, NEW d \in 0 .. MaxCommands, LineIs(d),
           NEW n \in data, ReceiveCommand(n)
    PROVE  IInv'
<1> DEFINE waiting == Queued(n)
           L == Len(waiting)
<1>1. WaitingOK(waiting, d) /\ \A m : Holds(incoming, m) => Holds(waiting, m)
  BY QueuedIs
<1>2. PICK k \in 0 .. L, e \in d .. started :
          LET rest == SubSeq(waiting, k + 1, L) IN
          /\ k = InLine(waiting) /\ IsEnd(e)
          /\ SequenceNumber(LastOf(waiting, k)) = SequenceNumber(e)
          /\ Rank[e] = Rank[d] + k
          /\ \A i \in 1 .. k : /\ Contents(waiting[i]) \in Packets
                               /\ Rank[Contents(waiting[i])] = Rank[d] + i
          /\ WaitingOK(rest, e)
          /\ \A i \in 1 .. Len(rest) : ~IsNext(rest[i], SequenceNumber(e))
          /\ \A m : Holds(waiting, m) => m \in Commands /\ (First[m] <= e \/ Holds(rest, m))
          /\ waiting = incoming => e = d
  <2> HIDE DEF waiting
  <2> QED
    BY <1>1, DispatchIs
<1> DEFINE rest == SubSeq(waiting, k + 1, L)
           out == [i \in 1 .. k |-> Contents(waiting[i])]
<1>3. /\ incoming' = rest /\ dispatched' = dispatched \o out
      /\ number' = SequenceNumber(e)
      /\ data' \subseteq data
      /\ acks' \subseteq acks \cup {n}
      /\ acks' \subseteq acks \/ Acknowledges(SequenceNumber(n), SequenceNumber(e))
      /\ UNCHANGED <<sender, received>>
  <2>1. k = InLine(Queued(n)) /\ SequenceNumber(LastOf(Queued(n), k)) = SequenceNumber(e)
    BY <1>2
  <2>2. PICK copies \in {{}, {n}} :
            /\ incoming' = SubSeq(Queued(n), k + 1, Len(Queued(n)))
            /\ dispatched' = dispatched \o [i \in 1 .. k |-> Contents(Queued(n)[i])]
            /\ number' = SequenceNumber(LastOf(Queued(n), k))
            /\ data' = (data \ {n}) \cup copies
            /\ IF ~(Length[n] > 1 /\ Refuses(n)) /\ Acknowledges(SequenceNumber(n), number')
               THEN acks' \in With(acks, n, MaxAcks) ELSE UNCHANGED acks
            /\ UNCHANGED <<sender, received>>
    BY <2>1 DEF ReceiveCommand
  <2>3. acks' \subseteq acks \cup {n}
        /\ (acks' \subseteq acks \/ Acknowledges(SequenceNumber(n), SequenceNumber(e)))
    BY <2>1, <2>2, WithIs
  <2> QED
    BY <2>1, <2>2, <2>3
<1>4. /\ IsEnd(e) /\ Rank[e] = Rank[d] + k
      /\ \A i \in 1 .. k : /\ Contents(waiting[i]) \in Packets
                           /\ Rank[Contents(waiting[i])] = Rank[d] + i
      /\ WaitingOK(rest, e)
      /\ \A i \in 1 .. Len(rest) : ~IsNext(rest[i], SequenceNumber(e))
      /\ \A m : Holds(waiting, m) => m \in Commands /\ (First[m] <= e \/ Holds(rest, m))
      /\ waiting = incoming => e = d
      /\ k \in Nat
  <2>1. Len(waiting) \in Nat
    BY <1>1 DEF WaitingOK
  <2> QED
    BY <1>2, <2>1
<1> HIDE DEF waiting, L, rest
<1>5. /\ d \in Nat /\ e \in Nat /\ d <= e /\ e <= started /\ started \in Nat
      /\ e \in 0 .. MaxCommands /\ e \in 0 .. started
      /\ Absolute(d) <= Absolute(e) /\ Absolute(e) \in Nat /\ Absolute(d) \in Nat
      /\ Absolute(started) \in Nat
  <2>1. d \in Nat /\ started \in Nat /\ started <= MaxCommands /\ MaxCommands \in Nat
        /\ Absolute(started) \in Nat
    BY LineFacts, SenderFacts, CommandsAre
  <2>2. e \in Nat /\ d <= e /\ e <= started /\ e \in 0 .. MaxCommands /\ e \in 0 .. started
    BY <1>2, <2>1
  <2> QED
    BY <2>1, <2>2, AbsoluteSteps
<1>6. /\ UNCHANGED <<queued, started, sent, resend, windows, received>>
      /\ Unacknowledged' = Unacknowledged
  BY <1>3 DEF sender, Unacknowledged
<1>7. n \in 1 .. started /\ Recent(data) /\ Recent(acks)
  BY SenderFacts DEF SenderOK
<1>8. SenderOK'
  <2>1. Recent(data)' /\ Recent(acks)'
    BY <1>3, <1>6, <1>7 DEF Recent
  <2> QED
    BY <1>6, <2>1, SenderFacts, SenderStays DEF SenderOK
<1>9. Polled(e)'
  <2>1. received \in Seq(Packets) /\ dispatched \in Seq(Packets)
        /\ Len(Arrived) = Rank[d] /\ \A i \in 1 .. Len(Arrived) : Rank[Arrived[i]] = i
        /\ Rank[d] \in Nat
    BY RankIs DEF LineIs, Polled
  <2>2. out \in Seq(Packets) /\ Len(out) = k /\ \A i \in 1 .. k : Rank[out[i]] = Rank[d] + i
    BY <1>4
  <2> HIDE DEF out
  <2>3. Arrived \in Seq(Packets)
    BY <2>1 DEF Arrived
  <2>4. Arrived' = Arrived \o out /\ dispatched' \in Seq(Packets)
    <3>1. received \o (dispatched \o out) = (received \o dispatched) \o out
      <4>1. received \in Seq(Packets) /\ dispatched \in Seq(Packets) /\ out \in Seq(Packets)
        BY <2>1, <2>2
      <4> QED
        BY <4>1
    <3> QED
      BY <1>3, <1>6, <2>1, <2>2, <3>1 DEF Arrived
  <2>5. Len(Arrived \o out) = Rank[d] + k
        /\ \A i \in 1 .. Rank[d] + k : Rank[(Arrived \o out)[i]] = i
    <3>1. \A i \in 1 .. Len(out) : Rank[out[i]] = Len(Arrived) + i
      BY <2>1, <2>2
    <3>2. /\ Len(Arrived \o out) = Len(Arrived) + Len(out)
          /\ \A i \in 1 .. Len(Arrived) + Len(out) : Rank[(Arrived \o out)[i]] = i
      BY <2>1, <2>2, <2>3, <3>1, RanksGoOn
    <3> QED
      BY <2>1, <2>2, <3>2
  <2>6. Len(Arrived') = Rank[e] /\ \A i \in 1 .. Len(Arrived') : Rank[(Arrived')[i]] = i
    BY <1>4, <2>4, <2>5
  <2> QED
    BY <1>6, <2>1, <2>4, <2>6 DEF Polled
<1>10. WaitingOK(incoming, e)'
  BY <1>3, <1>4, <1>6 DEF WaitingOK, Waits
<1>11. ASSUME NEW m \in (1 .. started' \ Unacknowledged') \cup acks'
       PROVE  HasCome(m, incoming, e)'
  <2>1. CASE m \in (1 .. started \ Unacknowledged) \cup acks
    <3>1. HasCome(m, incoming, d) /\ m \in 1 .. started /\ m \in Nat
      BY <2>1, SenderFacts DEF LineIs
    <3>2. First[m] \in Nat /\ Absolute(m) \in Nat
      <4>1. m \in Commands
        BY <3>1, SenderFacts
      <4>2. Absolute(m) \in Nat
        BY <3>1, WindowIs
      <4> QED
        BY <4>1, <4>2, FirstIs, CommandsAre
    <3>3. First[m] <= e \/ Holds(rest, m)
      BY <1>1, <1>4, <1>5, <3>1, <3>2 DEF HasCome
    <3>4. Absolute(m) - Absolute(e) <= FreeWindows - 2
      BY <1>5, <3>1, <3>2, SizeIs DEF HasCome
    <3> QED
      BY <1>3, <3>3, <3>4 DEF HasCome, Holds
  <2>2. CASE m \notin (1 .. started \ Unacknowledged) \cup acks
    <3>1. m = n /\ Acknowledges(SequenceNumber(n), SequenceNumber(e))
      BY <1>3, <1>6, <2>2
    <3>2. HasCome(n, rest, e)
      BY <1>2, <1>4, <3>1, AcknowledgedHasCome DEF waiting
    <3> QED
      BY <1>3, <3>1, <3>2 DEF HasCome, Holds
  <2> QED
    BY <2>1, <2>2
<1>12. \A i \in 1 .. Len(incoming)' : ~IsNext(incoming[i], number)'
  BY <1>3, <1>4
<1>13. Absolute(started)' - Absolute(e) <= FreeWindows - 1
  <2>1. Absolute(started) - Absolute(d) <= FreeWindows - 1
    BY DEF LineIs
  <2> QED
    BY <1>5, <1>6, <2>1, SizeIs DEF Absolute
<1>14. LineIs(e)'
  BY <1>3, <1>4, <1>5, <1>6, <1>9, <1>10, <1>11, <1>12, <1>13 DEF LineIs, IsEnd
<1> QED
  BY <1>5, <1>8, <1>14 DEF IInv

LEMMA StepLine == IInv /\ [Next]_vars => IInv'
<1> SUFFICES ASSUME IInv, [Next]_vars
             PROVE  IInv'
  OBVIOUS
<1>1. SenderOK
  BY DEF IInv
<1>2. PICK d \in 0 .. MaxCommands : LineIs(d)
  BY DEF IInv
<1>3. CASE SendPacket \/ SendNew
  BY <1>1, <1>2, <1>3, SenderLine DEF IInv
<1>4. CASE \E n \in sent : TimeOut(n)
  BY <1>1, <1>2, <1>4, SenderLine DEF IInv
<1>5. CASE \E n \in resend : SendAgain(n)
  BY <1>1, <1>2, <1>5, SenderLine DEF IInv
<1>6. CASE \E n \in data : ReceiveCommand(n)
  BY <1>1, <1>2, <1>6, CommandLine
<1>7. CASE \E n \in acks : ReceiveAcknowledgement(n)
  BY <1>1, <1>2, <1>7, SenderLine DEF IInv
<1>8. CASE Receive
  BY <1>1, <1>2, <1>8, PollLine DEF IInv
<1>9. CASE UNCHANGED vars
  <2>1. UNCHANGED <<queued, started, sent, resend, windows, incoming, number,
                    dispatched, received, data, acks>>
    BY <1>9 DEF vars, sender, receiver
  <2>2. UNCHANGED Unacknowledged
    BY <2>1 DEF Unacknowledged
  <2>3. SenderOK'
    BY <1>1, <2>1, <2>2 DEF SenderOK, WindowsCount, Recent, IsEnd
  <2>4. Polled(d)' /\ WaitingOK(incoming, d)'
    BY <1>2, <2>1 DEF LineIs, Polled, Arrived, WaitingOK, Waits
  <2>5. \A n \in (1 .. started' \ Unacknowledged') \cup acks' : HasCome(n, incoming, d)'
    BY <1>2, <2>1, <2>2 DEF LineIs, HasCome, Holds
  <2>6. \A i \in 1 .. Len(incoming)' : ~IsNext(incoming[i], number)'
    BY <1>2, <2>1 DEF LineIs
  <2>7. LineIs(d)'
    BY <1>2, <2>1, <2>4, <2>5, <2>6 DEF LineIs, IsEnd
  <2> QED
    BY <2>3, <2>7 DEF IInv
<1> QED
  BY <1>3, <1>4, <1>5, <1>6, <1>7, <1>8, <1>9 DEF Next

LEMMA Inductive == Spec => []IInv
BY InitLine, StepLine, PTL DEF Spec

-----------------------------------------------------------------------------
(* What follows from it *)

LEMMA LineIsTyped == IInv => TypeOK
<1> SUFFICES ASSUME IInv
             PROVE  TypeOK
  OBVIOUS
<1>1. SenderOK
  BY DEF IInv
<1>2. PICK d \in 0 .. MaxCommands : LineIs(d)
  BY DEF IInv
<1>3. /\ 1 .. started \subseteq Commands /\ Unacknowledged \subseteq Commands
      /\ data \subseteq 1 .. started /\ acks \subseteq 1 .. started
  BY <1>1, SenderFacts
<1>4. windows \in [0 .. Windows - 1 -> 0 .. WindowSize]
  <2>1. windows \in [0 .. Windows - 1 -> Nat]
        /\ \A w \in 0 .. Windows - 1 : windows[w] = Count(Unacknowledged, w)
    BY <1>1 DEF SenderOK, WindowsCount, Count, InWindow
  <2>2. \A m \in Unacknowledged : /\ Absolute(m) <= Absolute(started)
                                  /\ Absolute(started) - Absolute(m) < Windows
    <3> TAKE m \in Unacknowledged
    <3>1. Absolute(started) - Absolute(m) <= Windows - FreeWindows
      BY <1>1 DEF SenderOK
    <3>2. Absolute(m) \in Nat /\ Absolute(started) \in Nat /\ Absolute(m) <= Absolute(started)
      BY <1>1, SenderFacts
    <3> QED
      BY <3>1, <3>2, SizeIs
  <2>3. Absolute(started) \in Nat
    BY <1>1, SenderFacts
  <2> DEFINE a == Absolute(started)
             U == Unacknowledged
  <2>4. a \in Nat /\ U \in SUBSET Commands
        /\ \A m \in U : Absolute(m) <= a /\ a - Absolute(m) < Windows
    BY <1>3, <2>2, <2>3
  <2> HIDE DEF a, U
  <2>5. \A w : Count(U, w) <= WindowSize
    BY <2>4, CountBound
  <2>6. \A w \in 0 .. Windows - 1 : windows[w] \in 0 .. WindowSize
    BY <2>1, <2>5, SizeIs DEF U
  <2> QED
    BY <2>1, <2>6
<1>5. incoming \in Seq(Incoming) /\ dispatched \in Seq(Packets) /\ received \in Seq(Packets)
  BY <1>2 DEF LineIs, WaitingOK, Polled
<1>6. number \in Numbers
  BY <1>1, <1>2, LineFacts DEF Numbers, Size
<1> QED
  BY <1>1, <1>3, <1>4, <1>5, <1>6 DEF SenderOK, TypeOK

\* The variables of a channel have their types: in particular no window ever
\* counts more commands than it has numbers, and what is handed to the program
\* is never put together of fragments of two packets.
THEOREM TypeCorrect == Spec => []TypeOK
BY Inductive, LineIsTyped, PTL

\* enet_protocol_handle_acknowledge and the sending of commands keep the counts
\* of reliableWindows, whichever commands time out, are sent again or are
\* acknowledged twice.
THEOREM CountsAreRight == Spec => []WindowsCount
<1>1. IInv => WindowsCount
  BY DEF IInv, SenderOK
<1> QED
  BY <1>1, Inductive, PTL

\* enet_peer_dispatch_incoming_reliable_commands leaves nothing behind: no
\* packet whose turn it is waits for another command to come in.
THEOREM NoneIsLeft == Spec => []NextInLineIsDispatched
<1>1. IInv => NextInLineIsDispatched
  <2> SUFFICES ASSUME IInv, NEW command \in Range(incoming), IsNext(command, number)
               PROVE  FALSE
    BY DEF NextInLineIsDispatched
  <2>1. PICK d \in 0 .. MaxCommands : LineIs(d)
    BY DEF IInv
  <2>2. PICK i \in DOMAIN incoming : command = incoming[i]
    BY DEF Range
  <2>3. i \in 1 .. Len(incoming)
    BY <2>1, <2>2 DEF LineIs, WaitingOK
  <2> QED
    BY <2>1, <2>2, <2>3 DEF LineIs
<1> QED
  BY <1>1, Inductive, PTL

\* What has come out is the packets of these ranks.
LEMMA ArrivedHas ==
    ASSUME NEW d \in 0 .. MaxCommands, LineIs(d), NEW p \in Packets, p <= d
    PROVE  p \in Delivered
<1>1. /\ received \in Seq(Packets) /\ dispatched \in Seq(Packets)
      /\ Len(Arrived) = Rank[d] /\ \A i \in 1 .. Len(Arrived) : Rank[Arrived[i]] = i
  BY DEF LineIs, Polled
<1>2. p \in 1 .. MaxCommands /\ p \in 0 .. MaxCommands /\ d \in Nat /\ p \in Nat
  BY CommandsAre
<1>3. Rank[p] \in Nat /\ Rank[d] \in Nat /\ Rank[p] <= Rank[d] /\ Rank[p] > 0
  <2>1. Rank[p] = Rank[p - 1] + 1 /\ Rank[p - 1] \in Nat
    BY RankIs
  <2>2. Rank[d] \in Nat /\ Rank[p] <= Rank[d]
    BY <1>2, RankIs
  <2> QED
    BY <2>1, <2>2
<1> DEFINE i == Rank[p]
           q == Arrived[i]
<1>4. i \in 1 .. Len(Arrived) /\ Rank[q] = i
  BY <1>1, <1>3
<1>5. q \in Packets /\ (q \in Range(received) \/ q \in Range(dispatched))
  <2> HIDE DEF i
  <2>1. /\ Len(Arrived) = Len(received) + Len(dispatched)
        /\ q = IF i <= Len(received) THEN received[i] ELSE dispatched[i - Len(received)]
    BY <1>1, <1>4, ConcatProperties DEF Arrived
  <2>2. CASE i <= Len(received)
    <3>1. i \in DOMAIN received /\ q = received[i]
      BY <1>1, <1>4, <2>1, <2>2
    <3> QED
      BY <1>1, <3>1 DEF Range
  <2>3. CASE i > Len(received)
    <3>1. i - Len(received) \in DOMAIN dispatched /\ q = dispatched[i - Len(received)]
      BY <1>1, <1>4, <2>1, <2>3
    <3> QED
      BY <1>1, <3>1 DEF Range
  <2> QED
    BY <1>1, <1>4, <2>2, <2>3
<1>6. q = p
  <2>1. q \in 0 .. MaxCommands /\ q \in Nat
    BY <1>5, CommandsAre
  <2> HIDE DEF q
  <2>2. ~(q < p) /\ ~(p < q)
    BY <1>2, <1>3, <1>4, <1>5, <2>1, RankGrows
  <2> QED
    BY <1>2, <2>1, <2>2
<1> QED
  BY <1>5, <1>6 DEF Delivered

\* An acknowledgement says that the data is there: a command is forgotten by
\* the sender only when its packet has been dispatched, or waits with the
\* command's data in it.
THEOREM ForgottenArrived == Spec => []ForgottenHasArrived
<1>1. IInv => ForgottenHasArrived
  <2> SUFFICES ASSUME IInv, NEW n \in 1 .. started, n \notin Unacknowledged
               PROVE  \/ First[n] \in Delivered
                      \/ \E command \in Range(incoming) : n \in command.fragments
    BY DEF ForgottenHasArrived
  <2>1. PICK d \in 0 .. MaxCommands : LineIs(d)
    BY DEF IInv
  <2>2. First[n] <= d \/ Holds(incoming, n)
    BY <2>1 DEF LineIs, HasCome
  <2>3. n \in Commands /\ First[n] \in Packets
    BY SenderFacts, FirstIs DEF IInv
  <2>4. CASE First[n] <= d
    BY <2>1, <2>3, <2>4, ArrivedHas
  <2>5. CASE Holds(incoming, n)
    <3>1. PICK i \in 1 .. Len(incoming) : n \in incoming[i].fragments
      BY <2>5 DEF Holds
    <3>2. i \in DOMAIN incoming
      BY <2>1, <3>1 DEF LineIs, WaitingOK
    <3> QED
      BY <3>1, <3>2 DEF Range
  <2> QED
    BY <2>2, <2>4, <2>5
<1> QED
  BY <1>1, Inductive, PTL

-----------------------------------------------------------------------------
(* The channel implements the queue *)

PolledRanks == [i \in DOMAIN received |-> Rank[received[i]]]

LEMMA SendIsSend ==
    ASSUME IInv, SendPacket
    PROVE  Queue!Send
<1> DEFINE n == queued + 1
<1>1. queued \in 0 .. MaxCommands /\ IsEnd(queued) /\ n \in Commands /\ queued \in Nat
  BY SenderFacts, CommandsAre DEF IInv, SenderOK, SendPacket
<1>2. n \in Packets
  BY <1>1, CommandsAre DEF IsEnd, SendPacket
<1>3. queued' \in Packet[n] /\ First[n] = n
  <2>1. queued' = First[n] + Length[n] - 1 /\ Packet[n] = First[n] .. First[n] + Length[n] - 1
        /\ Length[n] \in Nat \ {0}
    BY <1>1, PacketIs DEF SendPacket
  <2>2. First[n] = n
    BY <1>2, FirstOfFirst
  <2> QED
    BY <1>1, <2>1, <2>2
<1>4. queued' \in Commands /\ First[queued'] = n
  BY <1>1, <1>3, PacketIs
<1>5. Rank[queued'] = Rank[n] /\ Rank[n] = Rank[queued] + 1
  <2>1. n - 1 = queued
    BY <1>1
  <2> QED
    BY <1>2, <1>4, <2>1, RankIs
<1>6. received' = received
  BY DEF SendPacket, receiver
<1> QED
  BY <1>5, <1>6 DEF Queue!Send

LEMMA PollIsReceive ==
    ASSUME IInv, Receive
    PROVE  Queue!Receive
<1>1. PICK d \in 0 .. MaxCommands : LineIs(d)
  BY DEF IInv
<1>2. SenderOK
  BY DEF IInv
<1> DEFINE h == Head(dispatched)
           j == Len(received)
<1>3. /\ received \in Seq(Packets) /\ dispatched \in Seq(Packets) /\ dispatched # <<>>
      /\ Len(Arrived) = Rank[d] /\ \A i \in 1 .. Len(Arrived) : Rank[Arrived[i]] = i
      /\ received' = Append(received, h) /\ queued' = queued
  BY <1>1 DEF LineIs, Polled, Receive, sender
<1>4. j \in Nat /\ j + 1 \in 1 .. Len(Arrived) /\ Arrived[j + 1] = h
  <2>1. Len(dispatched) \in Nat \ {0} /\ h = dispatched[1] /\ j \in Nat
    BY <1>3
  <2>2. Len(Arrived) = j + Len(dispatched)
        /\ \A i \in 1 .. j + Len(dispatched) : Arrived[i] =
              IF i <= j THEN received[i] ELSE dispatched[i - j]
    BY <1>3, ConcatProperties DEF Arrived
  <2>3. j + 1 \in 1 .. j + Len(dispatched) /\ ~(j + 1 <= j) /\ (j + 1) - j = 1
    BY <2>1
  <2>4. Arrived[j + 1] = dispatched[(j + 1) - j]
    BY <2>2, <2>3
  <2> QED
    BY <2>1, <2>2, <2>3, <2>4
<1>5. Rank[h] = j + 1 /\ j + 1 <= Rank[d]
  BY <1>3, <1>4
<1>6. Rank[d] <= Rank[queued] /\ Rank[d] \in Nat /\ Rank[queued] \in Nat
  <2>1. d \in Nat /\ d <= started /\ started <= queued /\ queued \in 0 .. MaxCommands
        /\ started \in Nat /\ queued \in Nat
    BY <1>1, <1>2, LineFacts, SenderFacts DEF SenderOK
  <2>2. d <= queued
    BY <2>1
  <2> QED
    BY <2>1, <2>2, RankIs
<1>7. Len(PolledRanks) = j /\ j < Rank[queued]
  <2>1. PolledRanks = [i \in 1 .. j |-> Rank[received[i]]]
    BY <1>3 DEF PolledRanks
  <2>2. Len(PolledRanks) = j
    BY <1>4, <2>1
  <2> QED
    BY <1>4, <1>5, <1>6, <2>2
<1>8. PolledRanks' = Append(PolledRanks, j + 1)
  <2> HIDE DEF h
  <2>1. h \in Packets
    BY <1>3 DEF h
  <2>2. PolledRanks = [i \in 1 .. j |-> Rank[received[i]]] /\ PolledRanks \in Seq(Nat)
    <3>1. \A i \in 1 .. j : received[i] \in 0 .. MaxCommands
      BY <1>3, CommandsAre
    <3>2. \A i \in 1 .. j : Rank[received[i]] \in Nat
      BY <3>1, RankIs
    <3>3. PolledRanks = [i \in 1 .. j |-> Rank[received[i]]]
      BY <1>3 DEF PolledRanks
    <3> QED
      BY <1>4, <3>2, <3>3
  <2>3. /\ DOMAIN received' = 1 .. j + 1
        /\ \A i \in 1 .. j + 1 : received'[i] = IF i <= j THEN received[i] ELSE h
    BY <1>3, <1>4, <2>1
  <2>4. PolledRanks' = [i \in 1 .. j + 1 |-> Rank[received'[i]]]
    BY <2>3 DEF PolledRanks
  <2>5. \A i \in 1 .. j + 1 : PolledRanks'[i] = IF i <= j THEN PolledRanks[i] ELSE j + 1
    <3> TAKE i \in 1 .. j + 1
    <3>1. CASE i <= j
      <4>1. i \in 1 .. j /\ received'[i] = received[i]
        BY <1>4, <2>3, <3>1
      <4> HIDE DEF j
      <4> QED
        BY <2>2, <2>4, <3>1, <4>1
    <3>2. CASE i > j
      <4>1. received'[i] = h /\ i = j + 1
        BY <1>4, <2>3, <3>2
      <4> HIDE DEF j
      <4> QED
        BY <1>4, <1>5, <2>4, <3>2, <4>1
    <3> QED
      BY <1>4, <3>1, <3>2
  <2> DEFINE s == PolledRanks
             t == PolledRanks'
  <2>6. /\ s \in Seq(Nat) /\ Len(s) = j /\ j + 1 \in Nat
        /\ t = [i \in 1 .. j + 1 |-> t[i]]
        /\ \A i \in 1 .. j + 1 : t[i] = IF i <= j THEN s[i] ELSE j + 1
    <3>1. t = [i \in 1 .. j + 1 |-> t[i]]
      BY <2>4
    <3> QED
      BY <1>4, <1>7, <2>2, <2>5, <3>1
  <2> HIDE DEF s, t, j
  <2>7. t = Append(s, j + 1)
    <3> DEFINE u == Append(s, j + 1)
    <3>1. j \in Nat /\ Len(u) = j + 1 /\ u = [i \in 1 .. j + 1 |-> u[i]]
          /\ \A i \in 1 .. j + 1 : u[i] = IF i <= j THEN s[i] ELSE j + 1
      BY <1>4, <2>6
    <3> HIDE DEF u
    <3>2. \A i \in 1 .. j + 1 : t[i] = u[i]
      BY <2>6, <3>1
    <3>3. [i \in 1 .. j + 1 |-> t[i]] = [i \in 1 .. j + 1 |-> u[i]]
      BY <3>2
    <3> QED
      BY <2>6, <3>1, <3>3 DEF u
  <2> QED
    BY <2>7 DEF s, t
<1>9. Rank[queued]' = Rank[queued]
  BY <1>3
<1> QED
  BY <1>7, <1>8, <1>9 DEF Queue!Receive, PolledRanks

\* The rest of the program may take the channel for a queue: what it polls is
\* whole packets, in the order they were sent in, each once.
THEOREM ChannelIsQueue == Spec => IsQueue
<1>1. Init => Queue!Init
  <2> SUFFICES ASSUME Init
               PROVE  Queue!Init
    OBVIOUS
  <2>1. queued = 0 /\ received = <<>>
    BY DEF Init
  <2>2. Rank[queued] = 0 /\ [i \in DOMAIN received |-> Rank[received[i]]] = <<>>
    BY <2>1, RankIs
  <2> QED
    BY <2>2 DEF Queue!Init
<1>2. IInv /\ [Next]_vars => [Queue!Next]_(Queue!vars)
  <2> SUFFICES ASSUME IInv, [Next]_vars
               PROVE  [Queue!Next]_(Queue!vars)
    OBVIOUS
  <2>1. CASE SendPacket
    BY <2>1, SendIsSend DEF Queue!Next
  <2>2. CASE Receive
    BY <2>2, PollIsReceive DEF Queue!Next
  <2>3. CASE ~SendPacket /\ ~Receive
    <3>1. queued' = queued /\ received' = received
      BY <2>3 DEF Next, vars, sender, receiver, SendNew, TimeOut, SendAgain,
                  ReceiveCommand, ReceiveAcknowledgement
    <3> QED
      BY <3>1 DEF Queue!vars
  <2> QED
    BY <2>1, <2>2, <2>3
<1> QED
  BY <1>1, <1>2, Inductive, PTL DEF Spec, IsQueue, Queue!Spec
=============================================================================
