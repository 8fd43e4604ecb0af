------------------------------ MODULE Nickname ------------------------------
(***************************************************************************)
(* How an arena hands out player IDs and nicknames: Arena::allocPid,       *)
(* Arena::allocNickname and the two smallestUnused helpers.                *)
(*                                                                         *)
(* A nickname is kept as what allocNickname can tell apart in its text: a  *)
(* base and the bracketed numbers that follow it, so that "bob(2)(1)" is   *)
(* [base |-> bob, tags |-> <<2, 1>>].  Requests are taken after trim_right *)
(* has removed their trailing blanks.                                      *)
(***************************************************************************)
EXTENDS Integers, Sequences, FiniteSets

CONSTANT Bases      \* the nicknames' texts before any "(n)"

Name == [base : Bases, tags : Seq(Nat)]

\* cleanReq + "(" + std::to_string(k) + ")"
Tagged(name, k) == [name EXCEPT !.tags = Append(@, k)]

\* The name ends in "(n)": that n.
LastTag(name) == name.tags[Len(name.tags)]

\* allocNickname's loop body: the request itself stands for 0, the request
\* followed by one "(n)" for n, and every other name is skipped.
Matches(name, req) ==
    \/ name = req
    \/ name.tags # <<>> /\ name = Tagged(req, LastTag(name))

NumberOf(name, req) == IF name = req THEN 0 ELSE LastTag(name)

\* The vector usedNumbers, indexed by the player each number comes from.
UsedNumbers(nicks, req) ==
    [p \in {q \in DOMAIN nicks : Matches(nicks[q], req)} |->
        NumberOf(nicks[p], req)]

IsUsed(used, v) == \E p \in DOMAIN used : used[p] = v

IsDuplicated(used, v) ==
    \E p, q \in DOMAIN used : p # q /\ used[p] = v /\ used[q] = v

\* smallestUnused(vector) sorts the vector and counts up while the element
\* it looks at equals the counter.  It stops at the first number that is
\* missing, but also one past a number that occurs twice.
StopsAt(used, v) ==
    \/ ~IsUsed(used, v)
    \/ v > 0 /\ IsDuplicated(used, v - 1)

Counts(used) == 0 .. Cardinality(DOMAIN used)

\* A mistake: the number of names found, as if there were no gaps.
CountUsed(used) == Cardinality(DOMAIN used)

SmallestUnused(used) ==
    CHOOSE v \in Counts(used) :
        StopsAt(used, v) /\ \A u \in 0 .. v - 1 : ~StopsAt(used, u)

\* smallestUnused(map): the keys of a map are distinct.
SmallestUnusedKey(keys) ==
    CHOOSE v \in 0 .. Cardinality(keys) :
        v \notin keys /\ \A u \in 0 .. v - 1 : u \in keys

\* nicks: the nicknames of the players that are not ignored, by PID.
AllocNickname(nicks, req) ==
    LET allocated == SmallestUnused(UsedNumbers(nicks, req))
    IN  IF allocated = 0 THEN req ELSE Tagged(req, allocated)

\* A nickname as the arena makes it from a request without a number: the
\* request itself, or the request and one positive number.
Simple(name) ==
    \/ name.tags = <<>>
    \/ Len(name.tags) = 1 /\ name.tags[1] > 0
=============================================================================
