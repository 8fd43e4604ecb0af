----------------------------- MODULE Allocation -----------------------------
(***************************************************************************)
(* The two loops called smallestUnused, run as the code runs them, against *)
(* the definitions that Nickname gives of what they return.  numbers is    *)
(* the vector allocNickname fills, one push_back at a time.                *)
(***************************************************************************)
EXTENDS Nickname

CONSTANTS MaxNumber, MaxLength      \* bounds on the vector

ASSUME BoundsAssumption == MaxNumber \in Nat /\ MaxLength \in Nat

VARIABLE numbers

Init == numbers = <<>>

PushBack(n) == numbers' = Append(numbers, n)

Next == \E n \in 0 .. MaxNumber : Len(numbers) < MaxLength /\ PushBack(n)

Spec == Init /\ [][Next]_numbers

-----------------------------------------------------------------------------
(* The loops *)

\* The places of f, numbers themselves, that come before i in the order of
\* their values.
Before(f, i) == {j \in DOMAIN f : f[j] < f[i] \/ (f[j] = f[i] /\ j < i)}

\* The values of f in their order.
InOrder(f) ==
    [n \in 1 .. Cardinality(DOMAIN f) |->
        f[CHOOSE i \in DOMAIN f : Cardinality(Before(f, i)) = n - 1]]

\* std::sort, forgotten.
Unsorted(vec) == vec

Sorted(vec) == InOrder(vec)

\* The loop's body with its test turned around: it counts past gaps.
StepOverGaps(loop, x) ==
    IF loop.over \/ x < loop.v THEN [loop EXCEPT !.over = TRUE]
                               ELSE [loop EXCEPT !.v = @ + 1]

\* if (x == v) ++v; else break;
Step(loop, x) ==
    IF loop.over \/ x # loop.v THEN [loop EXCEPT !.over = TRUE]
                               ELSE [loop EXCEPT !.v = @ + 1]

\* v after the loop over all elements of vec.
CountUp(vec) ==
    LET loop[n \in 0 .. Len(vec)] ==
            IF n = 0 THEN [v |-> 0, over |-> FALSE] ELSE Step(loop[n - 1], vec[n])
    IN  loop[Len(vec)].v

Found == {numbers[i] : i \in DOMAIN numbers}

\* smallestUnused(vector)
VectorLoop == CountUp(Sorted(numbers))

\* smallestUnused(map), which meets the keys in their order.
KeyLoop == CountUp(InOrder([key \in Found |-> key]))

-----------------------------------------------------------------------------

\* The numbers that occur more than once.
Twins == {u \in Found : \E i, j \in DOMAIN numbers :
                            i # j /\ numbers[i] = u /\ numbers[j] = u}

\* No loop passes over a number that is free, so that what is returned is the
\* smallest PID or number that is not used (methods.hpp:113, 126), but for one
\* case: the vector's loop returns a number that is used exactly when one
\* occurs twice and all numbers up to the one behind it are there.
SmallestUnlessTwins ==
    /\ KeyLoop \notin Found /\ 0 .. KeyLoop - 1 \subseteq Found
    /\ 0 .. VectorLoop - 1 \subseteq Found
    /\ VectorLoop \in Found <=> \E u \in Twins : 0 .. u + 1 \subseteq Found

\* As long as no number occurs twice, both loops agree, and the number
\* allocNickname appends is not among those it has found.
FreshWhenDistinct ==
    Cardinality(Found) = Len(numbers) =>
        VectorLoop = KeyLoop /\ VectorLoop \notin Found

\* What methods.hpp:126 says: "Allocate the smallest PID that isn't already
\* used in a vector."
AllocatesUnused == VectorLoop \notin Found

\* What Nickname, and with it the session, takes the two loops for: where the
\* vector's loop ends, in whatever order allocNickname has filled it, and the
\* smallest key that is free.
LoopsAreDefinitions ==
    /\ VectorLoop = SmallestUnused(numbers)
    /\ KeyLoop = SmallestUnusedKey(Found)
=============================================================================
