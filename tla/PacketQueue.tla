----------------------------- MODULE PacketQueue -----------------------------
(***************************************************************************)
(* What the rest of the program relies on when it calls Host::transmit and *)
(* Host::poll: while a connection lasts, the packets of one direction are  *)
(* polled in the order they were sent in, each of them once.  Packets are  *)
(* the numbers 1, 2, ... in the order they were sent in.                   *)
(***************************************************************************)
EXTENDS Integers, Sequences

VARIABLES
    queued,         \* how many packets have been sent
    received        \* the packets the other side has polled

vars == <<queued, received>>

Init == queued = 0 /\ received = <<>>

Send == queued' = queued + 1 /\ UNCHANGED received

Receive ==
    /\ Len(received) < queued
    /\ received' = Append(received, Len(received) + 1)
    /\ UNCHANGED queued

Next == Send \/ Receive

Spec == Init /\ [][Next]_vars
=============================================================================
