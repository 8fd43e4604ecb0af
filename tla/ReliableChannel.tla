--------------------------- MODULE ReliableChannel ---------------------------
(***************************************************************************)
(* One direction of an ENet channel between two connected peers: reliable  *)
(* commands over a network that loses, repeats and reorders datagrams.     *)
(* A packet that fits a datagram is one command; a longer one, such as the *)
(* initializer of an arena or a sky, is a command for each fragment.       *)
(* Commands are numbered from 1 in the order they are sent in, and each    *)
(* travels in a datagram of its own; the code sees the sequence number of  *)
(* a command, which wraps.                                                 *)
(*                                                                         *)
(* Clocks are abstracted: a command that was sent and not acknowledged may *)
(* time out at any moment, and a datagram may stay in the network until    *)
(* Lifetime further commands have been sent.                               *)
(***************************************************************************)
EXTENDS SequencesExt, FiniteSetsExt

CONSTANTS
    Windows,        \* ENET_PEER_RELIABLE_WINDOWS
    WindowSize,     \* ENET_PEER_RELIABLE_WINDOW_SIZE
    FreeWindows,    \* ENET_PEER_FREE_RELIABLE_WINDOWS
    InTransit,      \* peer->windowSize, in commands
    Lifetime,       \* of a datagram, in commands sent after its own
    Continued,      \* the commands that continue the packet of the one before
    MaxCommands,    \* bound: commands sent in all
    MaxBacklog,     \* bound: packets that wait to be sent, or to be polled
    MaxDatagrams,   \* bound: datagrams with commands under way at a time
    MaxAcks         \* bound: datagrams with acknowledgements under way

ASSUME ChannelAssumption ==
    /\ {Windows, WindowSize, FreeWindows, InTransit, Lifetime} \subseteq Nat \ {0}
    /\ {MaxCommands, MaxBacklog, MaxDatagrams, MaxAcks} \subseteq Nat
    /\ FreeWindows > 2 /\ Windows >= 2 * FreeWindows
    /\ Continued \subseteq 2 .. MaxCommands

VARIABLES
    queued,         \* the last command made by enet_peer_send
    started,        \* the last command that was sent at least once
    sent,           \* sentReliableCommands
    resend,         \* the commands of outgoingReliableCommands that timed out
    windows,        \* reliableWindows
    incoming,       \* incomingReliableCommands
    number,         \* incomingReliableSequenceNumber
    dispatched,     \* dispatchedCommands
    received,       \* what enet_peer_receive has returned
    data,           \* datagrams with commands
    acks            \* datagrams with acknowledgements

sender == <<queued, started, sent, resend, windows>>
receiver == <<incoming, number, dispatched, received>>
vars == <<sender, receiver, data, acks>>

Commands == 1 .. MaxCommands
Numbers == 0 .. Windows * WindowSize - 1

\* The packet a command belongs to: its commands, of which the first stands
\* for the packet.
First == [n \in Commands |-> Max(1 .. n \ Continued)]
Packet == [n \in Commands |-> {m \in Commands : First[m] = First[n]}]
Packets == Commands \ Continued
Length == [n \in Commands |-> Cardinality(Packet[n])]

\* A datagram is gone before its numbers come up again: the numbers of a
\* fragment are its own and the one its packet begins with.
ASSUME LifetimeAssumption ==
    \A n \in Commands :
        n - First[n] + Lifetime <= (Windows - FreeWindows + 1) * WindowSize

\* No packet reaches beyond the next window.  ENet takes longer ones, and then
\* the packet of a fragment that is sent again may be so far behind that it
\* looks ahead; this program's packets are shorter by orders of magnitude.
ASSUME PacketAssumption ==
    \A n \in Commands : n \div WindowSize - First[n] \div WindowSize <= 1

\* An ENetIncomingCommand: the packet it was made for and the commands whose
\* data has been put in it.
Incoming == [first : Packets, fragments : SUBSET Commands]

SequenceNumber(n) == n % (Windows * WindowSize)
Window(s) == s \div WindowSize

Unacknowledged == sent \cup resend

Init ==
    /\ queued = 0 /\ started = 0 /\ sent = {} /\ resend = {}
    /\ windows = [w \in 0 .. Windows - 1 |-> 0]
    /\ incoming = <<>> /\ number = 0 /\ dispatched = <<>> /\ received = <<>>
    /\ data = {} /\ acks = {}

-----------------------------------------------------------------------------
(* The sender *)

\* enet_peer_send of one reliable packet.
SendPacket ==
    /\ queued < MaxCommands /\ queued < started + MaxBacklog
    /\ queued' = Max(Packet[queued + 1])
    /\ UNCHANGED <<started, sent, resend, windows, receiver, data, acks>>

\* A mistake: only the window before is waited for.
WindowWrapsEarly(n) ==
    LET w == Window(SequenceNumber(n)) IN
        /\ SequenceNumber(n) % WindowSize = 0
        /\ windows[(w + Windows - 1) % Windows] >= WindowSize

\* The first command of a window waits for the window before it and for the
\* windows the other side could take for it.
WindowWrap(n) ==
    LET w == Window(SequenceNumber(n)) IN
        /\ SequenceNumber(n) % WindowSize = 0
        /\ \/ windows[(w + Windows - 1) % Windows] >= WindowSize
           \/ \E k \in 0 .. FreeWindows - 1 : windows[(w + k) % Windows] > 0

\* A datagram is gone when later packets have been sent for long enough.
Live(datagrams, last) == {n \in datagrams : n + Lifetime >= last}

\* The network takes one more datagram; when it has no room one is lost.  A
\* datagram that never arrives is a lost one, too.
With(datagrams, n, room) ==
    IF Cardinality(datagrams \cup {n}) <= room THEN {datagrams \cup {n}}
    ELSE {(datagrams \cup {n}) \ {m} : m \in datagrams \cup {n}}

\* A command is sent for the first time, after those to be sent again.
SendNew ==
    LET n == started + 1
        w == Window(SequenceNumber(n)) IN
        /\ n <= queued /\ resend = {}
        /\ Cardinality(sent) < InTransit
        /\ ~WindowWrap(n)
        /\ windows' = [windows EXCEPT ![w] = @ + 1]
        /\ started' = n
        /\ sent' = sent \cup {n}
        /\ data' \in With(Live(data, n), n, MaxDatagrams)
        /\ acks' = Live(acks, n)
        /\ UNCHANGED <<queued, resend, receiver>>

\* Commands that timed out are at the front of the outgoing ones.
SendAgain(n) ==
    /\ n \in resend
    /\ Cardinality(sent) < InTransit
    /\ sent' = sent \cup {n}
    /\ resend' = resend \ {n}
    /\ data' \in With(data, n, MaxDatagrams)
    /\ UNCHANGED <<queued, started, windows, receiver, acks>>

\* check_timeouts finds a command too long without an acknowledgement.
TimeOut(n) ==
    /\ n \in sent
    /\ sent' = sent \ {n}
    /\ resend' = resend \cup {n}
    /\ UNCHANGED <<queued, started, windows, receiver, data, acks>>

\* The command an acknowledgement is for is looked for by its number, among
\* those that were sent and then among those to be sent again.
Acknowledged(n) ==
    LET Same(S) == {m \in S : SequenceNumber(m) = SequenceNumber(n)}
    IN  IF Same(sent) # {} THEN Same(sent) ELSE Same(resend)

\* A mistake: an acknowledgement that finds no command counts, too.
RemoveBlindly(n) ==
    LET gone == Acknowledged(n)
        w == Window(SequenceNumber(n)) IN
        /\ sent' = sent \ gone
        /\ resend' = resend \ gone
        /\ windows' = [windows EXCEPT ![w] = @ - 1]

\* An acknowledgement that finds no command leaves the windows alone.
RemoveSent(n) ==
    LET gone == Acknowledged(n)
        w == Window(SequenceNumber(n)) IN
        /\ sent' = sent \ gone
        /\ resend' = resend \ gone
        /\ windows' = IF gone # {} /\ windows[w] > 0
                      THEN [windows EXCEPT ![w] = @ - 1] ELSE windows

-----------------------------------------------------------------------------
(* The receiver *)

\* The window of a number as the receiver counts: behind is far ahead.
WindowAhead(s, last) ==
    Window(s) + (IF s < last THEN Windows ELSE 0) - Window(last)

\* What the other side may send by now, and what comes too early for it.
Accepts(s) == WindowAhead(s, number) \in 0 .. FreeWindows - 2

\* A mistake: numbers are compared as they are.
StopsUnwrapped(m, s) == SequenceNumber(m) <= s

\* Where the loop from the last waiting command to the first one stops.
Stops(m, s) ==
    LET other == SequenceNumber(m) IN
        IF s >= number THEN other >= number /\ other <= s
                       ELSE other >= number \/ other <= s

Position(s) ==
    Max({0} \cup {i \in DOMAIN incoming : Stops(incoming[i].first, s)})

\* The waiting command with this number, if there is one.
Found(s) == {i \in DOMAIN incoming : SequenceNumber(incoming[i].first) = s}

\* enet_peer_queue_incoming_command, where nothing with the number waits.
Insert(n) ==
    InsertAt(incoming, Position(SequenceNumber(First[n])) + 1,
             [first |-> First[n], fragments |-> {n}])

\* handle_send_reliable: what waits after the only command of a packet.
WithWhole(n) ==
    LET s == SequenceNumber(n) IN
        IF Accepts(s) /\ s # number /\ Found(s) = {} THEN Insert(n) ELSE incoming

\* handle_send_fragment goes by the number its packet begins with.  A
\* fragment that does not fit what waits there is an error.
Refuses(n) ==
    LET s == SequenceNumber(First[n]) IN
        /\ Accepts(s)
        /\ IF Found(s) = {} THEN s = number
           ELSE \E i \in Found(s) : Length[incoming[i].first] # Length[n]

\* The bits of the fragments that have come.
Has(command, n) == \E m \in command.fragments : m - First[m] = n - First[n]

WithFragment(n) ==
    LET s == SequenceNumber(First[n]) IN
        IF ~Accepts(s) \/ Refuses(n) THEN incoming
        ELSE IF Found(s) = {} THEN Insert(n)
        ELSE [i \in DOMAIN incoming |->
                IF i \notin Found(s) \/ Has(incoming[i], n) THEN incoming[i]
                ELSE [incoming[i] EXCEPT !.fragments = @ \cup {n}]]

Queued(n) == IF Length[n] = 1 THEN WithWhole(n) ELSE WithFragment(n)

\* fragmentsRemaining is 0.
Complete(command) == Cardinality(command.fragments) = Length[command.first]

\* The last number in line when the first k waiting commands are dispatched.
LastOf(waiting, k) ==
    LET last[i \in 0 .. k] ==
            IF i = 0 THEN number ELSE last[i - 1] + Length[waiting[i].first]
    IN  last[k]

IsNext(command, last) ==
    Complete(command) /\ SequenceNumber(command.first) = SequenceNumber(last + 1)

\* dispatch_incoming_reliable_commands: how many are next in line.
InLine(waiting) ==
    Max({k \in 0 .. Len(waiting) :
            \A i \in 1 .. k : IsNext(waiting[i], LastOf(waiting, i - 1))})

\* What the application gets: a packet, or 0 for one put together of others.
Contents(command) ==
    IF command.fragments = Packet[command.first] THEN command.first ELSE 0

\* A mistake: what comes too early is acknowledged.
AcknowledgesAll(s, last) == TRUE

\* Whether a command is acknowledged, by the last number in line.
Acknowledges(s, last) == WindowAhead(s, last) \notin FreeWindows - 1 .. FreeWindows

\* A command arrives, is queued, and those in line are dispatched; it is
\* acknowledged even if it was discarded.  The network may keep a copy.
ReceiveCommand(n) ==
    \E copies \in {{}, {n}} :
        LET waiting == Queued(n)
            k == InLine(waiting) IN
            /\ n \in data /\ Len(dispatched) < MaxBacklog
            /\ incoming' = SubSeq(waiting, k + 1, Len(waiting))
            /\ dispatched' = dispatched \o [i \in 1 .. k |-> Contents(waiting[i])]
            /\ number' = SequenceNumber(LastOf(waiting, k))
            /\ data' = (data \ {n}) \cup copies
            /\ IF ~(Length[n] > 1 /\ Refuses(n)) /\ Acknowledges(SequenceNumber(n), number')
               THEN acks' \in With(acks, n, MaxAcks) ELSE UNCHANGED acks
            /\ UNCHANGED <<sender, received>>

ReceiveAcknowledgement(n) ==
    \E copies \in {{}, {n}} :
        /\ n \in acks
        /\ RemoveSent(n)
        /\ acks' = (acks \ {n}) \cup copies
        /\ UNCHANGED <<queued, started, receiver, data>>

\* The application polls.
Receive ==
    /\ dispatched # <<>>
    /\ received' = Append(received, Head(dispatched))
    /\ dispatched' = Tail(dispatched)
    /\ UNCHANGED <<sender, incoming, number, data, acks>>

-----------------------------------------------------------------------------
Next ==
    \/ SendPacket \/ SendNew
    \/ \E n \in sent : TimeOut(n)
    \/ \E n \in resend : SendAgain(n)
    \/ \E n \in data : ReceiveCommand(n)
    \/ \E n \in acks : ReceiveAcknowledgement(n)
    \/ Receive

Spec == Init /\ [][Next]_vars

-----------------------------------------------------------------------------
(* Properties *)

\* Every variable has its type.
TypeOK ==
    /\ queued \in 0 .. MaxCommands /\ started \in 0 .. queued
    /\ sent \subseteq Commands /\ resend \subseteq Commands
    /\ windows \in [0 .. Windows - 1 -> 0 .. WindowSize]
    /\ incoming \in Seq(Incoming) /\ number \in Numbers
    /\ dispatched \in Seq(Packets) /\ received \in Seq(Packets)
    /\ data \subseteq Commands /\ acks \subseteq Commands

\* The channel implements the queue that the program takes it for: packets
\* are polled whole, in the order they were sent in, each of them once,
\* although numbers are used again and datagrams are lost, repeated and
\* reordered.
Rank == [n \in 0 .. MaxCommands |-> Cardinality(Packets \cap 1 .. n)]
Queue == INSTANCE PacketQueue WITH
    queued <- Rank[queued],
    received <- [i \in DOMAIN received |-> Rank[received[i]]]
IsQueue == Queue!Spec

\* The sender forgets a command only when the other side has its data: a
\* number that was discarded because it came too early, that an older command
\* had, or whose fragment was refused, is never taken for one that has arrived.
Delivered == Range(dispatched) \cup Range(received)
ForgottenHasArrived ==
    \A n \in 1 .. started :
        \/ n \in Unacknowledged \/ First[n] \in Delivered
        \/ \E command \in Range(incoming) : n \in command.fragments

\* A packet whose turn it is never waits: wherever the numbers wrap, and
\* wherever its fragments came in, the list of waiting commands has the next
\* one at its front.
NextInLineIsDispatched ==
    \A command \in Range(incoming) : ~IsNext(command, number)

\* reliableWindows, from which the sender knows when a number may be used
\* again, counts the commands that are not acknowledged and no others,
\* whichever of them time out, are sent again or acknowledged twice.
WindowsCount ==
    \A w \in 0 .. Windows - 1 :
        windows[w] = Cardinality({n \in Unacknowledged : Window(SequenceNumber(n)) = w})
=============================================================================
