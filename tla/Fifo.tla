-------------------------------- MODULE Fifo --------------------------------
(* What the channels of the language promise ("Creates an unbuffered FIFO    *)
(* channel", docs/language-reference.md:645), without how they keep values:  *)
(* the sends of a channel are ordered once and for all, and its receives     *)
(* take them in that order, each of them once.  Nothing is said here of when *)
(* a send may go on: that is where buffered channels differ from others.     *)
EXTENDS Naturals, Sequences

CONSTANT Channels

VARIABLES
    accepted,   \* per channel: the values of its sends so far, in their order
    taken       \* per channel: how many of them receives have taken

FifoInit ==
    /\ accepted = [c \in Channels |-> <<>>]
    /\ taken = [c \in Channels |-> 0]

\* Channel c changes and no other; what was accepted stays as it is.
Only(c) ==
    /\ \A d \in Channels \ {c} : accepted'[d] = accepted[d] /\ taken'[d] = taken[d]
    /\ SubSeq(accepted'[c], 1, Len(accepted[c])) = accepted[c]

Accept(c) == Len(accepted'[c]) = Len(accepted[c]) + 1 /\ taken'[c] = taken[c]

Take(c) ==
    /\ taken[c] < Len(accepted[c])
    /\ accepted'[c] = accepted[c] /\ taken'[c] = taken[c] + 1

\* A value that meets a waiting receiver is accepted and taken in one step,
\* which is in order only when no earlier value is left.
Handover(c) ==
    /\ taken[c] = Len(accepted[c])
    /\ Len(accepted'[c]) = Len(accepted[c]) + 1 /\ taken'[c] = taken[c] + 1

FifoNext == \E c \in Channels : Only(c) /\ (Accept(c) \/ Take(c) \/ Handover(c))

FifoSpec == FifoInit /\ [][FifoNext]_<<accepted, taken>>
=============================================================================
