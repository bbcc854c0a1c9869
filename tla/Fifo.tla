-------------------------------- MODULE Fifo --------------------------------
(***************************************************************************)
(* What a queue promises its users (src/include/queue.h): messages leave   *)
(* from the head in the order in which they arrived at the tail, nothing   *)
(* appears from nowhere, and a message that left comes back only at the    *)
(* tail.                                                                   *)
(***************************************************************************)
EXTENDS Integers, Sequences

CONSTANT Msg

VARIABLE contents

FifoInit == contents = <<>>

\* k messages leave at the head.
Leave(k) == contents' = SubSeq(contents, k + 1, Len(contents))

\* k messages leave at the head to make room for m at the tail.
Arrive(m, k) == contents' = Append(SubSeq(contents, k + 1, Len(contents)), m)

FifoNext ==
    \E k \in 0..Len(contents) :
        \/ Leave(k)
        \/ \E m \in Msg : Arrive(m, k)

FifoSpec == FifoInit /\ [][FifoNext]_contents

=============================================================================
