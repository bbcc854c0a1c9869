------------------------------ MODULE MCQueue -------------------------------
(* Instances of Queue for TLC.                                             *)
EXTENDS Queue, TLC

CONSTANTS m1, m2, m3, m4, m5

\* Bodies of two and of five bytes, so that one newcomer can evict several.
MCSmall == {m1, m2, m3}
MCLarge == {m4, m5}
MCMsg == MCSmall \cup MCLarge
MCBodyLen == [m \in MCMsg |-> IF m \in MCLarge THEN 5 ELSE 2]

\* Messages of one length are interchangeable.
MCSymmetry == Permutations(MCSmall) \cup Permutations(MCLarge)

\* Either overflow policy on a length limit, and drop-head on a byte limit
\* that the larger body alone exceeds or not.
MCLimits ==
    {[len |-> 4, bytes |-> 0, dropHead |-> d] : d \in BOOLEAN}
        \cup {[len |-> 0, bytes |-> b, dropHead |-> TRUE] : b \in {4, 8}}

=============================================================================
