----------------------------- MODULE QueueProofs ----------------------------
(***************************************************************************)
(* Theorems about Queue, for every ring size, set of messages, policy and  *)
(* body length: the ring implements a FIFO queue, and its byte counter is  *)
(* the sum of the queued bodies.                                           *)
(***************************************************************************)
EXTENDS Queue, TLAPS, SequenceTheorems, WellFoundedInduction

-----------------------------------------------------------------------------
(* Induction.  The library states it for an operator; these lemmas state   *)
(* it for a set.                                                           *)

Below == {ss \in Nat \X Nat : ss[1] < ss[2]}

\* The order of the natural numbers is well founded.
LEMMA BelowWellFounded == IsWellFoundedOn(Below, Nat)
BY NatLessThanWellFounded, ZenonT(30) DEF OpToRel, Below

\* A set of natural numbers that is not empty has a least element.
LEMMA LeastElement ==
    ASSUME NEW T \in SUBSET Nat, T # {}
    PROVE  \E x \in T : \A y \in T : x <= y
<1>1. PICK x \in T : \A y \in T : ~(<<y, x>> \in Below)
  BY BelowWellFounded, WFMin, ZenonT(30)
<1>2. ASSUME NEW y \in T  PROVE x <= y
  <2>1. <<y, x>> \notin Below  BY <1>1
  <2>. QED  BY <2>1 DEF Below
<1>. QED  BY <1>2

\* A set that holds 0 and the successor of each of its elements holds every
\* natural number.
LEMMA SetInduction ==
    ASSUME NEW T, 0 \in T, \A n \in Nat : n \in T => n + 1 \in T
    PROVE  \A n \in Nat : n \in T
<1>. SUFFICES ASSUME Nat \ T # {}  PROVE FALSE
  BY ZenonT(30)
<1>1. PICK x \in Nat \ T : \A y \in Nat \ T : x <= y
  BY LeastElement, ZenonT(30)
<1>2. x - 1 \in Nat /\ x - 1 \in T
  <2>1. x # 0  BY <1>1
  <2>2. x - 1 \in Nat /\ ~(x <= x - 1)  BY <2>1
  <2>. QED  BY <1>1, <2>2
<1>3. (x - 1) + 1 \in T  BY <1>2, ZenonT(30)
<1>4. (x - 1) + 1 = x  OBVIOUS
<1>. QED  BY <1>3, <1>4

-----------------------------------------------------------------------------
(* Sums.                                                                   *)

\* The first n elements of s are numbers; r is what follows the first k of them.
NatUpTo(s, n) == \A i \in 1..n : s[i] \in Nat
Follows(r, s, k, n) == \A i \in 1..n : r[i] = s[k + i]
SumJoins(r, s, k, n) == SumOfFirst(s, k + n) = SumOfFirst(s, k) + SumOfFirst(r, n)

SumEq(g, s, D) == g = [i \in D |-> IF i = 0 THEN 0 ELSE g[i - 1] + s[i]]

\* Two sums of one sequence agree wherever both are defined.
LEMMA SumUnique ==
    ASSUME NEW s, NEW g, NEW h, NEW n \in Nat, NEW m \in Nat,
           SumEq(g, s, 0..n), SumEq(h, s, 0..m)
    PROVE  \A i \in Nat : i <= n /\ i <= m => g[i] = h[i]
<1>. DEFINE T == {i \in Nat : i <= n /\ i <= m => g[i] = h[i]}
<1>1. 0 \in T  BY DEF SumEq
<1>2. ASSUME NEW i \in Nat, i \in T  PROVE i + 1 \in T
  <2>. SUFFICES ASSUME i + 1 <= n, i + 1 <= m  PROVE g[i + 1] = h[i + 1]
    OBVIOUS
  <2>1. g[i] = h[i]  BY <1>2
  <2>2. i + 1 \in 0..n /\ i + 1 \in 0..m /\ i + 1 # 0 /\ (i + 1) - 1 = i  OBVIOUS
  <2>3. g[i + 1] = g[(i + 1) - 1] + s[i + 1]  BY <2>2, ZenonT(30) DEF SumEq
  <2>4. h[i + 1] = h[(i + 1) - 1] + s[i + 1]  BY <2>2, ZenonT(30) DEF SumEq
  <2>. QED  BY <2>1, <2>2, <2>3, <2>4
<1>. HIDE DEF T
<1>3. \A i \in Nat : i \in T  BY <1>1, <1>2, SetInduction, ZenonT(30)
<1>. QED  BY <1>3 DEF T

\* There is a sum up to any index.
LEMMA SumUpTo ==
    ASSUME NEW s
    PROVE  \A n \in Nat : \E g : SumEq(g, s, 0..n)
<1>. DEFINE T == {n \in Nat : \E g : SumEq(g, s, 0..n)}
<1>1. 0 \in T
  <2>. DEFINE g == [i \in 0..0 |-> 0]
  <2>1. g = [i \in 0..0 |-> IF i = 0 THEN 0 ELSE g[i - 1] + s[i]]  OBVIOUS
  <2>. QED  BY <2>1, ZenonT(30) DEF SumEq
<1>2. ASSUME NEW n \in Nat, n \in T  PROVE n + 1 \in T
  <2>1. PICK g : SumEq(g, s, 0..n)  BY <1>2
  <2>. DEFINE h == [i \in 0..(n + 1) |-> IF i = n + 1 THEN g[n] + s[n + 1] ELSE g[i]]
  <2>2. ASSUME NEW i \in 0..(n + 1)
        PROVE  h[i] = IF i = 0 THEN 0 ELSE h[i - 1] + s[i]
    <3>1. CASE i = n + 1
      <4>1. h[i] = g[n] + s[i]  BY <3>1
      <4>2. i # 0 /\ i - 1 = n /\ n \in 0..(n + 1) /\ n # n + 1  BY <3>1
      <4>3. h[i - 1] = g[n]  BY <4>2
      <4>. QED  BY <4>1, <4>2, <4>3
    <3>2. CASE i = 0
      <4>1. 0 # n + 1 /\ 0 \in 0..n  OBVIOUS
      <4>2. g[0] = 0  BY <2>1, <4>1, ZenonT(30) DEF SumEq
      <4>. QED  BY <3>2, <4>1, <4>2
    <3>3. CASE i \in 1..n
      <4>1. i \in 0..n /\ i # 0 /\ i # n + 1 /\ i - 1 # n + 1 /\ i - 1 \in 0..(n + 1)  BY <3>3
      <4>2. g[i] = g[i - 1] + s[i]  BY <2>1, <4>1, ZenonT(30) DEF SumEq
      <4>3. h[i] = g[i] /\ h[i - 1] = g[i - 1]  BY <4>1, ZenonT(30)
      <4>. QED  BY <4>1, <4>2, <4>3, ZenonT(30)
    <3>. QED  BY <3>1, <3>2, <3>3
  <2>3. SumEq(h, s, 0..(n + 1))  BY <2>2, ZenonT(30) DEF SumEq
  <2>. QED  BY <2>3
<1>. HIDE DEF T
<1>3. \A n \in Nat : n \in T  BY <1>1, <1>2, SetInduction, ZenonT(30)
<1>. QED  BY <1>3, ZenonT(30) DEF T

\* There is a sum over all indices.
LEMMA SumExists ==
    ASSUME NEW s
    PROVE  \E g : SumEq(g, s, Nat)
<1>. DEFINE G(n) == CHOOSE g : SumEq(g, s, 0..n)
            f == [n \in Nat |-> G(n)[n]]
<1>1. ASSUME NEW n \in Nat  PROVE SumEq(G(n), s, 0..n)
  BY SumUpTo
<1>. HIDE DEF G
<1>2. ASSUME NEW n \in Nat  PROVE f[n] = IF n = 0 THEN 0 ELSE f[n - 1] + s[n]
  <2>1. n \in 0..n  OBVIOUS
  <2>2. G(n)[n] = IF n = 0 THEN 0 ELSE G(n)[n - 1] + s[n]
    BY <1>1, <2>1, ZenonT(30) DEF SumEq
  <2>3. CASE n = 0  BY <2>2, <2>3
  <2>4. CASE n # 0
    <3>1. n - 1 \in Nat /\ n - 1 <= n - 1 /\ n - 1 <= n  BY <2>4
    <3>2. G(n - 1)[n - 1] = G(n)[n - 1]
      <4>1. PICK p \in Nat : p = n - 1 /\ p <= p /\ p <= n  BY <3>1
      <4>2. SumEq(G(p), s, 0..p) /\ SumEq(G(n), s, 0..n)  BY <1>1, ZenonT(30)
      <4>3. G(p)[p] = G(n)[p]  BY <4>1, <4>2, SumUnique, SMTT(30)
      <4>. QED  BY <4>1, <4>3, ZenonT(30)
    <3>. QED  BY <2>2, <2>4, <3>1, <3>2
  <2>. QED  BY <2>3, <2>4
<1>3. SumEq(f, s, Nat)  BY <1>2, ZenonT(30) DEF SumEq
<1>. QED  BY <1>3, ZenonT(30)

\* SumOfFirst() adds one element at a time.
LEMMA SumSteps ==
    ASSUME NEW s
    PROVE  /\ SumOfFirst(s, 0) = 0
           /\ \A k \in Nat : SumOfFirst(s, k + 1) = SumOfFirst(s, k) + s[k + 1]
<1>. DEFINE f == CHOOSE g : SumEq(g, s, Nat)
<1>1. SumEq(f, s, Nat)  BY SumExists
<1>2. \A k : SumOfFirst(s, k) = f[k]  BY DEF SumOfFirst, SumEq
<1>. HIDE DEF f
<1>3. f[0] = 0  BY <1>1 DEF SumEq
<1>4. ASSUME NEW k \in Nat  PROVE f[k + 1] = f[k] + s[k + 1]
  <2>1. k + 1 \in Nat /\ k + 1 # 0 /\ (k + 1) - 1 = k  OBVIOUS
  <2>2. f[k + 1] = f[(k + 1) - 1] + s[k + 1]  BY <1>1, <2>1, ZenonT(30) DEF SumEq
  <2>. QED  BY <2>1, <2>2
<1>. QED  BY <1>2, <1>3, <1>4, ZenonT(30)

\* A sum of natural numbers is one.
LEMMA SumIsNat ==
    ASSUME NEW s, NEW n \in Nat, NatUpTo(s, n)
    PROVE  \A k \in 0..n : SumOfFirst(s, k) \in Nat
<1>. DEFINE T == {k \in Nat : k <= n => SumOfFirst(s, k) \in Nat}
<1>1. 0 \in T  BY SumSteps
<1>2. ASSUME NEW k \in Nat, k \in T  PROVE k + 1 \in T
  <2>. SUFFICES ASSUME k + 1 <= n  PROVE SumOfFirst(s, k + 1) \in Nat
    OBVIOUS
  <2>1. SumOfFirst(s, k) \in Nat  BY <1>2
  <2>2. s[k + 1] \in Nat  BY DEF NatUpTo
  <2>3. SumOfFirst(s, k + 1) = SumOfFirst(s, k) + s[k + 1]  BY SumSteps
  <2>. QED  BY <2>1, <2>2, <2>3
<1>. HIDE DEF T
<1>3. \A k \in Nat : k \in T  BY <1>1, <1>2, SetInduction, ZenonT(30)
<1>. QED  BY <1>3 DEF T

\* The sum of the first k + n elements is the sum of the first k and of the n
\* that follow them.
LEMMA SumSplits ==
    ASSUME NEW s, NEW r, NEW k \in Nat, NEW n \in Nat,
           NatUpTo(s, k + n), Follows(r, s, k, n)
    PROVE  SumJoins(r, s, k, n)
<1>. DEFINE T == {j \in Nat : j <= n => SumOfFirst(s, k + j) = SumOfFirst(s, k) + SumOfFirst(r, j)}
<1>0. NatUpTo(r, n)
  <2>1. \A i \in 1..n : k + i \in 1..(k + n)  OBVIOUS
  <2>. QED  BY <2>1, ZenonT(30) DEF NatUpTo, Follows
<1>1. \A j \in 0..(k + n) : SumOfFirst(s, j) \in Nat
  <2>1. k + n \in Nat  OBVIOUS
  <2>. QED  BY <2>1, SumIsNat, ZenonT(30)
<1>2. \A j \in 0..n : SumOfFirst(r, j) \in Nat
  BY <1>0, SumIsNat, ZenonT(30)
<1>3. 0 \in T
  <2>1. SumOfFirst(r, 0) = 0  BY SumSteps
  <2>2. k \in 0..(k + n) /\ k + 0 = k  OBVIOUS
  <2>3. SumOfFirst(s, k) \in Nat  BY <1>1, <2>2, ZenonT(30)
  <2>. QED  BY <2>1, <2>2, <2>3
<1>4. ASSUME NEW j \in Nat, j \in T  PROVE j + 1 \in T
  <2>. SUFFICES ASSUME j + 1 <= n
                PROVE  SumOfFirst(s, k + (j + 1)) = SumOfFirst(s, k) + SumOfFirst(r, j + 1)
    OBVIOUS
  <2>1. SumOfFirst(s, k + j) = SumOfFirst(s, k) + SumOfFirst(r, j)  BY <1>4
  <2>2. /\ k + j \in Nat /\ k + (j + 1) = (k + j) + 1 /\ j + 1 \in 1..n /\ j \in 0..n
        /\ k \in 0..(k + n)
    OBVIOUS
  <2>3. SumOfFirst(s, (k + j) + 1) = SumOfFirst(s, k + j) + s[(k + j) + 1]
    BY <2>2, SumSteps, ZenonT(30)
  <2>4. SumOfFirst(r, j + 1) = SumOfFirst(r, j) + r[j + 1]  BY SumSteps, ZenonT(30)
  <2>5. r[j + 1] = s[(k + j) + 1] /\ r[j + 1] \in Nat
    <3>1. r[j + 1] = s[k + (j + 1)] /\ r[j + 1] \in Nat  BY <1>0, <2>2, ZenonT(30) DEF NatUpTo, Follows
    <3>. QED  BY <2>2, <3>1, ZenonT(30)
  <2>6. SumOfFirst(s, k) \in Nat /\ SumOfFirst(r, j) \in Nat  BY <1>1, <1>2, <2>2, ZenonT(30)
  <2>. QED  BY <2>1, <2>2, <2>3, <2>4, <2>5, <2>6, SMTT(30)
<1>. HIDE DEF T
<1>5. \A j \in Nat : j \in T  BY <1>3, <1>4, SetInduction, ZenonT(30)
<1>6. n \in T /\ n <= n  BY <1>5
<1>. QED  BY <1>6, ZenonT(30) DEF T, SumJoins

-----------------------------------------------------------------------------
(* Arithmetic of the ring.                                                 *)

\* The slot of a running index; the arithmetic below never looks inside it.
Wrap(x, c) == x % c

\* An index less than twice the capacity wraps around at most once.
LEMMA RingIndex ==
    ASSUME NEW c \in Nat \ {0}, NEW x \in Nat, x < 2 * c
    PROVE  /\ Wrap(x, c) = IF x < c THEN x ELSE x - c
           /\ Wrap(x, c) \in 0..(c - 1)
<1>1. CASE x < c
  BY <1>1 DEF Wrap
<1>2. CASE x >= c
  <2>1. x - c \in 0..(c - 1)  BY <1>2
  <2>2. x % c = x - c  BY <1>2, <2>1
  <2>. QED  BY <1>2, <2>1, <2>2 DEF Wrap
<1>. QED  BY <1>1, <1>2

\* Wrapping in two steps is wrapping once.
LEMMA WrapTwice ==
    ASSUME NEW c \in Nat \ {0}, NEW h \in 0..(c - 1), NEW k \in 0..c, NEW j \in Nat, k + j < c
    PROVE  /\ Wrap(h + k, c) \in 0..(c - 1)
           /\ Wrap(Wrap(h + k, c) + j, c) = Wrap(h + (k + j), c)
<1>. DEFINE g == Wrap(h + k, c)
<1>1. h + k \in Nat /\ h + k < 2 * c  OBVIOUS
<1>2. g \in 0..(c - 1) /\ g = IF h + k < c THEN h + k ELSE h + k - c
  BY <1>1, RingIndex
<1>. HIDE DEF g
<1>. DEFINE x == g + j
            y == h + (k + j)
<1>3. /\ x \in Nat /\ x < 2 * c /\ x = g + j
      /\ y \in Nat /\ y < 2 * c /\ y = h + (k + j)
  BY <1>2
<1>. HIDE DEF x, y
<1>4. Wrap(x, c) = IF x < c THEN x ELSE x - c  BY <1>3, RingIndex
<1>5. Wrap(y, c) = IF y < c THEN y ELSE y - c  BY <1>3, RingIndex
<1>6. CASE h + k < c
  <2>1. x = y  BY <1>2, <1>3, <1>6
  <2>. QED  BY <1>2, <2>1 DEF g, x, y
<1>7. CASE h + k >= c
  <2>1. x = y - c /\ x < c /\ y >= c  BY <1>2, <1>3, <1>7
  <2>2. Wrap(x, c) = Wrap(y, c)  BY <1>3, <1>4, <1>5, <2>1
  <2>. QED  BY <1>2, <2>2 DEF g, x, y
<1>. QED  BY <1>6, <1>7

\* A ring with slots sl, capacity c, head h and n messages, and what it holds.
IsRing(sl, c, h, n) ==
    /\ c \in Nat \ {0}
    /\ sl \in [0..(c - 1) -> Msg \cup {Null}]
    /\ h \in 0..(c - 1)
    /\ n \in 0..c
    /\ \A i \in 1..n : sl[Wrap(h + i - 1, c)] \in Msg
RingOf(sl, c, h, n) == [i \in 1..n |-> sl[Wrap(h + i - 1, c)]]
Holds(sl, c, h, n, s) == IsRing(sl, c, h, n) /\ RingOf(sl, c, h, n) = s

\* What a ring holds is a sequence of messages.
LEMMA RingIsSeq ==
    ASSUME NEW sl, NEW c, NEW h, NEW n, IsRing(sl, c, h, n)
    PROVE  /\ RingOf(sl, c, h, n) \in Seq(Msg)
           /\ Len(RingOf(sl, c, h, n)) = n
<1>1. n \in Nat  BY DEF IsRing
<1>2. \A i \in 1..n : sl[Wrap(h + i - 1, c)] \in Msg  BY ZenonT(30) DEF IsRing
<1>3. RingOf(sl, c, h, n) \in [1..n -> Msg]  BY <1>2, ZenonT(30) DEF RingOf
<1>. HIDE DEF RingOf
<1>. QED  BY <1>1, <1>3

\* The i-th live slot.
LEMMA LiveSlot ==
    ASSUME NEW sl, NEW c, NEW h, NEW n, IsRing(sl, c, h, n), NEW i \in 0..(c - 1)
    PROVE  /\ Wrap(h + i, c) = IF h + i < c THEN h + i ELSE h + i - c
           /\ Wrap(h + i, c) \in 0..(c - 1)
<1>1. /\ c \in Nat \ {0} /\ h \in 0..(c - 1)
      /\ h + i \in Nat /\ h + i < 2 * c
  BY DEF IsRing
<1>2. Wrap(h + i, c) = IF h + i < c THEN h + i ELSE h + i - c
  BY <1>1, RingIndex
<1>. QED  BY <1>1, <1>2

\* Storing a message behind the n live ones appends it.
LEMMA StoreAppends ==
    ASSUME NEW sl, NEW c, NEW h, NEW n, IsRing(sl, c, h, n), n < c, NEW m \in Msg
    PROVE  Holds([sl EXCEPT ![Wrap(h + n, c)] = m], c, h, n + 1, Append(RingOf(sl, c, h, n), m))
<1>. SUFFICES ASSUME NEW new, new = [sl EXCEPT ![Wrap(h + n, c)] = m]
              PROVE  Holds(new, c, h, n + 1, Append(RingOf(sl, c, h, n), m))
  BY ZenonT(30)
<1>1. c \in Nat \ {0} /\ sl \in [0..(c - 1) -> Msg \cup {Null}] /\ h \in 0..(c - 1) /\ n \in 0..(c - 1)
  BY DEF IsRing
<1>2. Wrap(h + n, c) \in 0..(c - 1) /\ Wrap(h + n, c) = IF h + n < c THEN h + n ELSE h + n - c
  BY <1>1, LiveSlot, SMTT(30)
<1>3. ASSUME NEW i \in 1..n
      PROVE  /\ Wrap(h + i - 1, c) \in 0..(c - 1)
             /\ Wrap(h + i - 1, c) # Wrap(h + n, c)
             /\ sl[Wrap(h + i - 1, c)] \in Msg
  <2>1. i - 1 \in 0..(c - 1) /\ h + (i - 1) = h + i - 1  BY <1>1
  <2>2. /\ Wrap(h + i - 1, c) \in 0..(c - 1)
        /\ Wrap(h + i - 1, c) = IF h + i - 1 < c THEN h + i - 1 ELSE h + i - 1 - c
    <3>1. /\ Wrap(h + (i - 1), c) \in 0..(c - 1)
          /\ Wrap(h + (i - 1), c) = IF h + (i - 1) < c THEN h + (i - 1) ELSE h + (i - 1) - c
      BY <2>1, LiveSlot
    <3>. QED  BY <2>1, <3>1
  <2>3. Wrap(h + i - 1, c) # Wrap(h + n, c)  BY <1>1, <1>2, <2>2
  <2>. QED  BY <2>2, <2>3 DEF IsRing
<1>4. new \in [0..(c - 1) -> Msg \cup {Null}] /\ new[Wrap(h + n, c)] = m
  BY <1>1, <1>2
<1>5. \A i \in 1..n : new[Wrap(h + i - 1, c)] = sl[Wrap(h + i - 1, c)]
  BY <1>1, <1>2, <1>3, SMTT(30)
<1>6. new[Wrap(h + (n + 1) - 1, c)] = m
  <2>1. h + (n + 1) - 1 = h + n  BY <1>1
  <2>. QED  BY <1>4, <2>1
<1>7. IsRing(new, c, h, n + 1)
  <2>1. ASSUME NEW i \in 1..(n + 1)  PROVE new[Wrap(h + i - 1, c)] \in Msg
    <3>1. CASE i = n + 1  BY <1>6, <3>1
    <3>2. CASE i \in 1..n  BY <1>3, <1>5, <3>2
    <3>. QED  BY <1>1, <3>1, <3>2
  <2>. QED  BY <1>1, <1>4, <2>1 DEF IsRing
<1>8. RingOf(new, c, h, n + 1) = Append(RingOf(sl, c, h, n), m)
  <2>. DEFINE old == RingOf(sl, c, h, n)
  <2>1. old \in Seq(Msg) /\ Len(old) = n  BY RingIsSeq
  <2>2. \A i \in 1..n : RingOf(new, c, h, n + 1)[i] = old[i]
    BY <1>1, <1>5 DEF RingOf
  <2>3. RingOf(new, c, h, n + 1)[n + 1] = m
    BY <1>1, <1>6 DEF RingOf
  <2>4. RingOf(new, c, h, n + 1) \in Seq(Msg) /\ Len(RingOf(new, c, h, n + 1)) = n + 1
    BY <1>7, RingIsSeq
  <2>. HIDE DEF old
  <2>5. /\ Append(old, m) \in Seq(Msg) /\ Len(Append(old, m)) = n + 1
        /\ \A i \in 1..n : Append(old, m)[i] = old[i]
        /\ Append(old, m)[n + 1] = m
    BY <2>1, AppendProperties
  <2>6. \A i \in 1..(n + 1) : RingOf(new, c, h, n + 1)[i] = Append(old, m)[i]
    <3>1. \A i \in 1..(n + 1) : i = n + 1 \/ i \in 1..n  BY <1>1
    <3>. QED  BY <2>2, <2>3, <2>5, <3>1, ZenonT(30)
  <2>. QED  BY <2>4, <2>5, <2>6, SeqEqual, ZenonT(30) DEF old
<1>. QED  BY <1>7, <1>8, ZenonT(30) DEF Holds

\* Taking the k oldest messages out of a ring leaves the others, in order.
LEMMA TakeOldest ==
    ASSUME NEW sl, NEW c, NEW h, NEW n, IsRing(sl, c, h, n), NEW k \in 0..n,
           NEW new,
           new = [s \in DOMAIN sl |->
                    IF \E i \in 0..(k - 1) : s = Wrap(h + i, c) THEN Null ELSE sl[s]]
    PROVE  Holds(new, c, Wrap(h + k, c), n - k, SubSeq(RingOf(sl, c, h, n), k + 1, n))
<1>1. c \in Nat \ {0} /\ sl \in [0..(c - 1) -> Msg \cup {Null}] /\ h \in 0..(c - 1) /\ n \in 0..c
  BY DEF IsRing
<1>. DEFINE g == Wrap(h + k, c)
<1>2. g \in 0..(c - 1) /\ (g = h + k \/ g = h + k - c)
  <2>1. h + k \in Nat /\ h + k < 2 * c  BY <1>1
  <2>2. g = IF h + k < c THEN h + k ELSE h + k - c  BY <1>1, <2>1, RingIndex
  <2>. QED  BY <1>1, <2>1, <2>2
<1>3. new \in [0..(c - 1) -> Msg \cup {Null}]  BY <1>1
<1>. HIDE DEF g
<1>4. ASSUME NEW i \in 1..(n - k)
      PROVE  /\ Wrap(g + i - 1, c) = Wrap(h + (k + i) - 1, c)
             /\ new[Wrap(g + i - 1, c)] = sl[Wrap(h + (k + i) - 1, c)]
             /\ new[Wrap(g + i - 1, c)] \in Msg
  <2>. DEFINE x == g + i - 1
              y == h + (k + i) - 1
  <2>1. /\ k + i \in 1..n /\ i - 1 \in Nat /\ k \in 0..c /\ k + (i - 1) < c
        /\ x = g + (i - 1)
        /\ y \in Nat /\ y < 2 * c /\ y = h + (k + (i - 1)) /\ y = h + (k + i) - 1
    BY <1>1, <1>2
  <2>. HIDE DEF x, y
  <2>2. Wrap(x, c) = Wrap(y, c)
    <3>. DEFINE j == i - 1
    <3>1. j \in Nat /\ k + j < c  BY <2>1
    <3>. HIDE DEF j
    <3>2. Wrap(Wrap(h + k, c) + j, c) = Wrap(h + (k + j), c)
      BY <1>1, <2>1, <3>1, WrapTwice, ZenonT(30)
    <3>. QED  BY <2>1, <3>2, ZenonT(30) DEF g, j
  <2>3. Wrap(y, c) = (IF y < c THEN y ELSE y - c) /\ Wrap(y, c) \in 0..(c - 1)
    BY <1>1, <2>1, RingIndex, ZenonT(30)
  <2>4. Wrap(x, c) \in 0..(c - 1)  BY <2>2, <2>3, ZenonT(30)
  <2>5. ASSUME NEW j \in 0..(k - 1)  PROVE Wrap(h + j, c) # Wrap(y, c)
    <3>1. j \in 0..(c - 1)  BY <1>1
    <3>2. Wrap(h + j, c) = IF h + j < c THEN h + j ELSE h + j - c  BY <3>1, LiveSlot
    <3>. QED  BY <1>1, <2>1, <2>3, <3>1, <3>2, SMTT(30)
  <2>6. new[Wrap(x, c)] = sl[Wrap(x, c)]  BY <1>1, <2>2, <2>4, <2>5, ZenonT(30)
  <2>7. sl[Wrap(h + (k + i) - 1, c)] \in Msg  BY <2>1, ZenonT(30) DEF IsRing
  <2>. QED  BY <2>2, <2>6, <2>7, ZenonT(30) DEF x, y
<1>5. n - k \in 0..c  BY <1>1
<1>6. IsRing(new, c, g, n - k)  BY <1>1, <1>2, <1>3, <1>4, <1>5, ZenonT(30) DEF IsRing
<1>7. RingOf(new, c, g, n - k) = SubSeq(RingOf(sl, c, h, n), k + 1, n)
  <2>. DEFINE old == RingOf(sl, c, h, n)
              rest == RingOf(new, c, g, n - k)
  <2>1. old \in Seq(Msg) /\ Len(old) = n  BY RingIsSeq
  <2>2. rest \in Seq(Msg) /\ Len(rest) = n - k  BY <1>6, RingIsSeq
  <2>3. \A i \in 1..(n - k) : rest[i] = old[k + i]
    <3>. TAKE i \in 1..(n - k)
    <3>1. k + i \in 1..n  BY <1>1
    <3>. QED  BY <1>4, <3>1 DEF RingOf
  <2>. HIDE DEF old, rest
  <2>4. \A i \in (k + 1)..n : old[i] \in Msg
    <3>1. \A i \in (k + 1)..n : i \in 1..Len(old)  BY <1>1, <2>1
    <3>. QED  BY <2>1, <3>1, ElementOfSeq
  <2>5. k + 1 \in Int /\ n \in Int  BY <1>1
  <2>6. /\ SubSeq(old, k + 1, n) \in Seq(Msg)
        /\ Len(SubSeq(old, k + 1, n)) = IF k + 1 <= n THEN n - (k + 1) + 1 ELSE 0
        /\ \A i \in 1..(n - (k + 1) + 1) : SubSeq(old, k + 1, n)[i] = old[(k + 1) + i - 1]
    BY <2>4, <2>5, SubSeqProperties
  <2>7. /\ Len(SubSeq(old, k + 1, n)) = n - k
        /\ \A i \in 1..(n - k) : SubSeq(old, k + 1, n)[i] = old[k + i]
    <3>1. n - (k + 1) + 1 = n - k  BY <1>1
    <3>2. \A i \in 1..(n - k) : (k + 1) + i - 1 = k + i  BY <1>1
    <3>3. Len(SubSeq(old, k + 1, n)) = n - k  BY <1>1, <2>6, SMTT(30)
    <3>. QED  BY <2>6, <3>1, <3>2, <3>3
  <2>. QED  BY <2>2, <2>3, <2>6, <2>7, SeqEqual, ZenonT(60) DEF old, rest
<1>. QED  BY <1>6, <1>7, ZenonT(30) DEF g, Holds

\* queue_grow() moves the messages of a full ring to the front of a larger one.
LEMMA GrowKeeps ==
    ASSUME IsRing(slots, cap, head, count)
    PROVE  /\ IsRing(Grown, 2 * cap, 0, count)
           /\ RingOf(Grown, 2 * cap, 0, count) = RingOf(slots, cap, head, count)
<1>1. /\ cap \in Nat \ {0} /\ slots \in [0..(cap - 1) -> Msg \cup {Null}]
      /\ head \in 0..(cap - 1) /\ count \in 0..cap
  BY DEF IsRing
<1>2. PICK c \in Nat \ {0} : c = 2 * cap  BY <1>1
<1>3. ASSUME NEW i \in 0..(c - 1), i < count
      PROVE  /\ Grown[i] = slots[Wrap(head + (i + 1) - 1, cap)]
             /\ slots[Wrap(head + (i + 1) - 1, cap)] \in Msg
  <2>1. i + 1 \in 1..count /\ head + (i + 1) - 1 = head + i  BY <1>1, <1>3
  <2>2. Grown[i] = slots[(head + i) % cap]  BY <1>2, <1>3, ZenonT(30) DEF Grown
  <2>3. slots[Wrap(head + (i + 1) - 1, cap)] \in Msg  BY <2>1, ZenonT(30) DEF IsRing
  <2>4. Wrap(head + (i + 1) - 1, cap) = (head + i) % cap  BY <2>1, ZenonT(30) DEF Wrap
  <2>. QED  BY <2>2, <2>3, <2>4, ZenonT(30)
<1>4. Grown \in [0..(c - 1) -> Msg \cup {Null}]
  <2>1. \A i \in 0..(c - 1) : Grown[i] = IF i < count THEN slots[(head + i) % cap] ELSE Null
    BY <1>2, ZenonT(30) DEF Grown
  <2>2. \A i \in 0..(c - 1) : Grown[i] \in Msg \cup {Null}
    BY <1>3, <2>1, ZenonT(30)
  <2>3. Grown = [i \in 0..(c - 1) |-> Grown[i]]
    BY <1>2, ZenonT(30) DEF Grown
  <2>. QED  BY <2>2, <2>3, ZenonT(30)
<1>5. ASSUME NEW i \in 1..count
      PROVE  /\ Grown[Wrap(0 + i - 1, c)] = slots[Wrap(head + i - 1, cap)]
             /\ Grown[Wrap(0 + i - 1, c)] \in Msg
  <2>. DEFINE j == i - 1
  <2>1. /\ j \in 0..(c - 1) /\ j < count /\ j + 1 = i /\ 0 + i - 1 = j
        /\ j \in Nat /\ j < 2 * c /\ j < c
    BY <1>1, <1>2
  <2>. HIDE DEF j
  <2>2. Wrap(j, c) = j  BY <2>1, RingIndex
  <2>. QED  BY <1>3, <2>1, <2>2, ZenonT(30)
<1>6. IsRing(Grown, c, 0, count)
  <2>1. 0 \in 0..(c - 1) /\ count \in 0..c  BY <1>1, <1>2
  <2>. QED  BY <1>4, <1>5, <2>1, ZenonT(30) DEF IsRing
<1>7. RingOf(Grown, c, 0, count) = RingOf(slots, cap, head, count)
  BY <1>5, ZenonT(30) DEF RingOf
<1>. QED  BY <1>2, <1>6, <1>7, ZenonT(30)

-----------------------------------------------------------------------------
(* Bytes.                                                                  *)

LengthsOf(c) == [i \in 1..Len(c) |-> BodyLen[c[i]]]
Bytes(c) == SumOfFirst(LengthsOf(c), Len(c))

\* The lengths of the queued bodies are natural numbers.
LEMMA LengthsAreNat ==
    ASSUME NEW c \in Seq(Msg)
    PROVE  Len(c) \in Nat /\ NatUpTo(LengthsOf(c), Len(c))
<1>1. \A i \in 1..Len(c) : c[i] \in Msg  BY ElementOfSeq, ZenonT(30)
<1>2. \A i \in 1..Len(c) : BodyLen[c[i]] \in Nat  BY <1>1, QueueAssumption, ZenonT(30)
<1>3. \A i \in 1..Len(c) : LengthsOf(c)[i] = BodyLen[c[i]]  BY ZenonT(30) DEF LengthsOf
<1>4. Len(c) \in Nat  BY LenProperties
<1>. QED  BY <1>2, <1>3, <1>4, ZenonT(30) DEF NatUpTo

\* A message at the tail adds its body.
LEMMA BytesOfAppend ==
    ASSUME NEW c \in Seq(Msg), NEW m \in Msg
    PROVE  Bytes(Append(c, m)) = Bytes(c) + BodyLen[m]
<1>. DEFINE d == Append(c, m)
            n == Len(c)
<1>1. /\ d \in Seq(Msg) /\ Len(d) = n + 1
      /\ \A i \in 1..n : d[i] = c[i]
      /\ d[n + 1] = m
  BY AppendProperties
<1>2. n \in Nat  BY LenProperties
<1>. HIDE DEF d, n
<1>3. NatUpTo(LengthsOf(d), 0 + n)
  <2>1. NatUpTo(LengthsOf(d), n + 1)  BY <1>1, LengthsAreNat, ZenonT(30)
  <2>2. \A i \in 1..(0 + n) : i \in 1..(n + 1)  BY <1>2
  <2>. QED  BY <2>1, <2>2, ZenonT(30) DEF NatUpTo
<1>4. Follows(LengthsOf(c), LengthsOf(d), 0, n)
  <2>1. ASSUME NEW i \in 1..n  PROVE LengthsOf(c)[i] = LengthsOf(d)[0 + i]
    <3>1. i \in 1..(n + 1) /\ 0 + i = i  BY <1>2
    <3>2. LengthsOf(c)[i] = BodyLen[c[i]]  BY ZenonT(30) DEF LengthsOf, n
    <3>3. LengthsOf(d)[i] = BodyLen[d[i]]  BY <1>1, <3>1, ZenonT(30) DEF LengthsOf
    <3>. QED  BY <1>1, <3>1, <3>2, <3>3, ZenonT(30)
  <2>. QED  BY <2>1, ZenonT(30) DEF Follows
<1>5. SumOfFirst(LengthsOf(d), n) = SumOfFirst(LengthsOf(c), n)
  <2>1. n \in 0..n /\ 0 + n = n  BY <1>2
  <2>2. 0 \in Nat  OBVIOUS
  <2>3. SumOfFirst(LengthsOf(d), 0 + n) = SumOfFirst(LengthsOf(d), 0) + SumOfFirst(LengthsOf(c), n)
    <3>1. SumJoins(LengthsOf(c), LengthsOf(d), 0, n)
      BY <1>2, <1>3, <1>4, <2>2, SumSplits, ZenonT(30)
    <3>. QED  BY <3>1, ZenonT(30) DEF SumJoins
  <2>4. SumOfFirst(LengthsOf(d), 0) = 0  BY SumSteps, ZenonT(30)
  <2>5. SumOfFirst(LengthsOf(c), n) \in Nat
    BY <1>2, <2>1, LengthsAreNat, SumIsNat, ZenonT(30) DEF n
  <2>. QED  BY <2>1, <2>3, <2>4, <2>5
<1>6. SumOfFirst(LengthsOf(d), n + 1) = SumOfFirst(LengthsOf(d), n) + LengthsOf(d)[n + 1]
  BY <1>2, SumSteps, ZenonT(30)
<1>7. LengthsOf(d)[n + 1] = BodyLen[m]
  <2>1. n + 1 \in 1..Len(d)  BY <1>1, <1>2
  <2>. QED  BY <1>1, <2>1, ZenonT(30) DEF LengthsOf
<1>. QED  BY <1>1, <1>5, <1>6, <1>7, ZenonT(30) DEF Bytes, d, n

\* Taking the k oldest messages out takes off their bodies.
LEMMA BytesOfRest ==
    ASSUME NEW c \in Seq(Msg), NEW k \in 0..Len(c)
    PROVE  /\ SubSeq(c, k + 1, Len(c)) \in Seq(Msg)
           /\ SumOfFirst(LengthsOf(c), k) \in Nat
           /\ Bytes(SubSeq(c, k + 1, Len(c))) = Bytes(c) - SumOfFirst(LengthsOf(c), k)
<1>. DEFINE n == Len(c)
            d == SubSeq(c, k + 1, n)
<1>1. n \in Nat /\ k \in Nat /\ n - k \in Nat /\ k + (n - k) = n  BY LenProperties
<1>2. /\ d \in Seq(Msg) /\ Len(d) = n - k
      /\ \A i \in 1..(n - k) : d[i] = c[k + i]
  <2>1. \A i \in (k + 1)..n : c[i] \in Msg
    <3>1. \A i \in (k + 1)..n : i \in 1..Len(c)  BY <1>1
    <3>. QED  BY <3>1, ElementOfSeq, ZenonT(30)
  <2>2. k + 1 \in Int /\ n \in Int  BY <1>1
  <2>. HIDE DEF n
  <2>3. /\ d \in Seq(Msg)
        /\ Len(d) = IF k + 1 <= n THEN n - (k + 1) + 1 ELSE 0
        /\ \A i \in 1..(n - (k + 1) + 1) : d[i] = c[(k + 1) + i - 1]
    BY <2>1, <2>2, SubSeqProperties, SMTT(30)
  <2>. HIDE DEF d
  <2>4. Len(d) = n - k /\ n - (k + 1) + 1 = n - k  BY <1>1, <2>3, SMTT(30)
  <2>5. \A i \in 1..(n - k) : (k + 1) + i - 1 = k + i  BY <1>1
  <2>. QED  BY <2>3, <2>4, <2>5, ZenonT(30)
<1>. HIDE DEF d
<1>3. NatUpTo(LengthsOf(c), k + (n - k))
  BY <1>1, LengthsAreNat, ZenonT(30)
<1>4. Follows(LengthsOf(d), LengthsOf(c), k, n - k)
  <2>1. ASSUME NEW i \in 1..(n - k)  PROVE LengthsOf(d)[i] = LengthsOf(c)[k + i]
    <3>1. k + i \in 1..n  BY <1>1
    <3>2. LengthsOf(d)[i] = BodyLen[d[i]]  BY <1>2, ZenonT(30) DEF LengthsOf
    <3>3. LengthsOf(c)[k + i] = BodyLen[c[k + i]]  BY <3>1, ZenonT(30) DEF LengthsOf
    <3>. QED  BY <1>2, <3>2, <3>3, ZenonT(30)
  <2>. QED  BY <2>1, ZenonT(30) DEF Follows
<1>5. SumOfFirst(LengthsOf(c), k + (n - k))
        = SumOfFirst(LengthsOf(c), k) + SumOfFirst(LengthsOf(d), n - k)
  <2>1. k \in Nat  BY <1>1
  <2>2. n - k \in Nat  BY <1>1
  <2>3. SumJoins(LengthsOf(d), LengthsOf(c), k, n - k)
    BY <1>3, <1>4, <2>1, <2>2, SumSplits, ZenonT(30)
  <2>. QED  BY <2>3, ZenonT(30) DEF SumJoins
<1>6. SumOfFirst(LengthsOf(c), k) \in Nat
  BY <1>1, LengthsAreNat, SumIsNat, ZenonT(30)
<1>7. SumOfFirst(LengthsOf(d), n - k) \in Nat
  <2>1. n - k \in 0..(n - k)  BY <1>1
  <2>2. NatUpTo(LengthsOf(d), n - k)  BY <1>2, LengthsAreNat, ZenonT(30)
  <2>. QED  BY <1>1, <2>1, <2>2, SumIsNat, ZenonT(30)
<1>8. Bytes(d) = SumOfFirst(LengthsOf(d), n - k) /\ Bytes(c) = SumOfFirst(LengthsOf(c), n)
  BY <1>2, ZenonT(30) DEF Bytes
<1>. HIDE DEF n
<1>9. Bytes(d) = Bytes(c) - SumOfFirst(LengthsOf(c), k)
  BY <1>1, <1>5, <1>6, <1>7, <1>8, SMTT(30)
<1>. QED  BY <1>2, <1>6, <1>9, ZenonT(30) DEF d, n

-----------------------------------------------------------------------------
(* The steps of the queue.                                                 *)

\* What every operation finds and leaves: a ring whose live slots hold
\* messages, and a byte counter that is a number.
RingInv == IsRing(slots, cap, head, count) /\ totalBytes \in Int

\* What a step may do to the ring and the byte counter together.
Stays == Contents' = Contents /\ totalBytes' = totalBytes
Leaves(k) ==
    /\ Contents' = SubSeq(Contents, k + 1, count)
    /\ totalBytes' = totalBytes - BytesOfFirst(k)
Arrives(m, k) ==
    /\ Contents' = Append(SubSeq(Contents, k + 1, count), m)
    /\ totalBytes' = totalBytes - BytesOfFirst(k) + BodyLen[m]
Moves ==
    \/ Stays
    \/ \E k \in 0..count : Leaves(k) \/ \E m \in Msg : Arrives(m, k)

\* Contents is what the ring holds, and its bytes are counted body by body.
LEMMA ContentsOfRing ==
    RingInv => /\ Contents = RingOf(slots, cap, head, count)
               /\ Contents \in Seq(Msg) /\ Len(Contents) = count /\ count \in Nat
               /\ Lengths = LengthsOf(Contents)
<1>. SUFFICES ASSUME RingInv
              PROVE  /\ Contents = RingOf(slots, cap, head, count)
                     /\ Contents \in Seq(Msg) /\ Len(Contents) = count /\ count \in Nat
                     /\ Lengths = LengthsOf(Contents)
  BY ZenonT(30)
<1>1. Contents = RingOf(slots, cap, head, count)  BY ZenonT(30) DEF Contents, RingOf, Wrap
<1>2. Contents \in Seq(Msg) /\ Len(Contents) = count
  <2>1. IsRing(slots, cap, head, count)  BY ZenonT(30) DEF RingInv
  <2>2. /\ RingOf(slots, cap, head, count) \in Seq(Msg)
        /\ Len(RingOf(slots, cap, head, count)) = count
    BY <2>1, RingIsSeq, SMTT(30)
  <2>. QED  BY <1>1, <2>2, ZenonT(30)
<1>3. count \in Nat  BY DEF RingInv, IsRing
<1>4. Lengths = LengthsOf(Contents)  BY <1>2, ZenonT(30) DEF Lengths, LengthsOf
<1>. QED  BY <1>1, <1>2, <1>3, <1>4, ZenonT(30)

\* Taking nothing out leaves the contents alone.
LEMMA NothingTaken ==
    ASSUME RingInv
    PROVE  /\ SubSeq(Contents, 0 + 1, count) = Contents
           /\ totalBytes - BytesOfFirst(0) = totalBytes
<1>1. SumOfFirst(Lengths, 0) = 0  BY SumSteps, ZenonT(30)
<1>2. totalBytes - BytesOfFirst(0) = totalBytes  BY <1>1 DEF RingInv, BytesOfFirst
<1>. DEFINE c == Contents
<1>3. c \in Seq(Msg) /\ Len(c) = count /\ count \in Nat  BY ContentsOfRing, ZenonT(30)
<1>. HIDE DEF c
<1>4. \A i \in 1..count : c[i] \in Msg  BY <1>3, ElementOfSeq, ZenonT(30)
<1>5. /\ SubSeq(c, 1, count) \in Seq(Msg)
      /\ Len(SubSeq(c, 1, count)) = count
      /\ \A i \in 1..count : SubSeq(c, 1, count)[i] = c[i]
  <2>1. /\ SubSeq(c, 1, count) \in Seq(Msg)
        /\ Len(SubSeq(c, 1, count)) = IF 1 <= count THEN count - 1 + 1 ELSE 0
        /\ \A i \in 1..(count - 1 + 1) : SubSeq(c, 1, count)[i] = c[1 + i - 1]
    BY <1>3, <1>4, SubSeqProperties, SMTT(30)
  <2>2. Len(SubSeq(c, 1, count)) = count /\ count - 1 + 1 = count  BY <1>3, <2>1
  <2>3. \A i \in 1..count : 1 + i - 1 = i  BY <1>3
  <2>. QED  BY <2>1, <2>2, <2>3, ZenonT(30)
<1>6. SubSeq(c, 1, count) = c  BY <1>3, <1>5, SeqEqual, ZenonT(30)
<1>7. 0 + 1 = 1  OBVIOUS
<1>. QED  BY <1>2, <1>6, <1>7, ZenonT(30) DEF c

\* An operation that leaves the ring alone.
LEMMA RingUntouched ==
    ASSUME RingInv, UNCHANGED <<ring, totalBytes>>
    PROVE  RingInv' /\ Moves
<1>1. UNCHANGED <<slots, cap, head, count, totalBytes>>  BY ZenonT(30) DEF ring
<1>2. RingInv'  BY <1>1, ZenonT(30) DEF RingInv, IsRing
<1>3. Stays  BY <1>1, ZenonT(30) DEF Stays, Contents
<1>. QED  BY <1>2, <1>3, ZenonT(30) DEF Moves

\* StoreAtTail() into a ring that is not full appends to what it holds.
LEMMA StoredAtTail ==
    ASSUME NEW sl, NEW c, NEW h, NEW n, NEW m \in Msg,
           IsRing(sl, c, h, n), n < c, StoreAtTail(sl, c, h, n, m)
    PROVE  /\ IsRing(slots, cap, head, count)'
           /\ Contents' = Append(RingOf(sl, c, h, n), m)
<1>1. /\ slots' = [sl EXCEPT ![Wrap(h + n, c)] = m]
      /\ cap' = c /\ head' = h /\ count' = n + 1
  BY ZenonT(30) DEF StoreAtTail, Wrap
<1>2. Holds([sl EXCEPT ![Wrap(h + n, c)] = m], c, h, n + 1, Append(RingOf(sl, c, h, n), m))
  BY StoreAppends, ZenonT(30)
<1>3. IsRing(slots', c, h, n + 1) /\ RingOf(slots', c, h, n + 1) = Append(RingOf(sl, c, h, n), m)
  BY <1>1, <1>2, ZenonT(30) DEF Holds
<1>4. Contents' = RingOf(slots', cap', head', count')
  BY ZenonT(30) DEF Contents, RingOf, Wrap
<1>5. IsRing(slots, cap, head, count)' <=> IsRing(slots', cap', head', count')
  BY ZenonT(30) DEF IsRing
<1>. QED  BY <1>1, <1>3, <1>4, <1>5, ZenonT(30)

\* queue_enqueue() of a message that fits, and queue_requeue_internal().
LEMMA AppendMoves ==
    ASSUME RingInv, NEW m \in Msg,
           IF count = cap THEN StoreAtTail(Grown, 2 * cap, 0, count, m)
                          ELSE StoreAtTail(slots, cap, head, count, m),
           totalBytes' = totalBytes + BodyLen[m]
    PROVE  RingInv' /\ Moves
<1>1. cap \in Nat \ {0} /\ count \in 0..cap /\ IsRing(slots, cap, head, count) /\ totalBytes \in Int
  BY ZenonT(30) DEF RingInv, IsRing
<1>2. Contents = RingOf(slots, cap, head, count)  BY ContentsOfRing, ZenonT(30)
<1>3. IsRing(slots, cap, head, count)' /\ Contents' = Append(Contents, m)
  <2>1. CASE count = cap
    <3>1. count < 2 * cap  BY <1>1, <2>1
    <3>2. /\ IsRing(Grown, 2 * cap, 0, count)
          /\ RingOf(Grown, 2 * cap, 0, count) = Contents
      BY <1>1, <1>2, GrowKeeps, ZenonT(30)
    <3>3. StoreAtTail(Grown, 2 * cap, 0, count, m)  BY <2>1, ZenonT(30)
    <3>4. /\ IsRing(slots, cap, head, count)'
          /\ Contents' = Append(RingOf(Grown, 2 * cap, 0, count), m)
      BY <3>1, <3>2, <3>3, StoredAtTail, ZenonT(30)
    <3>. QED  BY <3>2, <3>4, ZenonT(30)
  <2>2. CASE count # cap
    <3>1. count < cap  BY <1>1, <2>2
    <3>2. StoreAtTail(slots, cap, head, count, m)  BY <2>2, ZenonT(30)
    <3>3. /\ IsRing(slots, cap, head, count)'
          /\ Contents' = Append(RingOf(slots, cap, head, count), m)
      BY <1>1, <3>1, <3>2, StoredAtTail, ZenonT(30)
    <3>. QED  BY <1>2, <3>3, ZenonT(30)
  <2>. QED  BY <2>1, <2>2
<1>4. BodyLen[m] \in Nat  BY QueueAssumption, ZenonT(30)
<1>5. totalBytes' \in Int  BY <1>1, <1>4
<1>6. Arrives(m, 0)  BY <1>3, NothingTaken, ZenonT(30) DEF Arrives
<1>7. 0 \in 0..count  BY <1>1
<1>. QED  BY <1>3, <1>5, <1>6, <1>7, ZenonT(30) DEF RingInv, Moves

\* SlotsWithout(k) is the ring without its k oldest messages.
LEMMA SlotsWithoutOldest ==
    ASSUME RingInv, NEW k \in 0..count
    PROVE  /\ IsRing(SlotsWithout(k), cap, Wrap(head + k, cap), count - k)
           /\ RingOf(SlotsWithout(k), cap, Wrap(head + k, cap), count - k)
                = SubSeq(Contents, k + 1, count)
<1>1. IsRing(slots, cap, head, count)  BY ZenonT(30) DEF RingInv
<1>2. SlotsWithout(k) = [s \in DOMAIN slots |->
        IF \E i \in 0..(k - 1) : s = Wrap(head + i, cap) THEN Null ELSE slots[s]]
  BY ZenonT(30) DEF SlotsWithout, Wrap
<1>3. Contents = RingOf(slots, cap, head, count)  BY ContentsOfRing, ZenonT(30)
<1>. DEFINE new == SlotsWithout(k)
<1>. HIDE DEF new
<1>4. new = [s \in DOMAIN slots |->
        IF \E i \in 0..(k - 1) : s = Wrap(head + i, cap) THEN Null ELSE slots[s]]
  BY <1>2 DEF new
<1>5. Holds(new, cap, Wrap(head + k, cap), count - k,
            SubSeq(RingOf(slots, cap, head, count), k + 1, count))
  BY <1>1, <1>4, TakeOldest, ZenonT(30)
<1>. QED  BY <1>3, <1>5, ZenonT(30) DEF new, Holds

\* The bodies of the k oldest messages.
LEMMA BytesOfOldest ==
    ASSUME RingInv, NEW k \in 0..count
    PROVE  BytesOfFirst(k) \in Nat
<1>1. Contents \in Seq(Msg) /\ Len(Contents) = count /\ Lengths = LengthsOf(Contents)
  BY ContentsOfRing, ZenonT(30)
<1>. DEFINE c == Contents
<1>2. c \in Seq(Msg) /\ Len(c) = count /\ Lengths = LengthsOf(c)  BY <1>1
<1>. HIDE DEF c
<1>3. SumOfFirst(LengthsOf(c), k) \in Nat  BY <1>2, BytesOfRest, ZenonT(30)
<1>. QED  BY <1>2, <1>3, ZenonT(30) DEF BytesOfFirst

\* The k oldest messages leave: queue_dequeue(), _drain_consumed() and _purge().
LEMMA RemoveMoves ==
    ASSUME RingInv, NEW k \in 0..count, RemoveFirst(k),
           totalBytes' = totalBytes - BytesOfFirst(k)
    PROVE  RingInv' /\ Moves
<1>1. /\ slots' = SlotsWithout(k) /\ head' = Wrap(head + k, cap)
      /\ count' = count - k /\ cap' = cap
  BY ZenonT(30) DEF RemoveFirst, Wrap
<1>2. /\ IsRing(slots', cap', head', count')
      /\ RingOf(slots', cap', head', count') = SubSeq(Contents, k + 1, count)
  BY <1>1, SlotsWithoutOldest, ZenonT(30)
<1>3. Contents' = RingOf(slots', cap', head', count')
  BY ZenonT(30) DEF Contents, RingOf, Wrap
<1>4. IsRing(slots, cap, head, count)'  BY <1>2, ZenonT(30) DEF IsRing
<1>5. totalBytes' \in Int  BY BytesOfOldest DEF RingInv
<1>6. Leaves(k)  BY <1>2, <1>3, ZenonT(30) DEF Leaves
<1>. QED  BY <1>4, <1>5, <1>6, ZenonT(30) DEF RingInv, Moves

\* The loop of the drop-head policy ends, and it evicts something unless there
\* is nothing to evict.
LEMMA EvictedInRange ==
    ASSUME RingInv, NEW m \in Msg, WouldOverflow(count, totalBytes, m)
    PROVE  Evicted(m) \in 0..count /\ (Evicted(m) = 0 => count = 0)
<1>. DEFINE Enough(k) == k = count \/ ~WouldOverflow(count - k, totalBytes - BytesOfFirst(k), m)
            First(k) == Enough(k)
                /\ \A j \in 0..(k - 1) : WouldOverflow(count - j, totalBytes - BytesOfFirst(j), m)
            T == {k \in 0..count : Enough(k)}
<1>1. count \in Nat  BY DEF RingInv, IsRing
<1>2. T \in SUBSET Nat /\ T # {}
  <2>1. count \in 0..count  BY <1>1
  <2>2. count \in T  BY <2>1, ZenonT(30)
  <2>. HIDE DEF Enough
  <2>3. T \in SUBSET Nat  BY <1>1
  <2>. HIDE DEF T
  <2>. QED  BY <2>2, <2>3
<1>. HIDE DEF T
<1>3. PICK x \in T : \A y \in T : x <= y  BY <1>2, LeastElement, ZenonT(30)
<1>4. x \in 0..count /\ Enough(x)  BY ZenonT(30) DEF T
<1>5. ASSUME NEW j \in 0..(x - 1)
      PROVE  WouldOverflow(count - j, totalBytes - BytesOfFirst(j), m)
  <2>. HIDE DEF Enough
  <2>1. j \in 0..count /\ ~(x <= j)  BY <1>1, <1>4
  <2>2. j \notin T  BY <1>3, <2>1, ZenonT(30)
  <2>3. ~Enough(j)  BY <2>1, <2>2, ZenonT(30) DEF T
  <2>. QED  BY <2>3, ZenonT(30) DEF Enough
<1>6. First(x)  BY <1>4, <1>5, ZenonT(30)
<1>. HIDE DEF First
<1>7. Evicted(m) = CHOOSE k \in 0..count : First(k)  BY ZenonT(30) DEF Evicted, First
<1>8. Evicted(m) \in 0..count /\ First(Evicted(m))  BY <1>4, <1>6, <1>7, ZenonT(30)
<1>9. ASSUME Evicted(m) = 0  PROVE count = 0
  <2>1. First(0)  BY <1>8, <1>9, ZenonT(30)
  <2>2. 0 = count \/ ~WouldOverflow(count - 0, totalBytes - BytesOfFirst(0), m)
    BY <2>1, ZenonT(30) DEF First
  <2>3. count - 0 = count  BY <1>1
  <2>4. totalBytes - BytesOfFirst(0) = totalBytes  BY NothingTaken, ZenonT(30)
  <2>. QED  BY <2>2, <2>3, <2>4, ZenonT(30)
<1>. QED  BY <1>8, <1>9, ZenonT(30)

\* queue_enqueue() under the drop-head policy.
LEMMA DropHeadMoves ==
    ASSUME RingInv, NEW m \in Msg, EnqueueDropHead(m)
    PROVE  RingInv' /\ Moves
<1>. DEFINE k == Evicted(m)
            h == Wrap(head + k, cap)
<1>1. WouldOverflow(count, totalBytes, m)  BY ZenonT(30) DEF EnqueueDropHead
<1>2. k \in 0..count /\ (k = 0 => count = 0)  BY <1>1, EvictedInRange, ZenonT(30)
<1>3. /\ StoreAtTail(SlotsWithout(k), cap, h, count - k, m)
      /\ totalBytes' = totalBytes - BytesOfFirst(k) + BodyLen[m]
  BY ZenonT(30) DEF EnqueueDropHead, Wrap
<1>. HIDE DEF k
<1>4. /\ IsRing(SlotsWithout(k), cap, h, count - k)
      /\ RingOf(SlotsWithout(k), cap, h, count - k) = SubSeq(Contents, k + 1, count)
  BY <1>2, SlotsWithoutOldest, ZenonT(30)
<1>. HIDE DEF h
<1>5. count - k < cap
  <2>1. cap \in Nat \ {0} /\ count \in 0..cap  BY DEF RingInv, IsRing
  <2>. QED  BY <1>2, <2>1
<1>6. /\ IsRing(slots, cap, head, count)'
      /\ Contents' = Append(RingOf(SlotsWithout(k), cap, h, count - k), m)
  BY <1>3, <1>4, <1>5, StoredAtTail, ZenonT(30)
<1>7. totalBytes' \in Int
  <2>1. BodyLen[m] \in Nat  BY QueueAssumption, ZenonT(30)
  <2>2. BytesOfFirst(k) \in Nat  BY <1>2, BytesOfOldest, ZenonT(30)
  <2>. QED  BY <1>3, <2>1, <2>2 DEF RingInv
<1>8. Arrives(m, k)  BY <1>3, <1>4, <1>6, ZenonT(30) DEF Arrives
<1>. QED  BY <1>2, <1>6, <1>7, <1>8, ZenonT(30) DEF RingInv, Moves

\* queue_dequeue() takes off the body of the oldest message.
LEMMA DequeueMoves ==
    ASSUME RingInv, Dequeue
    PROVE  RingInv' /\ Moves
<1>1. count > 0 /\ RemoveFirst(1) /\ totalBytes' = totalBytes - BodyLen[slots[head]]
  BY ZenonT(30) DEF Dequeue
<1>2. count \in Nat /\ cap \in Nat \ {0} /\ head \in 0..(cap - 1)  BY DEF RingInv, IsRing
<1>3. 1 \in 1..count /\ 1 \in 0..count  BY <1>1, <1>2
<1>4. BytesOfFirst(1) = BodyLen[slots[head]]
  <2>1. SumOfFirst(Lengths, 0) = 0  BY SumSteps, ZenonT(30)
  <2>2. SumOfFirst(Lengths, 0 + 1) = SumOfFirst(Lengths, 0) + Lengths[0 + 1]
    <3>1. 0 \in Nat  OBVIOUS
    <3>. QED  BY <3>1, SumSteps, ZenonT(30)
  <2>3. 0 + 1 = 1  OBVIOUS
  <2>4. Lengths[1] = BodyLen[Contents[1]]  BY <1>3, ZenonT(30) DEF Lengths
  <2>5. Contents[1] = slots[Wrap(head + 1 - 1, cap)]  BY <1>3, ZenonT(30) DEF Contents, Wrap
  <2>6. head + 1 - 1 = head /\ head \in Nat /\ head < 2 * cap /\ head < cap  BY <1>2
  <2>7. Wrap(head, cap) = head  BY <1>2, <2>6, RingIndex
  <2>8. Contents[1] = slots[head]  BY <2>5, <2>6, <2>7, ZenonT(30)
  <2>9. BodyLen[slots[head]] \in Nat
    <3>1. Contents \in Seq(Msg) /\ Len(Contents) = count  BY ContentsOfRing, ZenonT(30)
    <3>2. Contents[1] \in Msg  BY <1>3, <3>1, ElementOfSeq, ZenonT(30)
    <3>. QED  BY <2>8, <3>2, QueueAssumption, ZenonT(30)
  <2>10. SumOfFirst(Lengths, 1) = 0 + BodyLen[slots[head]]
    BY <2>1, <2>2, <2>3, <2>4, <2>8, ZenonT(30)
  <2>. QED  BY <2>9, <2>10 DEF BytesOfFirst
<1>. QED  BY <1>1, <1>3, <1>4, RemoveMoves, ZenonT(30)

\* Every step of the queue leaves a ring and moves the contents as a FIFO.
LEMMA NextMoves ==
    ASSUME RingInv, [Next]_vars
    PROVE  RingInv' /\ Moves
<1>1. ASSUME NEW l \in Limits, SetLimits(l)  PROVE RingInv' /\ Moves
  <2>1. UNCHANGED <<ring, totalBytes>>  BY <1>1, ZenonT(30) DEF SetLimits
  <2>. QED  BY <2>1, RingUntouched, ZenonT(30)
<1>2. ASSUME NEW m \in Msg, RejectPublish(m)  PROVE RingInv' /\ Moves
  <2>1. UNCHANGED <<ring, totalBytes>>  BY <1>2, ZenonT(30) DEF RejectPublish
  <2>. QED  BY <2>1, RingUntouched, ZenonT(30)
<1>3. ASSUME NEW m \in Msg, Enqueue(m)  PROVE RingInv' /\ Moves
  <2>1. /\ IF count = cap THEN StoreAtTail(Grown, 2 * cap, 0, count, m)
                          ELSE StoreAtTail(slots, cap, head, count, m)
        /\ totalBytes' = totalBytes + BodyLen[m]
    BY <1>3, ZenonT(30) DEF Enqueue
  <2>. QED  BY <2>1, AppendMoves, ZenonT(30)
<1>4. ASSUME NEW m \in Msg, EnqueueDropHead(m)  PROVE RingInv' /\ Moves
  BY <1>4, DropHeadMoves, ZenonT(30)
<1>5. ASSUME NEW m \in Msg, EnqueueOom(m)  PROVE RingInv' /\ Moves
  <2>1. UNCHANGED <<ring, totalBytes>>  BY <1>5, ZenonT(30) DEF EnqueueOom
  <2>. QED  BY <2>1, RingUntouched, ZenonT(30)
<1>6. ASSUME NEW m \in Msg, Requeue(m)  PROVE RingInv' /\ Moves
  <2>1. /\ IF count = cap THEN StoreAtTail(Grown, 2 * cap, 0, count, m)
                          ELSE StoreAtTail(slots, cap, head, count, m)
        /\ totalBytes' = totalBytes + BodyLen[m]
    BY <1>6, ZenonT(30) DEF Requeue
  <2>. QED  BY <2>1, AppendMoves, ZenonT(30)
<1>7. ASSUME NEW m \in Msg, RequeueOom(m)  PROVE RingInv' /\ Moves
  <2>1. UNCHANGED <<ring, totalBytes>>  BY <1>7, ZenonT(30) DEF RequeueOom
  <2>. QED  BY <2>1, RingUntouched, ZenonT(30)
<1>8. ASSUME NEW m \in Msg, NEW to, Settle(m, to)  PROVE RingInv' /\ Moves
  <2>1. UNCHANGED <<ring, totalBytes>>  BY <1>8, ZenonT(30) DEF Settle
  <2>. QED  BY <2>1, RingUntouched, ZenonT(30)
<1>9. ASSUME Dequeue  PROVE RingInv' /\ Moves
  BY <1>9, DequeueMoves, ZenonT(30)
<1>10. ASSUME NEW k \in 0..count, RemoveConsumed(k)  PROVE RingInv' /\ Moves
  BY <1>10, RemoveMoves, ZenonT(30) DEF RemoveConsumed
<1>11. ASSUME DrainConsumed  PROVE RingInv' /\ Moves
  <2>1. \A k \in 1..count : k \in 0..count  BY DEF RingInv, IsRing
  <2>. QED  BY <1>10, <1>11, <2>1, ZenonT(30) DEF DrainConsumed
<1>12. ASSUME Purge  PROVE RingInv' /\ Moves
  <2>1. count \in 0..count  BY DEF RingInv, IsRing
  <2>. QED  BY <1>10, <1>12, <2>1, ZenonT(30) DEF Purge
<1>13. ASSUME UNCHANGED vars  PROVE RingInv' /\ Moves
  <2>1. UNCHANGED <<ring, totalBytes>>  BY <1>13, ZenonT(30) DEF vars
  <2>. QED  BY <2>1, RingUntouched, ZenonT(30)
<1>. QED
  BY <1>1, <1>2, <1>3, <1>4, <1>5, <1>6, <1>7, <1>8, <1>9, <1>11, <1>12, <1>13, ZenonT(30)
     DEF Next

\* queue_create() makes an empty ring.
LEMMA InitRing == Init => RingInv /\ Contents = <<>> /\ BytesExact
<1>. SUFFICES ASSUME Init  PROVE RingInv /\ Contents = <<>> /\ BytesExact
  OBVIOUS
<1>1. RingInv  BY QueueAssumption DEF Init, RingInv, IsRing
<1>2. Contents \in Seq(Msg) /\ Len(Contents) = count  BY <1>1, ContentsOfRing, ZenonT(30)
<1>3. count = 0 /\ totalBytes = 0  BY ZenonT(30) DEF Init
<1>. DEFINE c == Contents
<1>4. c \in Seq(Msg) /\ Len(c) = 0  BY <1>2, <1>3, ZenonT(30)
<1>. HIDE DEF c
<1>5. c = <<>>  BY <1>4, EmptySeq, SMTT(30)
<1>6. SumOfFirst(Lengths, 0) = 0  BY SumSteps, ZenonT(30)
<1>7. BytesExact  BY <1>3, <1>6, ZenonT(30) DEF BytesExact, BytesOfFirst
<1>. QED  BY <1>1, <1>5, <1>7, ZenonT(30) DEF c

\* The byte counter is exact when it is the bytes of what the ring holds.
LEMMA BytesOfContents ==
    RingInv => (BytesExact <=> totalBytes = Bytes(Contents))
BY ContentsOfRing, ZenonT(30) DEF BytesExact, BytesOfFirst, Bytes

\* A move keeps the byte counter exact.
LEMMA MovesCountBytes ==
    ASSUME RingInv, RingInv', Moves, BytesExact
    PROVE  BytesExact'
<1>. DEFINE c == Contents
            d == Contents'
<1>1. /\ c \in Seq(Msg) /\ Len(c) = count /\ count \in Nat
      /\ \A k : BytesOfFirst(k) = SumOfFirst(LengthsOf(c), k)
  BY ContentsOfRing, ZenonT(30) DEF BytesOfFirst
<1>2. totalBytes = Bytes(c)  BY BytesOfContents, ZenonT(30)
<1>3. BytesExact' <=> totalBytes' = Bytes(d)
  <2>1. (RingInv => (BytesExact <=> totalBytes = Bytes(Contents)))'
    BY BytesOfContents, PTL
  <2>. QED  BY <2>1, ZenonT(30) DEF Bytes, LengthsOf, SumOfFirst
<1>4. CASE Stays  BY <1>2, <1>3, <1>4, ZenonT(30) DEF Stays
<1>5. ASSUME NEW k \in 0..count  PROVE SubSeq(c, k + 1, count) \in Seq(Msg)
        /\ Bytes(SubSeq(c, k + 1, count)) = totalBytes - BytesOfFirst(k)
        /\ BytesOfFirst(k) \in Nat
  <2>. HIDE DEF c
  <2>1. k \in 0..Len(c)  BY <1>1, ZenonT(30)
  <2>. QED  BY <1>1, <1>2, <2>1, BytesOfRest, ZenonT(30)
<1>6. ASSUME NEW k \in 0..count, Leaves(k)  PROVE totalBytes' = Bytes(d)
  <2>1. d = SubSeq(c, k + 1, count) /\ totalBytes' = totalBytes - BytesOfFirst(k)
    BY <1>6, ZenonT(30) DEF Leaves
  <2>. QED  BY <1>5, <2>1, ZenonT(30)
<1>7. ASSUME NEW k \in 0..count, NEW m \in Msg, Arrives(m, k)  PROVE totalBytes' = Bytes(d)
  <2>. DEFINE rest == SubSeq(c, k + 1, count)
  <2>1. d = Append(rest, m) /\ totalBytes' = totalBytes - BytesOfFirst(k) + BodyLen[m]
    BY <1>7, ZenonT(30) DEF Arrives
  <2>2. rest \in Seq(Msg) /\ Bytes(rest) = totalBytes - BytesOfFirst(k)  BY <1>5, ZenonT(30)
  <2>. HIDE DEF rest
  <2>3. Bytes(Append(rest, m)) = Bytes(rest) + BodyLen[m]  BY <2>2, BytesOfAppend, ZenonT(30)
  <2>. QED  BY <2>1, <2>2, <2>3, ZenonT(30)
<1>. QED  BY <1>3, <1>4, <1>6, <1>7, ZenonT(30) DEF Moves

-----------------------------------------------------------------------------
(* Theorems.                                                               *)

\* queue_enqueue(), _requeue_internal(), _dequeue(), _drain_consumed(),
\* _purge() and the drop-head loop keep total_bytes equal to the sum of the
\* queued bodies, whatever the ring's size, the policy and the body lengths.
THEOREM ByteCounterExact == Spec => []BytesExact
<1>1. Init => RingInv /\ BytesExact  BY InitRing, ZenonT(30)
<1>2. RingInv /\ BytesExact /\ [Next]_vars => (RingInv /\ BytesExact)'
  BY NextMoves, MovesCountBytes, ZenonT(30)
<1>. QED  BY <1>1, <1>2, PTL DEF Spec

\* Over any mix of wrap-around, growth, eviction, requeue and drain, the ring
\* buffer implements the abstract FIFO queue: every step takes messages from
\* the front of the contents, adds one at the back, or leaves them alone.
THEOREM RingIsFifo == Spec => FifoOrder
<1>1. Init => RingInv /\ fifo!FifoInit  BY InitRing, ZenonT(30) DEF fifo!FifoInit
<1>2. RingInv /\ [Next]_vars => RingInv'  BY NextMoves, ZenonT(30)
<1>3. RingInv /\ [Next]_vars => [fifo!FifoNext]_Contents
  <2>. SUFFICES ASSUME RingInv, [Next]_vars  PROVE fifo!FifoNext \/ Contents' = Contents
    BY ZenonT(30)
  <2>1. Moves  BY NextMoves, ZenonT(30)
  <2>2. Len(Contents) = count  BY ContentsOfRing, ZenonT(30)
  <2>3. CASE Stays  BY <2>3, ZenonT(30) DEF Stays
  <2>4. ASSUME NEW k \in 0..count, Leaves(k)  PROVE fifo!FifoNext
    BY <2>2, <2>4, ZenonT(30) DEF Leaves, fifo!FifoNext, fifo!Leave
  <2>5. ASSUME NEW k \in 0..count, NEW m \in Msg, Arrives(m, k)  PROVE fifo!FifoNext
    BY <2>2, <2>5, ZenonT(30) DEF Arrives, fifo!FifoNext, fifo!Arrive
  <2>. QED  BY <2>1, <2>3, <2>4, <2>5, ZenonT(30) DEF Moves
<1>. QED  BY <1>1, <1>2, <1>3, PTL DEF Spec, FifoOrder, fifo!FifoSpec

=============================================================================
