----------------------------- MODULE PartsProofs ----------------------------
(***************************************************************************)
(* The parts that are not on the link: the subscribers of an EventStream,  *)
(* for any number of listeners and values; the buffer, followers and counts*)
(* of the diagnostics, for any capacity, level and number of entries,      *)
(* followers and servers; the definitions, for any items and any edits.    *)
(*                                                                         *)
(* DeliveredOnce says of every listener which values it was given.  That   *)
(* no value is given twice takes where the values are that are still to    *)
(* come (EachOnce), whom the one underway has reached (Called), and that   *)
(* what is due is due to somebody who will be called (WantedRegistered).   *)
(*                                                                         *)
(* TelemetryComplete is inductive with its types once followers have been  *)
(* sent only what was logged (SeenSoFar).  The ring is always the numbers  *)
(* after some number, up to the last (NumbersAfter): push drops the oldest, and   *)
(* what it dropped before makes no difference (KeptNext).                  *)
(*                                                                         *)
(* AcceptedServe follows from the two validations alone: a definition   *)
(* they accept is usable wherever it came from, once it has the shape the  *)
(* loaders give it, which no edit takes away.                              *)
(***************************************************************************)
EXTENDS MCParts, LinkProofs, FiniteSetTheorems, SequenceTheorems,
        WellFoundedInduction, TLAPS

-----------------------------------------------------------------------------
(* Lists                                                                   *)

\* A finite set of numbers can be counted upwards.
Countable(I) ==
    \E f \in [1..Cardinality(I) -> I] :
        \A k, l \in 1..Cardinality(I) : k < l => f[k] < f[l]

\* A finite set of numbers that is not empty has a greatest one.
LEMMA GreatestNatural ==
    ASSUME NEW n \in Nat, NEW I \in SUBSET 1..n, I # {}
    PROVE  \E m \in I : \A i \in I : i <= m
<1> DEFINE T == {n - i : i \in I}
<1>1. T \in SUBSET Nat /\ T # {}
    <2>1. \A i \in I : n - i \in Nat
        OBVIOUS
    <2> QED
        BY <2>1
<1>2. PICK t \in T : \A u \in T : t <= u
    BY <1>1, LeastNatural
<1>3. PICK m \in I : t = n - m
    BY <1>2
<1>4. \A i \in I : n - i \in T
    OBVIOUS
<1>5. \A i \in I : n - m <= n - i
    BY <1>2, <1>3, <1>4
<1> HIDE DEF T
<1>6. \A i \in I : i <= m
    BY <1>3, <1>5
<1> QED
    BY <1>3, <1>6

\* The positions of a list can be counted upwards: the greatest comes last.
LEMMA AllCountable ==
    ASSUME NEW n \in Nat, NEW I \in SUBSET 1..n
    PROVE  IsFiniteSet(I) /\ Cardinality(I) \in Nat /\ Countable(I)
<1>1. \A J \in SUBSET 1..n : IsFiniteSet(J) /\ Cardinality(J) \in Nat
    <2>1. IsFiniteSet(1..n)
        BY FS_Interval
    <2> QED
        BY <2>1, FS_Subset, FS_CardinalityType
<1> DEFINE T == {Cardinality(J) : J \in {K \in SUBSET 1..n : ~Countable(K)}}
<1>2. ASSUME T # {} PROVE FALSE
    <2>1. T \in SUBSET Nat
        BY <1>1
    <2>2. PICK c \in T : \A d \in T : c <= d
        BY <1>2, <2>1, LeastNatural
    <2>3. PICK J \in SUBSET 1..n : ~Countable(J) /\ c = Cardinality(J)
        BY <2>2
    <2>4. J # {}
        <3> SUFFICES ASSUME J = {} PROVE FALSE
            OBVIOUS
        <3>1. Cardinality(J) = 0
            BY FS_EmptySet
        <3>2. 1..Cardinality(J) = {}
            BY <3>1
        <3>3. [k \in 1..Cardinality(J) |-> 1] \in [1..Cardinality(J) -> J]
            BY <3>2
        <3> QED
            BY <2>3, <3>2, <3>3 DEF Countable
    <2>5. PICK m \in J : \A i \in J : i <= m
        BY <2>4, GreatestNatural
    <2> DEFINE K == J \ {m}
    <2>6. K \in SUBSET 1..n /\ Cardinality(J) = Cardinality(K) + 1
          /\ Cardinality(K) \in Nat /\ Cardinality(J) \in Nat
        <3>1. K \in SUBSET 1..n
            OBVIOUS
        <3>2. Cardinality(K) = Cardinality(J) - 1
            BY <1>1, FS_RemoveElement
        <3> QED
            BY <1>1, <3>1, <3>2
    <2>7. Countable(K)
        <3> SUFFICES ASSUME ~Countable(K) PROVE FALSE
            OBVIOUS
        <3>1. Cardinality(K) \in T
            BY <2>6
        <3>2. c <= Cardinality(K)
            BY <2>2, <3>1
        <3> QED
            BY <2>3, <2>6, <3>2
    <2> DEFINE a == Cardinality(K)
               b == Cardinality(J)
    <2>8. PICK f \in [1..a -> K] : \A k, l \in 1..a : k < l => f[k] < f[l]
        BY <2>7 DEF Countable
    <2>9. a \in Nat /\ b = a + 1 /\ K \subseteq J /\ m \in J /\ J \subseteq 1..n
          /\ \A i \in K : i <= m /\ i # m
        BY <2>5, <2>6
    <2> HIDE DEF a, b, K, T
    <2> DEFINE g == [k \in 1..b |-> IF k = b THEN m ELSE f[k]]
    <2>10. \A k \in 1..b : k # b => k \in 1..a
        BY <2>9
    <2>11. \A k \in 1..a : f[k] \in K
        BY <2>8
    <2>12. \A k \in 1..b : g[k] \in J
        BY <2>9, <2>10, <2>11
    <2>13. g \in [1..b -> J]
        BY <2>12
    <2>14. ASSUME NEW k \in 1..b, NEW l \in 1..b, k < l PROVE g[k] < g[l]
        <3>1. k # b /\ k \in 1..a /\ g[k] = f[k] /\ f[k] \in K
            BY <2>9, <2>10, <2>11, <2>14
        <3>2. CASE l = b
            <4>1. g[l] = m
                BY <3>2
            <4>2. f[k] <= m /\ f[k] # m /\ f[k] \in 1..n /\ m \in 1..n
                BY <3>1, <2>9
            <4> QED
                BY <3>1, <4>1, <4>2
        <3>3. CASE l # b
            <4>1. l \in 1..a /\ g[l] = f[l]
                BY <3>3, <2>10
            <4> QED
                BY <3>1, <4>1, <2>8, <2>14
        <3> QED
            BY <3>2, <3>3
    <2>15. Countable(J)
        BY <2>13, <2>14 DEF Countable, b
    <2> QED
        BY <2>3, <2>15
<1>3. Countable(I)
    BY <1>2
<1> QED
    BY <1>1, <1>3

\* Ascending counts upwards, and leaves nothing out.
LEMMA AscendingCounts ==
    ASSUME NEW n \in Nat, NEW I \in SUBSET 1..n
    PROVE  /\ Ascending(I) \in [1..Cardinality(I) -> I]
           /\ \A k, l \in 1..Cardinality(I) :
                 k < l => Ascending(I)[k] < Ascending(I)[l]
           /\ \A i \in I : \E k \in 1..Cardinality(I) : Ascending(I)[k] = i
           /\ Cardinality(I) \in Nat /\ Cardinality(I) <= n
<1> DEFINE c == Cardinality(I)
           f == Ascending(I)
<1>1. c \in Nat /\ IsFiniteSet(I)
    BY AllCountable
<1>2. f \in [1..c -> I] /\ \A k, l \in 1..c : k < l => f[k] < f[l]
    BY AllCountable DEF Ascending, Countable
<1>3. c <= n
    <2>1. IsFiniteSet(1..n) /\ Cardinality(1..n) = n
        <3>1. IsFiniteSet(1..n) /\ Cardinality(1..n) = IF 1 > n THEN 0 ELSE n - 1 + 1
            BY FS_Interval
        <3> QED BY <3>1
    <2> QED
        BY <2>1, FS_Subset
<1>4. f \in Injection(1..c, I)
    <2> SUFFICES ASSUME NEW k \in 1..c, NEW l \in 1..c, f[k] = f[l], k # l
                 PROVE  FALSE
        BY <1>2 DEF Injection, IsInjective
    <2>1. f[k] \in 1..n /\ f[l] \in 1..n
        BY <1>2
    <2> QED
        BY <1>1, <1>2, <2>1
<1>5. \A i \in I : \E k \in 1..c : f[k] = i
    <2>1. Cardinality(1..c) = IF 1 > c THEN 0 ELSE c - 1 + 1
        BY <1>1, FS_Interval
    <2>2. Cardinality(1..c) = c
        BY <2>1, <1>1
    <2> HIDE DEF f
    <2>3. f \in Surjection(1..c, I)
        BY <1>1, <1>4, <2>2, FS_Injection
    <2> QED
        BY <2>3 DEF Surjection
<1> QED
    BY <1>1, <1>2, <1>3, <1>5

\* At takes entries, all at the positions and in their order, and no other.
LEMMA AtTakes ==
    ASSUME NEW S, NEW s \in Seq(S), NEW I \in SUBSET DOMAIN s
    PROVE  /\ At(s, I) \in Seq(S)
           /\ Len(At(s, I)) = Cardinality(I) /\ Cardinality(I) \in Nat
           /\ Len(At(s, I)) <= Len(s)
           /\ DOMAIN At(s, I) = 1..Cardinality(I)
           /\ \A k \in DOMAIN At(s, I) : \E i \in I : At(s, I)[k] = s[i]
           /\ \A i \in I : \E k \in DOMAIN At(s, I) : At(s, I)[k] = s[i]
           /\ IsInjective(s) => IsInjective(At(s, I))
<1> DEFINE c == Cardinality(I)
           f == Ascending(I)
           t == [k \in 1..c |-> s[f[k]]]
<1>1. DOMAIN s = 1..Len(s) /\ Len(s) \in Nat
    OBVIOUS
<1>2. /\ f \in [1..c -> I] /\ \A k, l \in 1..c : k < l => f[k] < f[l]
      /\ \A i \in I : \E k \in 1..c : f[k] = i
      /\ c \in Nat /\ c <= Len(s)
    BY <1>1, AscendingCounts
<1> HIDE DEF f, c
<1>3. \A k \in 1..c : f[k] \in I /\ f[k] \in DOMAIN s
    BY <1>2
<1>4. \A i \in DOMAIN s : s[i] \in S
    OBVIOUS
<1>5. t \in Seq(S) /\ Len(t) = c /\ DOMAIN t = 1..c
    <2>1. t \in [1..c -> S]
        BY <1>3, <1>4
    <2> QED BY <2>1, <1>2, IsASeq, LenProperties
<1>6. \A k \in 1..c : t[k] = s[f[k]]
    OBVIOUS
<1>7. \A i \in I : \E k \in 1..c : t[k] = s[i]
    BY <1>2, <1>6
<1>8. ASSUME IsInjective(s) PROVE IsInjective(t)
    <2> SUFFICES ASSUME NEW k \in 1..c, NEW l \in 1..c, t[k] = t[l], k # l PROVE FALSE
        BY <1>5 DEF IsInjective
    <2>1. f[k] = f[l]
        BY <1>3, <1>6, <1>8 DEF IsInjective
    <2>2. f[k] \in Nat
        BY <1>1, <1>3
    <2> QED
        BY <1>2, <2>1, <2>2
<1>9. At(s, I) = t
    BY DEF At, f, c
<1> HIDE DEF t
<1> QED
    BY <1>2, <1>3, <1>5, <1>6, <1>7, <1>8, <1>9 DEF c
\* What Without leaves: all that is not in R, in a list of its own.
LEMMA WithoutLeaves ==
    ASSUME NEW S, NEW s \in Seq(S), NEW R
    PROVE  /\ Without(s, R) \in Seq(S)
           /\ IsInjective(s) => IsInjective(Without(s, R))
           /\ \A y : y \in ToSet(Without(s, R)) <=> y \in ToSet(s) /\ y \notin R
<1> DEFINE I == {i \in DOMAIN s : s[i] \notin R}
           t == At(s, I)
<1>1. I \in SUBSET DOMAIN s
    OBVIOUS
<1> HIDE DEF I
<1>2. /\ t \in Seq(S)
      /\ \A k \in DOMAIN t : \E i \in I : t[k] = s[i]
      /\ \A i \in I : \E k \in DOMAIN t : t[k] = s[i]
      /\ IsInjective(s) => IsInjective(t)
    BY <1>1, AtTakes
<1>3. Without(s, R) = t
    BY DEF Without, I
<1> HIDE DEF t
<1>4. ASSUME NEW y PROVE y \in ToSet(t) <=> y \in ToSet(s) /\ y \notin R
    <2>1. ASSUME y \in ToSet(t) PROVE y \in ToSet(s) /\ y \notin R
        <3>1. PICK k \in DOMAIN t : y = t[k]
            BY <2>1 DEF ToSet
        <3>2. PICK i \in I : t[k] = s[i]
            BY <1>2, <3>1
        <3> QED
            BY <3>1, <3>2 DEF I, ToSet
    <2>2. ASSUME y \in ToSet(s), y \notin R PROVE y \in ToSet(t)
        <3>1. PICK i \in DOMAIN s : y = s[i]
            BY <2>2 DEF ToSet
        <3>2. i \in I
            BY <2>2, <3>1 DEF I
        <3>3. PICK k \in DOMAIN t : t[k] = s[i]
            BY <1>2, <3>2
        <3> QED
            BY <3>1, <3>3 DEF ToSet
    <2> QED
        BY <2>1, <2>2
<1> QED
    BY <1>2, <1>3, <1>4

-----------------------------------------------------------------------------
\* An entry more.
LEMMA EntryMore ==
    ASSUME NEW S, NEW s \in Seq(S), NEW x \in S
    PROVE  /\ Append(s, x) \in Seq(S)
           /\ \A y : Contains(Append(s, x), y) <=> Contains(s, y) \/ y = x
           /\ IsInjective(s) /\ ~Contains(s, x) => IsInjective(Append(s, x))
<1> DEFINE t == Append(s, x)
<1>1. /\ t \in Seq(S) /\ Len(t) = Len(s) + 1 /\ Len(s) \in Nat
      /\ DOMAIN t = 1..(Len(s) + 1) /\ DOMAIN s = 1..Len(s)
      /\ t[Len(s) + 1] = x /\ \A k \in 1..Len(s) : t[k] = s[k]
    BY AppendProperties
<1> HIDE DEF t
<1>2. ASSUME NEW y PROVE Contains(t, y) <=> Contains(s, y) \/ y = x
    BY <1>1 DEF Contains
<1>3. ASSUME IsInjective(s), ~Contains(s, x) PROVE IsInjective(t)
    <2> SUFFICES ASSUME NEW k \in 1..(Len(s) + 1), NEW l \in 1..(Len(s) + 1),
                        t[k] = t[l]
                 PROVE  k = l
        BY <1>1 DEF IsInjective
    <2>1. k \in 1..Len(s) \/ k = Len(s) + 1
        BY <1>1
    <2>2. l \in 1..Len(s) \/ l = Len(s) + 1
        BY <1>1
    <2> QED
        BY <1>1, <1>3, <2>1, <2>2 DEF IsInjective, Contains
<1> QED
    BY <1>1, <1>2, <1>3 DEF t

\* An entry less.
LEMMA EntryLess ==
    ASSUME NEW S, NEW s \in Seq(S), s # <<>>
    PROVE  /\ Head(s) \in S /\ Tail(s) \in Seq(S)
           /\ \A y : Contains(s, y) <=> Contains(Tail(s), y) \/ y = Head(s)
           /\ IsInjective(s) => IsInjective(Tail(s)) /\ ~Contains(Tail(s), Head(s))
<1> DEFINE t == Tail(s)
           h == Head(s)
<1>1. /\ t \in Seq(S) /\ h \in S /\ h = s[1]
      /\ Len(s) \in Nat \ {0} /\ Len(t) = Len(s) - 1
      /\ DOMAIN t = 1..(Len(s) - 1) /\ DOMAIN s = 1..Len(s)
      /\ \A k \in 1..Len(t) : t[k] = s[k + 1]
    BY HeadTailProperties, LenProperties
<1> HIDE DEF t, h
<1>2. \A k \in 2..Len(s) : k - 1 \in 1..Len(t) /\ s[k] = t[k - 1]
    <2> TAKE k \in 2..Len(s)
    <2>1. k - 1 \in 1..Len(t) /\ (k - 1) + 1 = k
        BY <1>1
    <2> QED
        BY <2>1, <1>1
<1>3. ASSUME NEW y PROVE Contains(s, y) <=> Contains(t, y) \/ y = h
    <2>1. \A k \in 1..Len(s) : k = 1 \/ k \in 2..Len(s)
        BY <1>1
    <2>2. \A k \in 1..Len(t) : k + 1 \in 1..Len(s)
        BY <1>1
    <2>3. 1 \in 1..Len(s)
        BY <1>1
    <2> QED
        BY <1>1, <1>2, <2>1, <2>2, <2>3 DEF Contains
<1>4. ASSUME IsInjective(s) PROVE IsInjective(t) /\ ~Contains(t, h)
    <2>1. \A k \in 1..Len(t) : k + 1 \in DOMAIN s /\ 1 \in DOMAIN s /\ k + 1 # 1
        BY <1>1
    <2>2. IsInjective(t)
        <3> SUFFICES ASSUME NEW k \in 1..Len(t), NEW l \in 1..Len(t), t[k] = t[l]
                     PROVE  k = l
            BY <1>1 DEF IsInjective
        <3>1. k + 1 = l + 1
            BY <1>1, <1>4, <2>1 DEF IsInjective
        <3> QED
            BY <3>1
    <2>3. ~Contains(t, h)
        BY <1>1, <1>4, <2>1 DEF IsInjective, Contains
    <2> QED
        BY <2>2, <2>3
<1> QED
    BY <1>1, <1>3, <1>4 DEF t, h

\* One list after the other.
LEMMA ListsJoined ==
    ASSUME NEW S, NEW s \in Seq(S), NEW t \in Seq(S)
    PROVE  /\ s \o t \in Seq(S)
           /\ \A y : Contains(s \o t, y) <=> Contains(s, y) \/ Contains(t, y)
           /\ IsInjective(s) /\ IsInjective(t)
              /\ (\A y \in S : ~(Contains(s, y) /\ Contains(t, y)))
                 => IsInjective(s \o t)
<1> DEFINE u == s \o t
<1>1. /\ u \in Seq(S) /\ Len(u) = Len(s) + Len(t) /\ Len(s) \in Nat /\ Len(t) \in Nat
      /\ DOMAIN u = 1..(Len(s) + Len(t)) /\ DOMAIN s = 1..Len(s) /\ DOMAIN t = 1..Len(t)
      /\ \A k \in 1..(Len(s) + Len(t)) :
            u[k] = IF k <= Len(s) THEN s[k] ELSE t[k - Len(s)]
      /\ \A k \in 1..Len(s) : s[k] \in S
    BY ConcatProperties, LenProperties
<1> HIDE DEF u
<1>2. \A k \in 1..(Len(s) + Len(t)) :
         \/ k \in 1..Len(s) /\ u[k] = s[k]
         \/ k - Len(s) \in 1..Len(t) /\ u[k] = t[k - Len(s)] /\ k > Len(s)
    BY <1>1
<1>3. \A k \in 1..Len(s) : k \in 1..(Len(s) + Len(t)) /\ u[k] = s[k]
    BY <1>1
<1>4. \A k \in 1..Len(t) : k + Len(s) \in 1..(Len(s) + Len(t)) /\ u[k + Len(s)] = t[k]
    <2> TAKE k \in 1..Len(t)
    <2>1. /\ k + Len(s) \in 1..(Len(s) + Len(t)) /\ ~(k + Len(s) <= Len(s))
          /\ (k + Len(s)) - Len(s) = k
        BY <1>1
    <2> QED
        BY <2>1, <1>1
<1>5. ASSUME NEW y PROVE Contains(u, y) <=> Contains(s, y) \/ Contains(t, y)
    <2>1. Contains(u, y) => Contains(s, y) \/ Contains(t, y)
        BY <1>1, <1>2 DEF Contains
    <2>2. Contains(s, y) \/ Contains(t, y) => Contains(u, y)
        BY <1>1, <1>3, <1>4 DEF Contains
    <2> QED
        BY <2>1, <2>2
<1>6. ASSUME IsInjective(s), IsInjective(t),
             \A y \in S : ~(Contains(s, y) /\ Contains(t, y))
      PROVE  IsInjective(u)
    <2> SUFFICES ASSUME NEW k \in 1..(Len(s) + Len(t)), NEW l \in 1..(Len(s) + Len(t)),
                        u[k] = u[l]
                 PROVE  k = l
        BY <1>1 DEF IsInjective
    <2>1. CASE k \in 1..Len(s) /\ l \in 1..Len(s)
        BY <2>1, <1>1, <1>3, <1>6 DEF IsInjective
    <2>2. CASE k \notin 1..Len(s) /\ l \notin 1..Len(s)
        <3>1. k - Len(s) \in DOMAIN t /\ l - Len(s) \in DOMAIN t
              /\ t[k - Len(s)] = t[l - Len(s)]
            BY <2>2, <1>1, <1>2
        <3>2. k - Len(s) = l - Len(s)
            BY <3>1, <1>6 DEF IsInjective
        <3> QED
            BY <3>2, <1>1
    <2>3. CASE k \in 1..Len(s) /\ l \notin 1..Len(s)
        <3>1. s[k] \in S /\ l - Len(s) \in 1..Len(t) /\ s[k] = t[l - Len(s)]
            BY <2>3, <1>1, <1>2, <1>3
        <3> QED
            BY <3>1, <2>3, <1>6 DEF Contains
    <2>4. CASE k \notin 1..Len(s) /\ l \in 1..Len(s)
        <3>1. s[l] \in S /\ k - Len(s) \in 1..Len(t) /\ s[l] = t[k - Len(s)]
            BY <2>4, <1>1, <1>2, <1>3
        <3> QED
            BY <3>1, <2>4, <1>6 DEF Contains
    <2> QED
        BY <2>1, <2>2, <2>3, <2>4
<1> QED
    BY <1>1, <1>5, <1>6 DEF u

\* What is left of a list from a position on.
LEMMA FromOn ==
    ASSUME NEW S, NEW s \in Seq(S), NEW k \in 0..Len(s), NEW y
    PROVE  Contains(SubSeq(s, k + 1, Len(s)), y) <=> \E i \in (k + 1)..Len(s) : s[i] = y
<1> DEFINE t == SubSeq(s, k + 1, Len(s))
<1>1. Len(s) \in Nat
    OBVIOUS
<1>2. Len(t) = Len(s) - k /\ \A i \in 1..(Len(s) - k) : t[i] = s[k + i]
    BY <1>1, SubSeqProperties
<1> HIDE DEF t
<1>3. ASSUME NEW i \in (k + 1)..Len(s)
      PROVE  i - k \in 1..(Len(s) - k) /\ t[i - k] = s[i]
    <2>1. i - k \in 1..(Len(s) - k) /\ k + (i - k) = i
        BY <1>1
    <2> QED
        BY <2>1, <1>2
<1>4. \A i \in 1..(Len(s) - k) : k + i \in (k + 1)..Len(s)
    BY <1>1
<1>5. Contains(t, y) <=> \E i \in (k + 1)..Len(s) : s[i] = y
    BY <1>2, <1>3, <1>4 DEF Contains
<1> QED
    BY <1>5 DEF t

-----------------------------------------------------------------------------
(* EventStream                                                             *)

\* A value that is still to go round.
Waiting(v) == Contains(pendingEmits, v) \/ Contains(queued, v)

\* Values are counted up; each waits once and has not been delivered yet.
EachOnce ==
    /\ value <= emits
    /\ emitting => value \in Values
    /\ \A l \in Listeners : \A v \in Values : Contains(received[l], v) => v <= emits
    /\ IsInjective(pendingEmits) /\ IsInjective(queued)
    /\ \A v \in Values : ~(Contains(pendingEmits, v) /\ Contains(queued, v))
    /\ \A v \in Values : Waiting(v) =>
          v <= emits /\ v # value /\ \A l \in Listeners : ~Contains(received[l], v)

\* The value that goes round has reached those who were called.
Called ==
    emitting => \A l \in Listeners : Contains(received[l], value) =>
        \E i \in 1..at : listeners[i] = l

\* Who wants values is registered for good, and is who they are due to; on a
\* closed stream the value underway is the last.
WantedRegistered ==
    /\ wanted \subseteq ToSet(listeners) /\ wanted \cap pendingRemovals = {}
    /\ \A d \in due : IF streamClosed THEN d[1] = value ELSE d[2] \in wanted

\* The inductive invariant.
EventStreamInv ==
    /\ EventStreamTypeOK
    /\ EachOnce
    /\ Called
    /\ WantedRegistered
    /\ DeliveredOnce

\* The lists, and the values that go round.
LEMMA Lists ==
    ASSUME EventStreamTypeOK
    PROVE  /\ listeners \in Seq(Listeners) /\ Len(listeners) \in Nat
           /\ DOMAIN listeners = 1..Len(listeners)
           /\ at \in 0..Len(listeners)
           /\ emits \in Nat /\ MaxEmits \in Nat /\ value \in Nat
           /\ ToSet(listeners) \subseteq Listeners
<1>1. listeners \in Seq(Listeners)
    BY DEF EventStreamTypeOK
<1>2. Len(listeners) \in Nat /\ DOMAIN listeners = 1..Len(listeners)
      /\ \A i \in DOMAIN listeners : listeners[i] \in Listeners
    BY <1>1
<1> QED
    BY <1>1, <1>2, EventStreamAssumption DEF EventStreamTypeOK, ToSet

\* Who is still to be called.
Remaining(l) == \E i \in (at + 1)..Len(listeners) : listeners[i] = l

\* DeliveredOnce, in the terms of the invariant.
DueToSome ==
    /\ ~emitting => due = {}
    /\ \A l \in Listeners : IsInjective(received[l])
    /\ \A d \in due : Waiting(d[1]) \/ (d[1] = value /\ Remaining(d[2]))

LEMMA DueOnce == EventStreamTypeOK => (DeliveredOnce <=> DueToSome)
<1> SUFFICES ASSUME EventStreamTypeOK PROVE DeliveredOnce <=> DueToSome
    OBVIOUS
<1>1. \A y : Contains(SubSeq(listeners, at + 1, Len(listeners)), y) <=> Remaining(y)
    BY Lists, FromOn DEF Remaining
<1>2. \A d \in due :
         (\/ Contains(pendingEmits, d[1]) \/ Contains(queued, d[1])
          \/ d[1] = value /\ Contains(SubSeq(listeners, at + 1, Len(listeners)), d[2]))
         <=> (Waiting(d[1]) \/ (d[1] = value /\ Remaining(d[2])))
    <2> TAKE d \in due
    <2>1. Contains(SubSeq(listeners, at + 1, Len(listeners)), d[2]) <=> Remaining(d[2])
        BY <1>1
    <2> QED
        BY <2>1 DEF Waiting
<1> QED
    BY <1>2, Zenon DEF DeliveredOnce, DueToSome

LEMMA EventStreamStarts == EventStreamInit => EventStreamInv
<1> SUFFICES ASSUME EventStreamInit PROVE EventStreamInv
    OBVIOUS
<1> USE DEF EventStreamInit
<1>1. \A S : <<>> \in Seq(S)
    OBVIOUS
<1>2. IsInjective(<<>>) /\ \A y : ~Contains(<<>>, y)
    <2>1. DOMAIN <<>> = {} /\ Len(<<>>) = 0
        OBVIOUS
    <2> QED
        BY <2>1 DEF IsInjective, Contains
<1>3. EventStreamTypeOK
    <2>1. received \in [Listeners -> Seq(Values)]
        BY <1>1
    <2>2. at \in 0..Len(listeners)
        BY <1>1
    <2>3. emits \in 0..MaxEmits /\ value \in 0..MaxEmits
        BY EventStreamAssumption
    <2>4. listeners \in Seq(Listeners) /\ pendingEmits \in Seq(Values) /\ queued \in Seq(Values)
        BY <1>1
    <2>5. IsInjective(listeners)
        BY <1>2
    <2> QED
        BY <2>1, <2>2, <2>3, <2>4, <2>5 DEF EventStreamTypeOK
<1>4. EachOnce
    BY <1>2 DEF EachOnce, Waiting
<1>5. Called /\ WantedRegistered
    BY DEF Called, WantedRegistered
<1>6. DeliveredOnce
    BY <1>2 DEF DeliveredOnce
<1> QED
    BY <1>3, <1>4, <1>5, <1>6 DEF EventStreamInv

LEMMA SubscribeKept ==
    ASSUME EventStreamInv, NEW l \in Listeners, Subscribe(l)
    PROVE  EventStreamInv'
<1> USE DEF Subscribe
<1>0. EventStreamTypeOK /\ EachOnce /\ Called /\ WantedRegistered /\ DeliveredOnce
    BY DEF EventStreamInv
<1>1. /\ listeners' \in Seq(Listeners) /\ IsInjective(listeners')
      /\ Len(listeners') \in Nat /\ Len(listeners') >= Len(listeners)
      /\ DOMAIN listeners' = 1..Len(listeners')
      /\ \A i \in 1..Len(listeners) : listeners'[i] = listeners[i]
      /\ \A y : Contains(listeners', y) <=> Contains(listeners, y) \/ y = l
    <2>1. CASE Contains(listeners, l)
        BY <2>1, <1>0, Lists DEF EventStreamTypeOK
    <2>2. CASE ~Contains(listeners, l)
        <3>1. listeners' = Append(listeners, l)
            BY <2>2
        <3>2. IsInjective(listeners)
            BY <1>0 DEF EventStreamTypeOK
        <3>3. /\ Append(listeners, l) \in Seq(Listeners)
              /\ IsInjective(Append(listeners, l))
              /\ \A y : Contains(Append(listeners, l), y) <=> Contains(listeners, y) \/ y = l
            BY <1>0, <2>2, <3>2, Lists, EntryMore
        <3>4. /\ Len(Append(listeners, l)) = Len(listeners) + 1
              /\ \A i \in 1..Len(listeners) : Append(listeners, l)[i] = listeners[i]
            BY <1>0, Lists, AppendProperties
        <3>5. DOMAIN Append(listeners, l) = 1..Len(Append(listeners, l))
            BY <3>3
        <3> QED
            BY <3>1, <3>3, <3>4, <3>5, <1>0, Lists
    <2> QED
        BY <2>1, <2>2
<1>2. EventStreamTypeOK'
    <2>1. at' \in 0..Len(listeners')
        BY <1>0, <1>1, Lists
    <2>2. wanted' \subseteq Listeners
        BY <1>0 DEF EventStreamTypeOK
    <2> QED
        BY <1>0, <1>1, <2>1, <2>2 DEF EventStreamTypeOK
<1>3. EachOnce'
    BY <1>0 DEF EachOnce, Waiting
<1>4. Called'
    BY <1>0, <1>1, Lists DEF Called
<1>5. WantedRegistered'
    <2>1. \A y : Contains(listeners', y) <=> y \in ToSet(listeners')
        BY <1>1 DEF Contains, ToSet
    <2>2. \A y : Contains(listeners, y) <=> y \in ToSet(listeners)
        BY <1>0, Lists DEF Contains, ToSet
    <2>3. wanted \subseteq ToSet(listeners) /\ wanted \cap pendingRemovals = {}
          /\ \A d \in due : IF streamClosed THEN d[1] = value ELSE d[2] \in wanted
        BY <1>0 DEF WantedRegistered
    <2>4. wanted' \subseteq ToSet(listeners')
        BY <1>1, <2>1, <2>2, <2>3
    <2> QED
        BY <2>3, <2>4 DEF WantedRegistered
<1>6. DeliveredOnce'
    <2>1. \A y : Remaining(y) => Remaining(y)'
        BY <1>0, <1>1, Lists DEF Remaining
    <2>2. DueToSome
        BY <1>0, DueOnce
    <2>3. DueToSome'
        BY <2>1, <2>2 DEF DueToSome, Waiting
    <2>4. EventStreamTypeOK' => (DeliveredOnce' <=> DueToSome')
        BY DueOnce, PTL
    <2> QED
        BY <2>3, <2>4, <1>2
<1> QED
    BY <1>2, <1>3, <1>4, <1>5, <1>6 DEF EventStreamInv

LEMMA UnsubscribeKept ==
    ASSUME EventStreamInv, NEW l \in Listeners, Unsubscribe(l)
    PROVE  EventStreamInv'
<1> USE DEF Unsubscribe
<1>0. EventStreamTypeOK /\ EachOnce /\ Called /\ WantedRegistered /\ DueToSome
    BY DueOnce DEF EventStreamInv
<1>1. /\ wanted' = wanted \ {l} /\ due' = {d \in due : d[2] # l}
      /\ due' \subseteq due
      /\ UNCHANGED <<emitting, pendingEmits, streamClosed, value, at, queued, emits,
                     received>>
    OBVIOUS
<1>2. /\ listeners' \in Seq(Listeners) /\ IsInjective(listeners')
      /\ pendingRemovals' \subseteq Listeners
      /\ ~emitting => pendingRemovals' = pendingRemovals
      /\ emitting => listeners' = listeners /\ pendingRemovals' = pendingRemovals \cup {l}
      /\ ToSet(listeners) \ {l} \subseteq ToSet(listeners')
    <2>1. CASE emitting
        BY <2>1, <1>0 DEF EventStreamTypeOK
    <2>2. CASE ~emitting
        <3>1. listeners' = Without(listeners, {l}) /\ pendingRemovals' = pendingRemovals
            BY <2>2
        <3>2. \A y : y \in ToSet(Without(listeners, {l})) <=> y \in ToSet(listeners) /\ y \notin {l}
            BY <1>0, Lists, WithoutLeaves DEF EventStreamTypeOK
        <3>3. Without(listeners, {l}) \in Seq(Listeners) /\ IsInjective(Without(listeners, {l}))
            BY <1>0, Lists, WithoutLeaves DEF EventStreamTypeOK
        <3>4. ToSet(listeners) \ {l} \subseteq ToSet(Without(listeners, {l}))
            BY <3>2
        <3> QED
            BY <3>1, <3>3, <3>4, <2>2, <1>0 DEF EventStreamTypeOK
    <2> QED
        BY <2>1, <2>2
<1>3. at' \in 0..Len(listeners')
    <2>1. CASE emitting
        BY <2>1, <1>0, <1>1, <1>2, Lists
    <2>2. CASE ~emitting
        <3>1. Len(listeners') \in Nat
            BY <1>2
        <3>2. at = 0
            BY <2>2, <1>0 DEF EventStreamTypeOK
        <3> QED
            BY <3>1, <3>2, <1>1
    <2> QED
        BY <2>1, <2>2
<1>4. EventStreamTypeOK'
    <2>1. due' \subseteq Values \X Listeners /\ wanted' \subseteq Listeners
        BY <1>0, <1>1 DEF EventStreamTypeOK
    <2>2. ~emitting' => /\ pendingRemovals' = {} /\ pendingEmits' = <<>>
                        /\ queued' = <<>> /\ at' = 0
        BY <1>0, <1>1, <1>2 DEF EventStreamTypeOK
    <2> QED
        BY <1>0, <1>1, <1>2, <1>3, <2>1, <2>2 DEF EventStreamTypeOK, Values
<1>5. EachOnce'
    BY <1>0, <1>1 DEF EachOnce, Waiting, Values
<1>6. Called'
    BY <1>0, <1>1, <1>2 DEF Called
<1>7. WantedRegistered'
    <2>1. wanted' \subseteq ToSet(listeners')
        BY <1>0, <1>1, <1>2 DEF WantedRegistered
    <2>2. wanted' \cap pendingRemovals' = {}
        BY <1>0, <1>1, <1>2 DEF WantedRegistered
    <2>3. \A d \in due' : IF streamClosed' THEN d[1] = value' ELSE d[2] \in wanted'
        BY <1>0, <1>1 DEF WantedRegistered
    <2> QED
        BY <2>1, <2>2, <2>3 DEF WantedRegistered
<1>8. DueToSome'
    <2>1. CASE emitting
        BY <2>1, <1>0, <1>1, <1>2 DEF DueToSome, Remaining, Waiting
    <2>2. CASE ~emitting
        <3>1. due' = {}
            BY <2>2, <1>0, <1>1 DEF DueToSome
        <3> QED
            BY <3>1, <1>0, <1>1 DEF DueToSome
    <2> QED
        BY <2>1, <2>2
<1>9. EventStreamTypeOK' => (DeliveredOnce' <=> DueToSome')
    BY DueOnce, PTL
<1> QED
    BY <1>4, <1>5, <1>6, <1>7, <1>8, <1>9 DEF EventStreamInv

LEMMA CloseStreamKept ==
    ASSUME EventStreamInv, CloseStream
    PROVE  EventStreamInv'
<1> USE DEF CloseStream
<1>0. EventStreamTypeOK /\ EachOnce /\ Called /\ WantedRegistered /\ DueToSome
    BY DueOnce DEF EventStreamInv
<1>1. /\ wanted' = {} /\ due' = {d \in due : emitting /\ d[1] = value}
      /\ pendingEmits' = <<>> /\ streamClosed' = TRUE
      /\ UNCHANGED <<emitting, value, at, queued, emits, received>>
    OBVIOUS
<1>2. /\ <<>> \in Seq(Values) /\ IsInjective(<<>>) /\ \A y : ~Contains(<<>>, y)
    <2>1. DOMAIN <<>> = {} /\ Len(<<>>) = 0
        OBVIOUS
    <2> QED
        BY <2>1 DEF IsInjective, Contains
<1>3. /\ listeners' \in Seq(Listeners) /\ IsInjective(listeners')
      /\ pendingRemovals' \subseteq Listeners
      /\ emitting => listeners' = listeners
      /\ ~emitting => pendingRemovals' = {}
    <2>1. <<>> \in Seq(Listeners)
        OBVIOUS
    <2> QED
        BY <2>1, <1>0, <1>2, Lists DEF EventStreamTypeOK
<1>4. at' \in 0..Len(listeners')
    <2>1. CASE emitting
        BY <2>1, <1>0, <1>1, <1>3, Lists
    <2>2. CASE ~emitting
        <3>1. Len(listeners') \in Nat
            BY <1>3
        <3>2. at = 0
            BY <2>2, <1>0 DEF EventStreamTypeOK
        <3> QED
            BY <3>1, <3>2, <1>1
    <2> QED
        BY <2>1, <2>2
<1>5. EventStreamTypeOK'
    <2>1. due' \subseteq Values \X Listeners
        BY <1>0, <1>1 DEF EventStreamTypeOK
    <2>2. ~emitting' => /\ pendingRemovals' = {} /\ pendingEmits' = <<>>
                        /\ queued' = <<>> /\ at' = 0
        BY <1>0, <1>1, <1>3 DEF EventStreamTypeOK
    <2> QED
        BY <1>0, <1>1, <1>2, <1>3, <1>4, <2>1, <2>2 DEF EventStreamTypeOK, Values
<1>6. EachOnce'
    BY <1>0, <1>1, <1>2 DEF EachOnce, Waiting, Values
<1>7. Called'
    BY <1>0, <1>1, <1>3 DEF Called
<1>8. WantedRegistered'
    BY <1>0, <1>1 DEF WantedRegistered
<1>9. DueToSome'
    <2>1. CASE emitting
        <3>1. \A d \in due' : d \in due /\ d[1] = value /\ d[1] \in Values
            BY <1>0, <1>1 DEF EventStreamTypeOK
        <3>2. \A d \in due' : ~Waiting(d[1])
            BY <3>1, <1>0 DEF EachOnce
        <3> QED
            BY <2>1, <3>1, <3>2, <1>0, <1>1, <1>3 DEF DueToSome, Remaining
    <2>2. CASE ~emitting
        BY <2>2, <1>0, <1>1 DEF DueToSome
    <2> QED
        BY <2>1, <2>2
<1>10. EventStreamTypeOK' => (DeliveredOnce' <=> DueToSome')
    BY DueOnce, PTL
<1> QED
    BY <1>5, <1>6, <1>7, <1>8, <1>9, <1>10 DEF EventStreamInv

LEMMA EmitKept ==
    ASSUME EventStreamInv, Emit
    PROVE  EventStreamInv'
<1> USE DEF Emit
<1>0. EventStreamTypeOK /\ EachOnce /\ Called /\ WantedRegistered /\ DueToSome
    BY DueOnce DEF EventStreamInv
<1> DEFINE n == emits + 1
<1>1. /\ emits' = n /\ due' = due \cup {<<n, l>> : l \in wanted} /\ ~streamClosed
      /\ UNCHANGED <<listeners, pendingRemovals, streamClosed, queued, wanted, received>>
    OBVIOUS
<1>2. n \in Values /\ n \in 0..MaxEmits /\ n > emits /\ emits \in Nat /\ value <= emits
    BY <1>0, Lists DEF Values, EachOnce
<1>3. /\ ~Contains(pendingEmits, n) /\ ~Contains(queued, n)
      /\ \A l \in Listeners : ~Contains(received[l], n)
    BY <1>0, <1>2 DEF EachOnce, Waiting
<1>4. pendingEmits \in Seq(Values) /\ IsInjective(pendingEmits)
    BY <1>0 DEF EventStreamTypeOK, EachOnce
<1> HIDE DEF n
<1>5. emitting => /\ pendingEmits' = Append(pendingEmits, n)
                  /\ UNCHANGED <<emitting, value, at>>
                  /\ pendingEmits' \in Seq(Values) /\ IsInjective(pendingEmits')
                  /\ \A y : Contains(pendingEmits', y) <=> Contains(pendingEmits, y) \/ y = n
    <2> SUFFICES ASSUME emitting
                 PROVE  /\ pendingEmits' = Append(pendingEmits, n)
                        /\ UNCHANGED <<emitting, value, at>>
                        /\ pendingEmits' \in Seq(Values) /\ IsInjective(pendingEmits')
                        /\ \A y : Contains(pendingEmits', y) <=> Contains(pendingEmits, y) \/ y = n
        OBVIOUS
    <2>1. pendingEmits' = Append(pendingEmits, n) /\ UNCHANGED <<emitting, value, at>>
        BY DEF n
    <2>2. /\ Append(pendingEmits, n) \in Seq(Values)
          /\ \A y : Contains(Append(pendingEmits, n), y) <=> Contains(pendingEmits, y) \/ y = n
          /\ IsInjective(Append(pendingEmits, n))
        BY <1>2, <1>3, <1>4, EntryMore
    <2> QED
        BY <2>1, <2>2
<1>6. ~emitting => /\ emitting' = TRUE /\ value' = n /\ at' = 0
                   /\ pendingEmits' = pendingEmits /\ pendingRemovals = {}
                   /\ pendingEmits = <<>> /\ queued = <<>> /\ due = {}
    BY <1>0 DEF n, EventStreamTypeOK, DueToSome
<1>7. emitting'
    BY <1>5, <1>6
<1>8. EventStreamTypeOK'
    <2>1. due' \subseteq Values \X Listeners
        BY <1>0, <1>1, <1>2 DEF EventStreamTypeOK
    <2>2. value' \in 0..MaxEmits /\ at' \in 0..Len(listeners')
        BY <1>0, <1>1, <1>2, <1>5, <1>6, Lists DEF EventStreamTypeOK
    <2>3. pendingEmits' \in Seq(Values) /\ emitting' \in BOOLEAN
        BY <1>0, <1>4, <1>5, <1>6 DEF EventStreamTypeOK
    <2>4. queued' \in Seq(Values) /\ received' \in [Listeners -> Seq(Values)]
        BY <1>0, <1>1 DEF EventStreamTypeOK
    <2> QED
        BY <1>0, <1>1, <1>2, <1>7, <2>1, <2>2, <2>3, <2>4 DEF EventStreamTypeOK, Values
<1>9. EachOnce'
    <2>1. value' <= emits' /\ (emitting' => value' \in Values)
        <3>1. value \in Nat
            BY <1>0, Lists
        <3> QED
            BY <3>1, <1>0, <1>1, <1>2, <1>5, <1>6 DEF EachOnce
    <2>2. \A l \in Listeners : \A v \in Values : Contains(received'[l], v) => v <= emits'
        BY <1>0, <1>1, <1>2 DEF EachOnce, Values
    <2>3. IsInjective(pendingEmits') /\ IsInjective(queued')
        BY <1>0, <1>1, <1>4, <1>5, <1>6 DEF EachOnce
    <2>4. \A v \in Values : ~(Contains(pendingEmits', v) /\ Contains(queued', v))
        BY <1>0, <1>1, <1>3, <1>5, <1>6 DEF EachOnce
    <2>5. ASSUME NEW v \in Values, Waiting(v)'
          PROVE  v <= emits' /\ v # value' /\ \A l \in Listeners : ~Contains(received'[l], v)
        <3>1. CASE emitting
            <4>1. CASE v = n
                BY <3>1, <4>1, <1>1, <1>2, <1>3, <1>5
            <4>2. CASE v # n
                <5>1. Waiting(v)
                    BY <2>5, <3>1, <4>2, <1>1, <1>5 DEF Waiting
                <5> QED
                    BY <5>1, <3>1, <1>0, <1>1, <1>2, <1>5 DEF EachOnce, Values
            <4> QED
                BY <4>1, <4>2
        <3>2. CASE ~emitting
            <4>1. Waiting(v)
                BY <2>5, <3>2, <1>1, <1>6 DEF Waiting
            <4>2. Len(<<>>) = 0
                OBVIOUS
            <4> QED
                BY <4>1, <4>2, <3>2, <1>6 DEF Waiting, Contains
        <3> QED
            BY <3>1, <3>2
    <2> QED
        BY <2>1, <2>2, <2>3, <2>4, <2>5 DEF EachOnce
<1>10. Called'
    <2>1. CASE emitting
        BY <2>1, <1>0, <1>1, <1>5 DEF Called
    <2>2. CASE ~emitting
        BY <2>2, <1>1, <1>3, <1>6 DEF Called
    <2> QED
        BY <2>1, <2>2
<1>11. WantedRegistered'
    <2>1. \A d \in due' : d[2] \in wanted
        BY <1>0, <1>1 DEF WantedRegistered
    <2> QED
        BY <2>1, <1>0, <1>1 DEF WantedRegistered
<1>12. DueToSome'
    <2>1. CASE emitting
        <3>1. ASSUME NEW d \in due' PROVE Waiting(d[1])' \/ (d[1] = value' /\ Remaining(d[2])')
            <4>1. CASE d \in due
                BY <4>1, <2>1, <1>0, <1>1, <1>5 DEF DueToSome, Waiting, Remaining
            <4>2. CASE d \notin due
                BY <4>2, <3>1, <2>1, <1>1, <1>5 DEF Waiting
            <4> QED
                BY <4>1, <4>2
        <3> QED
            BY <2>1, <3>1, <1>0, <1>1, <1>5 DEF DueToSome
    <2>2. CASE ~emitting
        <3>1. ASSUME NEW d \in due' PROVE d[1] = value' /\ Remaining(d[2])'
            <4>1. d[1] = n /\ d[2] \in wanted
                BY <2>2, <3>1, <1>1, <1>6
            <4>2. d[2] \in ToSet(listeners)
                BY <4>1, <1>0 DEF WantedRegistered
            <4>3. PICK i \in 1..Len(listeners) : listeners[i] = d[2]
                BY <4>2, <1>0, Lists DEF ToSet
            <4> QED
                BY <4>1, <4>3, <2>2, <1>1, <1>6 DEF Remaining
        <3> QED
            BY <3>1, <1>0, <1>1, <1>7 DEF DueToSome
    <2> QED
        BY <2>1, <2>2
<1>13. EventStreamTypeOK' => (DeliveredOnce' <=> DueToSome')
    BY DueOnce, PTL
<1> QED
    BY <1>8, <1>9, <1>10, <1>11, <1>12, <1>13 DEF EventStreamInv

LEMMA NotifyNextKept ==
    ASSUME EventStreamInv, NotifyNext
    PROVE  EventStreamInv'
<1> USE DEF NotifyNext
<1>0. EventStreamTypeOK /\ EachOnce /\ Called /\ WantedRegistered /\ DueToSome
    BY DueOnce DEF EventStreamInv
<1> DEFINE l == listeners[at + 1]
<1>1. /\ emitting /\ at + 1 \in 1..Len(listeners) /\ at' = at + 1
      /\ received' = [received EXCEPT ![l] = Append(@, value)]
      /\ due' = due \ {<<value, l>>}
      /\ UNCHANGED <<listeners, emitting, pendingRemovals, pendingEmits, streamClosed,
                     value, queued, emits, wanted>>
    BY <1>0, Lists
<1>2. /\ l \in Listeners /\ value \in Values /\ value <= emits /\ listeners[at + 1] = l
      /\ at \in Nat /\ Len(listeners) \in Nat
    BY <1>0, <1>1, Lists DEF EachOnce
<1> HIDE DEF l
<1>3. ~Contains(received[l], value)
    <2> SUFFICES ASSUME Contains(received[l], value) PROVE FALSE
        OBVIOUS
    <2>1. PICK i \in 1..at : listeners[i] = l
        BY <1>0, <1>1, <1>2 DEF Called
    <2>2. i \in DOMAIN listeners /\ at + 1 \in DOMAIN listeners
        BY <1>0, <1>1, <1>2, Lists
    <2>3. i = at + 1
        BY <1>0, <1>2, <2>1, <2>2 DEF EventStreamTypeOK, IsInjective
    <2> QED
        BY <2>3, <1>2
<1>4. /\ received' \in [Listeners -> Seq(Values)]
      /\ \A m \in Listeners : m # l => received'[m] = received[m]
      /\ IsInjective(received'[l])
      /\ \A y : Contains(received'[l], y) <=> Contains(received[l], y) \/ y = value
    <2>1. received \in [Listeners -> Seq(Values)] /\ received[l] \in Seq(Values)
        BY <1>0, <1>2 DEF EventStreamTypeOK
    <2>2. IsInjective(received[l])
        BY <1>0, <1>2 DEF DueToSome
    <2>3. received'[l] = Append(received[l], value)
        BY <1>1, <1>2, <2>1
    <2>4. /\ Append(received[l], value) \in Seq(Values)
          /\ IsInjective(Append(received[l], value))
          /\ \A y : Contains(Append(received[l], value), y) <=> Contains(received[l], y) \/ y = value
        BY <1>2, <1>3, <2>1, <2>2, EntryMore
    <2> QED
        BY <1>1, <2>1, <2>3, <2>4
<1>5. EventStreamTypeOK'
    <2>1. at' \in 0..Len(listeners')
        BY <1>1, <1>2
    <2>2. due' \subseteq Values \X Listeners
        BY <1>0, <1>1 DEF EventStreamTypeOK
    <2> QED
        BY <1>0, <1>1, <1>4, <2>1, <2>2 DEF EventStreamTypeOK, Values
<1>6. EachOnce'
    <2>1. \A v \in Values : Waiting(v)' <=> Waiting(v)
        BY <1>1 DEF Waiting
    <2>2. ASSUME NEW m \in Listeners, NEW v \in Values, Contains(received'[m], v)
          PROVE  v <= emits'
        BY <2>2, <1>0, <1>1, <1>2, <1>4 DEF EachOnce
    <2>3. ASSUME NEW v \in Values, Waiting(v)
          PROVE  v <= emits' /\ v # value' /\ \A m \in Listeners : ~Contains(received'[m], v)
        BY <2>3, <1>0, <1>1, <1>4 DEF EachOnce
    <2> QED
        BY <1>0, <1>1, <2>1, <2>2, <2>3 DEF EachOnce, Values
<1>7. Called'
    <2> SUFFICES ASSUME NEW m \in Listeners, Contains(received'[m], value)
                 PROVE  \E i \in 1..(at + 1) : listeners[i] = m
        BY <1>1 DEF Called
    <2>1. CASE m = l
        BY <2>1, <1>1, <1>2
    <2>2. CASE m # l
        <3>1. PICK i \in 1..at : listeners[i] = m
            BY <2>2, <1>0, <1>1, <1>4 DEF Called
        <3>2. i \in 1..(at + 1)
            BY <1>2
        <3> QED
            BY <3>1, <3>2
    <2> QED
        BY <2>1, <2>2
<1>8. WantedRegistered'
    BY <1>0, <1>1 DEF WantedRegistered
<1>9. DueToSome'
    <2>1. ASSUME NEW d \in due' PROVE Waiting(d[1])' \/ (d[1] = value' /\ Remaining(d[2])')
        <3>1. d \in due /\ d # <<value, l>> /\ d \in Values \X Listeners
            BY <2>1, <1>0, <1>1 DEF EventStreamTypeOK
        <3>2. CASE Waiting(d[1])
            BY <3>2, <1>1 DEF Waiting
        <3>3. CASE d[1] = value /\ Remaining(d[2])
            <4>1. PICK i \in (at + 1)..Len(listeners) : listeners[i] = d[2]
                BY <3>3 DEF Remaining
            <4>2. d[2] # l
                BY <3>1, <3>3
            <4>3. i # at + 1
                BY <4>1, <4>2, <1>2
            <4>4. i \in (at' + 1)..Len(listeners')
                BY <4>3, <1>1, <1>2
            <4> QED
                BY <3>3, <4>1, <4>4, <1>1 DEF Remaining
        <3> QED
            BY <3>1, <3>2, <3>3, <1>0 DEF DueToSome
    <2>2. \A m \in Listeners : IsInjective(received'[m])
        BY <1>0, <1>4 DEF DueToSome
    <2> QED
        BY <1>1, <2>1, <2>2 DEF DueToSome
<1>10. EventStreamTypeOK' => (DeliveredOnce' <=> DueToSome')
    BY DueOnce, PTL
<1> QED
    BY <1>5, <1>6, <1>7, <1>8, <1>9, <1>10 DEF EventStreamInv

LEMMA EmitEndsKept ==
    ASSUME EventStreamInv, EmitEnds
    PROVE  EventStreamInv'
<1> USE DEF EmitEnds
<1>0. EventStreamTypeOK /\ EachOnce /\ Called /\ WantedRegistered /\ DueToSome
    BY DueOnce DEF EventStreamInv
<1>1. /\ emitting /\ at = Len(listeners) /\ at' = 0
      /\ listeners' = Without(listeners, pendingRemovals) /\ pendingRemovals' = {}
      /\ pendingEmits' = <<>>
      /\ UNCHANGED <<streamClosed, emits, wanted, due, received>>
    OBVIOUS
<1>2. /\ listeners' \in Seq(Listeners) /\ IsInjective(listeners')
      /\ \A y : y \in ToSet(listeners') <=> y \in ToSet(listeners) /\ y \notin pendingRemovals
    BY <1>0, <1>1, Lists, WithoutLeaves DEF EventStreamTypeOK
<1>3. /\ <<>> \in Seq(Values) /\ IsInjective(<<>>) /\ \A y : ~Contains(<<>>, y)
    <2>1. DOMAIN <<>> = {} /\ Len(<<>>) = 0
        OBVIOUS
    <2> QED
        BY <2>1 DEF IsInjective, Contains
<1>4. /\ Queue \in Seq(Values) /\ IsInjective(Queue)
      /\ \A y : Contains(Queue, y) <=> Waiting(y)
    <2>1. pendingEmits \in Seq(Values) /\ queued \in Seq(Values)
        BY <1>0 DEF EventStreamTypeOK
    <2>2. /\ pendingEmits \o queued \in Seq(Values)
          /\ \A y : Contains(pendingEmits \o queued, y) <=>
                       Contains(pendingEmits, y) \/ Contains(queued, y)
          /\ IsInjective(pendingEmits \o queued)
        BY <1>0, <2>1, ListsJoined DEF EachOnce
    <2> QED
        BY <2>2 DEF Queue, Waiting
<1>5. \A m : ~Remaining(m)
    BY <1>0, <1>1, Lists DEF Remaining
<1>6. \A d \in due : Waiting(d[1])
    BY <1>0, <1>5 DEF DueToSome
<1>7. wanted' \subseteq ToSet(listeners')
    BY <1>0, <1>1, <1>2 DEF WantedRegistered
<1>8. at' \in 0..Len(listeners')
    <2>1. Len(listeners') \in Nat
        BY <1>2
    <2> QED
        BY <1>1, <2>1
<1>9. EventStreamTypeOK' => (DeliveredOnce' <=> DueToSome')
    BY DueOnce, PTL
<1>10. CASE streamClosed \/ Queue = <<>>
    <2>1. emitting' = FALSE /\ queued' = <<>> /\ value' = value
        BY <1>10
    <2>2. due = {}
        <3>1. CASE streamClosed
            <4>1. \A d \in due : d[1] = value /\ d[1] \in Values
                BY <3>1, <1>0 DEF WantedRegistered, EventStreamTypeOK
            <4> QED
                BY <4>1, <1>0, <1>6 DEF EachOnce
        <3>2. CASE Queue = <<>>
            BY <3>2, <1>3, <1>4, <1>6
        <3> QED
            BY <1>10, <3>1, <3>2
    <2>3. EventStreamTypeOK'
        BY <1>0, <1>1, <1>2, <1>3, <1>8, <2>1, <2>2 DEF EventStreamTypeOK, Values
    <2>4. EachOnce'
        BY <1>0, <1>1, <1>3, <2>1 DEF EachOnce, Waiting, Values
    <2>5. Called' /\ WantedRegistered'
        BY <1>1, <1>7, <2>1, <2>2 DEF Called, WantedRegistered
    <2>6. DueToSome'
        BY <1>0, <1>1, <2>2 DEF DueToSome
    <2> QED
        BY <1>9, <2>3, <2>4, <2>5, <2>6 DEF EventStreamInv
<1>11. CASE ~(streamClosed \/ Queue = <<>>)
    <2> DEFINE v == Head(Queue)
    <2>1. value' = v /\ queued' = Tail(Queue) /\ emitting' = emitting /\ ~streamClosed
        BY <1>11
    <2>2. /\ v \in Values /\ Tail(Queue) \in Seq(Values)
          /\ \A y : Contains(Queue, y) <=> Contains(Tail(Queue), y) \/ y = v
          /\ IsInjective(Tail(Queue)) /\ ~Contains(Tail(Queue), v)
        BY <1>4, <1>11, EntryLess
    <2> HIDE DEF v
    <2>3. \A y : Waiting(y) <=> Contains(queued', y) \/ y = v
        BY <1>4, <2>1, <2>2
    <2>4. \A y : Waiting(y)' <=> Contains(queued', y)
        BY <1>1, <1>3 DEF Waiting
    <2>5. v <= emits /\ \A m \in Listeners : ~Contains(received[m], v)
        BY <1>0, <2>2, <2>3 DEF EachOnce
    <2>6. EventStreamTypeOK'
        <3>1. v \in 0..MaxEmits
            BY <1>0, <2>2, Lists DEF Values
        <3> QED
            BY <1>0, <1>1, <1>2, <1>3, <1>8, <2>1, <2>2, <3>1 DEF EventStreamTypeOK, Values
    <2>7. EachOnce'
        <3>1. value' <= emits' /\ (emitting' => value' \in Values)
            BY <1>1, <2>1, <2>2, <2>5
        <3>2. \A l \in Listeners : \A y \in Values : Contains(received'[l], y) => y <= emits'
            BY <1>0, <1>1 DEF EachOnce
        <3>3. /\ IsInjective(pendingEmits') /\ IsInjective(queued')
              /\ \A y \in Values : ~(Contains(pendingEmits', y) /\ Contains(queued', y))
            BY <1>1, <1>3, <2>1, <2>2
        <3>4. ASSUME NEW y \in Values, Waiting(y)'
              PROVE  y <= emits' /\ y # value' /\ \A l \in Listeners : ~Contains(received'[l], y)
            <4>1. Contains(queued', y) /\ Waiting(y)
                BY <3>4, <2>3, <2>4
            <4>2. y # v
                BY <4>1, <2>1, <2>2
            <4> QED
                BY <4>1, <4>2, <1>0, <1>1, <2>1 DEF EachOnce
        <3> QED
            BY <3>1, <3>2, <3>3, <3>4 DEF EachOnce, Values
    <2>8. Called'
        BY <1>1, <2>1, <2>5 DEF Called
    <2>9. WantedRegistered'
        <3>1. \A d \in due' : d[2] \in wanted'
            BY <1>0, <1>1, <2>1 DEF WantedRegistered
        <3> QED
            BY <3>1, <1>1, <1>7, <2>1 DEF WantedRegistered
    <2>10. DueToSome'
        <3>1. ASSUME NEW d \in due' PROVE Waiting(d[1])' \/ (d[1] = value' /\ Remaining(d[2])')
            <4>1. d[2] \in ToSet(listeners') /\ d[2] \in wanted
                BY <3>1, <1>0, <1>1, <1>7, <2>1 DEF WantedRegistered
            <4>2. PICK i \in DOMAIN listeners' : listeners'[i] = d[2]
                BY <4>1 DEF ToSet
            <4>3. i \in (at' + 1)..Len(listeners')
                BY <4>2, <1>1, <1>2
            <4>4. Remaining(d[2])'
                BY <4>2, <4>3 DEF Remaining
            <4>5. d[1] = v \/ Waiting(d[1])'
                BY <3>1, <1>1, <1>6, <2>3, <2>4
            <4> QED
                BY <4>4, <4>5, <2>1
        <3> QED
            BY <3>1, <1>0, <1>1, <2>1 DEF DueToSome
    <2> QED
        BY <1>9, <2>6, <2>7, <2>8, <2>9, <2>10 DEF EventStreamInv
<1> QED
    BY <1>10, <1>11

\* The inductive invariant of a stream of events holds in every reachable
\* state, whatever its listeners do while they are called (events.ts).
THEOREM EventStreamInvariance == EventStreamSpec => []EventStreamInv
<1>1. EventStreamInv /\ [EventStreamNext]_streamVars => EventStreamInv'
    <2> SUFFICES ASSUME EventStreamInv, [EventStreamNext]_streamVars
                 PROVE  EventStreamInv'
        OBVIOUS
    <2>1. ASSUME NEW l \in Listeners, Subscribe(l) \/ Unsubscribe(l)
          PROVE  EventStreamInv'
        BY <2>1, SubscribeKept, UnsubscribeKept
    <2>2. CASE UNCHANGED streamVars
        BY <2>2 DEF streamVars, EventStreamInv, EventStreamTypeOK, EachOnce, Called,
                    WantedRegistered, DeliveredOnce, Waiting, Values
    <2> QED
        BY <2>1, <2>2, EmitKept, CloseStreamKept, NotifyNextKept, EmitEndsKept
           DEF EventStreamNext
<1> QED
    BY EventStreamStarts, <1>1, PTL DEF EventStreamSpec

\* The variables of a stream keep their types; no listener is registered
\* twice, and nothing is left over between two emits.
THEOREM EventStreamTypeCorrect == EventStreamSpec => []EventStreamTypeOK
<1>1. EventStreamInv => EventStreamTypeOK
    BY DEF EventStreamInv
<1> QED
    BY <1>1, EventStreamInvariance, PTL

\* A value reaches everybody who is subscribed when it is emitted and stays
\* so, once, unless the stream closes first: DeliveredOnce, for any number of
\* listeners and values and any nesting of emits (events.ts).
THEOREM EventsDeliveredOnce == EventStreamSpec => []DeliveredOnce
<1>1. EventStreamInv => DeliveredOnce
    BY DEF EventStreamInv
<1> QED
    BY <1>1, EventStreamInvariance, PTL

-----------------------------------------------------------------------------
(* Diagnostics                                                             *)

\* Followers were sent only what was logged.
SeenSoFar ==
    /\ Len(logged) <= MaxEntries
    /\ \A f \in Followers : connected[f] # 0 => ToSet(seen[f]) \subseteq 1..Len(logged)

\* The inductive invariant.
DebugInv == DebugTypeOK /\ SeenSoFar /\ TelemetryComplete

-----------------------------------------------------------------------------
(* The ring *)

\* The numbers after lo, up to n.
NumbersAfter(lo, n) == [k \in 1..(n - lo) |-> lo + k]

\* How many entries push keeps.
RingSize == IF Capacity > 1 THEN Capacity ELSE 1

\* The number after which the ring begins.
Lowest(lo, n) == IF n - lo <= RingSize THEN lo ELSE n - RingSize

LEMMA AfterIs ==
    ASSUME NEW lo \in Nat, NEW n \in Nat, lo <= n
    PROVE  /\ NumbersAfter(lo, n) \in Seq(Nat) /\ Len(NumbersAfter(lo, n)) = n - lo
           /\ DOMAIN NumbersAfter(lo, n) = 1..(n - lo)
           /\ \A k \in 1..(n - lo) : NumbersAfter(lo, n)[k] = lo + k
           /\ \A i \in (lo + 1)..n : i - lo \in 1..(n - lo) /\ NumbersAfter(lo, n)[i - lo] = i
           /\ ToSet(NumbersAfter(lo, n)) = (lo + 1)..n
<1> DEFINE t == NumbersAfter(lo, n)
<1>1. n - lo \in Nat /\ t = [k \in 1..(n - lo) |-> lo + k]
    BY DEF NumbersAfter
<1>2. t \in [1..(n - lo) -> Nat]
    BY <1>1
<1>3. t \in Seq(Nat) /\ Len(t) = n - lo /\ DOMAIN t = 1..(n - lo)
    BY <1>1, <1>2, IsASeq, LenProperties
<1>4. \A k \in 1..(n - lo) : t[k] = lo + k
    BY <1>1
<1> HIDE DEF t
<1>5. \A i \in (lo + 1)..n : i - lo \in 1..(n - lo) /\ t[i - lo] = i
    <2> TAKE i \in (lo + 1)..n
    <2>1. i - lo \in 1..(n - lo) /\ lo + (i - lo) = i
        OBVIOUS
    <2> QED
        BY <2>1, <1>4
<1>6. \A k \in 1..(n - lo) : t[k] \in (lo + 1)..n
    BY <1>4
<1>7. ToSet(t) = (lo + 1)..n
    BY <1>3, <1>5, <1>6 DEF ToSet
<1> QED
    BY <1>3, <1>4, <1>5, <1>7 DEF t

\* push on numbers that follow each other.
LEMMA KeptIs ==
    ASSUME NEW lo \in Nat, NEW n \in Nat, lo <= n
    PROVE  /\ Kept(NumbersAfter(lo, n)) = NumbersAfter(Lowest(lo, n), n)
           /\ Lowest(lo, n) \in lo..n
<1> DEFINE s == NumbersAfter(lo, n)
<1>1. RingSize \in Nat \ {0}
    BY DebugAssumption DEF RingSize
<1>2. Lowest(lo, n) \in lo..n
    BY <1>1 DEF Lowest
<1>3. s \in Seq(Nat) /\ Len(s) = n - lo /\ n - lo \in Nat
      /\ \A k \in 1..(n - lo) : s[k] = lo + k
    BY AfterIs
<1> HIDE DEF s
<1>4. Kept(s) = IF n - lo <= RingSize THEN s
                ELSE SubSeq(s, n - lo - RingSize + 1, n - lo)
    BY <1>3 DEF Kept, RingSize
<1>5. CASE n - lo <= RingSize
    BY <1>2, <1>4, <1>5 DEF Lowest, s
<1>6. CASE ~(n - lo <= RingSize)
    <2> DEFINE m == n - RingSize
               u == SubSeq(s, n - lo - RingSize + 1, n - lo)
    <2>1. m \in Nat /\ m <= n /\ Lowest(lo, n) = m /\ n - m = RingSize
        BY <1>1, <1>6 DEF Lowest
    <2>2. n - lo - RingSize + 1 \in 1..(n - lo + 1)
        BY <1>1, <1>6
    <2>3. u \in Seq(Nat) /\ Len(u) = RingSize
          /\ \A k \in 1..RingSize : u[k] = s[(n - lo - RingSize + 1) + k - 1]
        BY <1>1, <1>3, <1>6, <2>2, SubSeqProperties
    <2>4. ASSUME NEW k \in 1..RingSize PROVE u[k] = m + k
        <3>1. (n - lo - RingSize + 1) + k - 1 \in 1..(n - lo)
            BY <1>1, <1>6
        <3>2. lo + ((n - lo - RingSize + 1) + k - 1) = m + k
            BY <1>1
        <3> QED
            BY <1>3, <2>3, <3>1, <3>2
    <2> HIDE DEF u
    <2>5. NumbersAfter(m, n) \in Seq(Nat) /\ Len(NumbersAfter(m, n)) = RingSize
          /\ \A k \in 1..RingSize : NumbersAfter(m, n)[k] = m + k
        BY <2>1, AfterIs
    <2> HIDE DEF m
    <2>6. u = NumbersAfter(m, n)
        BY <1>1, <2>3, <2>4, <2>5, SeqEqual
    <2> QED
        BY <1>2, <1>4, <1>6, <2>1, <2>6 DEF s, u
<1> QED
    BY <1>5, <1>6

\* The next entry.
LEMMA AfterNext ==
    ASSUME NEW lo \in Nat, NEW n \in Nat, lo <= n
    PROVE  Append(NumbersAfter(lo, n), n + 1) = NumbersAfter(lo, n + 1)
<1> DEFINE s == Append(NumbersAfter(lo, n), n + 1)
           t == NumbersAfter(lo, n + 1)
<1>1. NumbersAfter(lo, n) \in Seq(Nat) /\ Len(NumbersAfter(lo, n)) = n - lo
      /\ \A k \in 1..(n - lo) : NumbersAfter(lo, n)[k] = lo + k
    BY AfterIs
<1>2. s \in Seq(Nat) /\ Len(s) = n - lo + 1
      /\ s[n - lo + 1] = n + 1 /\ \A k \in 1..(n - lo) : s[k] = NumbersAfter(lo, n)[k]
    BY <1>1, AppendProperties
<1>3. t \in Seq(Nat) /\ Len(t) = n + 1 - lo /\ \A k \in 1..(n + 1 - lo) : t[k] = lo + k
    BY AfterIs
<1>4. ASSUME NEW k \in 1..(n - lo + 1) PROVE s[k] = lo + k
    <2>1. CASE k \in 1..(n - lo)
        BY <2>1, <1>1, <1>2
    <2>2. CASE k \notin 1..(n - lo)
        <3>1. k = n - lo + 1 /\ lo + k = n + 1
            BY <2>2
        <3> QED
            BY <3>1, <1>2
    <2> QED
        BY <2>1, <2>2
<1> HIDE DEF s, t
<1>5. n - lo + 1 = n + 1 - lo
    OBVIOUS
<1>6. s = t
    BY <1>2, <1>3, <1>4, <1>5, SeqEqual
<1> QED
    BY <1>6 DEF s, t

\* The ring goes on as if nothing had been dropped from it before.
LEMMA KeptNext ==
    ASSUME NEW lo \in Nat, NEW n \in Nat, lo <= n
    PROVE  Kept(Append(Kept(NumbersAfter(lo, n)), n + 1)) = Kept(NumbersAfter(lo, n + 1))
<1> DEFINE m == Lowest(lo, n)
<1>1. Kept(NumbersAfter(lo, n)) = NumbersAfter(m, n) /\ m \in lo..n
    BY KeptIs
<1> HIDE DEF m
<1>2. Append(NumbersAfter(m, n), n + 1) = NumbersAfter(m, n + 1)
    BY <1>1, AfterNext
<1>3. Kept(NumbersAfter(m, n + 1)) = NumbersAfter(Lowest(m, n + 1), n + 1)
    BY <1>1, KeptIs
<1>4. Kept(NumbersAfter(lo, n + 1)) = NumbersAfter(Lowest(lo, n + 1), n + 1)
    BY KeptIs
<1>5. Lowest(m, n + 1) = Lowest(lo, n + 1)
    <2>1. RingSize \in Nat \ {0}
        BY DebugAssumption DEF RingSize
    <2> QED
        BY <1>1, <2>1 DEF Lowest, m
<1> QED
    BY <1>1, <1>2, <1>3, <1>4, <1>5

-----------------------------------------------------------------------------
\* What the runtime logs has a level, an event and a status.
LEMMA KindFields ==
    ASSUME NEW k \in Kinds
    PROVE  /\ k.level \in Nat /\ k.status \in Nat
           /\ k.event = "event" => ~IsFailure(k)
<1>1. k \in RuntimeEntries
    BY DebugAssumption
<1>2. CASE \E direction \in {"in", "out"}, status \in {0, 1}, json \in BOOLEAN,
            op \in {"Request", "RequestResponse", "Event", "Hello", "Identify", "Identified"} :
                k = RpcEntry(direction, op, status, json)
    <2>1. PICK direction \in {"in", "out"}, status \in {0, 1}, json \in BOOLEAN,
            op \in {"Request", "RequestResponse", "Event", "Hello", "Identify", "Identified"} :
                k = RpcEntry(direction, op, status, json)
        BY <1>2
    <2>2. /\ k.level = 10
          /\ k.status = IF op = "RequestResponse" THEN status ELSE 0
          /\ k.event = CASE op = "Request" -> "request"
                         [] op = "RequestResponse" -> "response"
                         [] op = "Event" -> "event"
                         [] OTHER -> "handshake"
        BY <2>1 DEF RpcEntry, Entry, Level
    <2> QED
        BY <2>2 DEF IsFailure, Level
<1>3. CASE k \in {ControlEntry, StreamEntry, HandshakeReady, HandshakeError,
                  DispatchEntry(0), DispatchEntry(1), ListenerEntry}
    BY <1>3 DEF ControlEntry, StreamEntry, HandshakeReady, HandshakeError,
                DispatchEntry, ListenerEntry, Entry, Level, IsFailure
<1> QED
    BY <1>1, <1>2, <1>3 DEF RuntimeEntries

\* Types that the proofs need one by one.
LEMMA Logs ==
    ASSUME DebugTypeOK, SeenSoFar
    PROVE  /\ logged \in Seq(Kinds) /\ Len(logged) \in Nat
           /\ DOMAIN logged = 1..Len(logged)
           /\ \A n \in 1..Len(logged) : logged[n] \in Kinds
           /\ clearedAt \in 0..Len(logged) /\ clearedAt \in Nat
           /\ MaxEntries \in Nat /\ Len(logged) <= MaxEntries
           /\ ring \in Seq(Numbers) /\ DOMAIN ring = 1..Len(ring) /\ Len(ring) \in Nat
<1>1. logged \in Seq(Kinds) /\ clearedAt \in 0..Len(logged) /\ ring \in Seq(Numbers)
    BY DEF DebugTypeOK
<1> QED
    BY <1>1, DebugAssumption DEF SeenSoFar

\* The ring: the numbers after some, up to the last.
LEMMA RingIs ==
    ASSUME DebugTypeOK, SeenSoFar, LatestKept
    PROVE  \E lo \in Nat :
              /\ lo <= Len(logged) /\ ring = NumbersAfter(lo, Len(logged))
              /\ ToSet(ring) = (lo + 1)..Len(logged)
              /\ Len(ring) = Len(logged) - lo
              /\ \A i \in DOMAIN ring : ring[i] = lo + i /\ ring[i] \in 1..Len(logged)
              /\ \A i, j \in DOMAIN ring : i < j => ring[i] < ring[j]
<1> DEFINE n == Len(logged)
           lo == Lowest(clearedAt, n)
<1>1. n \in Nat /\ clearedAt \in Nat /\ clearedAt <= n
    BY Logs
<1> HIDE DEF n
<1>2. ring = Kept(NumbersAfter(clearedAt, n))
    BY DEF LatestKept, NumbersAfter, n
<1>3. ring = NumbersAfter(lo, n) /\ lo \in clearedAt..n
    BY <1>1, <1>2, KeptIs
<1> HIDE DEF lo
<1>4. lo \in Nat /\ lo <= n
    BY <1>1, <1>3
<1>5. /\ Len(ring) = n - lo /\ DOMAIN ring = 1..(n - lo)
      /\ \A k \in 1..(n - lo) : ring[k] = lo + k
      /\ ToSet(ring) = (lo + 1)..n
    BY <1>1, <1>3, <1>4, AfterIs
<1>6. \A i \in DOMAIN ring : ring[i] = lo + i /\ ring[i] \in 1..n
    BY <1>1, <1>4, <1>5
<1>7. \A i, j \in DOMAIN ring : i < j => ring[i] < ring[j]
    BY <1>4, <1>5
<1> QED
    BY <1>3, <1>4, <1>5, <1>6, <1>7 DEF n

\* The lists of /api/events are taken from the ring.
LEMMA FilteredIs ==
    ASSUME DebugTypeOK, SeenSoFar, NEW e
    PROVE  /\ Len(Filtered(e)) = Cardinality({i \in DOMAIN ring : Matches(logged[ring[i]], e)})
           /\ \A k \in DOMAIN Filtered(e) : Filtered(e)[k] \in ToSet(ring)
<1> DEFINE I == {i \in DOMAIN ring : Matches(logged[ring[i]], e)}
<1>1. ring \in Seq(Numbers) /\ I \in SUBSET DOMAIN ring
    BY Logs
<1> HIDE DEF I
<1>2. /\ Len(At(ring, I)) = Cardinality(I)
      /\ \A k \in DOMAIN At(ring, I) : \E i \in I : At(ring, I)[k] = ring[i]
    BY <1>1, AtTakes
<1>3. Filtered(e) = At(ring, I)
    BY DEF Filtered, I
<1>4. \A k \in DOMAIN At(ring, I) : At(ring, I)[k] \in ToSet(ring)
    BY <1>1, <1>2 DEF ToSet
<1> QED
    BY <1>2, <1>3, <1>4 DEF I

\* The counts follow from what the ring holds: an event is no failure.
LEMMA Counts ==
    ASSUME DebugTypeOK, SeenSoFar, LatestKept
    PROVE  CountsAgree
<1>1. \A i \in DOMAIN ring : logged[ring[i]] \in Kinds
    BY RingIs, Logs
<1>2. Stats.all = Len(Filtered("all"))
    <2>1. {i \in DOMAIN ring : Matches(logged[ring[i]], "all")} = DOMAIN ring
        <3>1. \A k : Matches(k, "all") = TRUE
            BY DEF Matches
        <3> QED
            BY <3>1
    <2>2. Cardinality(1..Len(ring)) = IF 1 > Len(ring) THEN 0 ELSE Len(ring) - 1 + 1
        <3>1. Len(ring) \in Int /\ 1 \in Int
            BY Logs
        <3> QED
            BY <3>1, FS_Interval
    <2>3. Cardinality(DOMAIN ring) = Len(ring)
        BY <2>2, Logs
    <2>4. Len(Filtered("all")) = Len(ring)
        BY <2>1, <2>3, FilteredIs
    <2> QED
        BY <2>4 DEF Stats
<1>3. Stats.requests = Len(Filtered("requests"))
    <2>1. {i \in DOMAIN ring : Matches(logged[ring[i]], "requests")}
            = {i \in DOMAIN ring : logged[ring[i]].event = "request"}
        BY DEF Matches
    <2> QED
        BY <2>1, FilteredIs DEF Stats
<1>4. Stats.responses = Len(Filtered("responses"))
    <2>1. {i \in DOMAIN ring : Matches(logged[ring[i]], "responses")}
            = {i \in DOMAIN ring : logged[ring[i]].event = "response"}
        BY DEF Matches
    <2> QED
        BY <2>1, FilteredIs DEF Stats
<1>5. Stats.events = Len(Filtered("events"))
    <2>1. {i \in DOMAIN ring : Matches(logged[ring[i]], "events")}
            = {i \in DOMAIN ring : logged[ring[i]].event = "event"}
        BY <1>1, KindFields DEF Matches
    <2> QED
        BY <2>1, FilteredIs DEF Stats
<1>6. Stats.errors = Len(Filtered("errors"))
    <2>1. {i \in DOMAIN ring : Matches(logged[ring[i]], "errors")}
            = {i \in DOMAIN ring : IsFailure(logged[ring[i]])}
        BY DEF Matches
    <2> QED
        BY <2>1, FilteredIs DEF Stats
<1>7. DOMAIN Stats = {"all", "requests", "responses", "events", "errors"}
    BY DEF Stats
<1> QED
    BY <1>2, <1>3, <1>4, <1>5, <1>6, <1>7 DEF CountsAgree

LEMMA DebugStarts == DebugInit => DebugInv
<1> SUFFICES ASSUME DebugInit PROVE DebugInv
    OBVIOUS
<1> USE DEF DebugInit
<1>1. (\A S : <<>> \in Seq(S)) /\ Len(<<>>) = 0 /\ DOMAIN <<>> = {}
    OBVIOUS
<1>2. DebugTypeOK
    <2>1. IsInjective(following) /\ \A f : ~Contains(following, f)
        BY <1>1 DEF IsInjective, Contains
    <2>2. seen \in [Followers -> Seq(Numbers)] /\ since \in [Followers -> 0..MaxEntries]
        BY <1>1, DebugAssumption
    <2>3. clearedAt \in 0..Len(logged)
        BY <1>1
    <2> QED
        BY <1>1, <2>1, <2>2, <2>3 DEF DebugTypeOK
<1>3. SeenSoFar
    BY <1>1, DebugAssumption DEF SeenSoFar
<1>4. LatestKept
    <2>1. NumbersAfter(0, 0) \in Seq(Nat) /\ Len(NumbersAfter(0, 0)) = 0
        BY AfterIs
    <2>2. NumbersAfter(0, 0) = <<>>
        BY <2>1
    <2>3. Kept(<<>>) = <<>>
        BY <1>1, DebugAssumption DEF Kept
    <2> QED
        BY <1>1, <2>2, <2>3 DEF LatestKept, NumbersAfter
<1>5. FollowersTold /\ ConnectionsServed /\ CrashExplained
    BY DEF FollowersTold, ConnectionsServed, CrashExplained, Instances
<1>6. CountsAgree
    BY <1>2, <1>3, <1>4, Counts
<1> QED
    BY <1>2, <1>3, <1>4, <1>5, <1>6 DEF DebugInv, TelemetryComplete

\* What the collector holds does not depend on the server.
LEMMA CollectorSame ==
    ASSUME DebugInv, UNCHANGED collectorVars
    PROVE  SeenSoFar' /\ LatestKept' /\ FollowersTold' /\ CountsAgree'
<1>1. SeenSoFar /\ LatestKept /\ FollowersTold /\ CountsAgree
    BY DEF DebugInv, TelemetryComplete
<1>2. SeenSoFar' /\ LatestKept'
    BY <1>1 DEF collectorVars, SeenSoFar, LatestKept, Kept
<1>3. FollowersTold'
    BY <1>1 DEF collectorVars, FollowersTold, Plain
<1>4. CountsAgree'
    BY <1>1 DEF collectorVars, CountsAgree, Stats, Filtered, Matches, IsFailure
<1> QED
    BY <1>2, <1>3, <1>4

\* The actions of the server.
LEMMA ServerKept ==
    ASSUME DebugInv, UNCHANGED collectorVars, UNCHANGED crashed,
           \/ Listen \/ CloseServer
           \/ \E s \in Instances : Listening(s) \/ ListenFails(s) \/ Closed(s)
    PROVE  DebugInv'
<1>0. DebugTypeOK /\ SeenSoFar /\ ConnectionsServed /\ CrashExplained
    BY DEF DebugInv, TelemetryComplete
<1>1. SeenSoFar' /\ LatestKept' /\ FollowersTold' /\ CountsAgree' /\ CrashExplained'
    <2>1. SeenSoFar' /\ LatestKept' /\ FollowersTold' /\ CountsAgree'
        BY CollectorSame
    <2>2. CrashExplained'
        BY <1>0 DEF collectorVars, CrashExplained
    <2> QED
        BY <2>1, <2>2
<1>2. /\ current \in {0} \cup Instances /\ url \in {0} \cup Instances
      /\ servers \in [Instances -> {"none", "starting", "listening", "failed", "closed"}]
      /\ closing \subseteq Instances
      /\ url # 0 => servers[url] = "listening"
      /\ \A s \in closing : servers[s] = "closed" /\ s # current /\ s # url
      /\ 0 \notin Instances
    BY <1>0 DEF DebugTypeOK, Instances
<1>3. ASSUME /\ current' \in {0} \cup Instances /\ url' \in {0} \cup Instances
             /\ servers' \in [Instances -> {"none", "starting", "listening", "failed", "closed"}]
             /\ closing' \subseteq Instances
             /\ url' # 0 => servers'[url'] = "listening"
             /\ \A s \in closing' : servers'[s] = "closed" /\ s # current' /\ s # url'
      PROVE  DebugTypeOK'
    BY <1>0, <1>3 DEF DebugTypeOK, collectorVars, Instances
<1>4. ASSUME \A s \in Instances, f \in Followers : connected[f] = s /\ (Serving(s) \/ s \in closing)
                => servers'[s] = "listening" \/ s \in closing'
      PROVE  ConnectionsServed'
    BY <1>0, <1>4 DEF ConnectionsServed, Serving, collectorVars, Instances
<1>5. CASE Listen
    <2>1. PICK s \in Instances : /\ servers[s] = "none" /\ current' = s
                                 /\ servers' = [servers EXCEPT ![s] = "starting"]
        BY <1>5 DEF Listen
    <2>2. url' = url /\ closing' = closing
        BY <1>5 DEF Listen
    <2>3. DebugTypeOK'
        BY <1>2, <1>3, <2>1, <2>2
    <2>4. ConnectionsServed'
        BY <1>2, <1>4, <2>1, <2>2 DEF Serving
    <2> QED
        BY <1>1, <2>3, <2>4 DEF DebugInv, TelemetryComplete
<1>6. CASE CloseServer
    <2>1. current # 0 /\ current' = 0 /\ url' = 0 /\ current \in Instances
        BY <1>2, <1>6 DEF CloseServer
    <2>2. CASE Serving(current)
        <3>1. servers' = [servers EXCEPT ![current] = "closed"] /\ closing' = closing \cup {current}
            BY <1>6, <2>2 DEF CloseServer
        <3>2. DebugTypeOK'
            BY <1>2, <1>3, <2>1, <3>1
        <3>3. ConnectionsServed'
            BY <1>2, <1>4, <2>1, <3>1 DEF Serving
        <3> QED
            BY <1>1, <3>2, <3>3 DEF DebugInv, TelemetryComplete
    <2>3. CASE ~Serving(current)
        <3>1. servers' = servers /\ closing' = closing
            BY <1>6, <2>3 DEF CloseServer
        <3>2. DebugTypeOK'
            BY <1>2, <1>3, <2>1, <3>1
        <3>3. ConnectionsServed'
            BY <1>2, <1>4, <2>1, <3>1 DEF Serving
        <3> QED
            BY <1>1, <3>2, <3>3 DEF DebugInv, TelemetryComplete
    <2> QED
        BY <2>2, <2>3
<1>7. ASSUME NEW s \in Instances, Listening(s) PROVE DebugInv'
    <2>1. /\ servers[s] = "starting" /\ servers' = [servers EXCEPT ![s] = "listening"]
          /\ url' = s /\ current' = current /\ closing' = closing
        BY <1>7 DEF Listening
    <2>2. DebugTypeOK'
        BY <1>2, <1>3, <2>1
    <2>3. ConnectionsServed'
        BY <1>2, <1>4, <2>1 DEF Serving
    <2> QED
        BY <1>1, <2>2, <2>3 DEF DebugInv, TelemetryComplete
<1>8. ASSUME NEW s \in Instances, ListenFails(s) PROVE DebugInv'
    <2>1. /\ servers[s] = "starting" /\ servers' = [servers EXCEPT ![s] = "failed"]
          /\ url' = url /\ current' = current /\ closing' = closing
        BY <1>8 DEF ListenFails
    <2>2. DebugTypeOK'
        BY <1>2, <1>3, <2>1
    <2>3. ConnectionsServed'
        BY <1>2, <1>4, <2>1 DEF Serving
    <2> QED
        BY <1>1, <2>2, <2>3 DEF DebugInv, TelemetryComplete
<1>9. ASSUME NEW s \in Instances, Closed(s) PROVE DebugInv'
    <2>1. /\ s \in closing /\ \A f \in Followers : connected[f] # s
          /\ closing' = closing \ {s}
          /\ url' = url /\ current' = current /\ servers' = servers
        BY <1>9 DEF Closed
    <2>2. DebugTypeOK'
        BY <1>2, <1>3, <2>1
    <2>3. ConnectionsServed'
        BY <1>2, <1>4, <2>1 DEF Serving
    <2> QED
        BY <1>1, <2>2, <2>3 DEF DebugInv, TelemetryComplete
<1> QED
    BY <1>5, <1>6, <1>7, <1>8, <1>9

\* A request that throws ends the process, and only with an entry JSON cannot
\* express in the ring.
LEMMA CrashKept ==
    ASSUME DebugInv, Crash, NEW s, DOMAIN s = 1..Len(s),
           \A k \in DOMAIN s : s[k] \in ToSet(ring), ~Expressible(s)
    PROVE  DebugInv'
<1>0. DebugTypeOK /\ SeenSoFar /\ LatestKept /\ ConnectionsServed
    BY DEF DebugInv, TelemetryComplete
<1>1. UNCHANGED collectorVars /\ UNCHANGED serverVars /\ crashed' = TRUE
    BY DEF Crash
<1>2. SeenSoFar' /\ LatestKept' /\ FollowersTold' /\ CountsAgree'
    BY <1>1, CollectorSame
<1>3. DebugTypeOK'
    BY <1>0, <1>1 DEF DebugTypeOK, collectorVars, serverVars, Instances, Numbers
<1>4. ConnectionsServed'
    BY <1>0, <1>1 DEF ConnectionsServed, collectorVars, serverVars, Serving, Instances
<1>5. CrashExplained'
    <2>1. PICK k \in DOMAIN s : ~logged[s[k]].plain
        BY DEF Expressible
    <2>2. s[k] \in DOMAIN logged
        BY <1>0, <2>1, RingIs, Logs DEF ToSet
    <2> QED
        BY <1>1, <2>1, <2>2 DEF CrashExplained, collectorVars
<1> QED
    BY <1>2, <1>3, <1>4, <1>5 DEF DebugInv, TelemetryComplete

LEMMA ClearKept ==
    ASSUME DebugInv, Clear
    PROVE  DebugInv'
<1>0. DebugTypeOK /\ SeenSoFar /\ FollowersTold /\ ConnectionsServed /\ CrashExplained
    BY DEF DebugInv, TelemetryComplete
<1>1. /\ ring' = <<>> /\ clearedAt' = Len(logged)
      /\ UNCHANGED <<logged, following, connected, seen, since, current, url, servers,
                     closing, crashed>>
    BY DEF Clear, serverVars
<1>2. DebugTypeOK'
    <2>1. ring' \in Seq(Numbers) /\ clearedAt' \in 0..Len(logged')
        BY <1>0, <1>1, Logs
    <2> QED
        BY <1>0, <1>1, <2>1 DEF DebugTypeOK, Numbers, Instances
<1>3. SeenSoFar'
    BY <1>0, <1>1 DEF SeenSoFar
<1>4. LatestKept'
    <2>1. Len(logged) \in Nat
        BY <1>0, Logs
    <2>2. NumbersAfter(Len(logged), Len(logged)) \in Seq(Nat) /\ Len(NumbersAfter(Len(logged), Len(logged))) = 0
        BY <2>1, AfterIs
    <2>3. NumbersAfter(Len(logged), Len(logged)) = <<>>
        BY <2>2
    <2>4. Kept(<<>>) = <<>>
        BY DebugAssumption DEF Kept
    <2> QED
        BY <1>1, <2>3, <2>4 DEF LatestKept, NumbersAfter, Kept
<1>5. FollowersTold'
    <2>1. ToSet(ring') = {}
        BY <1>1 DEF ToSet
    <2> QED
        BY <1>0, <1>1, <2>1 DEF FollowersTold, Plain
<1>6. ConnectionsServed' /\ CrashExplained'
    BY <1>0, <1>1 DEF ConnectionsServed, CrashExplained, Serving, Instances
<1>7. DebugTypeOK' /\ SeenSoFar' /\ LatestKept' => CountsAgree'
    <2>1. DebugTypeOK /\ SeenSoFar /\ LatestKept => CountsAgree
        BY Counts
    <2> QED
        BY <2>1, Counts, PTL
<1> QED
    BY <1>2, <1>3, <1>4, <1>5, <1>6, <1>7 DEF DebugInv, TelemetryComplete

\* A list that JSON cannot express is part of the ring.
LEMMA GetEventsKept ==
    ASSUME DebugInv, NEW e, GetEvents(e)
    PROVE  DebugInv'
<1> DEFINE s == Filtered(e)
           I == {i \in DOMAIN ring : Matches(logged[ring[i]], e)}
<1>0. DebugTypeOK /\ SeenSoFar
    BY DEF DebugInv
<1>1. ring \in Seq(Numbers) /\ I \in SUBSET DOMAIN ring
    BY <1>0, Logs
<1> HIDE DEF I
<1>2. At(ring, I) \in Seq(Numbers)
    BY <1>1, AtTakes
<1>3. s \in Seq(Numbers)
    BY <1>2 DEF Filtered, I
<1>4. \A k \in DOMAIN s : s[k] \in ToSet(ring)
    BY <1>0, FilteredIs
<1>5. Crash /\ ~Expressible(s)
    BY DEF GetEvents
<1> HIDE DEF s
<1>6. DOMAIN s = 1..Len(s)
    BY <1>3
<1> QED
    BY <1>4, <1>5, <1>6, CrashKept

\* The counts agree again after every step that keeps the ring right.
LEMMA CountsNext == DebugTypeOK' /\ SeenSoFar' /\ LatestKept' => CountsAgree'
<1>1. DebugTypeOK /\ SeenSoFar /\ LatestKept => CountsAgree
    BY Counts
<1> QED
    BY <1>1, Counts, PTL

\* A follower hears from its snapshot on.
LEMMA FollowKept ==
    ASSUME DebugInv, NEW f \in Followers, NEW s \in Instances, Follow(f, s)
    PROVE  DebugInv'
<1>0. DebugTypeOK /\ SeenSoFar /\ LatestKept /\ FollowersTold /\ ConnectionsServed
      /\ CrashExplained
    BY DEF DebugInv, TelemetryComplete
<1>1. /\ ring \in Seq(Numbers) /\ DOMAIN ring = 1..Len(ring) /\ Len(logged) \in Nat
      /\ Len(logged) <= MaxEntries /\ MaxEntries \in Nat
    BY <1>0, Logs
<1>2. CASE ~Expressible(ring)
    <2>1. Crash
        BY <1>2 DEF Follow
    <2>2. \A k \in DOMAIN ring : ring[k] \in ToSet(ring)
        BY DEF ToSet
    <2> QED
        BY <1>1, <1>2, <2>1, <2>2, CrashKept
<1>3. CASE Expressible(ring)
    <2>1. /\ Serving(s) /\ connected[f] = 0
          /\ seen' = [seen EXCEPT ![f] = ring]
          /\ following' = Append(following, f)
          /\ connected' = [connected EXCEPT ![f] = s]
          /\ since' = [since EXCEPT ![f] = Len(logged)]
          /\ UNCHANGED <<ring, logged, clearedAt, current, url, servers, closing, crashed>>
        BY <1>3 DEF Follow, serverVars
    <2>2. /\ following \in Seq(Followers) /\ IsInjective(following)
          /\ connected \in [Followers -> {0} \cup Instances]
          /\ \A g \in Followers : connected[g] # 0 <=> Contains(following, g)
          /\ seen \in [Followers -> Seq(Numbers)]
          /\ since \in [Followers -> 0..MaxEntries]
        BY <1>0 DEF DebugTypeOK
    <2>3. s # 0
        BY DEF Instances
    <2>4. DebugTypeOK'
        <3>1. following' \in Seq(Followers) /\ IsInjective(following')
              /\ \A g \in Followers : Contains(following', g) <=> Contains(following, g) \/ g = f
            BY <2>1, <2>2, EntryMore
        <3>2. connected' \in [Followers -> {0} \cup Instances]
              /\ \A g \in Followers : connected'[g] # 0 <=> Contains(following', g)
            BY <2>1, <2>2, <2>3, <3>1
        <3>3. seen' \in [Followers -> Seq(Numbers)] /\ since' \in [Followers -> 0..MaxEntries]
            BY <1>1, <2>1, <2>2
        <3> QED
            BY <1>0, <2>1, <3>1, <3>2, <3>3 DEF DebugTypeOK, Numbers, Instances
    <2>5. ToSet(ring) \subseteq 1..Len(logged)
          /\ \A i, j \in DOMAIN ring : i < j => ring[i] < ring[j]
        BY <1>0, RingIs DEF ToSet
    <2>6. SeenSoFar'
        BY <1>0, <2>1, <2>2, <2>5 DEF SeenSoFar
    <2>7. LatestKept'
        BY <1>0, <2>1 DEF LatestKept, Kept
    <2>8. FollowersTold'
        <3> SUFFICES ASSUME NEW g \in Followers, connected'[g] # 0
                     PROVE  /\ \A i, j \in DOMAIN seen'[g] : i < j => seen'[g][i] < seen'[g][j]
                            /\ {seen'[g][i] : i \in DOMAIN seen'[g]}
                                  \cap (since'[g] + 1)..Len(logged)
                                  = Plain(since'[g] + 1, Len(logged))
                            /\ {n \in ToSet(ring) : logged[n].plain} \subseteq ToSet(seen'[g])
            BY <2>1 DEF FollowersTold, Plain
        <3>1. CASE g = f
            <4>1. seen'[g] = ring /\ since'[g] = Len(logged)
                BY <2>1, <2>2, <3>1
            <4>2. (Len(logged) + 1)..Len(logged) = {}
                BY <1>1
            <4>3. Plain(Len(logged) + 1, Len(logged)) = {}
                BY <4>2 DEF Plain
            <4> QED
                BY <2>5, <4>1, <4>2, <4>3
        <3>2. CASE g # f
            <4>1. seen'[g] = seen[g] /\ since'[g] = since[g] /\ connected[g] # 0
                BY <2>1, <2>2, <3>2
            <4> QED
                BY <1>0, <4>1 DEF FollowersTold
        <3> QED
            BY <3>1, <3>2
    <2>9. CountsAgree'
        BY <2>4, <2>6, <2>7, CountsNext
    <2>10. ConnectionsServed'
        BY <1>0, <2>1, <2>2 DEF ConnectionsServed, Serving, Instances
    <2>11. CrashExplained'
        BY <1>0, <2>1 DEF CrashExplained
    <2> QED
        BY <2>4, <2>6, <2>7, <2>8, <2>9, <2>10, <2>11 DEF DebugInv, TelemetryComplete
<1> QED
    BY <1>2, <1>3

\* A follower that leaves is told nothing more, the others go on.
LEMMA LeaveKept ==
    ASSUME DebugInv, NEW f \in Followers, Leave(f)
    PROVE  DebugInv'
<1>0. DebugTypeOK /\ SeenSoFar /\ LatestKept /\ FollowersTold /\ ConnectionsServed
      /\ CrashExplained /\ CountsAgree
    BY DEF DebugInv, TelemetryComplete
<1>1. /\ following' = Without(following, {f})
      /\ connected' = [connected EXCEPT ![f] = 0]
      /\ UNCHANGED <<ring, logged, clearedAt, seen, since, current, url, servers, closing,
                     crashed>>
    BY DEF Leave, serverVars
<1>2. /\ following \in Seq(Followers) /\ IsInjective(following)
      /\ connected \in [Followers -> {0} \cup Instances]
      /\ \A g \in Followers : connected[g] # 0 <=> Contains(following, g)
    BY <1>0 DEF DebugTypeOK
<1>3. DebugTypeOK'
    <2>1. following' \in Seq(Followers) /\ IsInjective(following')
          /\ \A g : g \in ToSet(following') <=> g \in ToSet(following) /\ g # f
        BY <1>1, <1>2, WithoutLeaves
    <2>2. \A q, g : Contains(q, g) <=> g \in ToSet(q)
        BY DEF Contains, ToSet
    <2>3. \A g \in Followers : Contains(following', g) <=> Contains(following, g) /\ g # f
        BY <2>1, <2>2
    <2>4. connected' \in [Followers -> {0} \cup Instances]
          /\ \A g \in Followers : connected'[g] # 0 <=> Contains(following', g)
        BY <1>1, <1>2, <2>3
    <2> QED
        BY <1>0, <1>1, <2>1, <2>4 DEF DebugTypeOK, Numbers, Instances
<1>4. \A g \in Followers : connected'[g] # 0 => connected'[g] = connected[g]
    BY <1>1, <1>2
<1>5. SeenSoFar'
    BY <1>0, <1>1, <1>4 DEF SeenSoFar
<1>6. LatestKept'
    BY <1>0, <1>1 DEF LatestKept, Kept
<1>7. FollowersTold'
    BY <1>0, <1>1, <1>4 DEF FollowersTold, Plain
<1>8. CountsAgree'
    BY <1>3, <1>5, <1>6, CountsNext
<1>9. ConnectionsServed'
    <2>1. 0 \notin Instances
        BY DEF Instances
    <2> QED
        BY <1>0, <1>1, <1>4, <2>1 DEF ConnectionsServed, Serving, Instances
<1>10. CrashExplained'
    BY <1>0, <1>1 DEF CrashExplained
<1> QED
    BY <1>3, <1>5, <1>6, <1>7, <1>8, <1>9, <1>10 DEF DebugInv, TelemetryComplete

-----------------------------------------------------------------------------
\* Numbers sent so far, and the next one.
LEMMA OneMoreSeen ==
    ASSUME NEW s \in Seq(Numbers), NEW n \in Nat, ToSet(s) \subseteq 1..n,
           \A i, j \in DOMAIN s : i < j => s[i] < s[j],
           n + 1 \in Numbers
    PROVE  /\ Append(s, n + 1) \in Seq(Numbers)
           /\ ToSet(Append(s, n + 1)) = ToSet(s) \cup {n + 1}
           /\ \A i, j \in DOMAIN Append(s, n + 1) :
                 i < j => Append(s, n + 1)[i] < Append(s, n + 1)[j]
<1> DEFINE t == Append(s, n + 1)
<1>1. /\ t \in Seq(Numbers) /\ Len(t) = Len(s) + 1 /\ Len(s) \in Nat
      /\ DOMAIN t = 1..(Len(s) + 1) /\ DOMAIN s = 1..Len(s)
      /\ t[Len(s) + 1] = n + 1 /\ \A k \in 1..Len(s) : t[k] = s[k]
    BY AppendProperties
<1> HIDE DEF t
<1>2. \A k \in 1..(Len(s) + 1) : k \in 1..Len(s) \/ k = Len(s) + 1
    BY <1>1
<1>3. ToSet(t) = ToSet(s) \cup {n + 1}
    BY <1>1, <1>2 DEF ToSet
<1>4. ASSUME NEW i \in DOMAIN t, NEW j \in DOMAIN t, i < j PROVE t[i] < t[j]
    <2>1. i \in 1..Len(s)
        BY <1>1, <1>4
    <2>2. s[i] \in 1..n
        BY <1>1, <2>1 DEF ToSet
    <2>3. CASE j \in 1..Len(s)
        BY <1>1, <1>4, <2>1, <2>3
    <2>4. CASE j = Len(s) + 1
        BY <1>1, <2>1, <2>2, <2>4
    <2> QED
        BY <1>1, <1>2, <2>3, <2>4
<1> QED
    BY <1>1, <1>3, <1>4 DEF t

\* An entry goes into the ring and to the followers.
LEMMA EmitDiagnosticKept ==
    ASSUME DebugInv, NEW e \in Kinds, EmitDiagnostic(e)
    PROVE  DebugInv'
<1> DEFINE n == Len(logged)
<1>0. DebugTypeOK /\ SeenSoFar /\ LatestKept /\ FollowersTold /\ ConnectionsServed
      /\ CrashExplained
    BY DEF DebugInv, TelemetryComplete
<1>1. /\ logged \in Seq(Kinds) /\ n \in Nat /\ clearedAt \in Nat /\ clearedAt <= n
      /\ MaxEntries \in Nat /\ DOMAIN logged = 1..n
    BY <1>0, Logs
<1>2. /\ n < MaxEntries
      /\ logged' = Append(logged, e)
      /\ ring' = Kept(Append(ring, Len(logged')))
      /\ seen' = [f \in Followers |-> IF f \in Notified(e) THEN Append(seen[f], Len(logged'))
                                      ELSE seen[f]]
      /\ UNCHANGED <<clearedAt, following, connected, since, current, url, servers, closing,
                     crashed>>
    BY DEF EmitDiagnostic, serverVars
<1>3. /\ logged' \in Seq(Kinds) /\ Len(logged') = n + 1 /\ DOMAIN logged' = 1..(n + 1)
      /\ logged'[n + 1] = e /\ \A k \in 1..n : logged'[k] = logged[k]
    BY <1>1, <1>2, AppendProperties
<1> HIDE DEF n
<1>4. n + 1 \in Numbers /\ n + 1 \in Nat /\ n + 1 <= MaxEntries
    BY <1>1, <1>2 DEF Numbers
<1>5. /\ ring' = Kept(NumbersAfter(clearedAt, n + 1))
      /\ ring' = NumbersAfter(Lowest(clearedAt, n + 1), n + 1)
      /\ Lowest(clearedAt, n + 1) \in clearedAt..(n + 1)
    <2>1. ring = Kept(NumbersAfter(clearedAt, n))
        BY <1>0 DEF LatestKept, NumbersAfter, n
    <2>2. ring' = Kept(NumbersAfter(clearedAt, n + 1))
        BY <1>1, <1>2, <1>3, <2>1, KeptNext
    <2> QED
        BY <1>1, <1>4, <2>2, KeptIs
<1>6. LatestKept'
    BY <1>2, <1>3, <1>5 DEF LatestKept, NumbersAfter, Kept
<1>7. /\ ToSet(ring') \subseteq 1..(n + 1)
      /\ ToSet(ring') \subseteq ToSet(ring) \cup {n + 1}
      /\ ring' \in Seq(Numbers)
    <2> DEFINE lo == Lowest(clearedAt, n)
               hi == Lowest(clearedAt, n + 1)
    <2>1. ring = NumbersAfter(lo, n) /\ lo \in clearedAt..n
        <3>1. ring = Kept(NumbersAfter(clearedAt, n))
            BY <1>0 DEF LatestKept, NumbersAfter, n
        <3> QED
            BY <1>1, <3>1, KeptIs
    <2>2. lo <= hi
        BY <1>1, DebugAssumption DEF Lowest, RingSize
    <2>3. hi \in clearedAt..(n + 1) /\ ring' = NumbersAfter(hi, n + 1)
        BY <1>5
    <2> HIDE DEF lo, hi
    <2>0. lo \in Nat /\ lo <= n /\ hi \in Nat /\ hi <= n + 1
        BY <1>1, <2>1, <2>3
    <2>4. ToSet(ring) = (lo + 1)..n
        BY <1>1, <2>0, <2>1, AfterIs
    <2>5. /\ ToSet(ring') = (hi + 1)..(n + 1) /\ ring' \in Seq(Nat)
          /\ DOMAIN ring' = 1..(n + 1 - hi) /\ Len(ring') = n + 1 - hi
          /\ \A k \in 1..(n + 1 - hi) : ring'[k] = hi + k
        <3>1. /\ ToSet(NumbersAfter(hi, n + 1)) = (hi + 1)..(n + 1) /\ NumbersAfter(hi, n + 1) \in Seq(Nat)
              /\ DOMAIN NumbersAfter(hi, n + 1) = 1..(n + 1 - hi)
              /\ Len(NumbersAfter(hi, n + 1)) = n + 1 - hi
              /\ \A k \in 1..(n + 1 - hi) : NumbersAfter(hi, n + 1)[k] = hi + k
            <4> DEFINE q == n + 1
            <4>1. q \in Nat /\ hi <= q
                BY <1>4, <2>0
            <4> HIDE DEF q
            <4>2. /\ ToSet(NumbersAfter(hi, q)) = (hi + 1)..q /\ NumbersAfter(hi, q) \in Seq(Nat)
                  /\ DOMAIN NumbersAfter(hi, q) = 1..(q - hi) /\ Len(NumbersAfter(hi, q)) = q - hi
                  /\ \A k \in 1..(q - hi) : NumbersAfter(hi, q)[k] = hi + k
                BY <2>0, <4>1, AfterIs
            <4> QED
                BY <1>1, <2>0, <4>2 DEF q
        <3> QED
            BY <2>3, <3>1
    <2>6. ToSet(ring') \subseteq 1..(n + 1) /\ ToSet(ring') \subseteq ToSet(ring) \cup {n + 1}
        BY <1>1, <2>1, <2>2, <2>3, <2>4, <2>5
    <2>7. \A k \in 1..Len(ring') : ring'[k] \in Numbers
        BY <1>1, <1>4, <2>3, <2>5 DEF Numbers
    <2>8. ring' \in Seq(Numbers)
        BY <2>5, <2>7
    <2> QED
        BY <2>6, <2>8
<1>8. \A f \in Followers : seen[f] \in Seq(Numbers)
    BY <1>0 DEF DebugTypeOK
<1>9. \A f \in Followers :
         seen'[f] = IF connected[f] # 0 /\ e.plain THEN Append(seen[f], n + 1) ELSE seen[f]
    <2>1. \A f \in Followers : f \in Notified(e) <=> connected[f] # 0 /\ e.plain
        <3>1. \A f \in Followers : f \in ToSet(following) <=> connected[f] # 0
            <4>1. \A q, g : Contains(q, g) <=> g \in ToSet(q)
                BY DEF Contains, ToSet
            <4> QED
                BY <1>0, <4>1 DEF DebugTypeOK
        <3>2. CASE e.plain
            BY <3>1, <3>2 DEF Notified
        <3>3. CASE ~e.plain
            BY <3>3 DEF Notified
        <3> QED
            BY <3>2, <3>3
    <2> QED
        BY <1>2, <1>3, <2>1
<1>10. ASSUME NEW f \in Followers, connected[f] # 0
       PROVE  /\ ToSet(seen[f]) \subseteq 1..n
              /\ \A i, j \in DOMAIN seen[f] : i < j => seen[f][i] < seen[f][j]
              /\ ToSet(seen[f]) \cap (since[f] + 1)..n = Plain(since[f] + 1, n)
              /\ {m \in ToSet(ring) : logged[m].plain} \subseteq ToSet(seen[f])
    BY <1>0, <1>10 DEF SeenSoFar, FollowersTold, ToSet, n
<1>11. ASSUME NEW f \in Followers, connected[f] # 0
       PROVE  /\ seen'[f] \in Seq(Numbers)
              /\ e.plain => ToSet(seen'[f]) = ToSet(seen[f]) \cup {n + 1}
              /\ ~e.plain => ToSet(seen'[f]) = ToSet(seen[f])
              /\ \A i, j \in DOMAIN seen'[f] : i < j => seen'[f][i] < seen'[f][j]
    <2>1. CASE e.plain
        <3>1. seen'[f] = Append(seen[f], n + 1)
            BY <1>9, <1>11, <2>1
        <3> QED
            <4> DEFINE s == seen[f]
            <4>1. s \in Seq(Numbers) /\ ToSet(s) \subseteq 1..n
                  /\ \A i, j \in DOMAIN s : i < j => s[i] < s[j]
                BY <1>8, <1>10, <1>11
            <4> HIDE DEF s
            <4>2. /\ Append(s, n + 1) \in Seq(Numbers)
                  /\ ToSet(Append(s, n + 1)) = ToSet(s) \cup {n + 1}
                  /\ \A i, j \in DOMAIN Append(s, n + 1) :
                        i < j => Append(s, n + 1)[i] < Append(s, n + 1)[j]
                BY <1>1, <1>4, <4>1, OneMoreSeen
            <4> QED
                BY <2>1, <3>1, <4>2 DEF s
    <2>2. CASE ~e.plain
        BY <1>8, <1>9, <1>10, <1>11, <2>2
    <2> QED
        BY <2>1, <2>2
<1>12. DebugTypeOK'
    <2>1. seen' \in [Followers -> Seq(Numbers)]
        <3>1. \A f \in Followers : Append(seen[f], n + 1) \in Seq(Numbers)
            BY <1>4, <1>8, AppendProperties
        <3> QED
            BY <1>2, <1>3, <1>8, <3>1
    <2>2. clearedAt' \in 0..Len(logged')
        BY <1>1, <1>2, <1>3
    <2> QED
        BY <1>0, <1>2, <1>3, <1>7, <2>1, <2>2 DEF DebugTypeOK, Numbers, Instances
<1>13. SeenSoFar'
    <2>1. ASSUME NEW f \in Followers, connected[f] # 0
          PROVE  ToSet(seen'[f]) \subseteq 1..(n + 1)
        <3>1. 1..n \subseteq 1..(n + 1) /\ n + 1 \in 1..(n + 1)
            BY <1>1
        <3> QED
            BY <1>10, <1>11, <2>1, <3>1
    <2> QED
        BY <1>2, <1>3, <1>4, <2>1 DEF SeenSoFar
<1>14. FollowersTold'
    <2> SUFFICES ASSUME NEW f \in Followers, connected[f] # 0
                 PROVE  /\ \A i, j \in DOMAIN seen'[f] : i < j => seen'[f][i] < seen'[f][j]
                        /\ ToSet(seen'[f]) \cap (since[f] + 1)..(n + 1)
                              = {k \in (since[f] + 1)..(n + 1) : logged'[k].plain}
                        /\ {m \in ToSet(ring') : logged'[m].plain} \subseteq ToSet(seen'[f])
        BY <1>2, <1>3 DEF FollowersTold, Plain, ToSet
    <2>1. since[f] \in Nat
        BY <1>0, <1>1 DEF DebugTypeOK
    <2>2. ToSet(seen'[f]) \cap (since[f] + 1)..(n + 1)
             = {k \in (since[f] + 1)..(n + 1) : logged'[k].plain}
        <3> SUFFICES ASSUME NEW k \in (since[f] + 1)..(n + 1)
                     PROVE  k \in ToSet(seen'[f]) <=> logged'[k].plain
            OBVIOUS
        <3>1. CASE k = n + 1
            <4>1. n + 1 \notin ToSet(seen[f])
                <5>1. n + 1 \notin 1..n
                    BY <1>1
                <5> QED
                    BY <1>10, <5>1
            <4>2. logged'[k] = e
                BY <1>3, <3>1
            <4> QED
                BY <1>11, <3>1, <4>1, <4>2
        <3>2. CASE k # n + 1
            <4>1. k \in (since[f] + 1)..n /\ k \in 1..n
                BY <1>1, <2>1, <3>2
            <4>2. logged'[k] = logged[k]
                BY <1>3, <4>1
            <4>3. k \in ToSet(seen[f]) <=> logged[k].plain
                BY <1>10, <4>1 DEF Plain
            <4>4. k \in ToSet(seen'[f]) <=> k \in ToSet(seen[f])
                BY <1>11, <3>2
            <4> QED
                BY <4>2, <4>3, <4>4
        <3> QED
            BY <3>1, <3>2
    <2>3. {m \in ToSet(ring') : logged'[m].plain} \subseteq ToSet(seen'[f])
        <3> SUFFICES ASSUME NEW m \in ToSet(ring'), logged'[m].plain PROVE m \in ToSet(seen'[f])
            OBVIOUS
        <3>1. CASE m = n + 1
            BY <1>3, <1>11, <3>1
        <3>2. CASE m # n + 1
            <4>1. m \in ToSet(ring) /\ m \in 1..n
                BY <1>1, <1>7, <3>2
            <4> QED
                BY <1>3, <1>10, <1>11, <4>1
        <3> QED
            BY <3>1, <3>2
    <2> QED
        BY <1>11, <2>2, <2>3
<1>15. CountsAgree'
    BY <1>6, <1>12, <1>13, CountsNext
<1>16. ConnectionsServed'
    BY <1>0, <1>2 DEF ConnectionsServed, Serving, Instances
<1>17. CrashExplained'
    <2>1. \A i \in DOMAIN logged : i \in DOMAIN logged' /\ logged'[i] = logged[i]
        BY <1>1, <1>3
    <2> QED
        BY <1>0, <1>2, <2>1 DEF CrashExplained
<1> QED
    BY <1>6, <1>12, <1>13, <1>14, <1>15, <1>16, <1>17 DEF DebugInv, TelemetryComplete

-----------------------------------------------------------------------------
\* Every step keeps the inductive invariant.
LEMMA DebugStepKept ==
    ASSUME DebugInv, [DebugNext]_debugVars
    PROVE  DebugInv'
<1>1. CASE DebugNext
    <2> SUFFICES ASSUME DebugStep PROVE DebugInv'
        BY <1>1 DEF DebugNext
    <2>1. ASSUME NEW k \in Kinds, EmitDiagnostic(k) PROVE DebugInv'
        BY <2>1, EmitDiagnosticKept
    <2>2. ASSUME NEW e, GetEvents(e) PROVE DebugInv'
        BY <2>2, GetEventsKept
    <2>3. CASE Clear
        BY <2>3, ClearKept
    <2>4. ASSUME NEW f \in Followers, Leave(f) PROVE DebugInv'
        BY <2>4, LeaveKept
    <2>5. ASSUME NEW f \in Followers, NEW s \in Instances, Follow(f, s) PROVE DebugInv'
        BY <2>5, FollowKept
    <2>6. CASE \/ Listen \/ CloseServer
               \/ \E s \in Instances : Listening(s) \/ ListenFails(s) \/ Closed(s)
        <3>1. UNCHANGED collectorVars /\ UNCHANGED crashed
            BY <2>6 DEF Listen, CloseServer, Listening, ListenFails, Closed
        <3> QED
            BY <2>6, <3>1, ServerKept
    <2> QED
        BY <2>1, <2>2, <2>3, <2>4, <2>5, <2>6 DEF DebugStep
<1>2. CASE UNCHANGED debugVars
    <2>1. UNCHANGED collectorVars /\ UNCHANGED serverVars /\ UNCHANGED crashed
        BY <1>2 DEF debugVars, collectorVars, serverVars
    <2>2. SeenSoFar' /\ LatestKept' /\ FollowersTold' /\ CountsAgree'
        BY <2>1, CollectorSame
    <2>3. DebugTypeOK' /\ ConnectionsServed' /\ CrashExplained'
        BY <2>1 DEF DebugInv, TelemetryComplete, DebugTypeOK, ConnectionsServed, CrashExplained,
                    collectorVars, serverVars, Serving, Instances, Numbers
    <2> QED
        BY <2>2, <2>3 DEF DebugInv, TelemetryComplete
<1> QED
    BY <1>1, <1>2

\* The inductive invariant of buffer, followers and server holds in every
\* reachable state (diagnostics.ts, debug.ts).
THEOREM DebugInvariance == DebugSpec => []DebugInv
<1>1. DebugInit => DebugInv
    BY DebugStarts
<1>2. DebugInv /\ [DebugNext]_debugVars => DebugInv'
    BY DebugStepKept
<1> QED
    BY <1>1, <1>2, PTL DEF DebugSpec

\* The variables keep their types; a close() waits only for servers that no
\* longer listen, and the URL is that of one that does (debug.ts 134-165).
THEOREM DebugTypeCorrect == DebugSpec => []DebugTypeOK
<1>1. DebugInv => DebugTypeOK
    BY DEF DebugInv
<1> QED
    BY <1>1, DebugInvariance, PTL

\* The buffer holds the latest entries, a follower misses none from its
\* snapshot on, the counts are those of the lists, nobody's server is lost, and
\* only an entry JSON cannot express ends the process (debug.ts 80-106, 134-300).
THEOREM TelemetryAlwaysComplete == DebugSpec => []TelemetryComplete
<1>1. DebugInv => TelemetryComplete
    BY DEF DebugInv
<1> QED
    BY <1>1, DebugInvariance, PTL

-----------------------------------------------------------------------------
(* Definitions                                                              *)

\* The files the edits start from are what the loaders make of them.
LEMMA DefinitionsInitial == DefinitionsInit => DefinitionsTypeOK
  BY DefinitionsAssumption DEF DefinitionsInit, DefinitionsTypeOK

\* No edit takes the shape of a definition away.
LEMMA DefinitionsKept ==
    ASSUME DefinitionsTypeOK, [DefinitionsNext]_defVars
    PROVE  DefinitionsTypeOK'
<1>1. CASE UNCHANGED defVars
  BY <1>1 DEF DefinitionsTypeOK, defVars
<1>2. CASE Edit
  <2>1. edits' \in 0..MaxEdits
    BY <1>2, DefinitionsAssumption DEF Edit, DefinitionsTypeOK
  <2>2. ASSUME NEW r \in DOMAIN Registries, NEW S \in SUBSET Registries[r],
               source' = [source EXCEPT ![r] = S]
        PROVE  IsSource(source')
    <3>1. r \notin {"mvp", "meta"}
      BY DEF Registries
    <3>2. source'.mvp = source.mvp /\ source'.meta = source.meta
      BY <2>2, <3>1 DEF DefinitionsTypeOK, IsSource
    <3>3. source' = [q \in DOMAIN Registries \cup {"mvp", "meta"} |-> source'[q]]
      BY <2>2 DEF DefinitionsTypeOK, IsSource
    <3>4. \A q \in DOMAIN Registries : source'[q] \subseteq Registries[q]
      BY <2>2 DEF DefinitionsTypeOK, IsSource
    <3>5. QED
      BY <3>2, <3>3, <3>4 DEF DefinitionsTypeOK, IsSource
  <2>3. CASE \E m \in Metas : source' = [source EXCEPT !.meta = m]
    BY <2>1, <2>3 DEF DefinitionsTypeOK, IsSource, Registries
  <2>4. CASE \E r \in DOMAIN Pool : \E i \in Pool[r] :
             source' = [source EXCEPT ![r] = IF i \in @ THEN @ \ {i} ELSE @ \cup {i}]
    <3> PICK r \in DOMAIN Pool : \E i \in Pool[r] :
             source' = [source EXCEPT ![r] = IF i \in @ THEN @ \ {i} ELSE @ \cup {i}]
      BY <2>4
    <3>1. PICK i \in Pool[r] :
             source' = [source EXCEPT ![r] = IF i \in source[r] THEN source[r] \ {i}
                                             ELSE source[r] \cup {i}]
      OBVIOUS
    <3>2. r \in DOMAIN Registries /\ source[r] \subseteq Registries[r] /\ i \in Registries[r]
      BY DefinitionsAssumption DEF DefinitionsTypeOK, IsSource
    <3>3. QED
      BY <2>1, <2>2, <3>1, <3>2 DEF DefinitionsTypeOK
  <2>5. CASE \E r \in DOMAIN Pool : \E i \in source[r], j \in Pool[r] :
             source' = [source EXCEPT ![r] = (@ \ {i}) \cup {j}]
    <3> PICK r \in DOMAIN Pool : \E i \in source[r], j \in Pool[r] :
             source' = [source EXCEPT ![r] = (@ \ {i}) \cup {j}]
      BY <2>5
    <3>1. PICK i \in source[r], j \in Pool[r] :
             source' = [source EXCEPT ![r] = (source[r] \ {i}) \cup {j}]
      OBVIOUS
    <3>2. r \in DOMAIN Registries /\ source[r] \subseteq Registries[r] /\ j \in Registries[r]
      BY DefinitionsAssumption DEF DefinitionsTypeOK, IsSource
    <3>3. QED
      BY <2>1, <2>2, <3>1, <3>2 DEF DefinitionsTypeOK
  <2>6. QED
    BY <1>2, <2>3, <2>4, <2>5 DEF Edit
<1>3. QED
  BY <1>1, <1>2 DEF DefinitionsNext

\* ItemNamed finds the one item of a name.
LEMMA ItemByName ==
    ASSUME NEW items, UniqueBy(items, "name"), NEW i \in items
    PROVE  ItemNamed(items, i.name) = i
  BY DEF ItemNamed, UniqueBy

\* What validateSpec says of methods, events and schemas.
LEMMA SpecParts ==
    ASSUME NEW s, IsSource(s), ValidSpec(s)
    PROVE  /\ s.methods \subseteq Methods /\ s.events \subseteq Events
           /\ s.schemas \subseteq Schemas
           /\ \A r \in {"methods", "events"} :
                 UniqueBy(s[r], "id") /\ UniqueBy(s[r], "name")
           /\ UniqueBy(s.schemas, "name")
           /\ KnownSchemas(s) /\ NothingReserved(s)
<1>1. \A r \in DOMAIN Registries : s[r] \subseteq Registries[r]
  BY DEF IsSource
<1>2. s.methods \subseteq Methods /\ s.events \subseteq Events /\ s.schemas \subseteq Schemas
  BY <1>1 DEF Registries
<1>3. QED
  BY <1>2 DEF ValidSpec, ValidSchemas

\* A name found by the id of a name is that name.
LEMMA NamesFound ==
    ASSUME NEW items, UniqueBy(items, "id"), UniqueBy(items, "name"),
           NEW n \in Named(items)
    PROVE  NameOf(Registry(items), IdOf(Registry(items), n)) = n
<1> DEFINE reg == Registry(items)
<1>1. \A m \in Named(items) : reg[m].id = ItemNamed(items, m).id
  BY DEF Registry
<1>2. \A m \in Named(items) : ItemNamed(items, m) \in items /\ ItemNamed(items, m).name = m
  BY DEF Named, ItemNamed
<1>3. \A m \in Named(items) : reg[m].id = reg[n].id => m = n
  BY <1>1, <1>2 DEF UniqueBy
<1>4. DOMAIN reg = Named(items)
  BY DEF Registry
<1>5. QED
  BY <1>3, <1>4 DEF NameOf, IdOf

\* The type of a valid field mentions interfaces the file has.
LEMMA FieldsMention ==
    ASSUME NEW s, NEW x, NEW f, f.type \in STRING,
           ValidField(f, x, Named(s.schemas), Named(ObjectSchemas(s.schemas)))
    PROVE  FieldInterfaces(s, f) \subseteq Interfaces(s)
<1> DEFINE known == Named(s.schemas)
           mention(n) == IF n \in Scalars \/ n \notin known THEN {} ELSE {TsName[n]}
<1>1. \A n : mention(n) \subseteq Interfaces(s)
  BY DEF Interfaces
<1>2. HasVariants(f) => VariantsOf(f) \subseteq known
  BY DEF ValidField, ValidVariants, Named, ObjectSchemas
<1>3. HasVariants(f) => {TsName[t] : t \in VariantsOf(f)} \subseteq Interfaces(s)
  BY <1>2 DEF Interfaces
<1> DEFINE item == FirstOf(f.itemType, FirstOf(f.itemSchema, f.schema))
<1>4. mention(item) \subseteq Interfaces(s) /\ mention(f.type) \subseteq Interfaces(s)
  BY <1>1
<1>5. CASE f.type = "array" \/ f.repeated
  <2>1. FieldInterfaces(s, f) = mention(item)
    BY <1>5 DEF FieldInterfaces
  <2>2. QED
    BY <2>1, <1>4
<1>6. CASE ~(f.type = "array" \/ f.repeated)
  <2>1. CASE f.type = "object" /\ f.type \notin known /\ HasVariants(f)
    <3>1. FieldInterfaces(s, f) = {TsName[t] : t \in VariantsOf(f)}
      BY <1>6, <2>1 DEF FieldInterfaces
    <3>2. QED
      BY <3>1, <2>1, <1>3
  <2>2. CASE ~(f.type = "object" /\ f.type \notin known /\ HasVariants(f))
    <3>1. FieldInterfaces(s, f) = mention(f.type)
      BY <1>6, <2>2 DEF FieldInterfaces
    <3>2. QED
      BY <3>1, <1>4
  <2>3. QED
    BY <2>1, <2>2
<1>7. QED
  BY <1>5, <1>6

\* schemas_generated.ts mentions no interface it lacks.
LEMMA MentionsExist ==
    ASSUME NEW s, IsSource(s), ValidSpec(s)
    PROVE  MentionedInterfaces(s) \subseteq Interfaces(s)
<1>1. ASSUME NEW n, Known(n, Named(s.schemas))
      PROVE  TsName[FirstOf(n, "Empty")] \in Interfaces(s)
  BY <1>1, DefinitionsAssumption DEF Known, FirstOf, Interfaces
<1>2. \A x \in s.schemas, f \in SourceFields : f \in x.fields =>
          FieldInterfaces(s, f) \subseteq Interfaces(s)
  <2> SUFFICES ASSUME NEW x \in s.schemas, NEW f \in SourceFields, f \in x.fields
               PROVE  FieldInterfaces(s, f) \subseteq Interfaces(s)
    OBVIOUS
  <2>1. ValidField(f, x, Named(s.schemas), Named(ObjectSchemas(s.schemas)))
    BY DEF ValidSpec, ValidSchemas
  <2>2. f.type \in STRING
    BY DEF SourceFields
  <2>3. QED
    BY <2>1, <2>2, FieldsMention
<1>3. \A x \in s.schemas : x.fields \subseteq SourceFields
  BY SpecParts DEF Schemas
<1>4. UNION {UNION {FieldInterfaces(s, f) : f \in x.fields} : x \in s.schemas}
          \subseteq Interfaces(s)
  BY <1>2, <1>3
<1>5. \A n \in UNION {{m.request, m.response} : m \in s.methods} :
          Known(n, Named(s.schemas))
  BY SpecParts DEF KnownSchemas
<1>6. \A n \in {e.payload : e \in s.events} : Known(n, Named(s.schemas))
  BY SpecParts DEF KnownSchemas
<1> DEFINE refs == (UNION {{m.request, m.response} : m \in s.methods})
                      \cup {e.payload : e \in s.events}
<1>7. \A n \in refs : TsName[FirstOf(n, "Empty")] \in Interfaces(s)
  BY <1>1, <1>5, <1>6
<1>8. MentionedInterfaces(s) =
          {TsName[FirstOf(n, "Empty")] : n \in refs}
          \cup UNION {UNION {FieldInterfaces(s, f) : f \in x.fields} : x \in s.schemas}
  BY DEF MentionedInterfaces
<1> HIDE DEF refs
<1>9. QED
  BY <1>4, <1>7, <1>8

\* An event that a method names is there and is not reserved.
LEMMA EventsThere ==
    ASSUME NEW s, IsSource(s), ValidSpec(s), ValidProtocol(Build(s)),
           NEW m \in s.methods, NEW e \in m.events
    PROVE  \E x \in s.events : x.name = e /\ x.status # "reserved"
<1>1. PICK x \in s.events : x.name = e
  <2> DEFINE b == [m EXCEPT !.request = SchemaRef(s, m.request),
                            !.response = SchemaRef(s, m.response)]
  <2>1. m \in Methods
    BY SpecParts
  <2>2. b \in Build(s).methods /\ b.events = m.events
    BY <2>1 DEF Build, Methods
  <2>3. e \in Named(Build(s).events)
    BY <2>2 DEF ValidProtocol, MethodReferences
  <2>4. PICK y \in s.events : e = [y EXCEPT !.payload = SchemaRef(s, y.payload)].name
    BY <2>3 DEF Build, Named
  <2>5. y \in Events
    BY SpecParts
  <2>6. y.name = e
    BY <2>4, <2>5 DEF Events
  <2>7. QED
    BY <2>6
<1>2. x.status # "reserved"
  BY <1>1, SpecParts DEF NothingReserved, Named
<1>3. QED
  BY <1>1, <1>2

\* The items of a built definition.
LEMMA BuiltMethods ==
    ASSUME NEW s, IsSource(s), ValidSpec(s), NEW b \in Build(s).methods
    PROVE  \E m \in s.methods : /\ b.name = m.name
                                /\ b.request = SchemaRef(s, m.request)
<1>1. PICK m \in s.methods : b = [m EXCEPT !.request = SchemaRef(s, m.request),
                                         !.response = SchemaRef(s, m.response)]
  BY DEF Build
<1>2. m \in Methods
  BY SpecParts
<1>3. QED
  BY <1>1, <1>2 DEF Methods

\* A field keeps all but the types of its items.
LEMMA FieldKept ==
    ASSUME NEW f \in SourceFields
    PROVE  LET g == TypeField(f) IN
           g.name = f.name /\ g.type = f.type /\ g.enum = f.enum /\ g.variants = f.variants
  BY DEF SourceFields, TypeField

\* A schema that has fields is built.
LEMMA SchemaBuilt ==
    ASSUME NEW s, IsSource(s), ValidSpec(s), NEW x \in s.schemas, x.fields # {}
    PROVE  [x EXCEPT !.fields = {TypeField(f) : f \in x.fields}] \in Build(s).schemas
<1>1. [x EXCEPT !.fields = {TypeField(f) : f \in x.fields}] \in BuildSchemas(s)
  BY DEF BuildSchemas
<1>2. QED
  BY <1>1 DEF Build

\* A request describes after the build the fields it described before.
LEMMA RequestsDescribed ==
    ASSUME NEW s, IsSource(s), ValidSpec(s), ValidProtocol(Build(s)),
           NEW m \in s.methods, NEW b \in Build(s).methods, b.name = m.name
    PROVE  {f.name : f \in ItemNamed(Build(s).schemas, b.request).fields}
           = IF m.request = "" THEN {}
             ELSE {f.name : f \in ItemNamed(s.schemas, m.request).fields}
<1> DEFINE schemas == Build(s).schemas
<1>1. UniqueBy(schemas, "name") /\ EmptySchema \in schemas
  BY DEF ValidProtocol, EmptyUsage
<1>2. b.request = SchemaRef(s, m.request)
  BY BuiltMethods, SpecParts DEF UniqueBy
<1>3. ItemNamed(schemas, "Empty") = EmptySchema
  BY <1>1, ItemByName DEF EmptySchema
<1> DEFINE described == ItemNamed(schemas, b.request).fields
<1>10. described = {} => {f.name : f \in described} = {}
  OBVIOUS
<1>4. CASE m.request = ""
  <2>1. b.request = "Empty"
    BY <1>2, <1>4 DEF SchemaRef
  <2>2. described = {}
    BY <2>1, <1>3 DEF EmptySchema
  <2>3. QED
    BY <2>2, <1>10, <1>4
<1>5. CASE m.request # ""
  <2>1. PICK x \in s.schemas : x.name = m.request
    BY <1>5, SpecParts DEF KnownSchemas, Known, Named
  <2>2. ItemNamed(s.schemas, m.request) = x
    BY <2>1, SpecParts, ItemByName
  <2>3. CASE x.fields = {}
    <3>1. b.request = "Empty"
      BY <1>2, <2>1, <2>3 DEF SchemaRef, EmptyNames, Named
    <3>2. described = {}
      BY <3>1, <1>3 DEF EmptySchema
    <3>3. {f.name : f \in ItemNamed(s.schemas, m.request).fields} = {}
      BY <2>2, <2>3
    <3>4. QED
      BY <3>2, <3>3, <1>10, <1>5
  <2>4. CASE x.fields # {}
    <3> DEFINE y == [x EXCEPT !.fields = {TypeField(f) : f \in x.fields}]
    <3>1. m.request \notin EmptyNames(s)
      BY <2>1, <2>4, SpecParts DEF EmptyNames, Named, UniqueBy
    <3>2. b.request = x.name
      BY <1>2, <1>5, <2>1, <3>1 DEF SchemaRef
    <3>3. x \in Schemas
      BY SpecParts
    <3>4. y \in schemas
      BY <2>4, SchemaBuilt
    <3>5. y.name = x.name /\ y.fields = {TypeField(f) : f \in x.fields}
      BY <3>3 DEF Schemas
    <3>6. ItemNamed(schemas, x.name) = y
      BY <1>1, <3>4, <3>5, ItemByName
    <3>7. \A f \in x.fields : TypeField(f).name = f.name
      BY <3>3, FieldKept DEF Schemas
    <3>8. {f.name : f \in y.fields} = {f.name : f \in x.fields}
      BY <3>5, <3>7
    <3>9. QED
      BY <1>5, <2>2, <3>2, <3>6, <3>8
  <2>5. QED
    BY <2>3, <2>4
<1>6. QED
  BY <1>4, <1>5

\* Every value of a discriminator selects an object that was built.
LEMMA VariantsSelect ==
    ASSUME NEW s, IsSource(s), ValidSpec(s), ValidProtocol(Build(s)),
           NEW x \in ObjectSchemas(Build(s).schemas), NEW f \in x.fields, HasVariants(f),
           NEW v \in ItemNamed(x.fields, f.variants.discriminator).enum
    PROVE  /\ v \in DOMAIN f.variants.mapping
           /\ ItemNamed(Build(s).schemas, f.variants.mapping[v]).kind = "object"
<1> DEFINE schemas == Build(s).schemas
<1>1. x \in schemas /\ x.kind = "object"
  BY DEF ObjectSchemas
<1>2. ValidVariants(f, x, Named(schemas), Named(ObjectSchemas(schemas)))
  BY <1>1 DEF ValidProtocol, SchemaDefinitions
<1>3. PICK d \in x.fields : /\ d.name = f.variants.discriminator
                           /\ DOMAIN f.variants.mapping = d.enum
  BY <1>2 DEF ValidVariants
<1>4. UniqueBy(x.fields, "name")
  <2>1. x # EmptySchema
    BY DEF EmptySchema
  <2>2. PICK y \in s.schemas : x = [y EXCEPT !.fields = {TypeField(g) : g \in y.fields}]
    BY <1>1, <2>1 DEF Build, BuildSchemas
  <2>3. y \in Schemas /\ UniqueBy(y.fields, "name")
    BY SpecParts DEF ValidSpec, ValidSchemas
  <2>4. x.fields = {TypeField(g) : g \in y.fields}
    BY <2>2, <2>3 DEF Schemas
  <2>5. \A g \in y.fields : TypeField(g).name = g.name
    BY <2>3, FieldKept DEF Schemas
  <2>6. QED
    BY <2>3, <2>4, <2>5 DEF UniqueBy
<1>5. ItemNamed(x.fields, f.variants.discriminator) = d
  BY <1>3, <1>4, ItemByName
<1>6. v \in DOMAIN f.variants.mapping
  BY <1>3, <1>5
<1>7. f.variants.mapping[v] \in VariantsOf(f)
  BY <1>6 DEF VariantsOf, Range
<1>8. PICK y \in ObjectSchemas(schemas) : y.name = f.variants.mapping[v]
  BY <1>2, <1>7 DEF ValidVariants, Named
<1>9. ItemNamed(schemas, y.name) = y
  BY <1>8, ItemByName DEF ObjectSchemas, ValidProtocol
<1>10. QED
  BY <1>6, <1>8, <1>9 DEF ObjectSchemas

\* Beyond the texts, the comparison with them asks nothing new.
LEMMA DocsComplain ==
    ASSUME NEW p, ValidProtocol(p),
           NEW docs \in SUBSET {"frameByteOrder", "heartbeat"}
    PROVE  DocsConsistent(p, docs \cup (DocFacts \ {"heartbeat"})) <=> "heartbeat" \in docs
<1>1. YamlFacts(p)
  BY DEF ValidProtocol, WireOrder, ControlOpcodes, YamlFacts
<1>2. QED
  BY <1>1 DEF DocsConsistent, DocFacts

\* What both validations accept serves, edited or not.
LEMMA TypedServe == DefinitionsTypeOK => AcceptedServe
<1> SUFFICES ASSUME DefinitionsTypeOK PROVE AcceptedServe
  OBVIOUS
<1>1. IsSource(source)
  BY DEF DefinitionsTypeOK
<1>2. DocsAgree
  BY DocsComplain DEF DocsAgree
<1>3. ASSUME ValidSpec(source), ValidProtocol(Build(source)) PROVE AcceptedIsUsable
  <2>1. \A r \in {"methods", "events"} : \A n \in Named(source[r]) :
            NameOf(Registry(source[r]), IdOf(Registry(source[r]), n)) = n
    BY <1>1, <1>3, SpecParts, NamesFound
  <2>2. \A r \in {"methods", "events"} :
            DOMAIN Registry(source[r]) = Named(source[r])
    BY DEF Registry
  <2>3. MentionedInterfaces(source) \subseteq Interfaces(source)
    BY <1>1, <1>3, MentionsExist
  <2>4. \A m \in source.methods : \A e \in m.events :
            \E x \in source.events : x.name = e /\ x.status # "reserved"
    BY <1>1, <1>3, EventsThere
  <2>5. \A m \in source.methods : \A built \in Build(source).methods :
            built.name = m.name =>
              {f.name : f \in ItemNamed(Build(source).schemas, built.request).fields}
              = IF m.request = "" THEN {}
                ELSE {f.name : f \in ItemNamed(source.schemas, m.request).fields}
    BY <1>1, <1>3, RequestsDescribed
  <2>6. \A x \in ObjectSchemas(Build(source).schemas) : \A f \in x.fields :
            HasVariants(f) =>
              \A v \in ItemNamed(x.fields, f.variants.discriminator).enum :
                  /\ v \in DOMAIN f.variants.mapping
                  /\ ItemNamed(Build(source).schemas, f.variants.mapping[v]).kind = "object"
    BY <1>1, <1>3, VariantsSelect
  <2>7. QED
    BY <2>1, <2>2, <2>3, <2>4, <2>5, <2>6 DEF AcceptedIsUsable
<1>4. QED
  BY <1>2, <1>3 DEF AcceptedServe, AcceptedIsUsable

\* However the files are edited, a definition has the shape the loaders give it.
THEOREM DefinitionsTypeCorrect == DefinitionsSpec => []DefinitionsTypeOK
  BY DefinitionsInitial, DefinitionsKept, PTL DEF DefinitionsSpec

\* For any names, items and edits: what the validators of the generators accept
\* is usable in the runtime and is described as it is.
THEOREM AcceptedAlwaysServe == DefinitionsSpec => []AcceptedServe
  BY DefinitionsTypeCorrect, TypedServe, PTL

-----------------------------------------------------------------------------
(* The parts together                                                      *)

\* MCParts moves one part and leaves the others where they started: a
\* behaviour of it is one of every part.
THEOREM PartsImplemented ==
    MCSpec => /\ Spec /\ KeepaliveSpec /\ EventStreamSpec /\ DebugSpec
              /\ TransportSpec /\ DefinitionsSpec
<1>1. MCInit => /\ Init /\ KeepaliveInit /\ EventStreamInit /\ DebugInit
                /\ TransportInit /\ DefinitionsInit
    BY DEF MCInit
<1>2. [MCNext]_partsVars => [Next]_vars
    BY DEF MCNext, partsVars
<1>3. [MCNext]_partsVars => [KeepaliveNext]_kvars
    BY DEF MCNext, partsVars
<1>4. [MCNext]_partsVars => [EventStreamNext]_streamVars
    BY DEF MCNext, partsVars
<1>5. [MCNext]_partsVars => [DebugNext]_debugVars
    BY DEF MCNext, partsVars
<1>6. [MCNext]_partsVars => [TransportNext]_transportVars
    BY DEF MCNext, partsVars
<1>7. [MCNext]_partsVars => [DefinitionsNext]_defVars
    BY DEF MCNext, partsVars
<1>8. QED
    BY <1>1, <1>2, <1>3, <1>4, <1>5, <1>6, <1>7, PTL
       DEF MCSpec, Spec, KeepaliveSpec, EventStreamSpec, DebugSpec, TransportSpec,
           DefinitionsSpec

\* The variables of all parts keep their types.
THEOREM PartsTypeCorrect == MCSpec => []PartsTypeOK
<1>1. /\ TypeOK /\ KeepaliveTypeOK /\ EventStreamTypeOK /\ DebugTypeOK /\ TransportTypeOK
      => PartsTypeOK
    BY DEF PartsTypeOK
<1>2. QED
    BY <1>1, PartsImplemented, FramingTypeCorrect, HeartbeatTypeCorrect,
       EventStreamTypeCorrect, DebugTypeCorrect, TransportTypeCorrect, PTL

\* What the validators of the generators accept serves, whatever the other
\* parts are.
THEOREM DefinitionsAlwaysServe == MCSpec => []DefinitionsServe
<1>1. AcceptedServe => DefinitionsServe
    BY DEF DefinitionsServe
<1>2. QED
    BY <1>1, PartsImplemented, AcceptedAlwaysServe, PTL
=============================================================================
