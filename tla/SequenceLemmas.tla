--------------------------- MODULE SequenceLemmas ---------------------------
(***************************************************************************)
(* Induction over the natural numbers in first-order form, and what it     *)
(* gives about recursive functions on sequences.                           *)
(*                                                                         *)
(* The induction theorems of the library have an operator as a parameter.  *)
(* The ones here quantify over a set of numbers instead, which is closed   *)
(* under the induction step; they follow from the well-foundedness of <.   *)
(***************************************************************************)
EXTENDS Filters, SequencesExt, SequenceTheorems, FiniteSetTheorems,
        WellFoundedInduction, TLAPS

\* A set of naturals with 0 and every successor is all of them.
LEMMA Induction ==
  ASSUME NEW S \in SUBSET Nat, 0 \in S, \A n \in S : n + 1 \in S
  PROVE  S = Nat
<1> SUFFICES ASSUME Nat \ S # {} PROVE FALSE
  OBVIOUS
<1>1. PICK m \in Nat \ S : \A n \in Nat \ S : <<n, m>> \notin OpToRel(<, Nat)
  <2> DEFINE T == Nat \ S
  <2>1. T \subseteq Nat /\ T # {}
    OBVIOUS
  <2> HIDE DEF T
  <2>2. \E m \in T : \A n \in T : ~(<<n, m>> \in OpToRel(<, Nat))
    BY <2>1, NatLessThanWellFounded, WFMin
  <2> QED BY <2>2 DEF T
<1>2. m - 1 \in Nat /\ m - 1 < m
  OBVIOUS
<1>3. <<m - 1, m>> \in OpToRel(<, Nat)
  <2>1. <<m - 1, m>> \in Nat \X Nat
    BY <1>2
  <2>2. <<m - 1, m>>[1] < <<m - 1, m>>[2]
    BY <1>2
  <2> QED BY <2>1, <2>2, Zenon DEF OpToRel
<1>4. m - 1 \in S
  BY <1>1, <1>2, <1>3
<1> QED BY <1>2, <1>4

\* The least of a set of naturals.
LEMMA Least ==
  ASSUME NEW T \in SUBSET Nat, T # {}
  PROVE  \E m \in T : \A n \in T : m <= n
<1>1. \E m \in T : \A n \in T : ~(<<n, m>> \in OpToRel(<, Nat))
  BY NatLessThanWellFounded, WFMin
<1>2. PICK m \in T : \A n \in T : <<n, m>> \notin OpToRel(<, Nat)
  BY <1>1
<1>3. ASSUME NEW n \in T PROVE m <= n
  <2>1. n \in Nat /\ m \in Nat /\ <<n, m>> \notin OpToRel(<, Nat)
    BY <1>2
  <2>2. ~(n < m)
    <3>1. <<n, m>>[1] < <<n, m>>[2] <=> n < m
      OBVIOUS
    <3>2. <<n, m>> \in Nat \X Nat
      BY <2>1
    <3> QED BY <2>1, <3>1, <3>2, Zenon DEF OpToRel
  <2>3. n \in Nat /\ m \in Nat
    BY <2>1
  <2> QED BY <2>2, <2>3
<1> QED BY <1>3

-----------------------------------------------------------------------------
(* Filters!Without.                                                        *)

\* The recursive function inside Without, n being how far it goes.
Keeps(kept, s, X, n) ==
  kept = [i \in 0 .. n |-> IF i = 0 THEN <<>>
                           ELSE IF s[i] \in X THEN kept[i - 1] ELSE Append(kept[i - 1], s[i])]

\* The recursion of Without is well-founded: it defines a function.
LEMMA KeptExists ==
  ASSUME NEW s, NEW X, NEW n \in Nat
  PROVE  \E kept : Keeps(kept, s, X, n)
<1> DEFINE N == {k \in Nat : \E kept : Keeps(kept, s, X, k)}
<1>1. 0 \in N
  <2> DEFINE kept == [i \in 0 .. 0 |-> <<>>]
  <2>1. Keeps(kept, s, X, 0)
    BY DEF Keeps
  <2> QED BY <2>1
<1>2. ASSUME NEW k \in N PROVE k + 1 \in N
  <2>1. PICK old : Keeps(old, s, X, k)
    OBVIOUS
  <2> DEFINE kept == [i \in 0 .. k + 1 |->
                        IF i \in 0 .. k THEN old[i]
                        ELSE IF s[i] \in X THEN old[i - 1] ELSE Append(old[i - 1], s[i])]
  <2>2. ASSUME NEW i \in 0 .. k + 1
        PROVE  kept[i] = IF i = 0 THEN <<>>
                         ELSE IF s[i] \in X THEN kept[i - 1] ELSE Append(kept[i - 1], s[i])
    <3>1. CASE i = k + 1
      BY <3>1
    <3>2. CASE i \in 0 .. k
      <4>1. old[i] = IF i = 0 THEN <<>>
                     ELSE IF s[i] \in X THEN old[i - 1] ELSE Append(old[i - 1], s[i])
        BY <2>1, <3>2 DEF Keeps
      <4>2. kept[i] = old[i] /\ (i # 0 => kept[i - 1] = old[i - 1])
        BY <3>2
      <4> QED BY <4>1, <4>2
    <3> QED BY <3>1, <3>2
  <2>3. Keeps(kept, s, X, k + 1)
    <3>1. kept = [i \in 0 .. k + 1 |-> kept[i]]
      OBVIOUS
    <3> HIDE DEF kept
    <3> QED BY <2>2, <3>1 DEF Keeps
  <2>4. k + 1 \in Nat
    OBVIOUS
  <2> HIDE DEF kept
  <2> QED BY <2>3, <2>4
<1>3. N = Nat
  <2>1. N \in SUBSET Nat
    OBVIOUS
  <2> HIDE DEF N
  <2> QED BY <1>1, <1>2, <2>1, Induction
<1> QED BY <1>3

\* Which elements of the first k are in r, and in which order: `at` says where
\* each of them comes from.
Picks(r, s, X, k, at) ==
  /\ at \in [1 .. Len(r) -> 1 .. k]
  /\ \A j \in 1 .. Len(r) : r[j] = s[at[j]] /\ s[at[j]] \notin X
  /\ \A i, j \in 1 .. Len(r) : i < j => at[i] < at[j]
  /\ \A i \in 1 .. k : s[i] \notin X => \E j \in 1 .. Len(r) : at[j] = i

\* One element more is picked, or not.
LEMMA PickOne ==
  ASSUME NEW S, NEW r \in Seq(S), NEW s, NEW X, NEW k \in Nat, NEW at,
         Picks(r, s, X, k, at), s[k + 1] \in S
  PROVE  LET q == IF s[k + 1] \in X THEN r ELSE Append(r, s[k + 1])
         IN q \in Seq(S) /\ \E to : Picks(q, s, X, k + 1, to)
<1>1. CASE s[k + 1] \in X
  <2>1. Picks(r, s, X, k + 1, at)
    BY <1>1 DEF Picks
  <2> QED BY <1>1, <2>1
<1>2. CASE s[k + 1] \notin X
  <2> DEFINE q == Append(r, s[k + 1])
             n == Len(r) + 1
             to == [j \in 1 .. n |-> IF j = n THEN k + 1 ELSE at[j]]
  <2>1. q \in Seq(S) /\ Len(q) = n /\ q[n] = s[k + 1] /\ \A j \in 1 .. Len(r) : q[j] = r[j]
    BY AppendProperties
  <2>2. to[n] = k + 1 /\ \A j \in 1 .. Len(r) : to[j] = at[j] /\ at[j] \in 1 .. k
    BY DEF Picks
  <2>3. to \in [1 .. n -> 1 .. k + 1]
    <3> SUFFICES ASSUME NEW j \in 1 .. n PROVE (IF j = n THEN k + 1 ELSE at[j]) \in 1 .. k + 1
      OBVIOUS
    <3>1. j # n => j \in 1 .. Len(r) /\ at[j] \in 1 .. k
      BY DEF Picks
    <3> QED BY <3>1
  <2>4. /\ \A j \in 1 .. n : j = n \/ j \in 1 .. Len(r)
        /\ 1 .. Len(r) \subseteq 1 .. n /\ n \in 1 .. n
    OBVIOUS
  <2> HIDE DEF q, to
  <2>5. \A j \in 1 .. n : q[j] = s[to[j]] /\ s[to[j]] \notin X
    BY <1>2, <2>1, <2>2, <2>4 DEF Picks
  <2>6. \A i, j \in 1 .. n : i < j => to[i] < to[j]
    BY <2>2, <2>4 DEF Picks
  <2>7. \A i \in 1 .. k + 1 : s[i] \notin X => \E j \in 1 .. n : to[j] = i
    <3> SUFFICES ASSUME NEW i \in 1 .. k + 1, s[i] \notin X
                 PROVE  \E j \in 1 .. n : to[j] = i
      OBVIOUS
    <3>1. CASE i = k + 1
      BY <3>1, <2>2, <2>4
    <3>2. CASE i \in 1 .. k
      <4>1. PICK j \in 1 .. Len(r) : at[j] = i
        BY <3>2 DEF Picks
      <4> QED BY <4>1, <2>2, <2>4
    <3> QED BY <3>1, <3>2
  <2>8. Picks(q, s, X, k + 1, to)
    BY <2>1, <2>3, <2>5, <2>6, <2>7 DEF Picks
  <2> QED BY <1>2, <2>1, <2>8 DEF q
<1> QED BY <1>1, <1>2

\* Without leaves exactly the elements outside X, each where it was among them.
LEMMA WithoutPicks ==
  ASSUME NEW S, NEW s \in Seq(S), NEW X
  PROVE  Without(s, X) \in Seq(S) /\ \E at : Picks(Without(s, X), s, X, Len(s), at)
<1> DEFINE kept == CHOOSE kept : Keeps(kept, s, X, Len(s))
           N == {k \in Nat : k <= Len(s) => /\ kept[k] \in Seq(S)
                                            /\ \E at : Picks(kept[k], s, X, k, at)}
<1>1. Without(s, X) = kept[Len(s)]
  BY DEF Without, Keeps
<1>2. Keeps(kept, s, X, Len(s))
  BY KeptExists
<1> HIDE DEF kept
<1>3. 0 \in N
  <2>1. kept[0] = <<>>
    BY <1>2 DEF Keeps
  <2>2. Picks(<<>>, s, X, 0, [j \in 1 .. 0 |-> 1])
    BY DEF Picks
  <2>3. kept[0] \in Seq(S) /\ \E at : Picks(kept[0], s, X, 0, at)
    BY <2>1, <2>2
  <2> QED BY <2>3
<1>4. ASSUME NEW k \in N PROVE k + 1 \in N
  <2> SUFFICES ASSUME k + 1 <= Len(s)
               PROVE  /\ kept[k + 1] \in Seq(S)
                      /\ \E at : Picks(kept[k + 1], s, X, k + 1, at)
    OBVIOUS
  <2>1. kept[k + 1] = IF s[k + 1] \in X THEN kept[k] ELSE Append(kept[k], s[k + 1])
    <3>1. k + 1 \in 0 .. Len(s) /\ k + 1 # 0 /\ (k + 1) - 1 = k
      OBVIOUS
    <3> QED BY <1>2, <3>1 DEF Keeps
  <2>2. kept[k] \in Seq(S) /\ \E at : Picks(kept[k], s, X, k, at)
    OBVIOUS
  <2>3. k \in Nat /\ s[k + 1] \in S
    OBVIOUS
  <2> QED BY <2>1, <2>2, <2>3, PickOne
<1>5. N = Nat
  <2>1. N \in SUBSET Nat
    OBVIOUS
  <2> HIDE DEF N
  <2> QED BY <1>3, <1>4, <2>1, Induction
<1> QED BY <1>1, <1>5

\* It has no element of X, every other one of s, and no others.
LEMMA WithoutRange ==
  ASSUME NEW S, NEW s \in Seq(S), NEW X
  PROVE  Range(Without(s, X)) = Range(s) \ X
<1>1. PICK at : Picks(Without(s, X), s, X, Len(s), at)
  BY WithoutPicks
<1>2. Without(s, X) \in Seq(S)
  BY WithoutPicks
<1>3. ASSUME NEW x PROVE x \in Range(Without(s, X)) <=> x \in Range(s) \ X
  <2>1. ASSUME x \in Range(Without(s, X)) PROVE x \in Range(s) \ X
    <3>1. PICK j \in 1 .. Len(Without(s, X)) : x = Without(s, X)[j]
      BY <1>2, <2>1 DEF Range
    <3>2. x = s[at[j]] /\ x \notin X /\ at[j] \in 1 .. Len(s)
      BY <1>1, <3>1 DEF Picks
    <3> QED BY <3>2 DEF Range
  <2>2. ASSUME x \in Range(s) \ X PROVE x \in Range(Without(s, X))
    <3>1. PICK i \in 1 .. Len(s) : x = s[i]
      BY <2>2 DEF Range
    <3>2. PICK j \in 1 .. Len(Without(s, X)) : at[j] = i
      BY <1>1, <2>2, <3>1 DEF Picks
    <3>3. x = Without(s, X)[j] /\ j \in DOMAIN Without(s, X)
      BY <1>1, <1>2, <3>1, <3>2 DEF Picks
    <3> QED BY <3>3 DEF Range
  <2> QED BY <2>1, <2>2
<1> QED BY <1>3

\* Two places of it come from two places of s.
LEMMA WithoutApart ==
  ASSUME NEW S, NEW s \in Seq(S), NEW X
  PROVE  \A i, j \in 1 .. Len(Without(s, X)) : i # j =>
           \E k, l \in 1 .. Len(s) : k # l /\ Without(s, X)[i] = s[k] /\ Without(s, X)[j] = s[l]
<1> SUFFICES ASSUME NEW i \in 1 .. Len(Without(s, X)), NEW j \in 1 .. Len(Without(s, X)), i # j
             PROVE  \E k, l \in 1 .. Len(s) :
                      k # l /\ Without(s, X)[i] = s[k] /\ Without(s, X)[j] = s[l]
  OBVIOUS
<1>1. PICK at : Picks(Without(s, X), s, X, Len(s), at)
  BY WithoutPicks
<1>2. at[i] \in 1 .. Len(s) /\ at[j] \in 1 .. Len(s)
  BY <1>1 DEF Picks
<1>3. i \in Nat /\ j \in Nat /\ (i < j \/ j < i)
  <2>1. Len(Without(s, X)) \in Nat
    BY WithoutPicks, LenProperties
  <2> QED BY <2>1
<1>4. at[i] # at[j]
  BY <1>1, <1>2, <1>3 DEF Picks
<1> QED BY <1>1, <1>2, <1>4 DEF Picks

\* It is no longer than s.
LEMMA WithoutLen ==
  ASSUME NEW S, NEW s \in Seq(S), NEW X
  PROVE  Len(Without(s, X)) \in Nat /\ Len(Without(s, X)) <= Len(s)
<1> DEFINE n == Len(Without(s, X))
<1>1. n \in Nat /\ Len(s) \in Nat
  BY WithoutPicks, LenProperties
<1>2. PICK at : Picks(Without(s, X), s, X, Len(s), at)
  BY WithoutPicks
<1> DEFINE N == {k \in Nat : k \in 1 .. n => k <= at[k]}
<1> HIDE DEF n
<1>3. /\ at \in [1 .. n -> 1 .. Len(s)]
      /\ \A i, j \in 1 .. n : i < j => at[i] < at[j]
  BY <1>2 DEF Picks, n
<1>4. 0 \in N
  OBVIOUS
<1>5. ASSUME NEW k \in N PROVE k + 1 \in N
  <2> SUFFICES ASSUME k + 1 \in 1 .. n PROVE k + 1 <= at[k + 1]
    OBVIOUS
  <2>1. at[k + 1] \in 1 .. Len(s) /\ k \in Nat
    BY <1>3
  <2>2. CASE k = 0
    BY <1>1, <2>1, <2>2
  <2>3. CASE k \in 1 .. n
    <3>1. at[k] < at[k + 1] /\ k <= at[k] /\ at[k] \in Nat /\ at[k + 1] \in Nat
      BY <1>1, <1>3, <2>1, <2>3
    <3> QED BY <2>1, <3>1
  <2> QED BY <1>1, <2>1, <2>2, <2>3
<1>6. N = Nat
  <2>1. N \in SUBSET Nat
    OBVIOUS
  <2> HIDE DEF N
  <2> QED BY <1>4, <1>5, <2>1, Induction
<1>7. n = 0 \/ (n <= at[n] /\ at[n] \in 1 .. Len(s))
  <2>1. n \in N
    BY <1>1, <1>6
  <2> QED BY <1>1, <1>3, <2>1
<1> QED BY <1>1, <1>7 DEF n

\* What comes first stays first, if it stays.
LEMMA WithoutFirst ==
  ASSUME NEW S, NEW s \in Seq(S), NEW X, s # <<>>, s[1] \notin X
  PROVE  Without(s, X) # <<>> /\ Without(s, X)[1] = s[1]
<1> DEFINE w == Without(s, X)
<1>1. w \in Seq(S) /\ Len(w) \in Nat /\ 1 \in 1 .. Len(s)
  BY WithoutPicks, LenProperties, EmptySeq
<1>2. PICK at : Picks(w, s, X, Len(s), at)
  BY WithoutPicks
<1> HIDE DEF w
<1>3. PICK j \in 1 .. Len(w) : at[j] = 1
  BY <1>1, <1>2 DEF Picks
<1>4. 1 \in 1 .. Len(w) /\ at[1] \in 1 .. Len(s)
  BY <1>1, <1>2, <1>3 DEF Picks
<1>5. j = 1
  <2> SUFFICES ASSUME 1 < j PROVE FALSE
    BY <1>1
  <2>1. at[1] < at[j]
    BY <1>2, <1>4 DEF Picks
  <2> QED BY <1>1, <1>3, <1>4, <2>1
<1>6. w[1] = s[1]
  BY <1>2, <1>3, <1>5 DEF Picks
<1> QED BY <1>1, <1>4, <1>6 DEF w

\* Two runs of the recursion over sequences that begin alike agree so far.
LEMMA KeptAgree ==
  ASSUME NEW s, NEW t, NEW X, NEW n \in Nat, NEW m \in Nat, n <= m,
         NEW f, NEW g, Keeps(f, s, X, n), Keeps(g, t, X, m),
         \A i \in 1 .. n : s[i] = t[i]
  PROVE  \A k \in 0 .. n : f[k] = g[k]
<1> DEFINE N == {k \in Nat : k <= n => f[k] = g[k]}
<1>1. 0 \in N
  BY DEF Keeps
<1>2. ASSUME NEW k \in N PROVE k + 1 \in N
  <2> SUFFICES ASSUME k + 1 <= n PROVE f[k + 1] = g[k + 1]
    OBVIOUS
  <2>1. k + 1 \in 0 .. n /\ k + 1 \in 0 .. m /\ k + 1 # 0 /\ (k + 1) - 1 = k /\ k + 1 \in 1 .. n
    OBVIOUS
  <2>2. /\ f[k + 1] = IF s[k + 1] \in X THEN f[k] ELSE Append(f[k], s[k + 1])
        /\ g[k + 1] = IF t[k + 1] \in X THEN g[k] ELSE Append(g[k], t[k + 1])
    BY <2>1 DEF Keeps
  <2> QED BY <2>1, <2>2
<1>3. N = Nat
  <2>1. N \in SUBSET Nat
    OBVIOUS
  <2> HIDE DEF N
  <2> QED BY <1>1, <1>2, <2>1, Induction
<1> QED BY <1>3

\* Nothing is left of nothing.
LEMMA WithoutEmpty == ASSUME NEW X PROVE Without(<<>>, X) = <<>>
<1> DEFINE kept == CHOOSE kept : Keeps(kept, <<>>, X, 0)
<1>1. Len(<<>>) = 0 /\ 0 \in Nat
  OBVIOUS
<1>2. Without(<<>>, X) = kept[0]
  <2>1. Without(<<>>, X) = (CHOOSE k : Keeps(k, <<>>, X, Len(<<>>)))[Len(<<>>)]
    BY DEF Without, Keeps
  <2> QED BY <1>1, <2>1
<1>3. Keeps(kept, <<>>, X, 0)
  <2>1. \E k : Keeps(k, <<>>, X, 0)
    BY <1>1, KeptExists
  <2> QED BY <2>1
<1> HIDE DEF kept
<1>4. kept[0] = <<>>
  BY <1>3 DEF Keeps
<1> QED BY <1>2, <1>4

\* One element more.
LEMMA WithoutAppend ==
  ASSUME NEW S, NEW s \in Seq(S), NEW x \in S, NEW X
  PROVE  Without(Append(s, x), X) = IF x \in X THEN Without(s, X) ELSE Append(Without(s, X), x)
<1> DEFINE a == Append(s, x)
           n == Len(s)
           f == CHOOSE f : Keeps(f, s, X, n)
           g == CHOOSE g : Keeps(g, a, X, n + 1)
<1>1. /\ a \in Seq(S) /\ Len(a) = n + 1 /\ n \in Nat
      /\ a[n + 1] = x /\ \A i \in 1 .. n : s[i] = a[i]
  BY AppendProperties, LenProperties
<1>2. Without(s, X) = f[n] /\ Without(a, X) = g[n + 1]
  <2>1. Without(s, X) = f[n]
    BY DEF Without, Keeps
  <2>2. Without(a, X) = (CHOOSE g1 : Keeps(g1, a, X, Len(a)))[Len(a)]
    BY DEF Without, Keeps
  <2> HIDE DEF a
  <2> QED BY <1>1, <2>1, <2>2
<1>3. Keeps(f, s, X, n) /\ Keeps(g, a, X, n + 1)
  <2>1. n \in Nat /\ n + 1 \in Nat
    BY <1>1
  <2> HIDE DEF n, a
  <2> QED BY <2>1, KeptExists
<1> HIDE DEF f, g, a, n
<1>4. f[n] = g[n]
  <2>1. n \in Nat /\ n + 1 \in Nat /\ n <= n + 1 /\ n \in 0 .. n
    BY <1>1
  <2>2. \A k \in 0 .. n : f[k] = g[k]
    <3> DEFINE m == n + 1
    <3>1. m \in Nat /\ n \in Nat /\ n <= m /\ (\A i \in 1 .. n : s[i] = a[i])
      BY <1>1, <2>1
    <3>2. Keeps(f, s, X, n) /\ Keeps(g, a, X, m)
      BY <1>3
    <3> HIDE DEF m
    <3> QED BY <3>1, <3>2, KeptAgree
  <2> QED BY <2>1, <2>2
<1>5. g[n + 1] = IF x \in X THEN g[n] ELSE Append(g[n], x)
  <2>1. n + 1 \in 0 .. n + 1 /\ n + 1 # 0 /\ (n + 1) - 1 = n
    BY <1>1
  <2> QED BY <1>1, <1>3, <2>1 DEF Keeps
<1> QED BY <1>2, <1>4, <1>5 DEF a

\* A sequence that is not empty ends in an element.
LEMMA EndsIn ==
  ASSUME NEW S, NEW s \in Seq(S), NEW k \in Nat, Len(s) = k + 1
  PROVE  \E f \in Seq(S), x \in S :
           s = Append(f, x) /\ Len(f) = k /\ x = s[k + 1] /\ \A i \in 1 .. k : f[i] = s[i]
<1> DEFINE f == SubSeq(s, 1, k)
           x == s[k + 1]
<1>1. \A i \in 1 .. k + 1 : s[i] \in S
  BY LenProperties
<1>2. f \in Seq(S) /\ Len(f) = k /\ (\A i \in 1 .. k : f[i] = s[i]) /\ x \in S
  <2>1. k \in Int /\ (\A i \in 1 .. k : s[i] \in S) /\ k + 1 \in 1 .. k + 1
    BY <1>1
  <2>2. f \in Seq(S) /\ Len(f) = (IF 1 <= k THEN k - 1 + 1 ELSE 0)
        /\ \A i \in 1 .. k - 1 + 1 : f[i] = s[1 + i - 1]
    BY <2>1, SubSeqProperties
  <2> QED BY <1>1, <2>1, <2>2
<1> HIDE DEF f
<1>3. s = Append(f, x)
  <2>1. /\ Append(f, x) \in Seq(S) /\ Len(Append(f, x)) = k + 1
        /\ Append(f, x)[k + 1] = x /\ \A i \in 1 .. k : Append(f, x)[i] = f[i]
    BY <1>2, AppendProperties
  <2>2. \A i \in 1 .. k + 1 : s[i] = Append(f, x)[i]
    BY <1>2, <2>1
  <2> QED BY <2>1, <2>2, SeqEqual
<1> QED BY <1>2, <1>3

\* Without filters each part of a sequence on its own.
LEMMA WithoutConcat ==
  ASSUME NEW S, NEW X
  PROVE  \A s, t \in Seq(S) : Without(s \o t, X) = Without(s, X) \o Without(t, X)
<1> SUFFICES ASSUME NEW s \in Seq(S)
             PROVE  \A t \in Seq(S) : Without(s \o t, X) = Without(s, X) \o Without(t, X)
  OBVIOUS
<1> DEFINE N == {k \in Nat : \A t \in Seq(S) :
                   Len(t) = k => Without(s \o t, X) = Without(s, X) \o Without(t, X)}
           w == Without(s, X)
<1>0. w \in Seq(S)
  BY WithoutPicks
<1>1. 0 \in N
  <2> SUFFICES ASSUME NEW t \in Seq(S), Len(t) = 0
               PROVE  Without(s \o t, X) = Without(s, X) \o Without(t, X)
    OBVIOUS
  <2>1. t = <<>>
    BY EmptySeq
  <2>2. s \o <<>> = s /\ w \o <<>> = w
    BY <1>0, ConcatEmptySeq
  <2> QED BY <2>1, <2>2, WithoutEmpty
<1>2. ASSUME NEW k \in N PROVE k + 1 \in N
  <2> SUFFICES ASSUME NEW t \in Seq(S), Len(t) = k + 1
               PROVE  Without(s \o t, X) = Without(s, X) \o Without(t, X)
    OBVIOUS
  <2>1. PICK f \in Seq(S), x \in S : t = Append(f, x) /\ Len(f) = k
    BY EndsIn
  <2> DEFINE v == Without(f, X)
             c == s \o f
  <2>2. v \in Seq(S) /\ c \in Seq(S) /\ Without(c, X) = w \o v
    BY <2>1, WithoutPicks, ConcatProperties
  <2>3. s \o t = Append(c, x) /\ Append(w \o v, x) = w \o Append(v, x)
    <3>1. \A a, b \in Seq(S) : a \o Append(b, x) = Append(a \o b, x)
      <4> SUFFICES ASSUME NEW a \in Seq(S), NEW b \in Seq(S)
                   PROVE  a \o Append(b, x) = Append(a \o b, x)
        OBVIOUS
      <4>1. /\ a \o b \in Seq(S) /\ Append(b, x) \in Seq(S)
            /\ Len(a \o b) = Len(a) + Len(b) /\ Len(Append(b, x)) = Len(b) + 1
            /\ \A i \in 1 .. Len(b) : Append(b, x)[i] = b[i]
            /\ Append(b, x)[Len(b) + 1] = x
            /\ \A i \in 1 .. Len(a) + Len(b) :
                 (a \o b)[i] = IF i <= Len(a) THEN a[i] ELSE b[i - Len(a)]
            /\ Len(a) \in Nat /\ Len(b) \in Nat
        BY ConcatProperties, AppendProperties, LenProperties
      <4> DEFINE l == a \o Append(b, x)
                 r == Append(a \o b, x)
                 n == Len(a) + Len(b) + 1
                 d == Append(b, x)
      <4>2. /\ l \in Seq(S) /\ Len(l) = n
            /\ \A i \in 1 .. n : l[i] = IF i <= Len(a) THEN a[i] ELSE d[i - Len(a)]
        <5>1. d \in Seq(S) /\ l = a \o d
          BY <4>1
        <5>2. Len(a) + Len(d) = n
          BY <4>1
        <5> HIDE DEF d, l, n
        <5>3. /\ a \o d \in Seq(S) /\ Len(a \o d) = Len(a) + Len(d)
              /\ \A i \in 1 .. Len(a) + Len(d) :
                   (a \o d)[i] = IF i <= Len(a) THEN a[i] ELSE d[i - Len(a)]
          BY <5>1, ConcatProperties
        <5> QED BY <5>1, <5>2, <5>3
      <4>3. /\ r \in Seq(S) /\ Len(r) = n /\ r[n] = x
            /\ \A i \in 1 .. Len(a) + Len(b) : r[i] = (a \o b)[i]
        BY <4>1, AppendProperties
      <4>4. \A i \in 1 .. n : l[i] = r[i]
        <5> HIDE DEF l, r
        <5> SUFFICES ASSUME NEW i \in 1 .. n PROVE l[i] = r[i]
          OBVIOUS
        <5>1. CASE i = n
          BY <4>1, <4>2, <4>3, <5>1
        <5>2. CASE i # n
          <6>1. i \in 1 .. Len(a) + Len(b)
            <7>1. \A p \in Nat : \A j \in 1 .. p + 1 : j # p + 1 => j \in 1 .. p
              OBVIOUS
            <7>2. Len(a) + Len(b) \in Nat
              BY <4>1
            <7> QED BY <5>2, <7>1, <7>2
          <6>2. CASE i <= Len(a)
            BY <4>1, <4>2, <4>3, <6>1, <6>2
          <6>3. CASE ~(i <= Len(a))
            <7>1. i - Len(a) \in 1 .. Len(b)
              BY <4>1, <6>1, <6>3
            <7> QED BY <4>1, <4>2, <4>3, <6>1, <6>3, <7>1
          <6> QED BY <6>2, <6>3
        <5> QED BY <5>1, <5>2
      <4> HIDE DEF l, r, n
      <4>5. l = r
        BY <4>2, <4>3, <4>4, SeqEqual
      <4> QED BY <4>5 DEF l, r
    <3> QED BY <1>0, <2>1, <2>2, <3>1
  <2>4. /\ Without(Append(c, x), X) = IF x \in X THEN Without(c, X) ELSE Append(Without(c, X), x)
        /\ Without(t, X) = IF x \in X THEN v ELSE Append(v, x)
    <3>1. c \in Seq(S) /\ f \in Seq(S) /\ x \in S
      BY <2>1, <2>2
    <3> HIDE DEF c
    <3>2. Without(Append(c, x), X) = IF x \in X THEN Without(c, X) ELSE Append(Without(c, X), x)
      BY <3>1, WithoutAppend
    <3>3. Without(Append(f, x), X) = IF x \in X THEN Without(f, X) ELSE Append(Without(f, X), x)
      BY <3>1, WithoutAppend
    <3> QED BY <2>1, <3>2, <3>3
  <2> HIDE DEF v, c, w
  <2>5. Without(s \o t, X) = w \o Without(t, X)
    BY <2>2, <2>3, <2>4
  <2> QED BY <2>5 DEF w
<1>3. N = Nat
  <2>1. N \in SUBSET Nat
    OBVIOUS
  <2> HIDE DEF N
  <2> QED BY <1>1, <1>2, <2>1, Induction
<1> QED BY <1>3, LenProperties

\* Nothing, or everything, is left.
LEMMA WithoutNone ==
  ASSUME NEW S, NEW X
  PROVE  \A s \in Seq(S) : (\A i \in 1 .. Len(s) : s[i] \notin X) => Without(s, X) = s
<1> DEFINE N == {k \in Nat : \A s \in Seq(S) :
                   Len(s) = k /\ (\A i \in 1 .. Len(s) : s[i] \notin X) => Without(s, X) = s}
<1>1. 0 \in N
  BY WithoutEmpty, EmptySeq
<1>2. ASSUME NEW k \in N PROVE k + 1 \in N
  <2> SUFFICES ASSUME NEW s \in Seq(S), Len(s) = k + 1, \A i \in 1 .. k + 1 : s[i] \notin X
               PROVE  Without(s, X) = s
    OBVIOUS
  <2>0. k \in Nat /\ \A i \in 1 .. k : i \in 1 .. k + 1
    OBVIOUS
  <2>1. PICK f \in Seq(S), x \in S :
          s = Append(f, x) /\ Len(f) = k /\ x = s[k + 1] /\ \A i \in 1 .. k : f[i] = s[i]
    <3> HIDE DEF N
    <3> QED BY <2>0, EndsIn
  <2>2. Without(f, X) = f
    BY <2>0, <2>1
  <2>3. x \notin X
    BY <2>1
  <2> QED BY <2>1, <2>2, <2>3, WithoutAppend
<1>3. N = Nat
  <2>1. N \in SUBSET Nat
    OBVIOUS
  <2> HIDE DEF N
  <2> QED BY <1>1, <1>2, <2>1, Induction
<1> QED BY <1>3, LenProperties

\* Nothing is left when every element is filtered out.
LEMMA WithoutAll ==
  ASSUME NEW S, NEW X
  PROVE  \A s \in Seq(S) : (\A i \in 1 .. Len(s) : s[i] \in X) => Without(s, X) = <<>>
<1> DEFINE N == {k \in Nat : \A s \in Seq(S) :
                   Len(s) = k /\ (\A i \in 1 .. Len(s) : s[i] \in X) => Without(s, X) = <<>>}
<1>1. 0 \in N
  BY WithoutEmpty, EmptySeq
<1>2. ASSUME NEW k \in N PROVE k + 1 \in N
  <2> SUFFICES ASSUME NEW s \in Seq(S), Len(s) = k + 1, \A i \in 1 .. k + 1 : s[i] \in X
               PROVE  Without(s, X) = <<>>
    OBVIOUS
  <2>0. k \in Nat /\ \A i \in 1 .. k : i \in 1 .. k + 1
    OBVIOUS
  <2>1. PICK f \in Seq(S), x \in S :
          s = Append(f, x) /\ Len(f) = k /\ x = s[k + 1] /\ \A i \in 1 .. k : f[i] = s[i]
    BY <2>0, EndsIn
  <2>2. Without(f, X) = <<>>
    BY <2>0, <2>1
  <2>3. x \in X
    BY <2>1
  <2> QED BY <2>1, <2>2, <2>3, WithoutAppend
<1>3. N = Nat
  <2>1. N \in SUBSET Nat
    OBVIOUS
  <2> HIDE DEF N
  <2> QED BY <1>1, <1>2, <2>1, Induction
<1> QED BY <1>3, LenProperties

-----------------------------------------------------------------------------
(* SequencesExt!RemoveAt.                                                  *)

\* The elements that are left when one is removed.
LEMMA RemoveAtElements ==
  ASSUME NEW S, NEW s \in Seq(S), NEW i \in 1 .. Len(s)
  PROVE  /\ RemoveAt(s, i) \in Seq(S)
         /\ Len(RemoveAt(s, i)) = Len(s) - 1
         /\ \A j \in 1 .. Len(s) - 1 :
              RemoveAt(s, i)[j] = IF j < i THEN s[j] ELSE s[j + 1]
<1> DEFINE a == SubSeq(s, 1, i - 1)
           b == SubSeq(s, i + 1, Len(s))
<1>1. /\ a \in Seq(S) /\ Len(a) = i - 1
      /\ \A j \in 1 .. i - 1 : a[j] = s[j]
  BY SubSeqProperties
<1>2. /\ b \in Seq(S) /\ Len(b) = Len(s) - i
      /\ \A j \in 1 .. Len(s) - i : b[j] = s[i + j]
  BY SubSeqProperties
<1>3. RemoveAt(s, i) = a \o b
  BY DEF RemoveAt
<1> HIDE DEF a, b
<1>4. a \o b \in Seq(S) /\ Len(a \o b) = Len(s) - 1
  <2>1. a \o b \in Seq(S) /\ Len(a \o b) = Len(a) + Len(b)
    BY <1>1, <1>2, ConcatProperties
  <2>2. Len(s) \in Nat /\ i \in Int
    OBVIOUS
  <2> QED BY <1>1, <1>2, <2>1, <2>2
<1>5. ASSUME NEW j \in 1 .. Len(s) - 1
      PROVE  (a \o b)[j] = IF j < i THEN s[j] ELSE s[j + 1]
  <2>1. CASE j < i
    BY <1>1, <1>2, <2>1, ConcatProperties
  <2>2. CASE ~(j < i)
    <3>1. j \in 1 .. Len(a) + Len(b) /\ ~(j <= Len(a))
      BY <1>1, <1>2, <2>2
    <3>2. (a \o b)[j] = b[j - Len(a)]
      BY <1>1, <1>2, <3>1, ConcatProperties
    <3>3. j - Len(a) \in 1 .. Len(s) - i /\ i + (j - Len(a)) = j + 1
      BY <1>1, <2>2
    <3> QED BY <1>2, <2>2, <3>2, <3>3
  <2> QED BY <2>1, <2>2
<1> QED BY <1>3, <1>4, <1>5

-----------------------------------------------------------------------------
(* Sequences in which nothing occurs twice, and SequencesExt!RemoveFirst.  *)

Once(s) == \A i, j \in 1 .. Len(s) : s[i] = s[j] => i = j

\* Such a sequence is as long as the set of its elements.
LEMMA OnceCardinality ==
  ASSUME NEW S, NEW s \in Seq(S), Once(s)
  PROVE  IsFiniteSet(Range(s)) /\ Cardinality(Range(s)) = Len(s)
<1>1. Len(s) \in Nat /\ DOMAIN s = 1 .. Len(s)
  BY LenProperties
<1>2. s \in Bijection(1 .. Len(s), Range(s))
  BY <1>1 DEF Once, Range, Bijection, Injection, Surjection, IsInjective
<1>3. /\ IsFiniteSet(1 .. Len(s))
      /\ Cardinality(1 .. Len(s)) = Len(s)
  <2>1. 1 \in Int /\ Len(s) \in Int
    BY <1>1
  <2>2. /\ IsFiniteSet(1 .. Len(s))
        /\ Cardinality(1 .. Len(s)) = IF 1 > Len(s) THEN 0 ELSE Len(s) - 1 + 1
    BY <2>1, FS_Interval, Zenon
  <2> QED BY <1>1, <2>2
<1>4. ExistsBijection(1 .. Len(s), Range(s))
  BY <1>2 DEF ExistsBijection
<1> QED BY <1>3, <1>4, FS_Bijection

\* Appending what is not there.
LEMMA OnceAppend ==
  ASSUME NEW S, NEW s \in Seq(S), Once(s), NEW x \in S, x \notin Range(s)
  PROVE  /\ Append(s, x) \in Seq(S) /\ Once(Append(s, x))
         /\ Range(Append(s, x)) = Range(s) \cup {x}
<1> DEFINE a == Append(s, x)
           n == Len(s)
<1>1. /\ a \in Seq(S) /\ Len(a) = n + 1 /\ a[n + 1] = x /\ \A i \in 1 .. n : a[i] = s[i]
      /\ n \in Nat /\ DOMAIN s = 1 .. n /\ DOMAIN a = 1 .. n + 1
  BY AppendProperties, LenProperties
<1>2. /\ 1 .. n + 1 = (1 .. n) \cup {n + 1}
      /\ \A i \in 1 .. n : a[i] \in Range(s)
  BY <1>1 DEF Range
<1> HIDE DEF a, n
<1>3. Range(a) = Range(s) \cup {x}
  BY <1>1, <1>2 DEF Range
<1>4. Once(a)
  BY <1>1, <1>2 DEF Once, n
<1> QED BY <1>1, <1>3, <1>4 DEF a

\* Where elements occur once, removing one removes it where it is.
LEMMA RemoveFirstAt ==
  ASSUME NEW S, NEW s \in Seq(S), Once(s), NEW k \in 1 .. Len(s)
  PROVE  RemoveFirst(s, s[k]) = RemoveAt(s, k)
<1> DEFINE I == {i \in 1 .. Len(s) : s[i] = s[k]}
<1>1. I = {k}
  BY DEF Once
<1>2. SelectInSeq(s, LAMBDA v : v = s[k]) = k
  <2>1. SelectInSeq(s, LAMBDA v : v = s[k]) = IF I # {} THEN Min(I) ELSE 0
    BY DEF SelectInSeq
  <2>2. Min({k}) = k
    BY DEF Min
  <2> HIDE DEF I
  <2> QED BY <1>1, <2>1, <2>2
<1> QED BY <1>2 DEF RemoveFirst

\* Removing an element, there or not.
LEMMA OnceRemoveFirst ==
  ASSUME NEW S, NEW s \in Seq(S), Once(s), NEW x
  PROVE  /\ RemoveFirst(s, x) \in Seq(S) /\ Once(RemoveFirst(s, x))
         /\ Range(RemoveFirst(s, x)) = Range(s) \ {x}
<1>1. CASE x \notin Range(s)
  <2>1. RemoveFirst(s, x) = s
    <3>1. \A i \in 1 .. Len(s) : s[i] # x
      BY <1>1 DEF Range
    <3> QED BY <3>1 DEF RemoveFirst
  <2> QED BY <1>1, <2>1
<1>2. CASE x \in Range(s)
  <2>1. PICK k \in 1 .. Len(s) : x = s[k]
    BY <1>2 DEF Range
  <2> DEFINE r == RemoveAt(s, k)
             n == Len(s)
             from(j) == IF j < k THEN j ELSE j + 1
  <2>2. RemoveFirst(s, x) = r
    BY <2>1, RemoveFirstAt
  <2>3. /\ r \in Seq(S) /\ Len(r) = n - 1 /\ n \in Nat
        /\ \A j \in 1 .. n - 1 : r[j] = IF j < k THEN s[j] ELSE s[j + 1]
    BY RemoveAtElements, LenProperties
  <2>4. DOMAIN r = 1 .. n - 1 /\ DOMAIN s = 1 .. n
    BY <2>3, LenProperties
  <2> HIDE DEF r, n
  <2>5. \A j \in 1 .. n - 1 : from(j) \in (1 .. n) \ {k} /\ r[j] = s[from(j)]
    BY <2>3, k \in 1 .. n DEF n
  <2>6. \A i \in (1 .. n) \ {k} : \E j \in 1 .. n - 1 : from(j) = i
    <3> SUFFICES ASSUME NEW i \in (1 .. n) \ {k} PROVE \E j \in 1 .. n - 1 : from(j) = i
      OBVIOUS
    <3>1. CASE i < k
      <4>1. i \in 1 .. n - 1 /\ from(i) = i
        BY <2>3, <3>1, k \in 1 .. n DEF n
      <4> QED BY <4>1
    <3>2. CASE ~(i < k)
      <4>1. i - 1 \in 1 .. n - 1 /\ from(i - 1) = i
        BY <2>3, <3>2, k \in 1 .. n DEF n
      <4> QED BY <4>1
    <3> QED BY <3>1, <3>2
  <2>7. Range(r) = Range(s) \ {x}
    <3>1. \A i \in 1 .. n : s[i] = x => i = k
      BY <2>1 DEF Once, n
    <3> HIDE DEF from
    <3>2. Range(r) = {r[j] : j \in 1 .. n - 1} /\ Range(s) = {s[i] : i \in 1 .. n}
      BY <2>4 DEF Range
    <3>3. \A y \in Range(r) : y \in Range(s) /\ y # x
      BY <2>5, <3>1, <3>2
    <3>4. \A y \in Range(s) : y # x => y \in Range(r)
      BY <2>1, <2>5, <2>6, <3>2
    <3> QED BY <3>3, <3>4
  <2>8. Once(r)
    <3>1. \A i, j \in 1 .. n - 1 : from(i) = from(j) => i = j
      BY <2>3, k \in 1 .. n DEF n
    <3> HIDE DEF from
    <3>2. \A i, j \in 1 .. n - 1 : r[i] = r[j] => from(i) = from(j)
      BY <2>5 DEF Once, n
    <3> QED BY <2>3, <3>1, <3>2 DEF Once
  <2> QED BY <2>2, <2>3, <2>7, <2>8 DEF r
<1> QED BY <1>1, <1>2

\* The first element, and the others.
LEMMA HeadTailRange ==
  ASSUME NEW S, NEW s \in Seq(S), s # <<>>
  PROVE  Tail(s) \in Seq(S) /\ Range(s) = Range(Tail(s)) \cup {Head(s)}
<1> DEFINE r == Tail(s)
           n == Len(s)
<1>1. /\ r \in Seq(S) /\ Len(r) = n - 1 /\ n \in Nat \ {0}
      /\ \A i \in 1 .. n - 1 : r[i] = s[i + 1]
      /\ Head(s) = s[1]
  BY HeadTailProperties, LenProperties, EmptySeq
<1>2. DOMAIN r = 1 .. n - 1 /\ DOMAIN s = 1 .. n
  BY <1>1, LenProperties
<1>3. /\ 1 \in 1 .. n /\ \A i \in 1 .. n - 1 : i + 1 \in 1 .. n
      /\ \A i \in 1 .. n : i = 1 \/ (i - 1 \in 1 .. n - 1 /\ (i - 1) + 1 = i)
  BY <1>1
<1> HIDE DEF r, n
<1>4. \A x \in Range(r) : x \in Range(s)
  BY <1>1, <1>2, <1>3 DEF Range
<1>5. \A x \in Range(s) : x \in Range(r) \cup {s[1]}
  <2> SUFFICES ASSUME NEW i \in 1 .. n, i # 1 PROVE s[i] \in Range(r)
    BY <1>2 DEF Range
  <2>1. i - 1 \in 1 .. n - 1 /\ r[i - 1] = s[i]
    BY <1>1, <1>3
  <2> QED BY <1>2, <2>1 DEF Range
<1>6. s[1] \in Range(s)
  BY <1>2, <1>3 DEF Range
<1> QED BY <1>1, <1>4, <1>5, <1>6 DEF r
=============================================================================
