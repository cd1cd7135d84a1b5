--------------------------- MODULE ProfilesProofs ---------------------------
(***************************************************************************)
(* Proofs about the profile and subscription stores and their pages, for   *)
(* any subscriptions, and any number of profiles and of downloads at a     *)
(* time.                                                                   *)
(***************************************************************************)
EXTENDS Profiles, SequenceLemmas, FiniteSetTheorems

Profile == [id : Nat \ {0}, owner : Subs \cup {NoSub}]

Distinct(ps) == \A i, j \in 1 .. Len(ps) : ps[i].id = ps[j].id => i = j

\* A list of profiles, in a store or on a page.
Lists == {ps \in Seq(Profile) : Distinct(ps)}

-----------------------------------------------------------------------------
(* The operations on lists.                                                *)

\* Ids: as many as profiles.
LEMMA IdsCardinality ==
  ASSUME NEW ps \in Lists
  PROVE  IsFiniteSet(Ids(ps)) /\ Cardinality(Ids(ps)) = Len(ps)
<1> DEFINE f == [i \in 1 .. Len(ps) |-> ps[i].id]
<1>1. Len(ps) \in Nat /\ DOMAIN ps = 1 .. Len(ps)
  BY DEF Lists
<1>2. f \in Bijection(1 .. Len(ps), Ids(ps))
  <2>1. f \in [1 .. Len(ps) -> Ids(ps)]
    BY <1>1 DEF Ids, Range
  <2>2. \A i, j \in 1 .. Len(ps) : f[i] = f[j] => i = j
    BY DEF Lists, Distinct
  <2>3. \A id \in Ids(ps) : \E i \in 1 .. Len(ps) : f[i] = id
    BY <1>1 DEF Ids, Range
  <2> QED BY <2>1, <2>2, <2>3 DEF Bijection, Injection, Surjection, IsInjective
<1>3. /\ IsFiniteSet(1 .. Len(ps))
      /\ Cardinality(1 .. Len(ps)) = Len(ps)
  <2>1. 1 \in Int /\ Len(ps) \in Int
    BY <1>1
  <2>2. /\ IsFiniteSet(1 .. Len(ps))
        /\ Cardinality(1 .. Len(ps)) = IF 1 > Len(ps) THEN 0 ELSE Len(ps) - 1 + 1
    BY <2>1, FS_Interval, Zenon
  <2> QED BY <1>1, <2>2
<1>4. ExistsBijection(1 .. Len(ps), Ids(ps))
  BY <1>2 DEF ExistsBijection
<1> QED BY <1>3, <1>4, FS_Bijection

\* WithId: the one profile with an id of the list.
LEMMA TheOne ==
  ASSUME NEW ps \in Lists, NEW p \in Range(ps)
  PROVE  WithId(ps, p.id) = p /\ p.id \in Ids(ps) /\ p \in Profile
<1>1. \A q \in Range(ps) : q.id = p.id => q = p
  BY DEF Lists, Distinct, Range
<1>2. p \in Profile
  BY DEF Lists, Range
<1> QED BY <1>1, <1>2 DEF WithId, Ids

\* ProfileStore.upsert: the profile takes the place of the one with its id.
LEMMA Upserted ==
  ASSUME NEW ps \in Lists, NEW p \in Profile
  PROVE  /\ upsert(ps, p) \in Lists
         /\ Len(upsert(ps, p)) = IF p.id \in Ids(ps) THEN Len(ps) ELSE Len(ps) + 1
         /\ Range(upsert(ps, p)) = {q \in Range(ps) : q.id # p.id} \cup {p}
         /\ p.id \notin Ids(ps) /\ ps # <<>> => upsert(ps, p)[1] = ps[1]
<1> DEFINE us == upsert(ps, p)
<1>1. /\ ps \in Seq(Profile) /\ Len(ps) \in Nat /\ DOMAIN ps = 1 .. Len(ps)
      /\ \A i, j \in 1 .. Len(ps) : ps[i].id = ps[j].id => i = j
  BY DEF Lists, Distinct
<1>2. CASE p.id \in Ids(ps)
  <2>1. us = [i \in 1 .. Len(ps) |-> IF ps[i].id = p.id THEN p ELSE ps[i]]
    BY <1>1, <1>2 DEF upsert
  <2>2. PICK k \in 1 .. Len(ps) : ps[k].id = p.id
    BY <1>1, <1>2 DEF Ids, Range
  <2> HIDE DEF us
  <2>3. us \in Seq(Profile) /\ Len(us) = Len(ps)
    BY <1>1, <2>1
  <2>4. \A i \in 1 .. Len(ps) : us[i].id = ps[i].id /\ us[i] = IF i = k THEN p ELSE ps[i]
    BY <1>1, <2>1, <2>2
  <2>5. Distinct(us)
    BY <1>1, <2>3, <2>4 DEF Distinct
  <2>6. Range(us) = {q \in Range(ps) : q.id # p.id} \cup {p}
    BY <1>1, <2>1, <2>2 DEF Range
  <2> QED BY <1>2, <2>3, <2>5, <2>6 DEF us, Lists
<1>3. CASE p.id \notin Ids(ps)
  <2>1. us = Append(ps, p)
    BY <1>3 DEF upsert
  <2>2. \A i \in 1 .. Len(ps) : ps[i].id # p.id
    BY <1>1, <1>3 DEF Ids, Range
  <2> HIDE DEF us
  <2>3. /\ us \in Seq(Profile) /\ Len(us) = Len(ps) + 1
        /\ us[Len(ps) + 1] = p /\ \A i \in 1 .. Len(ps) : us[i] = ps[i]
    BY <1>1, <2>1, AppendProperties
  <2>4. Distinct(us)
    BY <1>1, <2>2, <2>3 DEF Distinct
  <2>5. Range(us) = Range(ps) \cup {p}
    BY <1>1, <2>3 DEF Range
  <2>6. Range(ps) = {q \in Range(ps) : q.id # p.id}
    BY <1>1, <2>2 DEF Range
  <2>7. ps # <<>> => us[1] = ps[1]
    BY <1>1, <2>3
  <2> QED BY <1>3, <2>3, <2>4, <2>5, <2>6, <2>7 DEF us, Lists
<1> QED BY <1>2, <1>3

\* Array.filter of a list.
LEMMA Filtered ==
  ASSUME NEW ps \in Lists, NEW X
  PROVE  /\ Without(ps, X) \in Lists
         /\ Len(Without(ps, X)) \in Nat /\ Len(Without(ps, X)) <= Len(ps)
         /\ Range(Without(ps, X)) = Range(ps) \ X
<1>1. ps \in Seq(Profile)
  BY DEF Lists
<1>2. Distinct(Without(ps, X))
  <2> SUFFICES ASSUME NEW i \in 1 .. Len(Without(ps, X)), NEW j \in 1 .. Len(Without(ps, X)),
                      i # j
               PROVE  Without(ps, X)[i].id # Without(ps, X)[j].id
    BY DEF Distinct
  <2>1. PICK k, l \in 1 .. Len(ps) : k # l /\ Without(ps, X)[i] = ps[k] /\ Without(ps, X)[j] = ps[l]
    BY <1>1, WithoutApart
  <2> QED BY <2>1 DEF Lists, Distinct
<1> QED BY <1>1, <1>2, WithoutPicks, WithoutLen, WithoutRange DEF Lists

\* ProfileStore.replaceSubscription, without its selection.
LEMMA Replaced ==
  ASSUME NEW ps \in Lists, NEW s \in Subs, NEW fresh \in Lists, Ids(ps) \cap Ids(fresh) = {}
  PROVE  /\ replaceSubscription(ps, s, fresh) \in Lists
         /\ Range(replaceSubscription(ps, s, fresh)) =
              {p \in Range(ps) : p.owner # s} \cup Range(fresh)
         /\ ps # <<>> /\ ps[1].owner # s =>
              /\ replaceSubscription(ps, s, fresh) # <<>>
              /\ replaceSubscription(ps, s, fresh)[1] = ps[1]
<1> DEFINE kept == Without(ps, OwnedBy(ps, s))
           rs == kept \o fresh
<1>1. /\ ps \in Seq(Profile) /\ Len(ps) \in Nat /\ DOMAIN ps = 1 .. Len(ps)
      /\ fresh \in Seq(Profile) /\ Len(fresh) \in Nat /\ DOMAIN fresh = 1 .. Len(fresh)
      /\ Distinct(fresh)
  BY DEF Lists
<1>2. /\ kept \in Seq(Profile) /\ Distinct(kept) /\ Len(kept) \in Nat
      /\ DOMAIN kept = 1 .. Len(kept)
  BY Filtered DEF Lists
<1>3. Range(kept) = {p \in Range(ps) : p.owner # s}
  <2>1. Range(kept) = Range(ps) \ OwnedBy(ps, s)
    BY Filtered
  <2> QED BY <2>1 DEF OwnedBy
<1>4. replaceSubscription(ps, s, fresh) = rs
  BY DEF replaceSubscription
<1>5. ps # <<>> /\ ps[1].owner # s => kept # <<>> /\ kept[1] = ps[1]
  <2> SUFFICES ASSUME ps # <<>>, ps[1].owner # s PROVE kept # <<>> /\ kept[1] = ps[1]
    OBVIOUS
  <2>1. ps[1] \notin OwnedBy(ps, s)
    BY DEF OwnedBy
  <2> QED BY <1>1, <2>1, WithoutFirst
<1> HIDE DEF kept
<1>6. /\ rs \in Seq(Profile) /\ Len(rs) = Len(kept) + Len(fresh)
      /\ \A i \in 1 .. Len(kept) : rs[i] = kept[i]
      /\ \A i \in 1 .. Len(fresh) : rs[Len(kept) + i] = fresh[i]
  BY <1>1, <1>2, ConcatProperties
<1>7. \A i \in 1 .. Len(rs) :
        \/ i \in 1 .. Len(kept)
        \/ \E k \in 1 .. Len(fresh) : i = Len(kept) + k
  <2> SUFFICES ASSUME NEW i \in 1 .. Len(rs), i \notin 1 .. Len(kept)
               PROVE  \E k \in 1 .. Len(fresh) : i = Len(kept) + k
    OBVIOUS
  <2>1. i - Len(kept) \in 1 .. Len(fresh) /\ i = Len(kept) + (i - Len(kept))
    BY <1>1, <1>2, <1>6
  <2> QED BY <2>1
<1>8. DOMAIN rs = 1 .. Len(rs) /\ Len(rs) \in Nat
  BY <1>6, LenProperties
<1> HIDE DEF rs
<1>9. Range(rs) = Range(kept) \cup Range(fresh)
  <2>1. ASSUME NEW p \in Range(rs) PROVE p \in Range(kept) \cup Range(fresh)
    <3>1. PICK i \in 1 .. Len(rs) : p = rs[i]
      BY <1>8 DEF Range
    <3>2. CASE i \in 1 .. Len(kept)
      BY <1>2, <1>6, <3>1, <3>2 DEF Range
    <3>3. ASSUME NEW k \in 1 .. Len(fresh), i = Len(kept) + k PROVE p \in Range(fresh)
      BY <1>1, <1>6, <3>1, <3>3 DEF Range
    <3> QED BY <1>7, <3>2, <3>3
  <2>2. ASSUME NEW p \in Range(kept) PROVE p \in Range(rs)
    BY <1>1, <1>2, <1>6, <1>8 DEF Range
  <2>3. ASSUME NEW p \in Range(fresh) PROVE p \in Range(rs)
    <3>1. PICK k \in 1 .. Len(fresh) : p = fresh[k]
      BY <1>1 DEF Range
    <3>2. Len(kept) + k \in 1 .. Len(rs) /\ rs[Len(kept) + k] = p
      BY <1>1, <1>2, <1>6, <3>1
    <3> QED BY <1>8, <3>2 DEF Range
  <2> QED BY <2>1, <2>2, <2>3
<1>10. ASSUME NEW i \in 1 .. Len(kept), NEW k \in 1 .. Len(fresh)
       PROVE  kept[i].id # fresh[k].id
  <2>1. kept[i] \in Range(ps) /\ fresh[k] \in Range(fresh)
    BY <1>1, <1>2, <1>3 DEF Range
  <2> QED BY <2>1 DEF Ids
<1>11. Distinct(rs)
  <2> SUFFICES ASSUME NEW i \in 1 .. Len(rs), NEW j \in 1 .. Len(rs), rs[i].id = rs[j].id
               PROVE  i = j
    BY DEF Distinct
  <2>1. CASE i \in 1 .. Len(kept) /\ j \in 1 .. Len(kept)
    BY <1>2, <1>6, <2>1 DEF Distinct
  <2>2. ASSUME NEW k \in 1 .. Len(fresh), i = Len(kept) + k,
               NEW l \in 1 .. Len(fresh), j = Len(kept) + l
        PROVE  i = j
    BY <1>1, <1>6, <2>2 DEF Distinct
  <2>3. ASSUME NEW k \in 1 .. Len(fresh), i = Len(kept) + k, j \in 1 .. Len(kept)
        PROVE  FALSE
    BY <1>6, <1>10, <2>3
  <2>4. ASSUME NEW k \in 1 .. Len(fresh), j = Len(kept) + k, i \in 1 .. Len(kept)
        PROVE  FALSE
    BY <1>6, <1>10, <2>4
  <2> QED BY <1>7, <2>1, <2>2, <2>3, <2>4
<1>12. kept # <<>> => rs # <<>> /\ rs[1] = kept[1]
  BY <1>1, <1>2, <1>6
<1> QED BY <1>3, <1>4, <1>5, <1>6, <1>9, <1>11, <1>12 DEF Lists

-----------------------------------------------------------------------------
(* ensureId: there is always another id.                                   *)

Unused(U, n) == {m \in 1 .. n : m \notin U}

\* Counting the numbers up to n that are not in a set.
LEMMA CountUnused ==
  ASSUME NEW U, NEW n \in Nat
  PROVE  /\ IsFiniteSet(Unused(U, n)) /\ Cardinality(Unused(U, n)) \in Nat
         /\ Cardinality(Unused(U, 0)) = 0
         /\ Cardinality(Unused(U, n + 1)) =
              IF n + 1 \in U THEN Cardinality(Unused(U, n)) ELSE Cardinality(Unused(U, n)) + 1
<1>1. IsFiniteSet(1 .. n)
  <2>1. 1 \in Int /\ n \in Int
    OBVIOUS
  <2> QED BY <2>1, FS_Interval
<1>2. Unused(U, n) \in SUBSET (1 .. n)
  BY DEF Unused
<1>3. IsFiniteSet(Unused(U, n))
  BY <1>1, <1>2, FS_Subset
<1>4. Cardinality(Unused(U, n)) \in Nat
  BY <1>3, FS_CardinalityType
<1>5. Unused(U, 0) = {}
  BY DEF Unused
<1>6. CASE n + 1 \in U
  <2>1. Unused(U, n + 1) = Unused(U, n)
    BY <1>6 DEF Unused
  <2> QED BY <1>3, <1>4, <1>5, <1>6, <2>1, FS_EmptySet
<1>7. CASE n + 1 \notin U
  <2>1. Unused(U, n + 1) = Unused(U, n) \cup {n + 1}
    BY <1>7 DEF Unused
  <2>2. n + 1 \notin Unused(U, n)
    BY DEF Unused
  <2>3. Cardinality(Unused(U, n + 1)) = Cardinality(Unused(U, n)) + 1
    BY <1>3, <2>1, <2>2, FS_AddElement
  <2> QED BY <1>3, <1>4, <1>5, <1>7, <2>3, FS_EmptySet
<1> QED BY <1>6, <1>7

\* There is a k-th number not in a finite set, and not far.
LEMMA NthUnused ==
  ASSUME NEW U, IsFiniteSet(U), NEW b \in Nat, NEW k \in Nat \ {0}, Cardinality(U) + k <= b
  PROVE  \E n \in 1 .. b : n \notin U /\ Cardinality(Unused(U, n)) = k
<1> DEFINE c(n) == Cardinality(Unused(U, n))
           N == {n \in Nat : c(n) >= k => \E m \in 1 .. n : m \notin U /\ c(m) = k}
<1>1. 0 \in N
  BY CountUnused
<1>2. ASSUME NEW n \in N PROVE n + 1 \in N
  <2> SUFFICES ASSUME c(n + 1) >= k
               PROVE  \E m \in 1 .. n + 1 : m \notin U /\ c(m) = k
    OBVIOUS
  <2>1. /\ c(n) \in Nat
        /\ c(n + 1) = IF n + 1 \in U THEN c(n) ELSE c(n) + 1
    BY CountUnused
  <2>2. CASE c(n) >= k
    BY <2>2
  <2>3. CASE ~(c(n) >= k)
    <3>1. n + 1 \notin U /\ c(n + 1) = k
      BY <2>1, <2>3
    <3> QED BY <3>1
  <2> QED BY <2>2, <2>3
<1>3. N = Nat
  <2>1. N \in SUBSET Nat
    OBVIOUS
  <2> HIDE DEF N
  <2> QED BY <1>1, <1>2, <2>1, Induction
<1>4. c(b) >= k
  <2>1. IsFiniteSet(1 .. b) /\ Cardinality(1 .. b) = b
    <3>1. 1 \in Int /\ b \in Int
      OBVIOUS
    <3>2. IsFiniteSet(1 .. b) /\ Cardinality(1 .. b) = IF 1 > b THEN 0 ELSE b - 1 + 1
      BY <3>1, FS_Interval, Zenon
    <3> QED BY <3>2
  <2>2. Unused(U, b) = (1 .. b) \ U
    BY DEF Unused
  <2>3. c(b) = b - Cardinality((1 .. b) \cap U)
    BY <2>1, <2>2, FS_Difference
  <2>4. Cardinality((1 .. b) \cap U) <= Cardinality(U)
    BY FS_Intersection
  <2>5. Cardinality((1 .. b) \cap U) \in Nat /\ Cardinality(U) \in Nat
    BY FS_Intersection, FS_CardinalityType
  <2> HIDE DEF c
  <2> QED BY <2>3, <2>4, <2>5
<1>5. b \in N
  BY <1>3
<1> QED BY <1>4, <1>5

\* FreshId: for as many profiles as a download may bring, and one more, an id
\* that nothing in the app refers to, different ones for different profiles.
LEMMA FreshIds ==
  ASSUME profiles \in Lists, Len(profiles) <= MaxProfiles,
         shown \in Lists, Len(shown) <= MaxProfiles
  PROVE  /\ \A k \in 1 .. MaxFetched + 1 : FreshId(k) \in Nat \ {0} /\ FreshId(k) \notin InUse
         /\ \A k, l \in 1 .. MaxFetched + 1 : FreshId(k) = FreshId(l) => k = l
<1> DEFINE b == 2 * MaxProfiles + 5 + MaxFetched
           pages == {currentId, shownId, editId, edited.id}
<1>1. MaxProfiles \in Nat /\ MaxFetched \in Nat /\ b \in Nat
  BY BoundsAssumption
<1>2. IsFiniteSet(InUse) /\ Cardinality(InUse) <= 2 * MaxProfiles + 4
  <2>1. IsFiniteSet(pages) /\ Cardinality(pages) <= 4
    <3> DEFINE f == [i \in 1 .. 4 |-> IF i = 1 THEN currentId ELSE IF i = 2 THEN shownId
                                       ELSE IF i = 3 THEN editId ELSE edited.id]
    <3>1. f \in Surjection(1 .. 4, pages)
      <4>1. f \in [1 .. 4 -> pages]
        OBVIOUS
      <4>2. f[1] = currentId /\ f[2] = shownId /\ f[3] = editId /\ f[4] = edited.id
        OBVIOUS
      <4>3. 1 \in 1 .. 4 /\ 2 \in 1 .. 4 /\ 3 \in 1 .. 4 /\ 4 \in 1 .. 4
        OBVIOUS
      <4> HIDE DEF f
      <4>4. \A t \in pages : \E i \in 1 .. 4 : f[i] = t
        BY <4>2, <4>3
      <4> QED BY <4>1, <4>4 DEF Surjection
    <3>2. IsFiniteSet(1 .. 4) /\ Cardinality(1 .. 4) = 4
      <4>1. 1 \in Int /\ 4 \in Int
        OBVIOUS
      <4>2. IsFiniteSet(1 .. 4) /\ Cardinality(1 .. 4) = IF 1 > 4 THEN 0 ELSE 4 - 1 + 1
        BY <4>1, FS_Interval, Zenon
      <4> QED BY <4>2
    <3> QED BY <3>1, <3>2, FS_Surjection
  <2>2. IsFiniteSet(Ids(profiles)) /\ Cardinality(Ids(profiles)) <= MaxProfiles
    BY IdsCardinality
  <2>3. IsFiniteSet(Ids(shown)) /\ Cardinality(Ids(shown)) <= MaxProfiles
    BY IdsCardinality
  <2> DEFINE lists == Ids(profiles) \cup Ids(shown)
  <2>4. IsFiniteSet(lists) /\ Cardinality(lists) <= 2 * MaxProfiles
    <3>1. /\ IsFiniteSet(lists)
          /\ Cardinality(lists) = Cardinality(Ids(profiles)) + Cardinality(Ids(shown))
                                   - Cardinality(Ids(profiles) \cap Ids(shown))
      BY <2>2, <2>3, FS_Union
    <3>2. /\ Cardinality(Ids(profiles)) \in Nat /\ Cardinality(Ids(shown)) \in Nat
          /\ Cardinality(Ids(profiles) \cap Ids(shown)) \in Nat
      BY <2>2, <2>3, FS_CardinalityType, FS_Intersection
    <3> QED BY <1>1, <2>2, <2>3, <3>1, <3>2
  <2>5. InUse = lists \cup pages
    BY DEF InUse
  <2> HIDE DEF lists, pages
  <2>6. /\ IsFiniteSet(InUse)
        /\ Cardinality(InUse) = Cardinality(lists) + Cardinality(pages)
                                - Cardinality(lists \cap pages)
    BY <2>1, <2>4, <2>5, FS_Union
  <2>7. /\ Cardinality(lists) \in Nat /\ Cardinality(pages) \in Nat
        /\ Cardinality(lists \cap pages) \in Nat
    BY <2>1, <2>4, FS_CardinalityType, FS_Intersection
  <2> QED BY <1>1, <2>1, <2>4, <2>6, <2>7
<1>3. ASSUME NEW k \in 1 .. MaxFetched + 1
      PROVE  /\ FreshId(k) \in 1 .. b /\ FreshId(k) \notin InUse
             /\ Cardinality(Unused(InUse, FreshId(k))) = k
  <2>1. Cardinality(InUse) \in Nat
    BY <1>2, FS_CardinalityType
  <2>2. k \in Nat \ {0} /\ Cardinality(InUse) + k <= b
    BY <1>1, <1>2, <2>1
  <2>3. \E n \in 1 .. b : n \notin InUse /\ Cardinality(Unused(InUse, n)) = k
    BY <1>1, <1>2, <2>2, NthUnused
  <2> QED BY <2>3 DEF FreshId, Unused
<1> QED BY <1>1, <1>3

\* Fetched profiles get ids of their own and their subscription for an owner.
LEMMA FreshProfiles ==
  ASSUME profiles \in Lists, Len(profiles) <= MaxProfiles,
         shown \in Lists, Len(shown) <= MaxProfiles,
         NEW s \in Subs, NEW n \in 0 .. MaxFetched
  PROVE  /\ Fresh(s, n) \in Lists /\ Ids(Fresh(s, n)) \cap InUse = {}
         /\ \A p \in Range(Fresh(s, n)) : p.owner = s
<1> DEFINE f == Fresh(s, n)
<1>1. f = [k \in 1 .. n |-> [id |-> FreshId(k), owner |-> s]]
  BY DEF Fresh
<1>2. MaxFetched \in Nat /\ 1 .. n \subseteq 1 .. MaxFetched + 1
  BY BoundsAssumption
<1>3. \A k \in 1 .. n : FreshId(k) \in Nat \ {0} /\ FreshId(k) \notin InUse
  BY <1>2, FreshIds
<1>4. \A k, l \in 1 .. n : FreshId(k) = FreshId(l) => k = l
  BY <1>2, FreshIds
<1> HIDE DEF f
<1>5. \A k \in 1 .. n : f[k] \in Profile /\ f[k].id = FreshId(k) /\ f[k].owner = s
  BY <1>1, <1>3 DEF Profile
<1>6. f \in Seq(Profile) /\ Len(f) = n /\ DOMAIN f = 1 .. n
  BY <1>1, <1>2, <1>5
<1>7. Distinct(f)
  BY <1>4, <1>5, <1>6 DEF Distinct
<1>8. \A p \in Range(f) : p.owner = s /\ p.id \notin InUse
  BY <1>3, <1>5, <1>6 DEF Range
<1>9. Ids(f) \cap InUse = {}
  BY <1>8 DEF Ids
<1> QED BY <1>6, <1>7, <1>8, <1>9 DEF Lists, f

-----------------------------------------------------------------------------
(* The invariant.                                                          *)

Listing == {ss \in Seq(Subs) : \A i, j \in 1 .. Len(ss) : ss[i] = ss[j] => i = j}

Download == [sub : Subs, here : BOOLEAN]

Typed ==
  /\ profiles \in Lists /\ Len(profiles) <= MaxProfiles
  /\ shown \in Lists /\ Len(shown) <= MaxProfiles
  /\ subs \in Listing /\ listed \in Seq(Subs)
  /\ removed \in SUBSET Subs /\ raced \in SUBSET Subs
  /\ currentId \in Nat /\ shownId \in Nat /\ editId \in Nat
  /\ edited \in [id : Nat, owner : Subs \cup {NoSub}]
  /\ page \in {"index", "edit", "subs"} /\ unsaved \in BOOLEAN
  /\ updatingId \in Subs \cup {NoSub}
  /\ fetches \in Seq(Download) /\ Len(fetches) <= MaxFetches

\* Only the page the user sees has anything in progress.
Pages == /\ page # "edit" => editId = 0 /\ edited = NoProfile
         /\ page # "subs" => updatingId = NoSub

\* The page waits for one download at most.
Waiting == /\ \A i \in DOMAIN fetches : fetches[i].here => fetches[i].sub = updatingId
           /\ updatingId # NoSub => \E i \in DOMAIN fetches : fetches[i].here
           /\ \A i, j \in DOMAIN fetches : fetches[i].here /\ fetches[j].here => i = j

\* Whatever names a subscription names one that is listed, or whose removal raced.
Known == Range(subs) \cup raced

Owners == /\ \A p \in Range(profiles) : p.owner \in Known \cup {NoSub}
          /\ edited.owner \in Known \cup {NoSub}
          /\ \A i \in DOMAIN fetches : fetches[i].sub \in Known
          /\ Range(listed) \subseteq Range(subs)

\* A removed subscription is not one of them.
Gone == removed \cap Known = {}

\* The form has the owner of the profile it edits, if that is still there.
Editing == \A p \in Range(profiles) : p.id = editId => p.owner = edited.owner

\* What Index shows first, or has selected, is so in the store, if it is there.
Showing == page = "index" =>
  /\ ~unsaved => shownId = currentId /\ (currentId \in Ids(profiles) => currentId \in Ids(shown))
  /\ shown # <<>> /\ shown[1] \in Range(profiles) => profiles[1] = shown[1]

Inv == Typed /\ Pages /\ Waiting /\ Owners /\ Gone /\ Editing /\ Showing

-----------------------------------------------------------------------------
(* Every step keeps it.                                                    *)

\* The invariant holds at first.
LEMMA InitInv == Init => Inv
<1> SUFFICES ASSUME Init PROVE Inv
  OBVIOUS
<1>1. <<>> \in Lists /\ <<>> \in Listing /\ Range(<<>>) = {} /\ Len(<<>>) = 0
  BY DEF Lists, Listing, Distinct, Range
<1>2. NoProfile \in [id : Nat, owner : Subs \cup {NoSub}] /\ NoProfile.owner = NoSub
  BY DEF NoProfile
<1>3. Typed
  <2>1. <<>> \in Seq(Subs) /\ <<>> \in Seq(Download)
    OBVIOUS
  <2>2. 0 <= MaxProfiles /\ 0 <= MaxFetches
    BY BoundsAssumption
  <2> QED BY <1>1, <1>2, <2>1, <2>2 DEF Init, Typed
<1>4. Pages /\ Waiting
  BY DEF Init, Pages, Waiting
<1>5. Owners /\ Gone /\ Editing
  BY <1>1, <1>2 DEF Init, Owners, Gone, Editing, Known
<1>6. Showing
  BY <1>1 DEF Init, Showing, Ids
<1> QED BY <1>3, <1>4, <1>5, <1>6 DEF Inv

\* Index.reload: what Index shows is what the stores have.
LEMMA Reloaded ==
  ASSUME reload, profiles' \in Lists, Len(profiles') <= MaxProfiles, currentId' \in Nat
  PROVE  /\ shown' \in Lists /\ Len(shown') <= MaxProfiles
         /\ shownId' \in Nat /\ unsaved' \in BOOLEAN
         /\ Showing'
BY DEF reload, Showing

\* Selecting a profile keeps it.
LEMMA SelectStep ==
  ASSUME Inv, NEW p \in Range(shown), selectProfile(p)
  PROVE  Inv'
<1>1. p.id \in Nat /\ p.id \in Ids(shown)
  BY TheOne DEF Inv, Typed, Profile
<1>2. Typed'
  BY <1>1 DEF Inv, Typed, selectProfile, edit, subspage, history
<1>3. Pages' /\ Waiting'
  BY DEF Inv, Pages, Waiting, selectProfile, edit, subspage, history
<1>4. Owners' /\ Gone' /\ Editing'
  BY DEF Inv, Owners, Gone, Editing, Known, selectProfile, edit, subspage, history
<1>5. Showing'
  BY <1>1 DEF Inv, Showing, selectProfile
<1> QED BY <1>2, <1>3, <1>4, <1>5 DEF Inv

\* Removing a profile keeps it.
LEMMA RemoveStep ==
  ASSUME Inv, NEW p \in Range(shown), removeProfile(p)
  PROVE  Inv'
<1> DEFINE ps == remove(profiles, p.id)
<1>1. /\ ps \in Lists /\ Len(ps) \in Nat /\ Len(ps) <= MaxProfiles
      /\ Range(ps) \subseteq Range(profiles)
  BY Filtered, BoundsAssumption DEF Inv, Typed, Lists, remove
<1>2. ps # <<>> => ps[1].id \in Nat
  <2>1. ps \in Seq(Profile)
    BY <1>1 DEF Lists
  <2> HIDE DEF ps
  <2>2. ps # <<>> => ps[1] \in Profile
    BY <2>1
  <2> QED BY <2>2 DEF Profile
<1>3. profiles' \in {profiles, ps} /\ currentId' \in Nat
  BY <1>2 DEF removeProfile, Neither, First, Both, Inv, Typed
<1> HIDE DEF ps
<1>4. /\ profiles' \in Lists /\ Len(profiles') <= MaxProfiles
      /\ Range(profiles') \subseteq Range(profiles)
  BY <1>1, <1>3 DEF Inv, Typed
<1>5. reload /\ UNCHANGED <<subs, page, edit, subspage, fetches, history>>
  BY DEF removeProfile
<1>6. Typed' /\ Showing'
  BY <1>3, <1>4, <1>5, Reloaded DEF Inv, Typed, edit, subspage, history
<1>7. Pages' /\ Waiting'
  BY <1>5 DEF Inv, Pages, Waiting, edit, subspage, history
<1>8. Owners' /\ Gone' /\ Editing'
  BY <1>4, <1>5 DEF Inv, Owners, Gone, Editing, Known, edit, subspage, history
<1> QED BY <1>6, <1>7, <1>8 DEF Inv

\* Importing a profile keeps it.
LEMMA ImportStep ==
  ASSUME Inv, importFromUrl
  PROVE  Inv'
<1> DEFINE new == [id |-> FreshId(1), owner |-> NoSub]
           ps == upsert(profiles, new)
<1>1. FreshId(1) \in Nat \ {0} /\ FreshId(1) \notin InUse
  <2>1. 1 \in 1 .. MaxFetched + 1
    BY BoundsAssumption
  <2> QED BY <2>1, FreshIds DEF Inv, Typed
<1>2. new \in Profile /\ new.id = FreshId(1) /\ new.owner = NoSub
  BY <1>1 DEF Profile
<1>3. /\ new.id \notin Ids(profiles) /\ new.id \notin Ids(shown)
      /\ new.id # currentId /\ new.id # editId
  BY <1>1, <1>2 DEF InUse
<1> HIDE DEF new
<1>4. /\ ps \in Lists /\ Len(ps) = Len(profiles) + 1
      /\ Range(ps) = Range(profiles) \cup {new}
      /\ profiles # <<>> => ps[1] = profiles[1]
  <2>1. {q \in Range(profiles) : q.id # new.id} = Range(profiles)
    BY <1>3 DEF Ids
  <2> QED BY <1>2, <1>3, <2>1, Upserted DEF Inv, Typed
<1>5. Len(ps) <= MaxProfiles
  BY <1>4, BoundsAssumption DEF importFromUrl, Inv, Typed, Lists
<1>6. /\ profiles' \in {profiles, ps} /\ currentId' \in Nat
      /\ reload \/ (currentId' = currentId /\ UNCHANGED index)
  BY <1>1 DEF importFromUrl, Neither, First, Both, Inv, Typed, new
<1>7. UNCHANGED <<subs, page, edit, subspage, fetches, history>>
  BY DEF importFromUrl
<1> HIDE DEF ps
<1>8. /\ profiles' \in Lists /\ Len(profiles') <= MaxProfiles
      /\ Range(profiles') \subseteq Range(profiles) \cup {new}
  BY <1>4, <1>5, <1>6 DEF Inv, Typed
<1>9. Typed'
  <2>1. shown' \in Lists /\ Len(shown') <= MaxProfiles /\ shownId' \in Nat /\ unsaved' \in BOOLEAN
    BY <1>6, <1>8, Reloaded DEF Inv, Typed, index
  <2> QED BY <1>6, <1>7, <1>8, <2>1 DEF Inv, Typed, edit, subspage, history
<1>10. Pages' /\ Waiting'
  BY <1>7 DEF Inv, Pages, Waiting, edit, subspage, history
<1>11. Owners' /\ Gone' /\ Editing'
  BY <1>2, <1>3, <1>7, <1>8 DEF Inv, Owners, Gone, Editing, Known, edit, subspage, history
<1>12. Showing'
  <2>1. CASE reload
    BY <1>6, <1>8, <2>1, Reloaded
  <2>2. CASE currentId' = currentId /\ UNCHANGED index /\ profiles' = profiles
    BY <1>7, <2>2 DEF Inv, Showing, index
  <2>3. CASE currentId' = currentId /\ UNCHANGED index /\ profiles' = ps
    <3>1. currentId \in Ids(ps) => currentId \in Ids(profiles)
      BY <1>3, <1>4 DEF Ids
    <3>2. shown # <<>> /\ shown[1] \in Range(ps) => shown[1] \in Range(profiles)
      <4>1. shown # <<>> => shown[1] \in Range(shown)
        BY DEF Inv, Typed, Lists, Range
      <4> QED BY <1>3, <1>4, <4>1 DEF Ids
    <3>3. \A q \in Range(profiles) : profiles # <<>>
      BY DEF Range
    <3> QED BY <1>4, <1>7, <2>3, <3>1, <3>2, <3>3 DEF Inv, Showing, index
  <2> QED BY <1>6, <2>1, <2>2, <2>3
<1> QED BY <1>9, <1>10, <1>11, <1>12 DEF Inv

\* Another page covers Index, which shows nothing then.
LEMMA Covered ==
  ASSUME Cover, page' # "index"
  PROVE  /\ shown' \in Lists /\ Len(shown') <= MaxProfiles
         /\ shownId' \in Nat /\ unsaved' \in BOOLEAN
         /\ Showing'
<1>1. <<>> \in Lists /\ Len(<<>>) <= MaxProfiles
  BY BoundsAssumption DEF Lists, Distinct
<1> QED BY <1>1 DEF Cover, Showing

\* Opening the editor keeps it.
LEMMA OpenEditStep ==
  ASSUME Inv, NEW id \in {0} \cup Ids(shown), OpenEdit(id)
  PROVE  Inv'
<1>1. id \in Nat
  BY TheOne DEF Ids, Inv, Typed, Profile
<1>2. /\ edited' \in [id : Nat, owner : Subs \cup {NoSub}]
      /\ edited'.owner \in Known \cup {NoSub}
      /\ \A q \in Range(profiles) : q.id = id => q.owner = edited'.owner
  <2>1. CASE id \in Ids(profiles)
    <3>1. PICK p \in Range(profiles) : p.id = id
      BY <2>1 DEF Ids
    <3>2. edited' = p /\ p \in Profile
      BY <2>1, <3>1, TheOne DEF OpenEdit, Inv, Typed
    <3>3. \A q \in Range(profiles) : q.id = id => q = p
      BY <3>1, TheOne DEF Inv, Typed
    <3>4. p.owner \in Known \cup {NoSub}
      BY DEF Inv, Owners
    <3> QED BY <3>2, <3>3, <3>4 DEF Profile
  <2>2. CASE id \notin Ids(profiles)
    <3>1. edited' = NoProfile
      BY <2>2 DEF OpenEdit
    <3> QED BY <2>2, <3>1 DEF NoProfile, Ids
  <2> QED BY <2>1, <2>2
<1>3. /\ Cover /\ page' = "edit" /\ editId' = id
      /\ UNCHANGED <<profiles, currentId, subs, listed, updatingId, fetches, removed, raced>>
  BY DEF OpenEdit, store, subspage, history
<1>4. Typed' /\ Showing'
  BY <1>1, <1>2, <1>3, Covered DEF Inv, Typed
<1>5. Pages' /\ Waiting'
  BY <1>3 DEF Inv, Pages, Waiting, OpenEdit
<1>6. Owners' /\ Gone' /\ Editing'
  BY <1>2, <1>3 DEF Inv, Owners, Gone, Editing, Known
<1> QED BY <1>4, <1>5, <1>6 DEF Inv

\* ProfileEdit.save: the form's profile has an id, and an owner that is known.
LEMMA EditedProfile ==
  ASSUME Inv
  PROVE  /\ Edited \in Profile /\ Edited.owner = edited.owner
         /\ editId # 0 => Edited.id = editId
         /\ editId = 0 => Edited.id \notin InUse
<1>1. FreshId(1) \in Nat \ {0} /\ FreshId(1) \notin InUse
  <2>1. 1 \in 1 .. MaxFetched + 1
    BY BoundsAssumption
  <2> QED BY <2>1, FreshIds DEF Inv, Typed
<1> QED BY <1>1 DEF Inv, Typed, Edited, Profile

\* Saving a profile keeps it.
LEMMA SaveStep ==
  ASSUME Inv, save
  PROVE  Inv'
<1> DEFINE new == Edited
           ps == upsert(profiles, new)
<1>1. /\ new \in Profile /\ new.owner \in Known \cup {NoSub}
      /\ new.owner = edited.owner /\ new.id \in Nat
  BY EditedProfile DEF Profile, Inv, Owners
<1>2. /\ ps \in Lists
      /\ Len(ps) = IF new.id \in Ids(profiles) THEN Len(profiles) ELSE Len(profiles) + 1
      /\ Range(ps) \subseteq Range(profiles) \cup {new}
  BY <1>1, Upserted DEF Inv, Typed
<1>3. Len(ps) <= MaxProfiles
  <2>1. new.id \in Ids(profiles) \/ Len(profiles) < MaxProfiles
    BY DEF save
  <2> QED BY <1>2, <2>1, BoundsAssumption DEF Inv, Typed, Lists
<1>4. /\ profiles' \in {profiles, ps} /\ currentId' \in Nat
      /\ \/ CloseEdit /\ reload
         \/ currentId' = currentId /\ UNCHANGED <<page, edit, index>>
  BY <1>1 DEF save, Neither, First, Both, Inv, Typed
<1>5. page = "edit" /\ UNCHANGED <<subs, subspage, fetches, history>>
  BY DEF save
<1> HIDE DEF new, ps
<1>6. /\ profiles' \in Lists /\ Len(profiles') <= MaxProfiles
      /\ Range(profiles') \subseteq Range(profiles) \cup {new}
  BY <1>2, <1>3, <1>4 DEF Inv, Typed
<1>7. NoProfile \in [id : Nat, owner : Subs \cup {NoSub}] /\ NoProfile.owner = NoSub
  BY DEF NoProfile
<1>8. CASE CloseEdit /\ reload
  <2>1. page' = "index" /\ editId' = 0 /\ edited' = NoProfile
    BY <1>8 DEF CloseEdit
  <2>2. Typed' /\ Showing'
    BY <1>4, <1>5, <1>6, <1>7, <1>8, <2>1, Reloaded DEF Inv, Typed, subspage, history
  <2>3. Pages' /\ Waiting'
    BY <1>5, <2>1 DEF Inv, Pages, Waiting, subspage
  <2>4. Owners' /\ Gone'
    BY <1>1, <1>5, <1>6, <1>7, <2>1 DEF Inv, Owners, Gone, Known, subspage, history
  <2>5. Editing'
    <3>1. \A p \in Range(profiles') : p.id # 0
      BY <1>6, TheOne DEF Profile
    <3> QED BY <2>1, <3>1 DEF Editing
  <2> QED BY <2>2, <2>3, <2>4, <2>5 DEF Inv
<1>9. CASE currentId' = currentId /\ UNCHANGED <<page, edit, index>>
  <2>1. Typed'
    BY <1>5, <1>6, <1>9 DEF Inv, Typed, subspage, history, edit, index
  <2>2. Pages' /\ Waiting' /\ Showing'
    BY <1>5, <1>9 DEF Inv, Pages, Waiting, Showing, subspage, edit
  <2>3. Owners' /\ Gone' /\ Editing'
    BY <1>1, <1>5, <1>6, <1>9 DEF Inv, Owners, Gone, Editing, Known, subspage, history, edit
  <2> QED BY <2>1, <2>2, <2>3 DEF Inv
<1> QED BY <1>4, <1>8, <1>9

\* The page is left: its form and its waiting go with it.
LEMMA BackStep ==
  ASSUME Inv, BackFromEdit \/ BackFromSubs \/ Restart
  PROVE  Inv'
<1>1. /\ page' = "index" /\ reload
      /\ editId' = 0 /\ edited' = NoProfile /\ updatingId' = NoSub
      /\ listed' \in {listed, <<>>}
      /\ UNCHANGED <<profiles, currentId, subs, removed, raced>>
  BY DEF BackFromEdit, BackFromSubs, Restart, CloseEdit, Inv, Pages, store, subspage, edit, history
<1>2. /\ fetches' \in Seq(Download) /\ Len(fetches') <= MaxFetches
      /\ \A i \in DOMAIN fetches' : ~fetches'[i].here /\ \E j \in DOMAIN fetches :
                                       fetches'[i].sub = fetches[j].sub
  <2>1. CASE BackFromEdit
    <3>1. updatingId = NoSub /\ fetches' = fetches
      BY <2>1 DEF BackFromEdit, Inv, Pages
    <3>2. \A i \in DOMAIN fetches : fetches[i] \in Download
      BY DEF Inv, Typed
    <3>3. \A i \in DOMAIN fetches : ~fetches[i].here
      BY <3>1, <3>2, NoSubAssumption DEF Inv, Waiting, Download
    <3> QED BY <3>1, <3>3 DEF Inv, Typed
  <2>2. CASE BackFromSubs
    <3>1. fetches' = [i \in 1 .. Len(fetches) |-> [fetches[i] EXCEPT !.here = FALSE]]
      BY <2>2 DEF BackFromSubs, Inv, Typed
    <3>2. \A i \in 1 .. Len(fetches) : fetches[i] \in Download
      BY DEF Inv, Typed
    <3>3. \A i \in 1 .. Len(fetches) :
            /\ fetches'[i] \in Download
            /\ fetches'[i].here = FALSE /\ fetches'[i].sub = fetches[i].sub
      BY <3>1, <3>2 DEF Download
    <3>4. fetches' \in Seq(Download) /\ Len(fetches') = Len(fetches)
      BY <3>1, <3>3 DEF Inv, Typed
    <3> QED BY <3>3, <3>4 DEF Inv, Typed
  <2>3. CASE Restart
    <3>1. fetches' = <<>>
      BY <2>3 DEF Restart
    <3> QED BY <3>1, BoundsAssumption
  <2> QED BY <2>1, <2>2, <2>3
<1>3. NoProfile \in [id : Nat, owner : Subs \cup {NoSub}] /\ NoProfile.owner = NoSub
  BY DEF NoProfile
<1>4. listed' \in Seq(Subs) /\ Range(listed') \subseteq Range(subs)
  <2>1. <<>> \in Seq(Subs) /\ Range(<<>>) = {}
    BY DEF Range
  <2> QED BY <1>1, <2>1 DEF Inv, Typed, Owners
<1>5. Typed' /\ Showing'
  BY <1>1, <1>2, <1>3, <1>4, Reloaded DEF Inv, Typed
<1>6. Pages' /\ Waiting'
  BY <1>1, <1>2 DEF Pages, Waiting
<1>7. Owners' /\ Gone'
  BY <1>1, <1>2, <1>3, <1>4 DEF Inv, Owners, Gone, Known
<1>8. Editing'
  <2>1. \A p \in Range(profiles) : p.id # 0
    BY TheOne DEF Profile, Inv, Typed
  <2> QED BY <1>1, <2>1 DEF Editing
<1> QED BY <1>5, <1>6, <1>7, <1>8 DEF Inv

\* Opening the page of subscriptions keeps it.
LEMMA OpenSubsStep ==
  ASSUME Inv, OpenSubs
  PROVE  Inv'
<1>1. /\ page = "index" /\ page' = "subs" /\ Cover /\ listed' = subs
      /\ updatingId' = NoSub /\ updatingId = NoSub
      /\ UNCHANGED <<profiles, currentId, subs, editId, edited, fetches, removed, raced>>
  BY DEF OpenSubs, store, edit, history, Inv, Pages
<1>2. Typed' /\ Showing'
  BY <1>1, Covered DEF Inv, Typed, Listing
<1>3. Pages' /\ Waiting'
  BY <1>1 DEF Inv, Pages, Waiting
<1>4. Owners' /\ Gone' /\ Editing'
  BY <1>1 DEF Inv, Owners, Gone, Editing, Known
<1> QED BY <1>2, <1>3, <1>4 DEF Inv

\* Subscription.update, up to the download: the page starts one if it waits for
\* none, and waits for it.
LEMMA Updates ==
  ASSUME Typed, Waiting, NEW s \in Subs, Update(s)
  PROVE  /\ updatingId' \in Subs \cup {NoSub} /\ fetches' \in Seq(Download)
         /\ Len(fetches') <= MaxFetches /\ Waiting'
         /\ \A i \in DOMAIN fetches' : \/ fetches'[i].sub = s
                                       \/ \E j \in DOMAIN fetches : fetches'[i].sub = fetches[j].sub
<1>1. /\ fetches \in Seq(Download) /\ Len(fetches) \in Nat /\ Len(fetches) <= MaxFetches
      /\ DOMAIN fetches = 1 .. Len(fetches) /\ MaxFetches \in Nat
      /\ \A i \in 1 .. Len(fetches) : fetches[i] \in Download
  BY BoundsAssumption DEF Typed
<1>2. CASE updatingId # NoSub
  <2>1. UNCHANGED <<updatingId, fetches>>
    BY <1>2 DEF Update
  <2> QED BY <1>1, <2>1 DEF Typed, Waiting
<1>3. CASE updatingId = NoSub
  <2> DEFINE new == [sub |-> s, here |-> TRUE]
             n == Len(fetches) + 1
  <2>1. updatingId' = s /\ fetches' = Append(fetches, new) /\ Len(fetches) < MaxFetches
    BY <1>3 DEF Update
  <2>2. new \in Download /\ new.sub = s /\ new.here
    BY DEF Download
  <2> HIDE DEF new
  <2>3. /\ fetches' \in Seq(Download) /\ Len(fetches') = n /\ fetches'[n] = new
        /\ DOMAIN fetches' = 1 .. n
        /\ \A i \in 1 .. Len(fetches) : fetches'[i] = fetches[i]
    BY <1>1, <2>1, <2>2, AppendProperties
  <2>4. \A i \in 1 .. Len(fetches) : ~fetches[i].here
    BY <1>1, <1>3, NoSubAssumption DEF Waiting, Download
  <2>5. \A i \in 1 .. n : i = n \/ (i \in 1 .. Len(fetches) /\ ~fetches'[i].here)
    BY <1>1, <2>3, <2>4
  <2>6. n \in 1 .. n
    BY <1>1
  <2>7. Waiting'
    BY <2>1, <2>2, <2>3, <2>5, <2>6 DEF Waiting
  <2>8. \A i \in 1 .. n : \/ fetches'[i].sub = s
                          \/ \E j \in 1 .. Len(fetches) : fetches'[i].sub = fetches[j].sub
    BY <2>2, <2>3, <2>5
  <2> QED BY <1>1, <2>1, <2>3, <2>7, <2>8
<1> QED BY <1>2, <1>3

\* Adding a subscription keeps it.
LEMMA AddStep ==
  ASSUME Inv, NEW s \in Subs, addSubscription(s)
  PROVE  Inv'
<1>1. /\ page = "subs" /\ s \notin Range(subs) /\ s \notin removed
      /\ subs' = Append(subs, s) /\ listed' = subs' /\ Update(s)
      /\ UNCHANGED <<profiles, currentId, page, index, edit, history>>
  BY DEF addSubscription
<1>2. /\ subs \in Seq(Subs) /\ Len(subs) \in Nat /\ DOMAIN subs = 1 .. Len(subs)
      /\ \A i, j \in 1 .. Len(subs) : subs[i] = subs[j] => i = j
  BY DEF Inv, Typed, Listing
<1>3. /\ subs' \in Seq(Subs) /\ Len(subs') = Len(subs) + 1 /\ DOMAIN subs' = 1 .. Len(subs')
      /\ subs'[Len(subs) + 1] = s /\ \A i \in 1 .. Len(subs) : subs'[i] = subs[i]
  BY <1>1, <1>2, AppendProperties
<1>4. subs' \in Listing
  <2>1. \A i \in 1 .. Len(subs) : subs[i] # s
    BY <1>1, <1>2 DEF Range
  <2>2. \A i \in 1 .. Len(subs') : i = Len(subs) + 1 \/ i \in 1 .. Len(subs)
    BY <1>2, <1>3
  <2>3. \A i, j \in 1 .. Len(subs') : subs'[i] = subs'[j] => i = j
    BY <1>2, <1>3, <2>1, <2>2
  <2> QED BY <1>3, <2>3 DEF Listing
<1>5. Range(subs') = Range(subs) \cup {s}
  BY <1>2, <1>3 DEF Range
<1>6. /\ updatingId' \in Subs \cup {NoSub} /\ fetches' \in Seq(Download)
      /\ Len(fetches') <= MaxFetches /\ Waiting'
      /\ \A i \in DOMAIN fetches' : \/ fetches'[i].sub = s
                                    \/ \E j \in DOMAIN fetches : fetches'[i].sub = fetches[j].sub
  BY <1>1, Updates DEF Inv
<1>7. Typed'
  BY <1>1, <1>3, <1>4, <1>6 DEF Inv, Typed, index, edit, history
<1>8. Pages' /\ Showing' /\ Editing'
  BY <1>1 DEF Inv, Pages, Showing, Editing, index, edit
<1>9. Known' = Known \cup {s}
  BY <1>1, <1>5 DEF Known, history
<1>10. Owners' /\ Gone'
  BY <1>1, <1>6, <1>9 DEF Inv, Owners, Gone, edit, history
<1> QED BY <1>6, <1>7, <1>8, <1>10 DEF Inv

\* Starting an update keeps it.
LEMMA UpdateStep ==
  ASSUME Inv, NEW s \in Range(listed), update(s)
  PROVE  Inv'
<1>1. s \in Subs /\ s \in Known
  BY DEF Inv, Typed, Owners, Known, Range
<1>2. /\ page = "subs" /\ Update(s)
      /\ UNCHANGED <<profiles, currentId, subs, page, index, edit, listed, history>>
  BY DEF update, store
<1>3. /\ updatingId' \in Subs \cup {NoSub} /\ fetches' \in Seq(Download)
      /\ Len(fetches') <= MaxFetches /\ Waiting'
      /\ \A i \in DOMAIN fetches' : \/ fetches'[i].sub = s
                                    \/ \E j \in DOMAIN fetches : fetches'[i].sub = fetches[j].sub
  BY <1>1, <1>2, Updates DEF Inv
<1>4. Typed'
  BY <1>2, <1>3 DEF Inv, Typed, index, edit, history
<1>5. Pages' /\ Showing' /\ Editing'
  BY <1>2 DEF Inv, Pages, Showing, Editing, index, edit
<1>6. Known' = Known
  BY <1>2 DEF Known, history
<1>7. Owners' /\ Gone'
  BY <1>1, <1>2, <1>3, <1>6 DEF Inv, Owners, Gone, edit, history
<1> QED BY <1>3, <1>4, <1>5, <1>7 DEF Inv

-----------------------------------------------------------------------------
(* The removal of a subscription, and the end of a download.               *)

\* ProfileStore.replaceSubscription: the selection is changed only when no profile
\* at all could be current, which is never.
LEMMA SelectionStays ==
  ASSUME NEW ps \in Lists
  PROVE  Reselected(ps) = currentId
<1>1. \A p \in Range(ps) : WithId(ps, p.id) = p /\ p \in Profile
  BY TheOne
<1>2. \A id \in Ids(ps) : WithId(ps, id) # NoProfile
  BY <1>1 DEF Ids, Profile, NoProfile
<1>3. ps # <<>> => ps[1] # NoProfile
  <2>1. ps \in Seq(Profile)
    BY DEF Lists
  <2>2. ps # <<>> => ps[1] \in Profile
    BY <2>1
  <2> QED BY <2>2 DEF Profile, NoProfile
<1>4. ps # <<>> => getCurrent(ps, currentId) # NoProfile
  BY <1>2, <1>3 DEF getCurrent
<1> QED BY <1>4 DEF Reselected

\* SubscriptionStore.remove.
LEMMA UnlistedSubs ==
  ASSUME Inv, NEW s
  PROVE  Unlisted(s) \in Listing /\ Range(Unlisted(s)) = Range(subs) \ {s}
<1>1. /\ subs \in Seq(Subs)
      /\ \A i, j \in 1 .. Len(subs) : subs[i] = subs[j] => i = j
  BY DEF Inv, Typed, Listing
<1> DEFINE w == Without(subs, {s})
<1>2. w \in Seq(Subs) /\ Range(w) = Range(subs) \ {s}
  BY <1>1, WithoutPicks, WithoutRange
<1>3. \A i, j \in 1 .. Len(w) : i # j =>
        \E k, l \in 1 .. Len(subs) : k # l /\ w[i] = subs[k] /\ w[j] = subs[l]
  BY <1>1, WithoutApart
<1> HIDE DEF w
<1>4. \A i, j \in 1 .. Len(w) : w[i] = w[j] => i = j
  BY <1>1, <1>3
<1> QED BY <1>2, <1>4 DEF Unlisted, Listing, w

\* Removing a subscription with its profiles keeps it.
LEMMA RemoveSubscriptionStep ==
  ASSUME Inv, NEW s \in Range(listed), removeSubscription(s)
  PROVE  Inv'
<1> DEFINE ps == replaceSubscription(profiles, s, <<>>)
           fetching == \E i \in DOMAIN fetches : fetches[i].sub = s
<1>1. s \in Subs /\ s \in Range(subs) /\ s \in Known /\ s # NoSub
  <2>1. s \in Subs
    BY DEF Inv, Typed, Range
  <2>2. s \in Range(subs)
    BY DEF Inv, Owners
  <2> QED BY <2>1, <2>2, NoSubAssumption DEF Known
<1>2. /\ ps \in Lists /\ Range(ps) = {p \in Range(profiles) : p.owner # s}
      /\ Len(ps) <= MaxProfiles
  <2>1. <<>> \in Lists /\ Ids(<<>>) = {} /\ Range(<<>>) = {}
    BY DEF Lists, Distinct, Ids, Range
  <2>2. ps \in Lists /\ Range(ps) = {p \in Range(profiles) : p.owner # s}
    BY <1>1, <2>1, Replaced DEF Inv, Typed
  <2>3. ps = Without(profiles, OwnedBy(profiles, s))
    <3>1. Without(profiles, OwnedBy(profiles, s)) \in Seq(Profile)
      BY Filtered DEF Inv, Typed, Lists
    <3> QED BY <3>1 DEF replaceSubscription
  <2>4. Len(ps) <= Len(profiles) /\ Len(ps) \in Nat /\ Len(profiles) \in Nat
    BY <2>3, Filtered DEF Inv, Typed, Lists
  <2> QED BY <2>2, <2>4, BoundsAssumption DEF Inv, Typed
<1>3. Reselected(ps) = currentId
  BY <1>2, SelectionStays
<1>4. Unlisted(s) \in Listing /\ Range(Unlisted(s)) = Range(subs) \ {s}
  BY UnlistedSubs
<1>5. /\ currentId' = currentId /\ profiles' \in {profiles, ps}
      /\ \/ subs' = Unlisted(s) /\ profiles' = ps /\ listed' = subs'
         \/ UNCHANGED <<subs, listed>>
  BY <1>3 DEF removeSubscription, Removal, Both, First, Neither
<1>6. /\ page = "subs" /\ UNCHANGED <<page, index, edit, updatingId, fetches>>
      /\ removed' = IF s \notin Range(subs') /\ ~fetching /\ s \notin raced THEN removed \cup {s}
                    ELSE removed
      /\ raced' = IF s \notin Range(subs') /\ fetching THEN raced \cup {s} ELSE raced
  BY DEF removeSubscription
<1> HIDE DEF ps, fetching
<1>7. /\ profiles' \in Lists /\ Len(profiles') <= MaxProfiles
      /\ Range(profiles') \subseteq Range(profiles)
      /\ subs' \in Listing /\ listed' \in Seq(Subs)
      /\ Range(subs') \subseteq Range(subs) /\ Range(listed') \subseteq Range(subs')
  BY <1>2, <1>4, <1>5 DEF Inv, Typed, Owners, Listing
<1>8. Typed'
  BY <1>1, <1>5, <1>6, <1>7 DEF Inv, Typed, index, edit
<1>9. Pages' /\ Waiting' /\ Showing'
  BY <1>6 DEF Inv, Pages, Waiting, Showing, index, edit
<1>10. Editing'
  BY <1>6, <1>7 DEF Inv, Editing, edit
<1>11. CASE UNCHANGED <<subs, listed>>
  <2>1. UNCHANGED <<removed, raced>>
    BY <1>1, <1>6, <1>11
  <2>2. Owners' /\ Gone'
    BY <1>6, <1>7, <1>11, <2>1 DEF Inv, Owners, Gone, Known, edit
  <2> QED BY <1>8, <1>9, <1>10, <2>2 DEF Inv
<1>12. CASE subs' = Unlisted(s) /\ profiles' = ps /\ listed' = subs'
  <2>1. /\ Range(subs') = Range(subs) \ {s}
        /\ \A p \in Range(profiles') : p \in Range(profiles) /\ p.owner # s
    BY <1>2, <1>4, <1>12
  <2>2. edited' = NoProfile /\ NoProfile.owner = NoSub
    BY <1>6 DEF Inv, Pages, NoProfile, edit
  <2>3. Known \ {s} \subseteq Known' /\ Known' \subseteq Known
    BY <1>1, <1>6, <2>1 DEF Known
  <2>4. \A i \in DOMAIN fetches : fetches[i].sub \in Known'
    <3>1. CASE fetching
      <4>1. s \in Known'
        BY <1>6, <2>1, <3>1 DEF Known
      <4> QED BY <2>3, <4>1 DEF Inv, Owners
    <3>2. CASE ~fetching
      BY <2>3, <3>2 DEF Inv, Owners, fetching
    <3> QED BY <3>1, <3>2
  <2>5. Owners'
    BY <1>6, <1>7, <2>1, <2>2, <2>3, <2>4 DEF Inv, Owners
  <2>6. Gone'
    BY <1>6, <2>1, <2>3 DEF Inv, Gone, Known
  <2> QED BY <1>8, <1>9, <1>10, <2>5, <2>6 DEF Inv
<1> QED BY <1>5, <1>11, <1>12

\* Subscription.update, behind the download: what it may have written.
LEMMA FetchOutcome ==
  ASSUME Inv, NEW i \in DOMAIN fetches, NEW n \in 0 .. MaxFetched, FetchEnds(i, n)
  PROVE  LET s == fetches[i].sub
             fresh == Fresh(s, n)
             ps == replaceSubscription(profiles, s, fresh)
         IN /\ s \in Subs /\ s \in Known /\ fetches[i] \in Download
            /\ fresh \in Lists /\ Ids(fresh) \cap InUse = {} /\ Ids(profiles) \cap Ids(fresh) = {}
            /\ \A p \in Range(fresh) : p.owner = s
            /\ ps \in Lists
            /\ profiles' = profiles \/ (profiles' = ps /\ Len(ps) <= MaxProfiles)
            /\ currentId' = currentId
            /\ subs' = subs \/ subs' = Listed(s)
<1> DEFINE s == fetches[i].sub
           fresh == Fresh(s, n)
           ps == replaceSubscription(profiles, s, fresh)
<1>1. s \in Subs /\ s \in Known /\ fetches[i] \in Download
  <2>1. fetches[i] \in Download
    BY DEF Inv, Typed
  <2> QED BY <2>1 DEF Download, Inv, Owners
<1> HIDE DEF s
<1>2. /\ fresh \in Lists /\ Ids(fresh) \cap InUse = {}
      /\ \A p \in Range(fresh) : p.owner = s
  BY <1>1, FreshProfiles DEF Inv, Typed
<1>3. Ids(profiles) \cap Ids(fresh) = {}
  BY <1>2 DEF InUse
<1> HIDE DEF fresh
<1>4. ps \in Lists
  BY <1>1, <1>2, <1>3, Replaced DEF Inv, Typed
<1>5. Reselected(ps) = currentId
  BY <1>4, SelectionStays
<1>6. IF n > 0 THEN Len(ps) <= MaxProfiles /\ Landing(s, ps) ELSE UNCHANGED store
  BY DEF FetchEnds, s, fresh
<1> HIDE DEF ps
<1>7. /\ profiles' = profiles \/ (profiles' = ps /\ Len(ps) <= MaxProfiles)
      /\ currentId' = currentId
      /\ subs' = subs \/ subs' = Listed(s)
  BY <1>5, <1>6 DEF Landing, Both, First, Neither, store
<1> QED BY <1>1, <1>2, <1>3, <1>4, <1>7 DEF s, fresh, ps

\* The finally block: the page no longer waits for a download that is over.
LEMMA FetchWaiting ==
  ASSUME Inv, NEW i \in DOMAIN fetches, NEW n \in 0 .. MaxFetched, FetchEnds(i, n)
  PROVE  /\ fetches' \in Seq(Download) /\ Len(fetches') <= MaxFetches
         /\ updatingId' \in {NoSub, updatingId}
         /\ Waiting'
         /\ \A j \in DOMAIN fetches' : \E k \in DOMAIN fetches : fetches'[j] = fetches[k]
<1>1. /\ fetches \in Seq(Download) /\ Len(fetches) \in Nat /\ DOMAIN fetches = 1 .. Len(fetches)
      /\ Len(fetches) <= MaxFetches /\ MaxFetches \in Nat /\ i \in 1 .. Len(fetches)
      /\ \A j \in 1 .. Len(fetches) : fetches[j] \in Download
  BY BoundsAssumption DEF Inv, Typed
<1>2. fetches' = RemoveAt(fetches, i) /\ updatingId' = IF fetches[i].here THEN NoSub ELSE updatingId
  BY DEF FetchEnds, Finally
<1> DEFINE from(j) == IF j < i THEN j ELSE j + 1
<1>3. /\ fetches' \in Seq(Download) /\ Len(fetches') = Len(fetches) - 1
      /\ \A j \in 1 .. Len(fetches) - 1 : fetches'[j] = IF j < i THEN fetches[j] ELSE fetches[j + 1]
  BY <1>1, <1>2, RemoveAtElements
<1>4. /\ DOMAIN fetches' = 1 .. Len(fetches) - 1
      /\ \A j \in 1 .. Len(fetches) - 1 :
           fetches'[j] = fetches[from(j)] /\ from(j) \in 1 .. Len(fetches) /\ from(j) # i
      /\ \A j, k \in 1 .. Len(fetches) - 1 : from(j) = from(k) => j = k
  BY <1>1, <1>3
<1>5. \A k \in 1 .. Len(fetches) : k # i => \E j \in 1 .. Len(fetches) - 1 : from(j) = k
  <2> SUFFICES ASSUME NEW k \in 1 .. Len(fetches), k # i
               PROVE  \E j \in 1 .. Len(fetches) - 1 : from(j) = k
    OBVIOUS
  <2>1. CASE k < i
    <3>1. k \in 1 .. Len(fetches) - 1 /\ from(k) = k
      BY <1>1, <2>1
    <3> QED BY <3>1
  <2>2. CASE k > i
    <3>1. k - 1 \in 1 .. Len(fetches) - 1 /\ from(k - 1) = k
      BY <1>1, <2>2
    <3> QED BY <3>1
  <2> QED BY <1>1, <2>1, <2>2
<1> HIDE DEF from
<1>6. \A j, k \in 1 .. Len(fetches) : fetches[j].here /\ fetches[k].here => j = k
  BY <1>1 DEF Inv, Waiting
<1>7. Waiting'
  <2>1. CASE fetches[i].here
    <3>1. \A j \in 1 .. Len(fetches) - 1 : ~fetches'[j].here
      BY <1>1, <1>4, <1>6, <2>1
    <3> QED BY <1>2, <1>4, <2>1, <3>1 DEF Waiting
  <2>2. CASE ~fetches[i].here
    <3>1. \A j \in 1 .. Len(fetches) - 1 : fetches'[j].here => fetches'[j].sub = updatingId
      BY <1>1, <1>4 DEF Inv, Waiting
    <3>2. updatingId # NoSub => \E j \in 1 .. Len(fetches) - 1 : fetches'[j].here
      <4> SUFFICES ASSUME updatingId # NoSub PROVE \E j \in 1 .. Len(fetches) - 1 : fetches'[j].here
        OBVIOUS
      <4>1. PICK k \in 1 .. Len(fetches) : fetches[k].here
        BY <1>1 DEF Inv, Waiting
      <4>2. PICK j \in 1 .. Len(fetches) - 1 : from(j) = k
        BY <1>5, <2>2, <4>1
      <4> QED BY <1>4, <4>1, <4>2
    <3>3. \A j, k \in 1 .. Len(fetches) - 1 : fetches'[j].here /\ fetches'[k].here => j = k
      BY <1>4, <1>6
    <3> QED BY <1>2, <1>4, <2>2, <3>1, <3>2, <3>3 DEF Waiting
  <2> QED BY <2>1, <2>2
<1>8. /\ fetches' \in Seq(Download) /\ Len(fetches') <= MaxFetches
      /\ updatingId' \in {NoSub, updatingId}
  BY <1>1, <1>2, <1>3
<1> QED BY <1>1, <1>4, <1>7, <1>8

\* The end of a download keeps it.
LEMMA FetchStep ==
  ASSUME Inv, NEW i \in DOMAIN fetches, NEW n \in 0 .. MaxFetched, FetchEnds(i, n)
  PROVE  Inv'
<1> DEFINE s == fetches[i].sub
           fresh == Fresh(s, n)
           ps == replaceSubscription(profiles, s, fresh)
<1>1. /\ s \in Subs /\ s \in Known /\ fetches[i] \in Download
      /\ fresh \in Lists /\ Ids(fresh) \cap InUse = {} /\ Ids(profiles) \cap Ids(fresh) = {}
      /\ \A p \in Range(fresh) : p.owner = s
      /\ ps \in Lists
      /\ profiles' = profiles \/ (profiles' = ps /\ Len(ps) <= MaxProfiles)
      /\ currentId' = currentId
      /\ subs' = subs \/ subs' = Listed(s)
  BY FetchOutcome
<1>2. UNCHANGED <<page, shown, shownId, unsaved, editId, edited, removed, raced>>
      /\ listed' = IF fetches[i].here THEN subs' ELSE listed
  BY DEF FetchEnds, index, edit, history
<1> HIDE DEF s, fresh
<1>3. /\ Range(ps) = {p \in Range(profiles) : p.owner # s} \cup Range(fresh)
      /\ profiles # <<>> /\ profiles[1].owner # s => ps # <<>> /\ ps[1] = profiles[1]
  BY <1>1, Replaced DEF Inv, Typed
<1> HIDE DEF ps
<1>4. /\ subs' \in Listing /\ Range(subs) \subseteq Range(subs')
      /\ Range(subs') \subseteq Range(subs) \cup {s}
  <2>1. CASE subs' = subs
    BY <2>1 DEF Inv, Typed
  <2>2. CASE subs' # subs
    <3>1. s \notin Range(subs) /\ subs' = Append(subs, s)
      BY <1>1, <2>2 DEF Listed
    <3>2. /\ subs \in Seq(Subs) /\ Len(subs) \in Nat /\ DOMAIN subs = 1 .. Len(subs)
          /\ \A j, k \in 1 .. Len(subs) : subs[j] = subs[k] => j = k
      BY DEF Inv, Typed, Listing
    <3>3. /\ subs' \in Seq(Subs) /\ Len(subs') = Len(subs) + 1 /\ DOMAIN subs' = 1 .. Len(subs')
          /\ subs'[Len(subs) + 1] = s /\ \A j \in 1 .. Len(subs) : subs'[j] = subs[j]
      <4>1. s \in Subs
        BY <1>1
      <4> QED BY <3>1, <3>2, <4>1, AppendProperties
    <3>4. \A j \in 1 .. Len(subs) : subs[j] # s
      BY <3>1, <3>2 DEF Range
    <3>5. \A j \in 1 .. Len(subs') : j = Len(subs) + 1 \/ j \in 1 .. Len(subs)
      BY <3>2, <3>3
    <3>6. \A j, k \in 1 .. Len(subs') : subs'[j] = subs'[k] => j = k
      BY <3>2, <3>3, <3>4, <3>5
    <3>7. Range(subs') = Range(subs) \cup {s}
      BY <3>2, <3>3 DEF Range
    <3> QED BY <3>3, <3>6, <3>7 DEF Listing
  <2> QED BY <2>1, <2>2
<1>5. /\ profiles' \in Lists /\ Len(profiles') <= MaxProfiles
      /\ Range(profiles') \subseteq Range(profiles) \cup Range(fresh)
  BY <1>1, <1>3 DEF Inv, Typed
<1>6. /\ fetches' \in Seq(Download) /\ Len(fetches') <= MaxFetches
      /\ updatingId' \in {NoSub, updatingId}
      /\ Waiting'
      /\ \A j \in DOMAIN fetches' : \E k \in DOMAIN fetches : fetches'[j] = fetches[k]
  BY FetchWaiting
<1>7. Typed'
  <2>1. listed' \in Seq(Subs)
    BY <1>2, <1>4 DEF Inv, Typed, Listing
  <2> QED BY <1>1, <1>2, <1>4, <1>5, <1>6, <2>1 DEF Inv, Typed
<1>8. Pages'
  BY <1>2, <1>6 DEF Inv, Pages
<1>9. Known \subseteq Known' /\ Known' \subseteq Known
  BY <1>1, <1>2, <1>4 DEF Known
<1>10. Owners'
  <2>1. \A p \in Range(profiles') : p.owner \in Known' \cup {NoSub}
    BY <1>1, <1>5, <1>9 DEF Inv, Owners
  <2>2. edited'.owner \in Known' \cup {NoSub} /\ Range(listed') \subseteq Range(subs')
    BY <1>2, <1>4, <1>9 DEF Inv, Owners
  <2>3. \A j \in DOMAIN fetches' : fetches'[j].sub \in Known'
    BY <1>6, <1>9 DEF Inv, Owners
  <2> QED BY <2>1, <2>2, <2>3 DEF Owners
<1>11. Gone'
  BY <1>2, <1>9 DEF Inv, Gone
<1>12. \A p \in Range(fresh) : p.id \notin InUse
  BY <1>1 DEF Ids
<1>13. Editing'
  <2>1. \A p \in Range(fresh) : p.id # editId
    BY <1>12 DEF InUse
  <2> QED BY <1>2, <1>5, <2>1 DEF Inv, Editing
<1>14. Showing'
  <2>1. CASE profiles' = profiles
    BY <1>1, <1>2, <2>1 DEF Inv, Showing
  <2>2. CASE profiles' = ps
    <3>1. currentId \in Ids(ps) => currentId \in Ids(profiles)
      <4>1. \A p \in Range(fresh) : p.id # currentId
        BY <1>12 DEF InUse
      <4> QED BY <1>3, <4>1 DEF Ids
    <3>2. ASSUME shown # <<>>, shown[1] \in Range(ps), page = "index" PROVE ps[1] = shown[1]
      <4>1. shown[1] \in Range(shown)
        BY <3>2 DEF Inv, Typed, Lists, Range
      <4>2. shown[1] \notin Range(fresh)
        BY <1>12, <4>1 DEF InUse, Ids
      <4>3. shown[1] \in Range(profiles) /\ shown[1].owner # s
        BY <1>3, <3>2, <4>2
      <4>4. profiles[1] = shown[1] /\ profiles # <<>>
        BY <3>2, <4>3 DEF Inv, Showing, Range
      <4> QED BY <1>3, <4>3, <4>4
    <3> QED BY <1>1, <1>2, <2>2, <3>1, <3>2 DEF Inv, Showing
  <2> QED BY <1>1, <2>1, <2>2
<1> QED BY <1>6, <1>7, <1>8, <1>10, <1>11, <1>13, <1>14 DEF Inv

\* Every step keeps the invariant.
LEMMA StepInv == Inv /\ [Next]_vars => Inv'
<1> SUFFICES ASSUME Inv, [Next]_vars PROVE Inv'
  OBVIOUS
<1>1. CASE UNCHANGED vars
  BY <1>1 DEF vars, store, index, edit, subspage, history, Inv, Typed, Pages, Waiting, Owners,
              Known, Gone, Editing, Showing
<1>2. CASE Next
  BY <1>2, SelectStep, RemoveStep, ImportStep, OpenEditStep, SaveStep, BackStep, OpenSubsStep,
     AddStep, UpdateStep, RemoveSubscriptionStep, FetchStep DEF Next
<1> QED BY <1>1, <1>2

\* Both stores and the three pages keep the inductive invariant: ids unique in every
\* list, owners known wherever a profile is kept, downloads matched to their page.
THEOREM Invariance == Spec => []Inv
BY InitInv, StepInv, PTL DEF Spec

-----------------------------------------------------------------------------
(* What it gives.                                                          *)

\* Profiles!TypeOK: a list has every id once, a listing every subscription.
THEOREM TypeCorrect == Spec => []TypeOK
<1>1. Inv => TypeOK
  <2> SUFFICES ASSUME Inv PROVE TypeOK
    OBVIOUS
  <2>1. \A ps \in Lists : /\ \A p \in Range(ps) : p.id \in Nat \ {0} /\ p.owner \in Subs \cup {NoSub}
                          /\ Cardinality(Ids(ps)) = Len(ps)
    BY IdsCardinality, TheOne DEF Profile
  <2>2. Range(subs) \in SUBSET Subs /\ Range(listed) \in SUBSET Subs
    BY DEF Inv, Typed, Listing, Range
  <2>3. Cardinality(Range(subs)) = Len(subs)
    <3>1. /\ subs \in [1 .. Len(subs) -> Range(subs)] /\ Len(subs) \in Nat
          /\ \A i, j \in 1 .. Len(subs) : subs[i] = subs[j] => i = j
          /\ \A s \in Range(subs) : \E i \in 1 .. Len(subs) : subs[i] = s
      <4>1. /\ subs \in Seq(Subs) /\ Len(subs) \in Nat /\ DOMAIN subs = 1 .. Len(subs)
            /\ \A i, j \in 1 .. Len(subs) : subs[i] = subs[j] => i = j
        BY DEF Inv, Typed, Listing
      <4>2. subs = [i \in 1 .. Len(subs) |-> subs[i]]
        BY <4>1
      <4> QED BY <4>1, <4>2 DEF Range
    <3>2. subs \in Bijection(1 .. Len(subs), Range(subs))
      BY <3>1 DEF Bijection, Injection, Surjection, IsInjective
    <3>3. ExistsBijection(1 .. Len(subs), Range(subs))
      BY <3>2 DEF ExistsBijection
    <3>4. IsFiniteSet(1 .. Len(subs)) /\ Cardinality(1 .. Len(subs)) = Len(subs)
      <4>1. 1 \in Int /\ Len(subs) \in Int
        BY <3>1
      <4>2. /\ IsFiniteSet(1 .. Len(subs))
            /\ Cardinality(1 .. Len(subs)) = IF 1 > Len(subs) THEN 0 ELSE Len(subs) - 1 + 1
        BY <4>1, FS_Interval, Zenon
      <4> QED BY <3>1, <4>2
    <3> QED BY <3>3, <3>4, FS_Bijection
  <2> QED BY <2>1, <2>2, <2>3 DEF Inv, Typed, TypeOK
<1> QED BY <1>1, Invariance, PTL

\* Profiles!OwnersListed: no profile is left without a listed subscription, unless
\* its subscription was removed during a download of it.
THEOREM NoOrphans == Spec => []OwnersListed
<1>1. Inv => OwnersListed
  BY DEF Inv, Owners, Known, OwnersListed
<1> QED BY <1>1, Invariance, PTL

\* Profiles!RemovalHolds: a subscription that is removed, and its profiles, are gone
\* for good, whatever pages, saves and downloads there are.
THEOREM RemovedForGood == Spec => []RemovalHolds
<1>1. Inv => RemovalHolds
  BY NoSubAssumption DEF Inv, Typed, Owners, Known, Gone, RemovalHolds
<1> QED BY <1>1, Invariance, PTL

\* Profiles!GuardExact: updatingId tells exactly which download the page waits for.
THEOREM GuardIsExact == Spec => []GuardExact
<1>1. Inv => GuardExact
  <2> SUFFICES ASSUME Inv, NEW s \in Subs
               PROVE  updatingId = s <=>
                        \E i \in DOMAIN fetches : fetches[i] = [sub |-> s, here |-> TRUE]
    BY DEF GuardExact
  <2>1. \A i \in DOMAIN fetches : fetches[i] \in Download
    BY DEF Inv, Typed
  <2>2. ASSUME updatingId = s
        PROVE  \E i \in DOMAIN fetches : fetches[i] = [sub |-> s, here |-> TRUE]
    <3>1. PICK i \in DOMAIN fetches : fetches[i].here /\ fetches[i].sub = s
      BY <2>2, NoSubAssumption DEF Inv, Waiting
    <3>2. fetches[i] = [sub |-> s, here |-> TRUE]
      BY <2>1, <3>1 DEF Download
    <3> QED BY <3>2
  <2>3. ASSUME NEW i \in DOMAIN fetches, fetches[i] = [sub |-> s, here |-> TRUE]
        PROVE  updatingId = s
    <3>1. fetches[i].here /\ fetches[i].sub = s
      BY <2>3
    <3> QED BY <3>1 DEF Inv, Waiting
  <2> QED BY <2>2, <2>3
<1> QED BY <1>1, Invariance, PTL

\* Profiles!StartsWhatIsShown: the profile the main page shows is the one that the
\* extension starts.
THEOREM StartsShown == Spec => []StartsWhatIsShown
<1>1. Inv => StartsWhatIsShown
  <2> SUFFICES ASSUME Inv, page = "index", ~unsaved, currentProfile \in Range(profiles)
               PROVE  getCurrent(profiles, currentId) = currentProfile
    BY DEF StartsWhatIsShown
  <2>1. /\ shownId = currentId /\ (currentId \in Ids(profiles) => currentId \in Ids(shown))
        /\ shown # <<>> /\ shown[1] \in Range(profiles) => profiles[1] = shown[1]
    BY DEF Inv, Showing
  <2>2. profiles # <<>>
    BY DEF Range
  <2>3. /\ currentProfile \in Profile
        /\ WithId(profiles, currentProfile.id) = currentProfile
        /\ currentProfile.id \in Ids(profiles)
    BY TheOne DEF Inv, Typed
  <2>4. CASE currentId \in Ids(shown)
    <3>1. PICK p \in Range(shown) : p.id = currentId
      BY <2>4 DEF Ids
    <3>2. currentProfile = p
      BY <2>1, <2>4, <3>1, TheOne DEF currentProfile, Inv, Typed
    <3> QED BY <2>2, <2>3, <3>1, <3>2 DEF getCurrent
  <2>5. CASE currentId \notin Ids(shown)
    <3>1. currentProfile = shown[1] /\ shown # <<>>
      <4>1. currentProfile = IF shown # <<>> THEN shown[1] ELSE NoProfile
        BY <2>1, <2>5 DEF currentProfile
      <4> QED BY <2>3, <4>1 DEF Profile, NoProfile
    <3> QED BY <2>1, <2>2, <2>5, <3>1 DEF getCurrent
  <2> QED BY <2>4, <2>5
<1> QED BY <1>1, Invariance, PTL

-----------------------------------------------------------------------------
(* What a step never does.                                                 *)

OwnersStay == \A p \in Range(profiles), q \in Range(profiles') : p.id = q.id => p.owner = q.owner

\* Nobody's owner changes if what is there now was there before, but for profiles
\* of new ids or of the owner that the id has.
LEMMA OwnersStayWith ==
  ASSUME Inv, NEW new, Range(profiles') \subseteq Range(profiles) \cup new,
         \A p \in Range(profiles), q \in new : p.id = q.id => p.owner = q.owner
  PROVE  OwnersStay
<1>1. \A p, q \in Range(profiles) : p.id = q.id => p = q
  BY TheOne DEF Inv, Typed
<1> QED BY <1>1 DEF OwnersStay

\* Profiles that were there already have the owners they had.
LEMMA OwnersStayWithin ==
  ASSUME Inv, Range(profiles') \subseteq Range(profiles)
  PROVE  OwnersStay
BY TheOne DEF Inv, Typed, OwnersStay

\* No step gives a profile another owner.
LEMMA StepOwners == Inv /\ [Next]_vars => OwnersStay
<1> SUFFICES ASSUME Inv, [Next]_vars PROVE OwnersStay
  OBVIOUS
<1>1. profiles' = profiles => OwnersStay
  BY OwnersStayWithin
<1>2. CASE UNCHANGED vars
  BY <1>1, <1>2 DEF vars, store
<1>3. ASSUME NEW p \in Range(shown), removeProfile(p) PROVE OwnersStay
  <2>1. Range(remove(profiles, p.id)) \subseteq Range(profiles)
    BY Filtered DEF Inv, Typed, remove
  <2>2. profiles' \in {profiles, remove(profiles, p.id)}
    BY <1>3 DEF removeProfile, Neither, First, Both
  <2> QED BY <2>1, <2>2, OwnersStayWithin
<1>4. CASE importFromUrl
  <2> DEFINE new == [id |-> FreshId(1), owner |-> NoSub]
  <2>1. FreshId(1) \in Nat \ {0} /\ FreshId(1) \notin InUse
    <3>1. 1 \in 1 .. MaxFetched + 1
      BY BoundsAssumption
    <3> QED BY <3>1, FreshIds DEF Inv, Typed
  <2>2. new \in Profile /\ new.id \notin Ids(profiles)
    BY <2>1 DEF Profile, InUse
  <2>3. profiles' \in {profiles, upsert(profiles, new)}
    BY <1>4 DEF importFromUrl, Neither, First, Both
  <2> HIDE DEF new
  <2>4. Range(upsert(profiles, new)) \subseteq Range(profiles) \cup {new}
    BY <2>2, Upserted DEF Inv, Typed
  <2>5. \A p \in Range(profiles), q \in {new} : p.id = q.id => p.owner = q.owner
    BY <2>2 DEF Ids
  <2>6. Range(profiles') \subseteq Range(profiles) \cup {new}
    BY <2>3, <2>4
  <2> QED BY <2>5, <2>6, OwnersStayWith
<1>5. CASE save
  <2>1. /\ Edited \in Profile /\ Edited.owner = edited.owner
        /\ editId # 0 => Edited.id = editId
        /\ editId = 0 => Edited.id \notin InUse
    BY EditedProfile
  <2>2. profiles' \in {profiles, upsert(profiles, Edited)}
    BY <1>5 DEF save, Neither, First, Both
  <2>3. Range(upsert(profiles, Edited)) \subseteq Range(profiles) \cup {Edited}
    BY <2>1, Upserted DEF Inv, Typed
  <2>4. \A p \in Range(profiles), q \in {Edited} : p.id = q.id => p.owner = q.owner
    BY <2>1 DEF Inv, Editing, InUse, Ids
  <2> QED BY <2>2, <2>3, <2>4, OwnersStayWith
<1>6. ASSUME NEW s \in Range(listed), removeSubscription(s) PROVE OwnersStay
  <2>1. <<>> \in Lists /\ Ids(<<>>) = {} /\ Range(<<>>) = {}
    BY DEF Lists, Distinct, Ids, Range
  <2>2. s \in Subs
    BY DEF Inv, Typed, Range
  <2>3. Range(replaceSubscription(profiles, s, <<>>)) \subseteq Range(profiles)
    BY <2>1, <2>2, Replaced DEF Inv, Typed
  <2>4. profiles' \in {profiles, replaceSubscription(profiles, s, <<>>)}
    BY <1>6 DEF removeSubscription, Removal, Neither, First, Both
  <2> QED BY <2>3, <2>4, OwnersStayWithin
<1>7. ASSUME NEW i \in DOMAIN fetches, NEW n \in 0 .. MaxFetched, FetchEnds(i, n)
      PROVE  OwnersStay
  <2> DEFINE s == fetches[i].sub
             fresh == Fresh(s, n)
             ps == replaceSubscription(profiles, s, fresh)
  <2>1. /\ s \in Subs /\ fresh \in Lists /\ Ids(profiles) \cap Ids(fresh) = {}
        /\ profiles' \in {profiles, ps}
    BY <1>7, FetchOutcome
  <2>2. Range(ps) \subseteq Range(profiles) \cup Range(fresh)
    BY <2>1, Replaced DEF Inv, Typed
  <2> HIDE DEF fresh, ps
  <2>3. \A p \in Range(profiles), q \in Range(fresh) : p.id # q.id
    BY <2>1 DEF Ids
  <2> QED BY <2>1, <2>2, <2>3, OwnersStayWith
<1>8. ASSUME NEW p \in Range(shown), selectProfile(p) PROVE OwnersStay
  BY <1>1, <1>8 DEF selectProfile
<1>9. ASSUME NEW id \in {0} \cup Ids(shown), OpenEdit(id) PROVE OwnersStay
  BY <1>1, <1>9 DEF OpenEdit, store
<1>10. CASE BackFromEdit \/ OpenSubs \/ BackFromSubs \/ Restart
  BY <1>1, <1>10 DEF BackFromEdit, OpenSubs, BackFromSubs, Restart, store
<1>11. ASSUME NEW s \in Subs, addSubscription(s) PROVE OwnersStay
  BY <1>1, <1>11 DEF addSubscription
<1>12. ASSUME NEW s \in Range(listed), update(s) PROVE OwnersStay
  BY <1>1, <1>12 DEF update, store
<1> QED BY <1>2, <1>3, <1>4, <1>5, <1>6, <1>7, <1>8, <1>9, <1>10, <1>11, <1>12 DEF Next

\* Profiles!OwnersKept: a profile stays with its subscription as long as it is there.
THEOREM OwnersAreKept == Spec => OwnersKept
<1>1. Inv /\ [Next]_vars =>
        [\A p \in Range(profiles), q \in Range(profiles') : p.id = q.id => p.owner = q.owner]_vars
  BY StepOwners DEF OwnersStay
<1> QED BY <1>1, Invariance, PTL DEF Spec, OwnersKept

\* ProfileStore.getCurrent behind replaceSubscription: a current profile of another
\* owner stays the current one.
LEMMA CurrentStays ==
  ASSUME NEW ps \in Lists, NEW s \in Subs, NEW fresh \in Lists, Ids(ps) \cap Ids(fresh) = {},
         NEW id, id \notin Ids(fresh),
         getCurrent(ps, id) # NoProfile, getCurrent(ps, id).owner # s
  PROVE  getCurrent(replaceSubscription(ps, s, fresh), id) = getCurrent(ps, id)
<1> DEFINE rs == replaceSubscription(ps, s, fresh)
<1>1. /\ rs \in Lists
      /\ Range(rs) = {p \in Range(ps) : p.owner # s} \cup Range(fresh)
      /\ ps # <<>> /\ ps[1].owner # s => rs # <<>> /\ rs[1] = ps[1]
  BY Replaced
<1> HIDE DEF rs
<1>2. ps # <<>>
  BY DEF getCurrent
<1>3. CASE id \in Ids(ps)
  <2>1. PICK p \in Range(ps) : p.id = id
    BY <1>3 DEF Ids
  <2>2. getCurrent(ps, id) = p
    BY <1>2, <1>3, <2>1, TheOne DEF getCurrent
  <2>3. p \in Range(rs)
    BY <1>1, <2>2
  <2>4. WithId(rs, id) = p /\ id \in Ids(rs)
    BY <1>1, <2>1, <2>3, TheOne
  <2>5. rs # <<>>
    BY <2>3 DEF Range
  <2> QED BY <2>2, <2>4, <2>5 DEF getCurrent, rs
<1>4. CASE id \notin Ids(ps)
  <2>1. getCurrent(ps, id) = ps[1]
    BY <1>2, <1>4 DEF getCurrent
  <2>2. id \notin Ids(rs)
    BY <1>1, <1>4 DEF Ids
  <2> QED BY <1>1, <1>2, <2>1, <2>2 DEF getCurrent, rs
<1> QED BY <1>3, <1>4

\* Replacing the profiles of one subscription leaves a selected one of another
\* alone.
LEMMA StepOthers ==
  ASSUME Inv, NEW s \in Subs \ {current.owner}, current # NoProfile, Replaces(s)
  PROVE  current' = current
<1> DEFINE after(ps) == getCurrent(ps, currentId)
<1>1. current = after(profiles) /\ current' = getCurrent(profiles', currentId')
  BY DEF current
<1>2. CASE removeSubscription(s)
  <2>1. <<>> \in Lists /\ Ids(<<>>) = {}
    BY DEF Lists, Distinct, Ids, Range
  <2> DEFINE ps == replaceSubscription(profiles, s, <<>>)
  <2>2. ps \in Lists
    BY <2>1, Replaced DEF Inv, Typed
  <2>3. currentId' = currentId /\ profiles' \in {profiles, ps}
    BY <1>2, <2>2, SelectionStays DEF removeSubscription, Removal, Both, First, Neither
  <2>4. after(ps) = after(profiles)
    BY <1>1, <2>1, CurrentStays DEF Inv, Typed
  <2> QED BY <1>1, <2>3, <2>4
<1>3. ASSUME NEW i \in DOMAIN fetches, NEW n \in 0 .. MaxFetched,
             fetches[i].sub = s, FetchEnds(i, n)
      PROVE  current' = current
  <2> DEFINE fresh == Fresh(s, n)
             ps == replaceSubscription(profiles, s, fresh)
  <2>1. /\ fresh \in Lists /\ Ids(fresh) \cap InUse = {} /\ Ids(profiles) \cap Ids(fresh) = {}
        /\ profiles' \in {profiles, ps} /\ currentId' = currentId
    BY <1>3, FetchOutcome
  <2>2. currentId \notin Ids(fresh)
    BY <2>1 DEF InUse
  <2> HIDE DEF fresh
  <2>3. after(ps) = after(profiles)
    BY <1>1, <2>1, <2>2, CurrentStays DEF Inv, Typed
  <2> QED BY <1>1, <2>1, <2>3
<1> QED BY <1>2, <1>3 DEF Replaces

\* Profiles!OthersKept: updating or removing a subscription never changes which
\* profile is current, nor anything in it, unless it is one of the subscription's.
THEOREM OthersAreKept == Spec => OthersKept
<1>1. Inv => [\A s \in Subs \ {current.owner} :
                current # NoProfile /\ Replaces(s) => current' = current]_vars
  BY StepOthers
<1> QED BY <1>1, Invariance, PTL DEF OthersKept
=============================================================================
