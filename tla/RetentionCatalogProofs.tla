----------------------- MODULE RetentionCatalogProofs -----------------------
(*************************************************************************)
(* Retention in every reachable state, for any pools, policy days, group *)
(* limit, scenarios, cycles and restores. This module proves what an     *)
(* archive plan rests on, states the inductive invariant and proves what *)
(* most of it needs: the types, the two locks, the catalog (exports,     *)
(* segments and operations) and the claims of the restores.              *)
(* RetentionLifecycleProofs goes on with the cycles, the files and the   *)
(* recovery, and draws the conclusions.                                  *)
(*************************************************************************)
EXTENDS RetentionLifecycle, FiniteSetTheorems, SequenceTheorems, WellFoundedInduction, TLAPS

(* Archive groups, for any candidates and any group limit. A cycle counts *)
(* its groups from metadata before it archives the first one              *)
(* (CountGroups), and finds them one after the other (NextGroup). Taking  *)
(* the next group away leaves one group less to count, so the two agree   *)
(* to the end. The proof orders the candidates of the first day by their  *)
(* place among them; the group is those whose place is within the limit.  *)

\* A set of numbers has a least one.
LEMMA LeastExists ==
  ASSUME NEW S \in SUBSET Nat, S # {}
  PROVE  \E m \in S : \A n \in S : m <= n
<1> DEFINE R == OpToRel(<, Nat)
<1>1. IsWellFoundedOn(R, Nat)
  BY NatLessThanWellFounded
<1>2. ASSUME NEW m \in Nat, NEW n \in Nat, ~ (<<n, m>> \in R) PROVE m <= n
  BY <1>2 DEF OpToRel
<1> HIDE DEF R
<1>4. S \subseteq Nat
  OBVIOUS
<1>3. PICK m \in S : \A n \in S : ~ (<<n, m>> \in R)
  BY <1>1, <1>4, WFMin
<1>5. ASSUME NEW n \in S PROVE m <= n
  <2>1. ~ (<<n, m>> \in R)
    BY <1>3
  <2>2. m \in Nat /\ n \in Nat
    OBVIOUS
  <2> QED BY <1>2, <2>1, <2>2
<1> QED BY <1>5

\* A finite set of numbers has a greatest one.
LEMMA GreatestExists ==
  ASSUME NEW S \in SUBSET Nat, S # {}, IsFiniteSet(S)
  PROVE  \E m \in S : \A n \in S : n <= m
<1> DEFINE Below(m) == {n \in S : n <= m}
           Rest == {Cardinality(S) - Cardinality(Below(m)) : m \in S}
<1>1. ASSUME NEW m \in S
      PROVE  /\ IsFiniteSet(Below(m)) /\ Cardinality(Below(m)) \in Nat
             /\ Cardinality(S) - Cardinality(Below(m)) \in Nat
  <2>1. Below(m) \in SUBSET S
    OBVIOUS
  <2>2. IsFiniteSet(Below(m)) /\ Cardinality(Below(m)) <= Cardinality(S)
    BY <2>1, FS_Subset
  <2> QED BY <2>2, FS_CardinalityType
<1>2. Rest \in SUBSET Nat /\ Rest # {}
  BY <1>1
<1>3. PICK x \in Rest : \A y \in Rest : x <= y
  BY <1>2, LeastExists
<1>4. PICK m \in S : x = Cardinality(S) - Cardinality(Below(m))
  OBVIOUS
<1>5. ASSUME NEW n \in S, n > m PROVE FALSE
  <2>1. Below(m) \in SUBSET Below(n) /\ n \in Below(n) /\ n \notin Below(m)
    <3>1. m \in Nat /\ n \in Nat /\ \A k \in S : k \in Nat
      OBVIOUS
    <3>2. \A k \in S : k <= m => k <= n
      BY <1>5, <3>1
    <3>3. ~(n <= m) /\ n <= n
      BY <1>5, <3>1
    <3> QED BY <3>2, <3>3
  <2>2. Cardinality(Below(m)) <= Cardinality(Below(n)) /\ Cardinality(Below(m)) # Cardinality(Below(n))
    BY <1>1, <2>1, FS_Subset
  <2>3. Cardinality(S) - Cardinality(Below(n)) \in Rest
    OBVIOUS
  <2>4. Cardinality(S) \in Nat /\ Cardinality(Below(m)) \in Nat /\ Cardinality(Below(n)) \in Nat
    BY <1>1, FS_CardinalityType
  <2> HIDE DEF Below, Rest
  <2> QED BY <1>3, <1>4, <2>2, <2>3, <2>4
<1>6. \A n \in S : n <= m
  BY <1>5
<1> QED BY <1>6

\* Division with remainder.
LEMMA Remainders ==
  ASSUME NEW x \in Nat, NEW g \in Nat \ {0}
  PROVE  /\ x < g => x % g = x
         /\ x >= g => (x - g) % g = x % g
<1> DEFINE R == {r \in Nat : \E q \in Nat : x = g * q + r}
<1>1. \A y, q, r \in Int : 0 <= r /\ r < g /\ y = g * q + r => y % g = r
  OBVIOUS
<1>2. x = g * 0 + x
  OBVIOUS
<1>3. PICK r \in R : \A t \in R : r <= t
  <2>1. x \in R
    BY <1>2
  <2> QED BY <2>1, LeastExists
<1>4. PICK q \in Nat : x = g * q + r
  OBVIOUS
<1>5. r < g
  <2>1. CASE r >= g
    <3>1. r - g \in Nat /\ q + 1 \in Nat
      BY <2>1
    <3>2. x = g * (q + 1) + (r - g)
      BY <1>4
    <3>3. r - g \in R
      BY <3>1, <3>2
    <3> QED BY <1>3, <3>3
  <2> QED BY <2>1
<1>6. x % g = r
  BY <1>1, <1>4, <1>5
<1>7. ASSUME x >= g PROVE (x - g) % g = x % g
  <2>1. q - 1 \in Int /\ x - g = g * (q - 1) + r
    BY <1>4
  <2> QED BY <1>1, <1>5, <1>6, <2>1
<1>8. x < g => x % g = x
  BY <1>1
<1> QED BY <1>7, <1>8

----------------------------------------------------------------------------
\* The candidates of the day of e that come no later than e.
UpTo(e, A) == {f \in A : f <= e /\ export[f].received = export[e].received}

Typed == export \in [Exports -> ExportRecord]

\* The day an export was received, and its own number.
LEMMA Days ==
  ASSUME Pools, Typed, NEW e \in Exports
  PROVE  export[e].received \in Nat /\ e \in Nat
BY DEF Pools, Typed, ExportRecord

\* The places of the candidates of a day number them in order.
LEMMA PlacesAreOrdered ==
  ASSUME Pools, Typed, NEW A \in SUBSET Exports
  PROVE  /\ \A e \in A : /\ IsFiniteSet(UpTo(e, A)) /\ e \in UpTo(e, A)
                         /\ Place(e, A) = Cardinality(UpTo(e, A)) /\ Place(e, A) \in Nat \ {0}
         /\ \A e, f \in A : export[e].received = export[f].received /\ e < f =>
               Place(e, A) < Place(f, A)
<1>1. IsFiniteSet(A)
  BY FS_Subset DEF Pools
<1>2. ASSUME NEW e \in A
      PROVE  /\ IsFiniteSet(UpTo(e, A)) /\ e \in UpTo(e, A)
             /\ Place(e, A) = Cardinality(UpTo(e, A)) /\ Place(e, A) \in Nat \ {0}
  <2>1. UpTo(e, A) \in SUBSET A /\ e \in UpTo(e, A)
    BY Days DEF UpTo
  <2>2. IsFiniteSet(UpTo(e, A))
    BY <1>1, <2>1, FS_Subset
  <2>3. Cardinality(UpTo(e, A)) \in Nat \ {0}
    BY <2>1, <2>2, FS_CardinalityType, FS_EmptySet
  <2> QED BY <2>1, <2>2, <2>3 DEF Place, UpTo
<1>3. ASSUME NEW e \in A, NEW f \in A, export[e].received = export[f].received, e < f
      PROVE  Place(e, A) < Place(f, A)
  <2>1. UpTo(e, A) \in SUBSET UpTo(f, A) /\ f \notin UpTo(e, A) /\ f \in UpTo(f, A)
    <3>1. e \in Nat /\ f \in Nat /\ \A g \in A : g \in Nat
      BY Days
    <3>2. \A g \in A : g <= e => g <= f
      BY <1>3, <3>1
    <3>3. ~(f <= e) /\ f <= f
      BY <1>3, <3>1
    <3> QED BY <1>3, <3>2, <3>3 DEF UpTo
  <2>2. IsFiniteSet(UpTo(f, A)) /\ Place(f, A) = Cardinality(UpTo(f, A)) /\ Place(f, A) \in Nat
        /\ Place(e, A) = Cardinality(UpTo(e, A)) /\ Place(e, A) \in Nat
    BY <1>2
  <2>3. Cardinality(UpTo(e, A)) <= Cardinality(UpTo(f, A))
        /\ Cardinality(UpTo(f, A)) # Cardinality(UpTo(e, A))
    BY <2>1, <2>2, FS_Subset
  <2> QED BY <2>2, <2>3
<1> QED BY <1>2, <1>3

\* The first candidate of the first day.
LEMMA FirstCandidate ==
  ASSUME Pools, Typed, NEW A \in SUBSET Exports, A # {}
  PROVE  \E m \in A :
            /\ \A f \in A : export[m].received <= export[f].received
            /\ \A f \in A : export[f].received = export[m].received => m <= f
            /\ Place(m, A) = 1
<1> DEFINE D == {export[e].received : e \in A}
<1>1. D \in SUBSET Nat /\ D # {}
  BY Days
<1>2. PICK d \in D : \A x \in D : d <= x
  BY <1>1, LeastExists
<1> DEFINE M == {e \in A : export[e].received = d}
<1>3. M \in SUBSET Nat /\ M # {}
  <2>1. PICK e \in A : export[e].received = d
    OBVIOUS
  <2>2. M \subseteq Exports /\ Exports \subseteq Nat
    BY DEF Pools
  <2> QED BY <2>1, <2>2
<1>4. PICK m \in M : \A n \in M : m <= n
  BY <1>3, LeastExists
<1>5. m \in A /\ export[m].received = d
  OBVIOUS
<1>6. UpTo(m, A) = {m}
  <2>1. ASSUME NEW f \in UpTo(m, A) PROVE f = m
    <3>1. f \in M /\ f <= m /\ f \in Nat /\ m \in Nat
      BY <1>5, Days DEF UpTo
    <3> QED BY <1>4, <3>1
  <2> QED BY <1>5, <2>1, PlacesAreOrdered
<1>7. Place(m, A) = 1
  BY <1>5, <1>6, FS_Singleton, PlacesAreOrdered
<1>8. \A f \in A : export[m].received <= export[f].received
  BY <1>2, <1>5
<1>9. \A f \in A : export[f].received = export[m].received => m <= f
  BY <1>4, <1>5
<1> QED BY <1>5, <1>7, <1>8, <1>9

\* A group that leaves candidates of its day behind is full.
LEMMA FullGroup ==
  ASSUME Pools, Typed, NEW A \in SUBSET Exports, NEW e \in A, e \notin NextGroup(A),
         \A f \in A : export[e].received <= export[f].received
  PROVE  /\ IsFiniteSet(NextGroup(A)) /\ Cardinality(NextGroup(A)) = GroupLimit
         /\ \A n \in NextGroup(A) : n \in A /\ n < e /\ export[n].received = export[e].received
         /\ GroupLimit < Place(e, A)
<1> DEFINE N == NextGroup(A)
           d == export[e].received
           L == {f \in A : export[f].received = d /\ GroupLimit < Place(f, A)}
<1>0. GroupLimit \in Nat \ {0}
  BY DEF Pools
<1>1. N = {f \in A : export[f].received = d /\ Place(f, A) <= GroupLimit}
  <2>1. \A f \in A : export[f].received \in Nat
    BY Days
  <2>2. ASSUME NEW f \in A
        PROVE  (\A g \in A : export[f].received <= export[g].received) <=> export[f].received = d
    BY <2>1
  <2> QED BY <2>2 DEF NextGroup
<1>2. e \in L
  BY <1>0, <1>1, PlacesAreOrdered
<1>3. L \in SUBSET Nat /\ N \in SUBSET Nat /\ N \in SUBSET A /\ N \in SUBSET Exports
  <2>1. A \subseteq Nat
    BY DEF Pools
  <2> QED BY <1>1, <2>1
<1>4. IsFiniteSet(N)
  BY <1>3, FS_Subset DEF Pools
<1>5. PICK l \in L : \A f \in L : l <= f
  BY <1>2, <1>3, LeastExists
<1>6. ASSUME NEW f \in L, NEW n \in N PROVE n < f
  <2>1. Place(n, A) < Place(f, A) /\ export[n].received = export[f].received /\ n \in A /\ f \in A
        /\ n \in Nat /\ f \in Nat
    BY <1>0, <1>1, <1>3, PlacesAreOrdered
  <2>2. ~(f < n) /\ f # n
    <3>1. Place(n, A) \in Nat /\ Place(f, A) \in Nat
      BY <2>1, PlacesAreOrdered
    <3>2. f < n => Place(f, A) < Place(n, A)
      BY <2>1, PlacesAreOrdered
    <3>3. f # n
      BY <2>1, <3>1
    <3> QED BY <2>1, <3>1, <3>2, <3>3
  <2> QED BY <2>1, <2>2
<1>7. UpTo(l, A) = N \union {l}
  <2>1. ASSUME NEW f \in UpTo(l, A), f # l PROVE f \in N
    <3>1. f \in A /\ f < l /\ export[f].received = d /\ f \in Nat /\ l \in Nat
      <4>1. f \in A /\ f <= l /\ export[f].received = export[l].received
        BY DEF UpTo
      <4>2. l \in A /\ export[l].received = d
        OBVIOUS
      <4>3. f \in Nat /\ l \in Nat
        BY <4>1, <4>2, Days
      <4> QED BY <2>1, <4>1, <4>2, <4>3
    <3>2. f \notin L
      BY <1>5, <3>1
    <3>3. ~(GroupLimit < Place(f, A)) /\ Place(f, A) \in Nat
      BY <3>1, <3>2, PlacesAreOrdered
    <3>4. Place(f, A) <= GroupLimit
      BY <1>0, <3>3
    <3> QED BY <1>1, <3>1, <3>4
  <2>2. ASSUME NEW f \in N PROVE f \in UpTo(l, A)
    BY <1>1, <1>3, <1>6, <2>2 DEF UpTo
  <2>3. l \in UpTo(l, A)
    BY PlacesAreOrdered
  <2> QED BY <2>1, <2>2, <2>3
<1>8. Cardinality(N) >= GroupLimit
  <2>1. l \notin N /\ l \in A /\ GroupLimit < Place(l, A) /\ Place(l, A) = Cardinality(UpTo(l, A))
        /\ Place(l, A) \in Nat
    BY <1>0, <1>1, PlacesAreOrdered
  <2>2. Cardinality(N \union {l}) = Cardinality(N) + 1 /\ Cardinality(N) \in Nat
    BY <1>4, <2>1, FS_AddElement, FS_CardinalityType
  <2> QED BY <1>0, <1>7, <2>1, <2>2
<1>9. Cardinality(N) <= GroupLimit
  <2>1. CASE N = {}
    BY <1>0, <2>1, FS_EmptySet
  <2>2. CASE N # {}
    <3>1. PICK g \in N : \A f \in N : f <= g
      BY <1>3, <1>4, <2>2, GreatestExists
    <3>2. N \in SUBSET UpTo(g, A)
      BY <1>1, <3>1 DEF UpTo
    <3>3. IsFiniteSet(UpTo(g, A)) /\ Cardinality(UpTo(g, A)) <= GroupLimit
      BY <1>1, PlacesAreOrdered
    <3>4. Cardinality(N) <= Cardinality(UpTo(g, A))
      BY <3>2, <3>3, FS_Subset
    <3>5. Cardinality(UpTo(g, A)) \in Nat /\ Cardinality(N) \in Nat
      BY <1>4, <3>3, FS_CardinalityType
    <3> QED BY <1>0, <3>3, <3>4, <3>5
  <2> QED BY <2>1, <2>2
<1>10. Cardinality(N) = GroupLimit
  BY <1>0, <1>4, <1>8, <1>9, FS_CardinalityType
<1> QED BY <1>1, <1>2, <1>4, <1>6, <1>10

Openers(A) == {e \in A : (Place(e, A) - 1) % GroupLimit = 0}

\* The next group of some candidates is not empty, and taking it away leaves
\* one group less: the groups counted from metadata are the groups found.
THEOREM OneGroupLess ==
  ASSUME Pools, Typed, NEW A \in SUBSET Exports, A # {}
  PROVE  /\ NextGroup(A) # {}
         /\ CountGroups(A) \in Nat \ {0}
         /\ CountGroups(A \ NextGroup(A)) = CountGroups(A) - 1
<1> DEFINE N == NextGroup(A)
           B == A \ N
<1>0. GroupLimit \in Nat \ {0}
  BY DEF Pools
<1>1. PICK m \in A : /\ \A f \in A : export[m].received <= export[f].received
                     /\ \A f \in A : export[f].received = export[m].received => m <= f
                     /\ Place(m, A) = 1
  BY FirstCandidate
<1> DEFINE d == export[m].received
<1>2. N = {f \in A : export[f].received = d /\ Place(f, A) <= GroupLimit}
  <2>1. \A f \in A : export[f].received \in Nat
    BY Days
  <2>2. ASSUME NEW f \in A
        PROVE  (\A g \in A : export[f].received <= export[g].received) <=> export[f].received = d
    BY <1>1, <2>1
  <2> QED BY <2>2 DEF NextGroup
<1>3. m \in N
  BY <1>0, <1>1, <1>2
<1>4. ASSUME NEW e \in B, export[e].received # d
      PROVE  Place(e, B) = Place(e, A)
  <2>1. UpTo(e, B) = UpTo(e, A)
    BY <1>2, <1>4 DEF UpTo
  <2> QED BY <2>1, PlacesAreOrdered
<1>5. ASSUME NEW e \in B, export[e].received = d
      PROVE  Place(e, B) = Place(e, A) - GroupLimit /\ GroupLimit < Place(e, A)
  <2>1. \A f \in A : export[e].received <= export[f].received
    BY <1>1, <1>5
  <2>2. /\ IsFiniteSet(N) /\ Cardinality(N) = GroupLimit /\ GroupLimit < Place(e, A)
        /\ \A n \in N : n \in A /\ n < e /\ export[n].received = export[e].received
    BY <2>1, FullGroup
  <2>3. UpTo(e, B) = UpTo(e, A) \ N
    BY DEF UpTo
  <2>4. N = UpTo(e, A) \cap N
    <3>1. ASSUME NEW n \in N PROVE n \in UpTo(e, A)
      <4>1. n \in A /\ n <= e /\ export[n].received = export[e].received
        <5>1. n \in Nat /\ e \in Nat
          BY <2>2, Days
        <5> QED BY <2>2, <5>1
      <4> QED BY <4>1 DEF UpTo
    <3> QED BY <3>1
  <2>5. IsFiniteSet(UpTo(e, A)) /\ Place(e, A) = Cardinality(UpTo(e, A))
    BY PlacesAreOrdered
  <2>6. Cardinality(UpTo(e, A) \ N) = Cardinality(UpTo(e, A)) - Cardinality(UpTo(e, A) \cap N)
    BY <2>5, FS_Difference
  <2>7. Place(e, B) = Cardinality(UpTo(e, B))
    BY PlacesAreOrdered
  <2> HIDE DEF N, B
  <2> QED BY <2>2, <2>3, <2>4, <2>5, <2>6, <2>7
<1>6. ASSUME NEW e \in B
      PROVE  (Place(e, B) - 1) % GroupLimit = 0 <=> (Place(e, A) - 1) % GroupLimit = 0
  <2>1. CASE export[e].received # d
    BY <1>4, <2>1
  <2>2. CASE export[e].received = d
    <3>1. Place(e, A) \in Nat /\ GroupLimit < Place(e, A) /\ Place(e, B) = Place(e, A) - GroupLimit
      BY <1>5, <2>2, PlacesAreOrdered
    <3>2. Place(e, A) - 1 \in Nat /\ Place(e, A) - 1 >= GroupLimit
      BY <1>0, <3>1
    <3>3. ((Place(e, A) - 1) - GroupLimit) % GroupLimit = (Place(e, A) - 1) % GroupLimit
      BY <1>0, <3>2, Remainders
    <3>4. (Place(e, A) - 1) - GroupLimit = Place(e, B) - 1
      BY <1>0, <3>1
    <3> QED BY <3>3, <3>4
  <2> QED BY <2>1, <2>2
<1>7. ASSUME NEW e \in N PROVE (Place(e, A) - 1) % GroupLimit = 0 <=> e = m
  <2>1. e \in A /\ export[e].received = d /\ Place(e, A) <= GroupLimit /\ Place(e, A) \in Nat \ {0}
    BY <1>2, PlacesAreOrdered
  <2>2. (Place(e, A) - 1) % GroupLimit = Place(e, A) - 1
    <3>1. Place(e, A) - 1 \in Nat /\ Place(e, A) - 1 < GroupLimit
      BY <1>0, <2>1
    <3> QED BY <1>0, <3>1, Remainders
  <2>3. e # m => Place(m, A) < Place(e, A)
    <3>1. e # m => m < e
      <4>1. m <= e /\ m \in Nat /\ e \in Nat
        BY <1>1, <2>1, Days
      <4> QED BY <4>1
    <3> QED BY <2>1, <3>1, PlacesAreOrdered
  <2> QED BY <1>1, <2>1, <2>2, <2>3
<1>8. Openers(B) = Openers(A) \ {m}
  BY <1>3, <1>6, <1>7 DEF Openers
<1>9. m \in Openers(A)
  BY <1>3, <1>7 DEF Openers
<1>10. IsFiniteSet(Openers(A))
  <2>1. Openers(A) \in SUBSET Exports
    BY DEF Openers
  <2> QED BY <2>1, FS_Subset DEF Pools
<1>11. Cardinality(Openers(B)) = Cardinality(Openers(A)) - 1 /\ Cardinality(Openers(A)) \in Nat \ {0}
  BY <1>8, <1>9, <1>10, FS_RemoveElement, FS_CardinalityType, FS_EmptySet, ZenonT(40)
<1> QED BY <1>3, <1>11 DEF CountGroups, Openers

\* Without candidates there is no group.
LEMMA NoGroups == CountGroups({}) = 0
<1>1. {e \in {} : (Place(e, {}) - 1) % GroupLimit = 0} = {}
  OBVIOUS
<1> QED BY <1>1, FS_EmptySet DEF CountGroups

-----------------------------------------------------------------------------
(* The inductive invariant *)

\* What the tables say of each other.
ExportFits(e) ==
    /\ export[e].state = "archived" <=> export[e].home # None
    /\ export[e].home # None => segment[export[e].home].state = "current"
    /\ export[e].owner # None =>
          op[export[e].owner].status = "running" /\ e \in op[export[e].owner].targets
    /\ export[e].state = "archived" => export[e].hold = 0

ExportsFit == \A e \in Exports : ExportFits(e)

SegmentsFit ==
    \A s \in Segments : segment[s].state = "current" => \E e \in Exports : export[e].home = s

\* A segment is claimed as a whole or not at all.
OwnedTogether ==
    \A e, f \in Exports :
        export[e].home = export[f].home /\ export[e].home # None => export[e].owner = export[f].owner

Archives(o) ==
    /\ op[o].phase = "planned"
    /\ \A e \in op[o].targets : export[e].state = "active"

Deletes(o) ==
    /\ op[o].phase \in BeforeCutover \union AfterCutover
    /\ op[o].segment \in Segments
    /\ segment[op[o].segment].state = "current"
    /\ \A e \in Exports : e \in op[o].targets <=> export[e].home = op[o].segment
    /\ \A e \in op[o].targets : export[e].received + DeleteDays <= now

Reinstates(o) ==
    /\ op[o].selected \subseteq op[o].targets
    /\ \/ op[o].phase = "planned" /\ \A e \in op[o].targets : export[e].state = "archived"
       \/ /\ op[o].phase = "content_removed"
          /\ \A e \in op[o].targets :
                export[e].state = IF e \in op[o].selected THEN "active" ELSE "archived"

OperationFits(o) ==
    /\ op[o].targets # {}
    /\ \A e \in op[o].targets : export[e].owner = o
    /\ \/ op[o].kind = "archive" /\ Archives(o)
       \/ op[o].kind = "delete" /\ Deletes(o)
       \/ op[o].kind = "restore" /\ Reinstates(o)

OperationsFit == \A o \in Operations : op[o].status = "running" => OperationFits(o)

CatalogInv == ExportsFit /\ SegmentsFit /\ OwnedTogether /\ OperationsFit

Sleeping == {"idle", "queued"}
Gated == {"resume", "stage", "staged", "withdraw", "remove", "removed", "terminal", "converge"}
Working == {"verify", "drop", "fail", "clean"}
LocksFit ==
    /\ \A c \in Cycles : mu = c <=> cycle[c].pc \notin Sleeping
    /\ \A r \in Restores : mu = r <=> restore[r].pc \in Working
    /\ \A c \in Cycles : gate = c <=> cycle[c].pc \in Gated
    /\ \A r \in Restores : gate = r <=> restore[r].pc = "claim"
    /\ process # "up" =>
          /\ ~closing
          /\ \A c \in Cycles : cycle[c] = NoCycle
          /\ \A r \in Restores : restore[r] = NoRestore

RunningDeletion(o, s, phases) ==
    /\ op[o].status = "running" /\ op[o].kind = "delete"
    /\ op[o].phase \in phases /\ op[o].segment = s

InDeletion == {"stage", "staged", "cutover", "withdraw", "remove", "removed", "terminal", "converge"}
InArchive == {"build", "publish", "fail"}
CycleFits(c) ==
    LET k == cycle[c]
        o == cycle[c].op
        s == cycle[c].segment
    IN
    /\ k.pc # "idle" => k.evaluatedAt <= now
    /\ k.pc \in {"claim", "build", "publish"} => k.groups > 0
    /\ k.pc \in InArchive \union InDeletion <=> o # None
    /\ k.pc \in InArchive =>
          op[o].status = "running" /\ op[o].kind = "archive" /\ op[o].targets = k.group
    /\ k.pc = "publish" =>
          s # None /\ segment[s].state = "unused" /\ segment[s].file = "installed"
    /\ k.pc \in InDeletion => s # None
    /\ k.pc = "stage" => RunningDeletion(o, s, {"staging"}) /\ segment[s].file = "installed"
    /\ k.pc = "staged" => RunningDeletion(o, s, {"staging"})
    /\ k.pc = "cutover" => op[o].status = "cancelled" \/ RunningDeletion(o, s, {"staged"})
    /\ k.pc = "withdraw" => RunningDeletion(o, s, {"staged"})
    /\ k.pc = "remove" => RunningDeletion(o, s, {"delete_committing"})
    /\ k.pc = "removed" => RunningDeletion(o, s, {"delete_committing"}) /\ segment[s].file = "absent"
    /\ k.pc = "terminal" => RunningDeletion(o, s, {"content_removed"}) /\ segment[s].file = "absent"
    /\ k.pc = "converge" /\ op[o].status = "running" => RunningDeletion(o, s, BeforeCutover \union AfterCutover)
    /\ k.pc \in InDeletion /\ op[o].status = "running" => op[o].decided = k.revision

\* The groups a cycle still has to archive are the ones it would count now.
PlanFits(c) ==
    LET k == cycle[c]
        A == Archivable(c)
    IN
    /\ \A e \in k.exports : export[e].state # "absent"
    /\ k.pc \in {"select", "claim"} => CountGroups(A) = k.groups
    /\ k.pc = "claim" => k.group = NextGroup(A)
    /\ k.pc \in {"build", "publish"} =>
          /\ CountGroups(A \union k.group) = k.groups
          /\ k.group = NextGroup(A \union k.group)
          /\ A \intersect k.group = {}

Preparing == {"queued", "verify", "drop", "fail"}
RestoreFits(r) ==
    LET k == restore[r]
        o == restore[r].op
    IN
    /\ k.pc \in Preparing \union {"clean"} <=> o # None
    /\ k.pc \in Preparing =>
          /\ op[o].status = "running" /\ op[o].kind = "restore" /\ op[o].phase = "planned"
          /\ \A s \in k.segments : segment[s].state = "current"
          /\ \A e \in Exports : e \in op[o].targets <=> export[e].home \in k.segments
    /\ k.pc = "clean" =>
          /\ op[o].status = "running" /\ op[o].kind = "restore" /\ op[o].phase = "content_removed"
          /\ \A s \in k.todo : segment[s].state \in {"superseded", "restored"}
    /\ k.pc \notin {"verify", "drop"} => k.pc \in {"fail", "clean"} \/ \A s \in Segments : k.fresh[s] = None
    /\ k.pc \in {"verify", "drop"} =>
          /\ k.todo \subseteq k.segments
          /\ \A s \in Segments : k.fresh[s] # None =>
                /\ s \in k.segments \ k.todo
                /\ segment[k.fresh[s]].state = "unused"
                /\ segment[k.fresh[s]].file = "installed"
                /\ \A t \in Segments : k.fresh[t] = k.fresh[s] => t = s
    /\ k.pc = "verify" =>
          \A s \in k.segments \ k.todo :
             /\ segment[s].metadata = "verifiable"
             /\ k.fresh[s] = None <=> \A e \in Exports : export[e].home = s => e \in op[o].selected

HandsApart ==
    \A q, r \in Restores : restore[q].op = restore[r].op /\ restore[q].op # None => q = r

\* What the files say of the catalog.
FilesFit ==
    \A s \in Segments :
        /\ segment[s].state = "current" =>
              \/ segment[s].file = "installed"
              \/ \E o \in Operations :
                    /\ RunningDeletion(o, s, BeforeCutover \union AfterCutover)
                    /\ segment[s].file = "staged" \/ op[o].phase \in AfterCutover
        /\ segment[s].file = "staged" =>
              \E o \in Operations : RunningDeletion(o, s, BeforeCutover \union AfterCutover)
        /\ segment[s].metadata = "unverifiable" =>
              segment[s].damage = "metadata" \/ segment[s].file = "absent"
        /\ segment[s].state = "unused" => segment[s].metadata = "verifiable"
        /\ \A o \in Operations : RunningDeletion(o, s, {"content_removed"}) => segment[s].file = "absent"

StagesFit ==
    /\ process \in {"restores", "deletions", "files", "cleanup"} => Running("archive") = {}
    /\ process \in {"deletions", "files", "cleanup"} =>
          \A o \in Running("restore") : op[o].phase = "content_removed"
    /\ process \in {"files", "cleanup"} => Running("delete") = {}
    /\ process = "cleanup" => Unreferenced = {}

NoFault == \A i \in DOMAIN scenario.happened : scenario.happened[i] # "fault"
-----------------------------------------------------------------------------
(* The parts of a step *)

\* A cycle whose record is replaced keeps its type, and the others stay.
LEMMA CycleMoves ==
  ASSUME TypeOK, NEW c \in Cycles, NEW k \in CycleRecord, cycle' = [cycle EXCEPT ![c] = k]
  PROVE  /\ cycle' \in [Cycles -> CycleRecord]
         /\ cycle'[c] = k
         /\ \A d \in Cycles : d # c => cycle'[d] = cycle[d]
BY DEF TypeOK

\* The plan and the cohort of a cycle, which few steps change.
SamePlan(c) ==
    /\ cycle'[c].evaluatedAt = cycle[c].evaluatedAt
    /\ cycle'[c].revision = cycle[c].revision
    /\ cycle'[c].exports = cycle[c].exports
    /\ cycle'[c].segments = cycle[c].segments

SameHand(c) ==
    /\ cycle'[c].groups = cycle[c].groups
    /\ cycle'[c].group = cycle[c].group
    /\ cycle'[c].todo = cycle[c].todo
    /\ cycle'[c].op = cycle[c].op
    /\ cycle'[c].segment = cycle[c].segment

\* A cycle that turns to another step keeps its plan and what it holds.
LEMMA CycleTurns ==
  ASSUME TypeOK, NEW c \in Cycles, NEW pc \in CycleSteps, To(c, pc)
  PROVE  /\ cycle' \in [Cycles -> CycleRecord]
         /\ cycle'[c].pc = pc /\ SamePlan(c) /\ SameHand(c)
         /\ \A d \in Cycles : d # c => cycle'[d] = cycle[d]
<1>1. [cycle[c] EXCEPT !.pc = pc] \in CycleRecord
  BY DEF TypeOK, CycleRecord
<1>2. cycle' = [cycle EXCEPT ![c] = [cycle[c] EXCEPT !.pc = pc]]
  BY DEF To
<1>3. cycle'[c] = [cycle[c] EXCEPT !.pc = pc]
  BY <1>1, <1>2, CycleMoves
<1>4. cycle'[c].pc = pc /\ SamePlan(c) /\ SameHand(c)
  BY <1>3 DEF TypeOK, CycleRecord, SamePlan, SameHand
<1> QED BY <1>1, <1>2, <1>4, CycleMoves

\* The records of nobody at work are of their types.
LEMMA NothingIsTyped ==
  NoCycle \in CycleRecord /\ NoRestore \in RestoreRecord /\ NoOperation \in OperationRecord
BY DEF NoCycle, CycleRecord, NoRestore, RestoreRecord, NoOperation, OperationRecord, CycleSteps,
   RestoreSteps, Statuses, Phases, None

\* A cycle that ends forgets everything and gives back both locks.
LEMMA CycleEnds ==
  ASSUME TypeOK, NEW c \in Cycles, EndCycle(c)
  PROVE  /\ cycle' \in [Cycles -> CycleRecord]
         /\ cycle'[c] = NoCycle
         /\ \A d \in Cycles : d # c => cycle'[d] = cycle[d]
         /\ mu' = Nobody
         /\ gate' = (IF gate = c THEN Nobody ELSE gate)
BY CycleMoves, NothingIsTyped DEF EndCycle

\* A restore whose record is replaced keeps its type, and the others stay.
LEMMA RestoreMoves ==
  ASSUME TypeOK, NEW r \in Restores, NEW k \in RestoreRecord, restore' = [restore EXCEPT ![r] = k]
  PROVE  /\ restore' \in [Restores -> RestoreRecord]
         /\ restore'[r] = k
         /\ \A q \in Restores : q # r => restore'[q] = restore[q]
BY DEF TypeOK

SameClaim(r) ==
    /\ restore'[r].scope = restore[r].scope
    /\ restore'[r].op = restore[r].op
    /\ restore'[r].segments = restore[r].segments

\* A restore that turns to another step keeps what it has claimed.
LEMMA RestoreTurns ==
  ASSUME TypeOK, NEW r \in Restores, NEW pc \in RestoreSteps, RestoreTo(r, pc)
  PROVE  /\ restore' \in [Restores -> RestoreRecord]
         /\ restore'[r].pc = pc /\ SameClaim(r)
         /\ restore'[r].todo = restore[r].todo /\ restore'[r].fresh = restore[r].fresh
         /\ \A q \in Restores : q # r => restore'[q] = restore[q]
<1>1. [restore[r] EXCEPT !.pc = pc] \in RestoreRecord
  BY DEF TypeOK, RestoreRecord
<1>2. restore' = [restore EXCEPT ![r] = [restore[r] EXCEPT !.pc = pc]]
  BY DEF RestoreTo
<1>3. restore'[r] = [restore[r] EXCEPT !.pc = pc]
  BY <1>1, <1>2, RestoreMoves
<1>4. /\ restore'[r].pc = pc /\ SameClaim(r)
      /\ restore'[r].todo = restore[r].todo /\ restore'[r].fresh = restore[r].fresh
  BY <1>3 DEF TypeOK, RestoreRecord, SameClaim
<1> QED BY <1>1, <1>2, <1>4, RestoreMoves

\* The fields of an export that a step leaves alone.
SameBut(e, owner) ==
    /\ export'[e].state = export[e].state
    /\ export'[e].received = export[e].received
    /\ export'[e].hold = export[e].hold
    /\ export'[e].home = export[e].home
    /\ export'[e].owner = owner

\* Exports given up by ended operations change their owner only.
LEMMA ReleasedIsTyped ==
  ASSUME TypeOK, NEW ops, export' = Released(ops)
  PROVE  /\ export' \in [Exports -> ExportRecord]
         /\ \A e \in Exports : SameBut(e, IF export[e].owner \in ops THEN None ELSE export[e].owner)
BY ZenonT(40) DEF TypeOK, ExportRecord, Released, SameBut

\* Exports given to an operation change their owner only.
LEMMA GivenIsTyped ==
  ASSUME TypeOK, NEW T, NEW o \in Operations,
         export' = [e \in Exports |-> IF e \in T THEN [export[e] EXCEPT !.owner = o] ELSE export[e]]
  PROVE  /\ export' \in [Exports -> ExportRecord]
         /\ \A e \in Exports : SameBut(e, IF e \in T THEN o ELSE export[e].owner)
BY ZenonT(40) DEF TypeOK, ExportRecord, SameBut

\* Closing operations sets their status and leaves the other rows alone.
LEMMA ClosedIsTyped ==
  ASSUME TypeOK, NEW ops, NEW status \in Statuses, op' = Closed(ops, status)
  PROVE  /\ op' \in [Operations -> OperationRecord]
         /\ \A o \in Operations :
               IF o \in ops THEN op'[o].status = status ELSE op'[o] = op[o]
<1>1. [NoOperation EXCEPT !.status = status] \in OperationRecord
  BY DEF NoOperation, OperationRecord, Statuses, Phases, None
<1>2. [NoOperation EXCEPT !.status = status].status = status
  BY DEF NoOperation
<1> QED BY <1>1, <1>2 DEF TypeOK, Closed

\* A new operation row replaces a fresh one and leaves the others alone.
LEMMA OpenedIsTyped ==
  ASSUME TypeOK, NEW o \in Operations, NEW k \in OperationRecord, op' = [op EXCEPT ![o] = k]
  PROVE  /\ op' \in [Operations -> OperationRecord]
         /\ op'[o] = k
         /\ \A p \in Operations : p # o => op'[p] = op[p]
BY DEF TypeOK

\* The phase of an operation changes by itself.
LEMMA PhaseIsTyped ==
  ASSUME TypeOK, NEW o \in Operations, NEW phase \in Phases, op' = [op EXCEPT ![o].phase = phase]
  PROVE  /\ op' \in [Operations -> OperationRecord]
         /\ op'[o] = [op[o] EXCEPT !.phase = phase]
         /\ \A p \in Operations : p # o => op'[p] = op[p]
<1>1. [op[o] EXCEPT !.phase = phase] \in OperationRecord
  BY DEF TypeOK, OperationRecord
<1>2. op' = [op EXCEPT ![o] = [op[o] EXCEPT !.phase = phase]]
  OBVIOUS
<1> QED BY <1>1, <1>2, OpenedIsTyped

\* A segment of which at most the file and its damage change.
SameRow(s) ==
    /\ segment'[s].state = segment[s].state
    /\ segment'[s].payload = segment[s].payload
    /\ segment'[s].metadata = segment[s].metadata

\* Moving a file changes where it is and no row of the catalog.
LEMMA MovedIsTyped ==
  ASSUME TypeOK, NEW s \in Segments, NEW place \in Places, segment' = MoveFile(s, place)
  PROVE  /\ segment' \in [Segments -> SegmentRecord]
         /\ segment'[s].file = place /\ segment'[s].damage = segment[s].damage
         /\ SameRow(s)
         /\ \A t \in Segments : t # s => segment'[t] = segment[t]
BY DEF TypeOK, SegmentRecord, MoveFile, SameRow

\* Erasing files takes them from the disk and from no row of the catalog.
LEMMA ErasedIsTyped ==
  ASSUME TypeOK, NEW S, segment' = Erased(S)
  PROVE  /\ segment' \in [Segments -> SegmentRecord]
         /\ \A s \in Segments : s \in S => segment'[s].file = "absent" /\ SameRow(s)
         /\ \A s \in Segments : s \notin S => segment'[s] = segment[s]
BY ZenonT(40) DEF TypeOK, SegmentRecord, Erased, SameRow, Places

\* A mishap is counted, and only a failing operation ends the calm.
LEMMA MishapHappens ==
  ASSUME TypeOK, NEW kind \in MishapKinds, Mishap(kind)
  PROVE  /\ scenario' \in ScenarioRecord
         /\ Len(scenario'.happened) <= scenario'.most
         /\ kind = "fault" => ~NoFault'
         /\ NoFault' => NoFault
<1> DEFINE h == scenario.happened
<1>1. h \in Seq(MishapKinds) /\ scenario' = [scenario EXCEPT !.happened = Append(h, kind)]
  BY DEF TypeOK, ScenarioRecord, Mishap
<1>2. /\ scenario' \in ScenarioRecord
      /\ scenario'.happened = Append(h, kind)
      /\ scenario'.most = scenario.most
  <2>1. Append(h, kind) \in Seq(MishapKinds)
    BY <1>1, AppendProperties
  <2> HIDE DEF h
  <2> QED BY <1>1, <2>1 DEF TypeOK, ScenarioRecord
<1>3. Append(h, kind)[Len(h) + 1] = kind /\ Len(Append(h, kind)) = Len(h) + 1
      /\ Len(h) + 1 \in DOMAIN Append(h, kind)
  BY <1>1
<1>4. \A i \in DOMAIN h : i \in DOMAIN Append(h, kind) /\ Append(h, kind)[i] = h[i]
  BY <1>1
<1>5. Len(h) + 1 <= scenario.most
  BY <1>1 DEF Mishap, TypeOK, ScenarioRecord
<1> HIDE DEF h
<1>6. kind = "fault" => ~NoFault'
  BY <1>2, <1>3 DEF NoFault
<1>7. NoFault' => NoFault
  BY <1>2, <1>4 DEF NoFault, h
<1> QED BY <1>2, <1>3, <1>5, <1>6, <1>7

\* What fails is a fault, or the service is closing.
LEMMA FailureHappens ==
  ASSUME TypeOK, Fails
  PROVE  /\ scenario' \in ScenarioRecord
         /\ Len(scenario'.happened) <= scenario'.most
         /\ NoFault' => NoFault
         /\ NoFault' => closing
<1>1. CASE closing /\ UNCHANGED scenario
  BY <1>1 DEF TypeOK, NoFault
<1>2. CASE Mishap("fault")
  BY <1>2, MishapHappens DEF MishapKinds
<1> QED BY <1>1, <1>2 DEF Fails

-----------------------------------------------------------------------------
(* Types *)

TablesTyped ==
    /\ export \in [Exports -> ExportRecord]
    /\ segment \in [Segments -> SegmentRecord]
    /\ op \in [Operations -> OperationRecord]

\* The rows of the catalog have their types.
LEMMA TablesAreTyped == TypeOK => TablesTyped
BY DEF TypeOK, TablesTyped

\* Completing a deletion deletes its targets, and the rows keep their types.
LEMMA CompletionIsTyped ==
  ASSUME TypeOK, NEW o \in Operations, CompleteDeletion(o)
  PROVE  /\ TablesTyped'
         /\ \A e \in Exports :
               /\ export'[e].state = IF e \in op[o].targets THEN "deleted" ELSE export[e].state
               /\ export'[e].received = export[e].received
               /\ export'[e].hold = IF e \in op[o].targets THEN 0 ELSE export[e].hold
               /\ export'[e].home =
                     IF export[e].home = op[o].segment THEN None ELSE export[e].home
               /\ export'[e].owner = IF export[e].owner = o THEN None ELSE export[e].owner
         /\ \A s \in Segments : s # op[o].segment => segment'[s] = segment[s]
         /\ \A s \in Segments : s = op[o].segment =>
               /\ segment'[s].state = "deleted"
               /\ segment'[s].file = segment[s].file /\ segment'[s].damage = segment[s].damage
               /\ segment'[s].metadata = segment[s].metadata
         /\ op'[o].status = "completed"
         /\ \A p \in Operations : p # o => op'[p] = op[p]
<1>1. /\ segment' \in [Segments -> SegmentRecord]
      /\ \A s \in Segments : s # op[o].segment => segment'[s] = segment[s]
      /\ \A s \in Segments : s = op[o].segment =>
               /\ segment'[s].state = "deleted"
               /\ segment'[s].file = segment[s].file /\ segment'[s].damage = segment[s].damage
               /\ segment'[s].metadata = segment[s].metadata
  <2>1. segment' = [segment EXCEPT ![op[o].segment].state = "deleted"]
    BY DEF CompleteDeletion
  <2>2. ASSUME NEW s \in Segments, s = op[o].segment
        PROVE  /\ [segment[s] EXCEPT !.state = "deleted"] \in SegmentRecord
               /\ segment'[s] = [segment[s] EXCEPT !.state = "deleted"]
               /\ segment'[s].state = "deleted"
               /\ segment'[s].file = segment[s].file /\ segment'[s].damage = segment[s].damage
               /\ segment'[s].metadata = segment[s].metadata
    <3>1. segment[s] \in SegmentRecord /\ s \in DOMAIN segment
      BY DEF TypeOK
    <3>2. segment'[s] = [segment[s] EXCEPT !.state = "deleted"]
      BY <2>1, <2>2, <3>1
    <3> QED BY <3>1, <3>2 DEF SegmentRecord
  <2>3. \A s \in Segments : s # op[o].segment => segment'[s] = segment[s]
    BY <2>1 DEF TypeOK
  <2>4. segment' \in [Segments -> SegmentRecord]
    BY <2>1, <2>2 DEF TypeOK
  <2> QED BY <2>2, <2>3, <2>4
<1>2. /\ op' \in [Operations -> OperationRecord]
      /\ op'[o].status = "completed"
      /\ \A p \in Operations : p # o => op'[p] = op[p]
  BY ClosedIsTyped, ZenonT(40) DEF CompleteDeletion, Statuses
<1>3. /\ export' \in [Exports -> ExportRecord]
      /\ \A e \in Exports :
               /\ export'[e].state = IF e \in op[o].targets THEN "deleted" ELSE export[e].state
               /\ export'[e].received = export[e].received
               /\ export'[e].hold = IF e \in op[o].targets THEN 0 ELSE export[e].hold
               /\ export'[e].home =
                     IF export[e].home = op[o].segment THEN None ELSE export[e].home
               /\ export'[e].owner = IF export[e].owner = o THEN None ELSE export[e].owner
  <2> DEFINE Final(e) == [export[e] EXCEPT
            !.state = IF e \in op[o].targets THEN "deleted" ELSE @,
            !.hold  = IF e \in op[o].targets THEN 0 ELSE @,
            !.home  = IF @ = op[o].segment THEN None ELSE @,
            !.owner = IF @ = o THEN None ELSE @]
  <2>1. export' = [e \in Exports |-> Final(e)]
    BY DEF CompleteDeletion
  <2>2. ASSUME NEW e \in Exports
        PROVE  /\ Final(e) \in ExportRecord
               /\ Final(e).state = IF e \in op[o].targets THEN "deleted" ELSE export[e].state
               /\ Final(e).received = export[e].received
               /\ Final(e).hold = IF e \in op[o].targets THEN 0 ELSE export[e].hold
               /\ Final(e).home =
                     IF export[e].home = op[o].segment THEN None ELSE export[e].home
               /\ Final(e).owner = IF export[e].owner = o THEN None ELSE export[e].owner
    <3>1. export[e] \in ExportRecord
      BY DEF TypeOK
    <3> QED BY <3>1 DEF ExportRecord
  <2> HIDE DEF Final
  <2> QED BY <2>1, <2>2
<1> QED BY <1>1, <1>2, <1>3 DEF TablesTyped

\* Cancelling a deletion keeps the types of the rows.
LEMMA CancellationIsTyped ==
  ASSUME TypeOK, NEW o \in Operations, CancelDeletion(o) PROVE TablesTyped'
BY ReleasedIsTyped, ClosedIsTyped, TablesAreTyped DEF CancelDeletion, TablesTyped, Statuses

\* Recovering a deletion keeps the types of the rows.
LEMMA RecoveryIsTyped ==
  ASSUME TypeOK, NEW o \in Operations, RecoverDeletionOperation(o) PROVE TablesTyped'
<1> DEFINE s == op[o].segment
<1>0. segment' = MoveFile(s, "installed") \/ segment' = MoveFile(s, "staged") =>
      segment' \in [Segments -> SegmentRecord]
  BY DEF TypeOK, SegmentRecord, MoveFile, Places
<1>1. CASE segment' \in {MoveFile(s, "installed"), MoveFile(s, "staged")} /\ UNCHANGED <<export, op>>
  BY <1>0, <1>1, TablesAreTyped DEF TablesTyped
<1>2. CASE segment' = Erased({s}) /\ UNCHANGED <<export, op>>
  BY <1>2, ErasedIsTyped, TablesAreTyped DEF TablesTyped
<1>3. CASE CancelDeletion(o)
  BY <1>3, CancellationIsTyped
<1>4. CASE CompleteDeletion(o)
  BY <1>4, CompletionIsTyped
<1> QED BY <1>1, <1>2, <1>3, <1>4 DEF RecoverDeletionOperation

\* Who may hold a lock.
Holders == Cycles \union Restores \union {Nobody}

\* The types from those of their parts, as long as the world stands still.
LEMMA PartsAreTyped ==
  ASSUME TypeOK, UNCHANGED world, TablesTyped', gate' \in Holders, mu' \in Holders,
         cycle' \in [Cycles -> CycleRecord], restore' \in [Restores -> RestoreRecord],
         scenario' \in ScenarioRecord, Len(scenario'.happened) <= scenario'.most
  PROVE  TypeOK'
BY DEF TypeOK, TablesTyped, Holders, world, policy

\* The parts of the types.
LEMMA PartsOfTypes ==
  TypeOK =>
    /\ TablesTyped
    /\ gate \in Holders /\ mu \in Holders
    /\ cycle \in [Cycles -> CycleRecord] /\ restore \in [Restores -> RestoreRecord]
    /\ scenario \in ScenarioRecord /\ Len(scenario.happened) <= scenario.most
BY DEF TypeOK, TablesTyped, Holders

\* A step of a cycle that only turns its program counter.
LEMMA TurningCycleIsTyped ==
  ASSUME TypeOK, NEW c \in Cycles, NEW pc \in CycleSteps, To(c, pc), UNCHANGED <<world, restore>>,
         TablesTyped', gate' \in Holders, mu' \in Holders,
         scenario' \in ScenarioRecord, Len(scenario'.happened) <= scenario'.most
  PROVE  TypeOK'
BY CycleTurns, PartsAreTyped, PartsOfTypes

\* The end of a cycle keeps the types.
LEMMA EndingCycleIsTyped ==
  ASSUME TypeOK, NEW c \in Cycles, EndCycle(c), UNCHANGED <<world, restore>>, TablesTyped',
         scenario' \in ScenarioRecord, Len(scenario'.happened) <= scenario'.most
  PROVE  TypeOK'
BY CycleEnds, PartsAreTyped, PartsOfTypes DEF Holders

\* A cycle that moves keeps the types.
LEMMA CycleIsTyped ==
  ASSUME TypeOK, NEW c \in Cycles, NEW k \in CycleRecord, cycle' = [cycle EXCEPT ![c] = k],
         UNCHANGED <<world, restore>>,
         TablesTyped', gate' \in Holders, mu' \in Holders,
         scenario' \in ScenarioRecord, Len(scenario'.happened) <= scenario'.most
  PROVE  TypeOK'
BY CycleMoves, PartsAreTyped, PartsOfTypes

\* A restore that turns keeps the types.
LEMMA TurningRestoreIsTyped ==
  ASSUME TypeOK, NEW r \in Restores, NEW pc \in RestoreSteps, RestoreTo(r, pc),
         UNCHANGED <<world, cycle>>,
         TablesTyped', gate' \in Holders, mu' \in Holders,
         scenario' \in ScenarioRecord, Len(scenario'.happened) <= scenario'.most
  PROVE  TypeOK'
BY RestoreTurns, PartsAreTyped, PartsOfTypes

\* A restore that moves keeps the types.
LEMMA RestoreIsTyped ==
  ASSUME TypeOK, NEW r \in Restores, NEW k \in RestoreRecord, restore' = [restore EXCEPT ![r] = k],
         UNCHANGED <<world, cycle>>,
         TablesTyped', gate' \in Holders, mu' \in Holders,
         scenario' \in ScenarioRecord, Len(scenario'.happened) <= scenario'.most
  PROVE  TypeOK'
BY RestoreMoves, PartsAreTyped, PartsOfTypes

\* A catalog left alone keeps its types.
LEMMA TablesStay == TypeOK /\ UNCHANGED catalog => TablesTyped'
BY TablesAreTyped DEF catalog, TablesTyped

\* Faults, or nothing at all, keep the type of the scenario.
LEMMA ScenarioStays ==
  TypeOK /\ (UNCHANGED scenario \/ Fails \/ Mishap("fault")) =>
    /\ scenario' \in ScenarioRecord /\ Len(scenario'.happened) <= scenario'.most
    /\ NoFault' => NoFault
BY FailureHappens, MishapHappens, PartsOfTypes DEF MishapKinds, NoFault

\* What a cycle may archive and delete is of its type.
LEMMA SetsAreTyped ==
  ASSUME Pools, TypeOK, NEW c \in Cycles
  PROVE  /\ Archivable(c) \in SUBSET Exports /\ Deletable(c) \in SUBSET Segments
         /\ NextGroup(Archivable(c)) \in SUBSET Exports
         /\ CountGroups(Archivable(c)) \in Nat
<1>1. Archivable(c) \in SUBSET Exports /\ Deletable(c) \in SUBSET Segments
  BY DEF TypeOK, CycleRecord, Archivable, Deletable, Current
<1>2. NextGroup(Archivable(c)) \in SUBSET Exports
  BY <1>1 DEF NextGroup
<1>3. CountGroups(Archivable(c)) \in Nat
  <2> DEFINE G == {e \in Archivable(c) : (Place(e, Archivable(c)) - 1) % GroupLimit = 0}
  <2>1. IsFiniteSet(G)
    BY <1>1, FS_Subset DEF Pools
  <2> QED BY <2>1, FS_CardinalityType DEF CountGroups
<1> QED BY <1>1, <1>2, <1>3

\* Types survive the planning of a cycle (StartCycle to SelectGroup).
LEMMA PlanningIsTyped ==
  ASSUME Pools, TypeOK, NEW c \in Cycles,
         \/ StartCycle(c) \/ LockResume(c) \/ ResumeRetentionDeletions(c) \/ PlanCycle(c)
         \/ SelectGroup(c)
  PROVE  TypeOK'
<1> USE TablesStay, ScenarioStays, PartsOfTypes DEF locks
<1>0. c \in Holders /\ Nobody \in Holders
  BY DEF Holders
<1>1. CASE StartCycle(c)
  BY <1>0, <1>1, TurningCycleIsTyped DEF StartCycle, CycleSteps
<1>2. CASE LockResume(c)
  BY <1>0, <1>2, TurningCycleIsTyped, EndingCycleIsTyped DEF LockResume, CycleSteps
<1>3. CASE ResumeRetentionDeletions(c)
  <2>1. ASSUME NEW o \in Running("delete"), RecoverDeletionOperation(o), UNCHANGED <<gate, mu, cycle, scenario>>
        PROVE  TypeOK'
    BY <1>3, <2>1, RecoveryIsTyped, PartsAreTyped DEF ResumeRetentionDeletions, Running
  <2> QED BY <1>0, <1>3, <2>1, TurningCycleIsTyped, EndingCycleIsTyped
          DEF ResumeRetentionDeletions, CycleSteps
<1>4. CASE PlanCycle(c)
  <2> DEFINE k == [cycle[c] EXCEPT !.pc = "select", !.revision = revision,
                                   !.todo = Deletable(c), !.groups = CountGroups(Archivable(c))]
  <2>0. cycle[c] \in CycleRecord /\ revision \in Nat /\ "select" \in CycleSteps /\ "claim" \in CycleSteps
    BY DEF TypeOK, CycleSteps
  <2>1. k \in CycleRecord
    BY <2>0, SetsAreTyped DEF CycleRecord
  <2>2. cycle' = [cycle EXCEPT ![c] = k] \/ EndCycle(c)
    BY <1>4 DEF PlanCycle
  <2> HIDE DEF k
  <2> QED BY <1>4, <2>1, <2>2, CycleIsTyped, EndingCycleIsTyped DEF PlanCycle
<1>5. CASE SelectGroup(c)
  <2> DEFINE k == [cycle[c] EXCEPT !.pc = "claim", !.group = NextGroup(Archivable(c))]
  <2>0. cycle[c] \in CycleRecord /\ revision \in Nat /\ "select" \in CycleSteps /\ "claim" \in CycleSteps
    BY DEF TypeOK, CycleSteps
  <2>1. k \in CycleRecord
    BY <2>0, SetsAreTyped DEF CycleRecord
  <2>2. cycle' = [cycle EXCEPT ![c] = k] \/ To(c, "delete")
    BY <1>5 DEF SelectGroup
  <2> HIDE DEF k
  <2> QED BY <1>5, <2>1, <2>2, CycleIsTyped, TurningCycleIsTyped DEF SelectGroup, CycleSteps
<1> QED BY <1>1, <1>2, <1>3, <1>4, <1>5

\* A fresh operation or segment is an unused row nobody has in hand.
LEMMA FreshAreTyped ==
  /\ \A o \in FreshOperation : o \in Operations /\ op[o].status # "running" /\ o \notin InHand
  /\ \A s \in FreshSegment :
        s \in Segments /\ segment[s].state = "unused" /\ segment[s].file = "absent"
BY DEF FreshOperation, FreshSegment, Least

\* Types survive the archiving of a group.
LEMMA ArchivingIsTyped ==
  ASSUME Pools, TypeOK, NEW c \in Cycles, cycle[c].pc = "publish" => cycle[c].groups > 0,
         ClaimArchive(c) \/ BuildArchive(c) \/ PublishArchive(c) \/ FailArchive(c)
  PROVE  TypeOK'
<1> USE TablesStay, ScenarioStays, PartsOfTypes DEF locks
<1>0. c \in Holders /\ Nobody \in Holders
  BY DEF Holders
<1>1. CASE ClaimArchive(c)
  <2>1. ASSUME NEW o \in FreshOperation,
               op' = [op EXCEPT ![o] = [NoOperation EXCEPT
                        !.kind = "archive", !.status = "running", !.phase = "planned",
                        !.targets = cycle[c].group]],
               export' = [e \in Exports |->
                        IF e \in cycle[c].group THEN [export[e] EXCEPT !.owner = o] ELSE export[e]],
               cycle' = [cycle EXCEPT ![c].pc = "build", ![c].op = o],
               UNCHANGED <<segment, locks, scenario>>
        PROVE  TypeOK'
    <3> DEFINE k == [cycle[c] EXCEPT !.pc = "build", !.op = o]
               new == [NoOperation EXCEPT
                        !.kind = "archive", !.status = "running", !.phase = "planned",
                        !.targets = cycle[c].group]
    <3>0. o \in Operations
      BY <2>1, FreshAreTyped
    <3>00. cycle[c] \in CycleRecord /\ "build" \in CycleSteps
      BY DEF TypeOK, CycleSteps
    <3>1. k \in CycleRecord
      BY <3>0, <3>00 DEF CycleRecord
    <3>2. cycle' = [cycle EXCEPT ![c] = k]
      BY <2>1
    <3>3. cycle[c].group \in SUBSET Exports
      BY DEF TypeOK, CycleRecord
    <3>4. new \in OperationRecord
      BY <3>3 DEF NoOperation, OperationRecord, Statuses, Phases, None
    <3>5. op' = [op EXCEPT ![o] = new]
      BY <2>1
    <3> HIDE DEF k, new
    <3>6. op' \in [Operations -> OperationRecord]
      BY <3>0, <3>4, <3>5, OpenedIsTyped
    <3>7. export' \in [Exports -> ExportRecord]
      BY <2>1, <3>0, GivenIsTyped
    <3>8. TablesTyped'
      BY <2>1, <3>6, <3>7, TablesAreTyped DEF TablesTyped
    <3> QED BY <1>1, <2>1, <3>1, <3>2, <3>8, CycleIsTyped DEF ClaimArchive
  <2>2. CASE (IF Claimable(c) THEN Fails ELSE UNCHANGED scenario) /\ EndCycle(c) /\ UNCHANGED catalog
    BY <1>1, <2>2, EndingCycleIsTyped DEF ClaimArchive
  <2> QED BY <1>1, <2>1, <2>2 DEF ClaimArchive
<1>2. CASE BuildArchive(c)
  <2>1. ASSUME NEW s \in FreshSegment, segment' = BuildWithIncarnation(s) PROVE TablesTyped'
    BY <1>2, <2>1, FreshAreTyped, MovedIsTyped
       DEF BuildArchive, BuildWithIncarnation, TablesTyped, Places
  <2>2. ASSUME NEW s \in FreshSegment, segment' = BuildWithIncarnation(s),
               cycle' = [cycle EXCEPT ![c].pc = "publish", ![c].segment = s], UNCHANGED scenario
        PROVE  TypeOK'
    <3> DEFINE k == [cycle[c] EXCEPT !.pc = "publish", !.segment = s]
    <3>0. cycle[c] \in CycleRecord /\ "publish" \in CycleSteps
      BY DEF TypeOK, CycleSteps
    <3>1. k \in CycleRecord
      BY <3>0, FreshAreTyped DEF CycleRecord
    <3>2. cycle' = [cycle EXCEPT ![c] = k]
      BY <2>2
    <3> HIDE DEF k
    <3> QED BY <1>2, <2>1, <2>2, <3>1, <3>2, CycleIsTyped DEF BuildArchive
  <2>3. CASE /\ Mishap("fault")
             /\ \E s \in FreshSegment : segment' = BuildWithIncarnation(s)
             /\ To(c, "fail")
    BY <1>2, <2>1, <2>3, TurningCycleIsTyped DEF BuildArchive, CycleSteps
  <2>4. CASE /\ IF NoCapacity THEN UNCHANGED scenario ELSE Fails
             /\ UNCHANGED segment
             /\ To(c, "fail")
    BY <1>2, <2>4, TurningCycleIsTyped DEF BuildArchive, CycleSteps, catalog
  <2> QED BY <1>2, <2>2, <2>3, <2>4 DEF BuildArchive
<1>3. CASE PublishArchive(c)
  <2> DEFINE s == cycle[c].segment
             o == cycle[c].op
             Archived(e) == [export[e] EXCEPT !.state = "archived", !.hold = 0,
                                              !.home = s, !.owner = None]
  <2>1. CASE /\ ~closing /\ Publishable(c)
             /\ segment' = [segment EXCEPT ![s].state = "current"]
             /\ export' = [e \in Exports |-> IF e \in cycle[c].group THEN Archived(e) ELSE export[e]]
             /\ op' = Closed({o}, "completed")
             /\ cycle' = [cycle EXCEPT ![c].pc = "select", ![c].groups = @ - 1, ![c].group = {},
                                       ![c].op = None, ![c].segment = None]
             /\ UNCHANGED scenario
    <3> DEFINE k == [cycle[c] EXCEPT !.pc = "select", !.groups = cycle[c].groups - 1, !.group = {},
                                     !.op = None, !.segment = None]
    <3>0. cycle[c].groups > 0
      BY <1>3 DEF PublishArchive, At
    <3>00. cycle[c] \in CycleRecord /\ "select" \in CycleSteps /\ cycle[c].groups - 1 \in Nat
      BY <3>0 DEF TypeOK, CycleSteps, CycleRecord
    <3>1. k \in CycleRecord
      BY <3>0, <3>00 DEF CycleRecord
    <3>2. cycle' = [cycle EXCEPT ![c] = k]
      BY <2>1
    <3>3. op' \in [Operations -> OperationRecord]
      BY <2>1, ClosedIsTyped DEF Statuses
    <3>4. segment' \in [Segments -> SegmentRecord]
      <4>1. ASSUME NEW t \in Segments PROVE [segment[t] EXCEPT !.state = "current"] \in SegmentRecord
        <5>1. segment[t] \in SegmentRecord
          BY DEF TypeOK
        <5> QED BY <5>1 DEF SegmentRecord
      <4> QED BY <2>1, <4>1 DEF TypeOK
    <3>5. export' \in [Exports -> ExportRecord]
      <4>1. s \in Segments \union {None}
        BY DEF TypeOK, CycleRecord
      <4>2. ASSUME NEW e \in Exports PROVE Archived(e) \in ExportRecord
        <5>1. export[e] \in ExportRecord
          BY DEF TypeOK
        <5> QED BY <4>1, <5>1 DEF ExportRecord
      <4> HIDE DEF Archived
      <4> QED BY <2>1, <4>2 DEF TypeOK
    <3>6. TablesTyped'
      BY <3>3, <3>4, <3>5 DEF TablesTyped
    <3> HIDE DEF k
    <3> QED BY <1>3, <2>1, <3>1, <3>2, <3>6, CycleIsTyped DEF PublishArchive
  <2>2. CASE /\ IF Publishable(c) THEN Fails ELSE UNCHANGED scenario
             /\ segment' = Erased({s})
             /\ To(c, "fail")
             /\ UNCHANGED <<export, op>>
    BY <1>3, <2>2, ErasedIsTyped, TurningCycleIsTyped DEF PublishArchive, CycleSteps, TablesTyped
  <2> QED BY <1>3, <2>1, <2>2 DEF PublishArchive
<1>4. CASE FailArchive(c)
  <2>1. TablesTyped'
    BY <1>4, ReleasedIsTyped, ClosedIsTyped DEF FailArchive, TablesTyped, Statuses
  <2> QED BY <1>4, <2>1, EndingCycleIsTyped DEF FailArchive
<1> QED BY <1>1, <1>2, <1>3, <1>4

\* A file is moved to a place there is.
LEMMA MoveIsTyped ==
  ASSUME TypeOK, NEW s, NEW place \in Places, segment' = MoveFile(s, place)
  PROVE  segment' \in [Segments -> SegmentRecord]
<1>1. ASSUME NEW t \in Segments PROVE [segment[t] EXCEPT !.file = place] \in SegmentRecord
  <2>1. segment[t] \in SegmentRecord
    BY DEF TypeOK
  <2> QED BY <2>1 DEF SegmentRecord
<1> QED BY <1>1 DEF MoveFile, TypeOK

\* The two places of a file on disk.
LEMMA PlacesAre == "installed" \in Places /\ "staged" \in Places
BY DEF Places

\* The deletion of a segment is claimed.
ClaimsDeletion(c, s, o) ==
    /\ op' = [op EXCEPT ![o] = [NoOperation EXCEPT
            !.kind = "delete", !.status = "running", !.phase = "staging",
            !.targets = Members(s), !.segment = s, !.decided = cycle[c].revision]]
    /\ export' = [e \in Exports |->
            IF e \in Members(s) THEN [export[e] EXCEPT !.owner = o] ELSE export[e]]
    /\ cycle' = [cycle EXCEPT ![c].pc = "stage", ![c].op = o, ![c].segment = s,
                              ![c].todo = @ \ {s}]

\* ClaimDeletion taken apart: a claim, a failure, or nothing left to claim.
LEMMA ClaimDeletionParts ==
  ASSUME NEW c \in Cycles, ClaimDeletion(c)
  PROVE  /\ At(c, "delete")
         /\ \/ /\ GateFree /\ ~closing
               /\ \E s \in cycle[c].todo, o \in FreshOperation :
                     DeletionClaimable(c, s) /\ ClaimsDeletion(c, s, o)
               /\ gate' = c
               /\ UNCHANGED <<mu, segment, scenario>>
            \/ /\ GateFree
               /\ \E s \in cycle[c].todo :
                     IF DeletionClaimable(c, s) THEN Fails ELSE UNCHANGED scenario
               /\ EndCycle(c)
               /\ UNCHANGED catalog
            \/ /\ cycle[c].todo = {}
               /\ EndCycle(c)
               /\ UNCHANGED <<catalog, scenario>>
         /\ UNCHANGED <<world, restore>>
BY DEF ClaimDeletion, ClaimsDeletion

\* Types survive every step of a deletion.
LEMMA DeletionIsTyped ==
  ASSUME Pools, TypeOK, NEW c \in Cycles, cycle[c].pc \in InDeletion => cycle[c].op \in Operations,
         \/ ClaimDeletion(c) \/ StageDeletion(c) \/ PublishStaged(c) \/ Cutover(c)
         \/ AbandonCutover(c) \/ WithdrawDeletion(c) \/ RemoveContent(c) \/ PublishRemoved(c)
         \/ PublishDeleted(c) \/ ConvergeDeletion(c)
  PROVE  TypeOK'
<1> USE TablesStay, ScenarioStays, PartsOfTypes DEF locks
<1>0. c \in Holders /\ Nobody \in Holders
  BY DEF Holders
<1>s. {"delete", "stage", "staged", "cutover", "withdraw", "remove", "removed", "terminal",
       "converge"} \subseteq CycleSteps
  BY DEF CycleSteps
<1>p. {"staged", "delete_committing", "content_removed"} \subseteq Phases
  BY DEF Phases, BeforeCutover, AfterCutover
<1>d. [cycle[c] EXCEPT !.pc = "delete", !.op = None, !.segment = None] \in CycleRecord
  <2>1. cycle[c] \in CycleRecord
    BY DEF TypeOK
  <2> QED BY <1>s, <2>1 DEF CycleRecord
<1>1. CASE ClaimDeletion(c)
  <2>1. ASSUME NEW s \in cycle[c].todo, NEW o \in FreshOperation, ClaimsDeletion(c, s, o),
               gate' = c, UNCHANGED <<mu, segment, scenario>>
        PROVE  TypeOK'
    <3> DEFINE k == [cycle[c] EXCEPT !.pc = "stage", !.op = o, !.segment = s,
                                     !.todo = cycle[c].todo \ {s}]
               new == [NoOperation EXCEPT
                        !.kind = "delete", !.status = "running", !.phase = "staging",
                        !.targets = Members(s), !.segment = s, !.decided = cycle[c].revision]
    <3>0. /\ o \in Operations /\ cycle[c] \in CycleRecord /\ cycle[c].todo \in SUBSET Segments
          /\ cycle[c].revision \in Nat
      BY <2>1, FreshAreTyped DEF TypeOK, CycleRecord
    <3>1. s \in Segments /\ cycle[c].todo \ {s} \in SUBSET Segments
      BY <3>0
    <3>2. k \in CycleRecord
      BY <1>s, <3>0, <3>1 DEF CycleRecord
    <3>3. cycle' = [cycle EXCEPT ![c] = k]
      BY <2>1 DEF ClaimsDeletion
    <3>4. new \in OperationRecord
      <4>1. Members(s) \in SUBSET Exports
        BY DEF Members
      <4> QED BY <3>0, <3>1, <4>1 DEF NoOperation, OperationRecord, Statuses, Phases, None, BeforeCutover
    <3>5. op' = [op EXCEPT ![o] = new]
      BY <2>1 DEF ClaimsDeletion
    <3> HIDE DEF k, new
    <3>6. op' \in [Operations -> OperationRecord]
      BY <3>0, <3>4, <3>5, OpenedIsTyped
    <3>7. export' \in [Exports -> ExportRecord]
      BY <2>1, <3>0, GivenIsTyped DEF ClaimsDeletion
    <3>8. TablesTyped'
      BY <2>1, <3>6, <3>7, TablesAreTyped DEF TablesTyped
    <3> QED BY <1>0, <1>1, <2>1, <3>2, <3>3, <3>8, CycleIsTyped DEF ClaimDeletion
  <2>2. ASSUME EndCycle(c), UNCHANGED catalog, Fails \/ UNCHANGED scenario PROVE TypeOK'
    BY <1>1, <2>2, EndingCycleIsTyped DEF ClaimDeletion
  <2>3. (\E s \in cycle[c].todo : IF DeletionClaimable(c, s) THEN Fails ELSE UNCHANGED scenario) =>
        Fails \/ UNCHANGED scenario
    OBVIOUS
  <2> QED BY <1>1, <2>1, <2>2, <2>3, ClaimDeletionParts
<1>2. CASE StageDeletion(c)
  <2> DEFINE s == cycle[c].segment
             o == cycle[c].op
  <2>1. segment' \in {segment, MoveFile(s, "staged")} => segment' \in [Segments -> SegmentRecord]
    BY MoveIsTyped, PlacesAre DEF TablesTyped
  <2>2. CASE segment' = MoveFile(s, "staged") /\ To(c, "staged") /\ UNCHANGED <<export, op, locks, scenario>>
    BY <1>2, <1>s, <2>1, <2>2, TurningCycleIsTyped DEF StageDeletion, TablesTyped
  <2>3. CASE op' = Closed({o}, "failed") /\ export' = Released({o}) /\ EndCycle(c) /\ UNCHANGED segment
             /\ Mishap("fault")
    <3>1. TablesTyped'
      <4>1. "failed" \in Statuses
        BY DEF Statuses
      <4>2. op' \in [Operations -> OperationRecord]
        BY <2>3, <4>1, ClosedIsTyped
      <4>3. export' \in [Exports -> ExportRecord]
        BY <2>3, ReleasedIsTyped
      <4> QED BY <2>3, <4>2, <4>3 DEF TablesTyped
    <3> QED BY <1>2, <2>3, <3>1, EndingCycleIsTyped DEF StageDeletion
  <2>4. CASE Mishap("fault") /\ segment' \in {segment, MoveFile(s, "staged")} /\ Converge(c)
             /\ UNCHANGED <<export, op>>
    BY <1>2, <1>s, <2>1, <2>4, TurningCycleIsTyped DEF StageDeletion, TablesTyped, Converge
  <2> QED BY <1>2, <2>2, <2>3, <2>4 DEF StageDeletion
<1>3. CASE PublishStaged(c) \/ PublishRemoved(c)
  <2>1. op' \in [Operations -> OperationRecord]
    BY <1>3, <1>p, PhaseIsTyped DEF PublishStaged, PublishRemoved, At, InDeletion, TablesTyped
  <2>2. TablesTyped'
    BY <1>3, <2>1 DEF PublishStaged, PublishRemoved, TablesTyped
  <2> QED BY <1>0, <1>3, <1>s, <2>2, TurningCycleIsTyped DEF PublishStaged, PublishRemoved, Converge
<1>4. CASE Cutover(c)
  <2> DEFINE k == [cycle[c] EXCEPT !.pc = "delete", !.op = None, !.segment = None]
  <2>1. op' \in [Operations -> OperationRecord]
    BY <1>4, <1>p, PhaseIsTyped DEF Cutover, At, InDeletion, TablesTyped
  <2>2. TablesTyped'
    BY <1>4, <2>1 DEF Cutover, TablesTyped
  <2>3. CASE cycle' = [cycle EXCEPT ![c].pc = "delete", ![c].op = None, ![c].segment = None]
             /\ UNCHANGED <<op, locks, scenario>>
    <3>1. cycle' = [cycle EXCEPT ![c] = k]
      BY <2>3
    <3> QED BY <1>4, <1>d, <2>2, <2>3, <3>1, CycleIsTyped DEF Cutover
  <2>4. ASSUME NEW pc \in CycleSteps, To(c, pc), gate' = c, mu' = mu, Fails \/ UNCHANGED scenario
        PROVE  TypeOK'
    BY <1>0, <1>4, <2>2, <2>4, TurningCycleIsTyped DEF Cutover
  <2> QED BY <1>4, <1>s, <2>3, <2>4 DEF Cutover
<1>5. CASE AbandonCutover(c)
  BY <1>5, EndingCycleIsTyped DEF AbandonCutover
<1>6. CASE WithdrawDeletion(c) \/ PublishDeleted(c)
  <2>1. cycle[c].op \in Operations
    BY <1>6 DEF WithdrawDeletion, PublishDeleted, At, InDeletion
  <2>2. CASE /\ segment' = MoveFile(cycle[c].segment, "installed")
             /\ UNCHANGED <<export, op, cycle, locks, scenario>>
    <3>1. TablesTyped'
      BY <2>2, MoveIsTyped, PlacesAre DEF TablesTyped
    <3> QED BY <1>6, <2>2, <3>1, PartsAreTyped DEF WithdrawDeletion, PublishDeleted
  <2>3. CASE /\ CancelDeletion(cycle[c].op) \/ CompleteDeletion(cycle[c].op)
             /\ cycle' = [cycle EXCEPT ![c].pc = "delete", ![c].op = None, ![c].segment = None]
             /\ gate' = Nobody
             /\ UNCHANGED <<mu, scenario>>
    <3> DEFINE k == [cycle[c] EXCEPT !.pc = "delete", !.op = None, !.segment = None]
    <3>1. cycle' = [cycle EXCEPT ![c] = k]
      BY <2>3
    <3>2. TablesTyped'
      BY <2>1, <2>3, CancellationIsTyped, CompletionIsTyped
    <3> QED BY <1>0, <1>6, <1>d, <2>3, <3>1, <3>2, CycleIsTyped DEF WithdrawDeletion, PublishDeleted
  <2>4. CASE Fails /\ Converge(c) /\ UNCHANGED catalog
    BY <1>6, <1>s, <2>4, TurningCycleIsTyped DEF WithdrawDeletion, PublishDeleted, Converge
  <2> QED BY <1>6, <2>2, <2>3, <2>4 DEF WithdrawDeletion, PublishDeleted
<1>7. CASE RemoveContent(c)
  <2>1. TablesTyped'
    BY <1>7, ErasedIsTyped DEF RemoveContent, TablesTyped
  <2> QED BY <1>7, <1>s, <2>1, TurningCycleIsTyped DEF RemoveContent, Converge
<1>8. CASE ConvergeDeletion(c)
  <2>1. CASE RecoverDeletionOperation(cycle[c].op) /\ UNCHANGED <<cycle, locks, scenario>>
    <3>1. cycle[c].op \in Operations
      BY <1>8 DEF ConvergeDeletion, At, InDeletion
    <3> QED BY <1>8, <2>1, <3>1, RecoveryIsTyped, PartsAreTyped DEF ConvergeDeletion
  <2>2. CASE EndCycle(c) /\ UNCHANGED catalog /\ (UNCHANGED scenario \/ Mishap("fault"))
    BY <1>8, <2>2, EndingCycleIsTyped DEF ConvergeDeletion
  <2> QED BY <1>8, <2>1, <2>2 DEF ConvergeDeletion
<1> QED BY <1>1, <1>2, <1>3, <1>4, <1>5, <1>6, <1>7, <1>8

\* A restore claims the exports of its scope.
ClaimsRestore(r, o) ==
    LET scope == restore[r].scope IN
    /\ op' = [Closed(Competing(scope), "cancelled") EXCEPT ![o] = [NoOperation EXCEPT
           !.kind = "restore", !.status = "running", !.phase = "planned",
           !.targets = Affected(scope), !.selected = Selected(scope)]]
    /\ export' = ClaimAffected(scope, o)
    /\ restore' = [restore EXCEPT ![r].pc = "queued", ![r].op = o,
                                  ![r].segments = ScopeSegments(scope)]

\* ClaimRestore taken apart: its guards and what it claims.
LEMMA ClaimRestoreParts ==
  ASSUME NEW r \in Restores, ClaimRestore(r)
  PROVE  /\ RestoreAt(r, "claim")
         /\ CommittedDeletions(restore[r].scope) = {}
         /\ ~Unclaimable(restore[r].scope)
         /\ FilesBack(restore[r].scope)
         /\ \E o \in FreshOperation : ClaimsRestore(r, o)
         /\ gate' = Nobody
         /\ UNCHANGED <<world, segment, mu, cycle, scenario>>
BY DEF ClaimRestore, ClaimsRestore

\* The segments and exports of a scope are of their types.
LEMMA ScopesAreTyped ==
  ASSUME TypeOK, NEW r \in Restores, \A e \in Exports : export[e].state = "archived" => export[e].home # None
  PROVE  /\ ScopeSegments(restore[r].scope) \in SUBSET Segments
         /\ Affected(restore[r].scope) \in SUBSET Exports
         /\ Selected(restore[r].scope) \in SUBSET Exports
         /\ restore[r].scope.exports \in SUBSET Exports
<1> DEFINE scope == restore[r].scope
<1>1. scope \in Scopes \union {NoScope}
  BY DEF TypeOK, RestoreRecord
<1>2. scope.exports \in SUBSET Exports
  BY <1>1 DEF Scopes, NoScope
<1>3. \A e \in Exports : export[e].home \in Segments \union {None}
  BY DEF TypeOK, ExportRecord
<1>4. ScopeSegments(scope) \in SUBSET Segments
  BY <1>2, <1>3 DEF ScopeSegments, Current
<1>5. Affected(scope) \in SUBSET Exports
  BY DEF Affected
<1>6. Selected(scope) \in SUBSET Exports
  BY <1>5 DEF Selected
<1> QED BY <1>2, <1>4, <1>5, <1>6

\* Types survive the claim of a restore and what it preempts.
LEMMA ClaimingIsTyped ==
  ASSUME Pools, TypeOK, NEW r \in Restores,
         \A e \in Exports : export[e].state = "archived" => export[e].home # None,
         \/ FinishCommittedDeletions(r) \/ PreemptDeletion(r) \/ ClaimRestore(r) \/ RefuseRestore(r)
         \/ \E scope \in Scopes : RequestRestore(r, scope)
  PROVE  TypeOK'
<1> USE TablesStay, ScenarioStays, PartsOfTypes DEF locks
<1>0. r \in Holders /\ Nobody \in Holders
  BY DEF Holders
<1>s. "claim" \in RestoreSteps /\ "queued" \in RestoreSteps /\ restore[r] \in RestoreRecord
  BY DEF RestoreSteps, TypeOK
<1>1. CASE FinishCommittedDeletions(r)
  <2>1. PICK o \in CommittedDeletions(restore[r].scope) : RecoverDeletionOperation(o)
    BY <1>1 DEF FinishCommittedDeletions
  <2>2. o \in Operations
    BY DEF CommittedDeletions, Running
  <2> QED BY <1>1, <2>1, <2>2, RecoveryIsTyped, PartsAreTyped DEF FinishCommittedDeletions
<1>2. CASE PreemptDeletion(r)
  <2>1. segment' \in [Segments -> SegmentRecord]
    BY <1>2, MoveIsTyped, PlacesAre DEF PreemptDeletion
  <2>2. TablesTyped'
    BY <1>2, <2>1 DEF PreemptDeletion, TablesTyped
  <2> QED BY <1>2, <2>2, PartsAreTyped DEF PreemptDeletion
<1>3. CASE ClaimRestore(r)
  <2> DEFINE scope == restore[r].scope
  <2>1. PICK o \in FreshOperation : ClaimsRestore(r, o)
    BY <1>3, ClaimRestoreParts
  <2> DEFINE k == [restore[r] EXCEPT !.pc = "queued", !.op = o, !.segments = ScopeSegments(scope)]
             new == [NoOperation EXCEPT
                        !.kind = "restore", !.status = "running", !.phase = "planned",
                        !.targets = Affected(scope), !.selected = Selected(scope)]
  <2>2. o \in Operations
    BY FreshAreTyped
  <2>3. k \in RestoreRecord
    BY <1>s, <2>2, ScopesAreTyped DEF RestoreRecord
  <2>4. restore' = [restore EXCEPT ![r] = k]
    BY <2>1 DEF ClaimsRestore
  <2>5. new \in OperationRecord
    BY ScopesAreTyped DEF NoOperation, OperationRecord, Statuses, Phases, None
  <2>6. op' = [Closed(Competing(scope), "cancelled") EXCEPT ![o] = new]
    BY <2>1 DEF ClaimsRestore
  <2>7. Closed(Competing(scope), "cancelled") \in [Operations -> OperationRecord]
    <3>1. [NoOperation EXCEPT !.status = "cancelled"] \in OperationRecord
      BY DEF NoOperation, OperationRecord, Statuses, Phases, None
    <3> QED BY <3>1 DEF TypeOK, Closed
  <2> HIDE DEF k, new
  <2>8. op' \in [Operations -> OperationRecord]
    BY <2>5, <2>6, <2>7
  <2>9. export' \in [Exports -> ExportRecord]
    BY <2>1, <2>2, GivenIsTyped DEF ClaimsRestore, ClaimAffected
  <2>10. TablesTyped'
    BY <1>3, <2>8, <2>9, ClaimRestoreParts DEF TablesTyped
  <2> QED BY <1>0, <1>3, <2>3, <2>4, <2>10, RestoreIsTyped, ClaimRestoreParts
<1>4. CASE RefuseRestore(r)
  BY <1>0, <1>4, RestoreIsTyped, NothingIsTyped DEF RefuseRestore, ClaimOver
<1>5. ASSUME NEW scope \in Scopes, RequestRestore(r, scope) PROVE TypeOK'
  <2> DEFINE k == [restore[r] EXCEPT !.pc = "claim", !.scope = scope]
  <2>1. k \in RestoreRecord
    BY <1>s DEF RestoreRecord
  <2>2. restore' = [restore EXCEPT ![r] = k]
    BY <1>5 DEF RequestRestore
  <2> HIDE DEF k
  <2> QED BY <1>0, <1>5, <2>1, <2>2, RestoreIsTyped DEF RequestRestore
<1> QED BY <1>1, <1>2, <1>3, <1>4, <1>5

\* A restore strikes a segment off its list.
LEMMA OneLess ==
  ASSUME TypeOK, NEW r \in Restores, NEW s,
         restore' = [restore EXCEPT ![r].todo = @ \ {s}]
  PROVE  /\ restore' \in [Restores -> RestoreRecord]
         /\ restore'[r].pc = restore[r].pc /\ SameClaim(r)
         /\ restore'[r].todo = restore[r].todo \ {s} /\ restore'[r].fresh = restore[r].fresh
         /\ \A q \in Restores : q # r => restore'[q] = restore[q]
<1> DEFINE k == [restore[r] EXCEPT !.todo = restore[r].todo \ {s}]
<1>1. k \in RestoreRecord
  BY DEF TypeOK, RestoreRecord
<1>2. restore' = [restore EXCEPT ![r] = k]
  OBVIOUS
<1>3. /\ k.pc = restore[r].pc /\ k.scope = restore[r].scope /\ k.op = restore[r].op
      /\ k.segments = restore[r].segments /\ k.todo = restore[r].todo \ {s}
      /\ k.fresh = restore[r].fresh
  BY DEF TypeOK, RestoreRecord
<1> HIDE DEF k
<1> QED BY <1>1, <1>2, <1>3, RestoreMoves DEF SameClaim

\* Segment n replaces segment s for restore r.
Replaces(r, s, n) == restore' = [restore EXCEPT ![r].todo = @ \ {s}, ![r].fresh[s] = n]

\* A restore notes the replacement of a segment.
LEMMA OneReplaced ==
  ASSUME TypeOK, NEW r \in Restores, NEW s \in Segments, NEW n \in Segments, Replaces(r, s, n)
  PROVE  /\ restore' \in [Restores -> RestoreRecord]
         /\ restore'[r].pc = restore[r].pc /\ SameClaim(r)
         /\ restore'[r].todo = restore[r].todo \ {s}
         /\ \A t \in Segments : restore'[r].fresh[t] = IF t = s THEN n ELSE restore[r].fresh[t]
         /\ \A q \in Restores : q # r => restore'[q] = restore[q]
<1> DEFINE f == [restore[r].fresh EXCEPT ![s] = n]
           k == [restore[r] EXCEPT !.todo = restore[r].todo \ {s}, !.fresh = f]
<1>0. restore[r] \in RestoreRecord /\ restore[r].fresh \in [Segments -> Segments \union {None}]
  BY DEF TypeOK, RestoreRecord
<1>1. f \in [Segments -> Segments \union {None}]
  BY <1>0
<1>2. k \in RestoreRecord
  <2> HIDE DEF f
  <2> QED BY <1>0, <1>1 DEF RestoreRecord
<1>3. restore' = [restore EXCEPT ![r] = k]
  BY DEF Replaces
<1>4. /\ k.pc = restore[r].pc /\ k.scope = restore[r].scope /\ k.op = restore[r].op
      /\ k.segments = restore[r].segments /\ k.todo = restore[r].todo \ {s}
      /\ \A t \in Segments : k.fresh[t] = IF t = s THEN n ELSE restore[r].fresh[t]
  BY <1>0 DEF RestoreRecord
<1> HIDE DEF k
<1> QED BY <1>2, <1>3, <1>4, RestoreMoves DEF SameClaim

\* Types survive the work of a restore's goroutine.
LEMMA RestoringIsTyped ==
  ASSUME Pools, TypeOK, NEW r \in Restores,
         restore[r].pc = "verify" =>
            \A e \in Exports : e \in op[restore[r].op].targets => export[e].home \in Segments,
         \/ StartRestore(r) \/ VerifySegment(r) \/ VerificationFails(r) \/ PublishRestore(r)
         \/ PreparationFails(r) \/ DropReplacements(r) \/ FailRestore(r)
         \/ RemovePublishedArchive(r) \/ CompleteRestore(r) \/ AbandonCleanup(r)
  PROVE  TypeOK'
<1> USE TablesStay, ScenarioStays, PartsOfTypes DEF locks
<1>0. r \in Holders /\ Nobody \in Holders
  BY DEF Holders
<1>s. /\ "verify" \in RestoreSteps /\ "drop" \in RestoreSteps /\ "fail" \in RestoreSteps
      /\ "clean" \in RestoreSteps
      /\ restore[r] \in RestoreRecord
      /\ restore[r].todo \in SUBSET Segments /\ restore[r].segments \in SUBSET Segments
      /\ restore[r].fresh \in [Segments -> Segments \union {None}]
  BY DEF RestoreSteps, TypeOK, RestoreRecord
<1>1. CASE StartRestore(r)
  <2> DEFINE k == [restore[r] EXCEPT !.pc = "verify", !.todo = restore[r].segments]
  <2>1. k \in RestoreRecord
    BY <1>s DEF RestoreRecord
  <2>2. restore' = [restore EXCEPT ![r] = k] \/ RestoreTo(r, "fail")
    BY <1>1 DEF StartRestore
  <2> HIDE DEF k
  <2> QED BY <1>0, <1>1, <1>s, <2>1, <2>2, RestoreIsTyped, TurningRestoreIsTyped DEF StartRestore
<1>2. CASE VerifySegment(r)
  <2>1. PICK s \in restore[r].todo :
           \/ restore' = [restore EXCEPT ![r].todo = @ \ {s}] /\ UNCHANGED segment
           \/ \E n \in FreshSegment :
                /\ Replaces(r, s, n)
                /\ segment' = BuildWithIncarnation(n)
    BY <1>2 DEF VerifySegment, Replaces
  <2>2. s \in Segments
    BY <1>s
  <2>3. restore' \in [Restores -> RestoreRecord]
    BY <2>1, <2>2, FreshAreTyped, OneLess, OneReplaced
  <2>4. segment' \in [Segments -> SegmentRecord]
    BY <2>1, MoveIsTyped, PlacesAre DEF BuildWithIncarnation, TablesTyped
  <2>5. TablesTyped'
    BY <1>2, <2>4 DEF VerifySegment, TablesTyped
  <2> QED BY <1>2, <2>3, <2>5, PartsAreTyped DEF VerifySegment
<1>3. CASE VerificationFails(r)
  <2>1. PICK s \in Segments :
           \/ segment' = segment
           \/ segment' = [segment EXCEPT ![s]["metadata"] = "unverifiable"]
           \/ segment' = [segment EXCEPT ![s]["payload"] = "corrupt"]
    BY <1>3, <1>s DEF VerificationFails, RecordSegmentVerificationFailure
  <2>2. [segment[s] EXCEPT !["metadata"] = "unverifiable"] \in SegmentRecord
        /\ [segment[s] EXCEPT !["payload"] = "corrupt"] \in SegmentRecord
    <3>1. segment[s] \in SegmentRecord
      BY DEF TypeOK
    <3> QED BY <3>1 DEF SegmentRecord
  <2>3. segment' \in [Segments -> SegmentRecord]
    BY <2>1, <2>2, ZenonT(40) DEF TypeOK
  <2>4. TablesTyped'
    BY <1>3, <2>3 DEF VerificationFails, TablesTyped
  <2> QED BY <1>3, <1>s, <2>4, TurningRestoreIsTyped DEF VerificationFails
<1>4. CASE PublishRestore(r)
  <2>1. restore[r].pc = "verify"
    BY <1>4 DEF PublishRestore, RestoreAt
  <2>2. export' \in [Exports -> ExportRecord]
    <3>1. ASSUME NEW e \in Exports, e \in op[restore[r].op].targets PROVE Restored(r, e) \in ExportRecord
      <4>1. export[e] \in ExportRecord
        BY DEF TypeOK
      <4>2. restore[r].fresh[export[e].home] \in Segments \union {None}
        BY <1>s, <2>1, <3>1
      <4>3. now + HoldDays \in Nat
        BY PolicyDays DEF TypeOK
      <4> QED BY <4>1, <4>2, <4>3 DEF Restored, ExportRecord
    <3> QED BY <1>4, <3>1 DEF PublishRestore, TypeOK
  <2>3. segment' \in [Segments -> SegmentRecord]
    <3>1. ASSUME NEW s \in Segments, NEW state \in {"restored", "superseded", "current"}
          PROVE  [segment[s] EXCEPT !.state = state] \in SegmentRecord
      <4>1. segment[s] \in SegmentRecord
        BY DEF TypeOK
      <4> QED BY <4>1 DEF SegmentRecord
    <3> QED BY <1>4, <3>1 DEF PublishRestore, TypeOK
  <2>4. op' \in [Operations -> OperationRecord]
    <3>1. ASSUME NEW o \in Operations PROVE [op[o] EXCEPT !.phase = "content_removed"] \in OperationRecord
      <4>1. op[o] \in OperationRecord
        BY DEF TypeOK
      <4> QED BY <4>1 DEF OperationRecord, Phases, AfterCutover
    <3> QED BY <1>4, <3>1 DEF PublishRestore, TypeOK
  <2> DEFINE k == [restore[r] EXCEPT !.pc = "clean", !.todo = restore[r].segments]
  <2>5. k \in RestoreRecord
    BY <1>s DEF RestoreRecord
  <2>6. restore' = [restore EXCEPT ![r] = k]
    BY <1>4 DEF PublishRestore
  <2> HIDE DEF k
  <2>7. TablesTyped'
    BY <2>2, <2>3, <2>4 DEF TablesTyped
  <2> QED BY <1>4, <2>5, <2>6, <2>7, RestoreIsTyped DEF PublishRestore
<1>5. CASE PreparationFails(r)
  BY <1>5, <1>s, TurningRestoreIsTyped DEF PreparationFails
<1>6. CASE DropReplacements(r)
  <2>1. TablesTyped'
    BY <1>6, ErasedIsTyped DEF DropReplacements, TablesTyped
  <2> QED BY <1>6, <1>s, <2>1, TurningRestoreIsTyped DEF DropReplacements
<1>7. CASE FailRestore(r)
  <2>0. "failed" \in Statuses
    BY DEF Statuses
  <2>1. TablesTyped'
    BY <1>7, <2>0, ReleasedIsTyped, ClosedIsTyped DEF FailRestore, TablesTyped
  <2> QED BY <1>0, <1>7, <2>1, RestoreIsTyped, NothingIsTyped DEF FailRestore, RestoreOver
<1>8. CASE RemovePublishedArchive(r)
  <2>1. TablesTyped'
    BY <1>8, ErasedIsTyped DEF RemovePublishedArchive, TablesTyped
  <2>2. restore' \in [Restores -> RestoreRecord]
    BY <1>8, OneLess DEF RemovePublishedArchive
  <2> QED BY <1>8, <2>1, <2>2, PartsAreTyped DEF RemovePublishedArchive
<1>9. CASE CompleteRestore(r)
  <2>0. "completed" \in Statuses
    BY DEF Statuses
  <2>1. TablesTyped'
    BY <1>9, <2>0, ReleasedIsTyped, ClosedIsTyped, ZenonT(40) DEF CompleteRestore, TablesTyped
  <2> QED BY <1>0, <1>9, <2>1, RestoreIsTyped, NothingIsTyped DEF CompleteRestore, RestoreOver
<1>10. CASE AbandonCleanup(r)
  BY <1>0, <1>10, RestoreIsTyped, NothingIsTyped DEF AbandonCleanup, RestoreOver
<1> QED BY <1>1, <1>2, <1>3, <1>4, <1>5, <1>6, <1>7, <1>8, <1>9, <1>10

\* Types survive what happens outside the goroutines.
LEMMA WorldIsTyped ==
  ASSUME Pools, TypeOK,
         \/ Tick \/ (\E e \in Exports : Receive(e))
         \/ (\E enabled \in BOOLEAN : UpdateRetentionPolicy(enabled))
         \/ (\E s \in Segments : Damage(s)) \/ Close \/ Exit \/ Crash
         \/ (\E c \in Cycles : BeginRetentionCycle(c))
  PROVE  TypeOK'
<1> USE TablesStay, ScenarioStays, PartsOfTypes DEF locks
<1>1. CASE Tick
  BY <1>1 DEF Tick, TypeOK, catalog, policy
<1>2. ASSUME NEW e \in Exports, Receive(e) PROVE TypeOK'
  <2>1. [export[e] EXCEPT !.state = "active", !.received = now] \in ExportRecord
    <3>1. export[e] \in ExportRecord /\ now \in Nat
      BY DEF TypeOK
    <3> QED BY <3>1 DEF ExportRecord
  <2>2. export' = [export EXCEPT ![e] = [export[e] EXCEPT !.state = "active", !.received = now]]
    BY <1>2 DEF Receive
  <2>3. export' \in [Exports -> ExportRecord]
    BY <2>1, <2>2 DEF TypeOK
  <2> QED BY <1>2, <2>3 DEF Receive, TypeOK, policy
<1>3. ASSUME NEW enabled \in BOOLEAN, UpdateRetentionPolicy(enabled) PROVE TypeOK'
  BY <1>3 DEF UpdateRetentionPolicy, TypeOK, catalog
<1>4. ASSUME NEW s \in Segments, Damage(s) PROVE TypeOK'
  <2>1. PICK part \in {"payload", "metadata"} : segment' = [segment EXCEPT ![s].damage = part]
    BY <1>4 DEF Damage
  <2>2. [segment[s] EXCEPT !.damage = part] \in SegmentRecord
    <3>1. segment[s] \in SegmentRecord
      BY DEF TypeOK
    <3> QED BY <3>1 DEF SegmentRecord
  <2>3. segment' = [segment EXCEPT ![s] = [segment[s] EXCEPT !.damage = part]]
    BY <2>1
  <2>4. segment' \in [Segments -> SegmentRecord]
    BY <2>2, <2>3 DEF TypeOK
  <2>5. scenario' \in ScenarioRecord /\ Len(scenario'.happened) <= scenario'.most
    BY <1>4, MishapHappens DEF Damage, MishapKinds
  <2> QED BY <1>4, <2>4, <2>5 DEF Damage, TypeOK, policy
<1>5. CASE Close
  <2>1. scenario' \in ScenarioRecord /\ Len(scenario'.happened) <= scenario'.most
    BY <1>5, MishapHappens DEF Close, MishapKinds
  <2> QED BY <1>5, <2>1 DEF Close, TypeOK, catalog, policy
<1>6. CASE Exit \/ Crash
  <2>1. Vanish
    BY <1>6 DEF Exit, Crash
  <2>2. scenario' \in ScenarioRecord /\ Len(scenario'.happened) <= scenario'.most
    BY <1>6, MishapHappens DEF Exit, Crash, MishapKinds
  <2>3. cycle' \in [Cycles -> CycleRecord] /\ restore' \in [Restores -> RestoreRecord]
    BY <2>1, NothingIsTyped DEF Vanish
  <2> QED BY <2>1, <2>2, <2>3 DEF Vanish, TypeOK, catalog, policy
<1>7. ASSUME NEW c \in Cycles, BeginRetentionCycle(c) PROVE TypeOK'
  <2> DEFINE k == [NoCycle EXCEPT
            !.pc = "queued",
            !.evaluatedAt = now,
            !.exports = {e \in Exports : export[e].state # "absent"},
            !.segments = Current]
  <2>1. k \in CycleRecord
    <3>1. now \in Nat /\ Current \in SUBSET Segments /\ "queued" \in CycleSteps
      BY DEF TypeOK, Current, CycleSteps
    <3> QED BY <3>1, NothingIsTyped DEF CycleRecord
  <2>2. cycle' = [cycle EXCEPT ![c] = k]
    BY <1>7 DEF BeginRetentionCycle
  <2> HIDE DEF k
  <2> QED BY <1>7, <2>1, <2>2, CycleIsTyped DEF BeginRetentionCycle
<1> QED BY <1>1, <1>2, <1>3, <1>4, <1>5, <1>6, <1>7

\* Types survive the recovery at start.
LEMMA RecoveringIsTyped ==
  ASSUME Pools, TypeOK, Recovery \/ RecoveryFails
  PROVE  TypeOK'
<1> USE TablesStay, PartsOfTypes DEF locks
<1>1. CASE Restart \/ DeletionsRecovered \/ FilesRecovered
  BY <1>1 DEF Restart, DeletionsRecovered, FilesRecovered, Stage, TypeOK, catalog, policy
<1>2. CASE RecoverArchives \/ RecoverRestores \/ RecoverRestoreCleanup
  <2>1. "failed" \in Statuses /\ "completed" \in Statuses
    BY DEF Statuses
  <2>2. TablesTyped'
    BY <1>2, <2>1, ReleasedIsTyped, ClosedIsTyped DEF RecoverArchives, RecoverRestores,
       RecoverRestoreCleanup, RecoverUnpublished, TablesTyped
  <2> QED BY <1>2, <2>2 DEF RecoverArchives, RecoverRestores, RecoverRestoreCleanup,
          RecoverUnpublished, Stage, TypeOK, TablesTyped, policy
<1>3. CASE RecoverDeletions
  BY <1>3, RecoveryIsTyped, PartsAreTyped DEF RecoverDeletions, Running
<1>4. CASE RemoveUnreferencedArchiveFiles
  <2>1. TablesTyped'
    BY <1>4, ErasedIsTyped DEF RemoveUnreferencedArchiveFiles, TablesTyped
  <2> QED BY <1>4, <2>1, PartsAreTyped DEF RemoveUnreferencedArchiveFiles
<1>5. CASE RecoveryFails
  <2>1. scenario' \in ScenarioRecord /\ Len(scenario'.happened) <= scenario'.most
    BY <1>5, MishapHappens DEF RecoveryFails, MishapKinds
  <2> QED BY <1>5, <2>1 DEF RecoveryFails, TypeOK, catalog, policy
<1> QED BY <1>1, <1>2, <1>3, <1>4, <1>5 DEF Recovery

(* The inductive invariant: the rows have their types and agree with     *)
(* each other, the locks are with the goroutines whose steps need them,  *)
(* every cycle and every restore finds what it has claimed, no two of    *)
(* them have the same operation in hand, the files are where the rows    *)
(* say, and a finished stage of the recovery left nothing.               *)
Invariant ==
    /\ TypeOK /\ CatalogInv /\ LocksFit
    /\ \A c \in Cycles : CycleFits(c) /\ PlanFits(c)
    /\ \A r \in Restores : RestoreFits(r)
    /\ HandsApart /\ FilesFit /\ StagesFit

\* Types survive every step.
LEMMA TypesStay == Invariant /\ [Next]_vars => TypeOK'
<1> SUFFICES ASSUME Invariant, [Next]_vars PROVE TypeOK'
  OBVIOUS
<1>1. TypeOK /\ Pools
  BY Pools DEF Invariant
<1>2. ASSUME NEW c \in Cycles, Maintenance(c) PROVE TypeOK'
  <2>1. CycleFits(c) /\ cycle[c].op \in Operations \union {None}
    BY <1>1 DEF Invariant, TypeOK, CycleRecord
  <2>2. cycle[c].pc \in InDeletion => cycle[c].op \in Operations
    BY <2>1 DEF CycleFits
  <2>3. cycle[c].pc = "publish" => cycle[c].groups > 0
    BY <2>1 DEF CycleFits
  <2> QED BY <1>1, <1>2, <2>2, <2>3, PlanningIsTyped, ArchivingIsTyped, DeletionIsTyped DEF Maintenance
<1>3. \A e \in Exports : /\ export[e].state = "archived" => export[e].home # None
                         /\ export[e].home \in Segments \union {None}
  BY <1>1 DEF Invariant, CatalogInv, ExportsFit, ExportFits, TypeOK, ExportRecord
<1>4. ASSUME NEW r \in Restores, Restoring(r) PROVE TypeOK'
  <2>1. RestoreFits(r) /\ restore[r].op \in Operations \union {None} /\ None \notin restore[r].segments
    BY <1>1, Pools DEF Invariant, TypeOK, RestoreRecord, None
  <2>2. restore[r].pc = "verify" =>
           \A e \in Exports : e \in op[restore[r].op].targets => export[e].home \in Segments
    BY <1>1, <1>3, <2>1 DEF RestoreFits, Preparing, TypeOK, RestoreRecord
  <2> QED BY <1>1, <1>3, <1>4, <2>2, ClaimingIsTyped, RestoringIsTyped DEF Restoring
<1>5. ASSUME NEW r \in Restores, NEW scope \in Scopes, RequestRestore(r, scope) PROVE TypeOK'
  BY <1>1, <1>3, <1>5, ClaimingIsTyped
<1>6. CASE UNCHANGED vars
  BY <1>1, <1>6 DEF vars, world, policy, catalog, locks, TypeOK
<1> QED BY <1>1, <1>2, <1>4, <1>5, <1>6, WorldIsTyped, RecoveringIsTyped DEF Next

-----------------------------------------------------------------------------
(* What the turns of a cycle and of a restore change *)

\* What PlanCycle writes to the record of its cycle.
LEMMA CyclePlans ==
  ASSUME TypeOK, NEW c \in Cycles, NEW v \in Nat, NEW w \in SUBSET Segments, NEW n \in Nat,
         cycle' = [cycle EXCEPT ![c].pc = "select", ![c].revision = v, ![c].todo = w,
                                ![c].groups = n]
  PROVE  /\ cycle'[c].pc = "select"
         /\ cycle'[c].evaluatedAt = cycle[c].evaluatedAt /\ cycle'[c].exports = cycle[c].exports
         /\ cycle'[c].segments = cycle[c].segments /\ cycle'[c].revision = v
         /\ cycle'[c].groups = n /\ cycle'[c].todo = w
         /\ cycle'[c].op = cycle[c].op /\ cycle'[c].segment = cycle[c].segment
         /\ \A d \in Cycles : d # c => cycle'[d] = cycle[d]
BY DEF TypeOK, CycleRecord

\* What SelectGroup writes to the record of its cycle.
LEMMA CycleSelects ==
  ASSUME TypeOK, NEW c \in Cycles, NEW group \in SUBSET Exports,
         cycle' = [cycle EXCEPT ![c].pc = "claim", ![c].group = group]
  PROVE  /\ cycle'[c].pc = "claim" /\ SamePlan(c) /\ cycle'[c].group = group
         /\ cycle'[c].groups = cycle[c].groups /\ cycle'[c].todo = cycle[c].todo
         /\ cycle'[c].op = cycle[c].op /\ cycle'[c].segment = cycle[c].segment
         /\ \A d \in Cycles : d # c => cycle'[d] = cycle[d]
BY DEF TypeOK, CycleRecord, SamePlan

\* What ClaimArchive writes to the record of its cycle.
LEMMA CycleClaims ==
  ASSUME TypeOK, NEW c \in Cycles, NEW o \in Operations,
         cycle' = [cycle EXCEPT ![c].pc = "build", ![c].op = o]
  PROVE  /\ cycle'[c].pc = "build" /\ SamePlan(c) /\ cycle'[c].group = cycle[c].group
         /\ cycle'[c].groups = cycle[c].groups /\ cycle'[c].todo = cycle[c].todo
         /\ cycle'[c].op = o /\ cycle'[c].segment = cycle[c].segment
         /\ \A d \in Cycles : d # c => cycle'[d] = cycle[d]
BY DEF TypeOK, CycleRecord, SamePlan

\* What BuildArchive writes to the record of its cycle.
LEMMA CycleBuilds ==
  ASSUME TypeOK, NEW c \in Cycles, NEW s \in Segments,
         cycle' = [cycle EXCEPT ![c].pc = "publish", ![c].segment = s]
  PROVE  /\ cycle'[c].pc = "publish" /\ SamePlan(c) /\ cycle'[c].group = cycle[c].group
         /\ cycle'[c].groups = cycle[c].groups /\ cycle'[c].todo = cycle[c].todo
         /\ cycle'[c].op = cycle[c].op /\ cycle'[c].segment = s
         /\ \A d \in Cycles : d # c => cycle'[d] = cycle[d]
BY DEF TypeOK, CycleRecord, SamePlan

\* What PublishArchive writes to the record of its cycle.
LEMMA CyclePublishes ==
  ASSUME TypeOK, NEW c \in Cycles, cycle[c].groups > 0,
         cycle' = [cycle EXCEPT ![c].pc = "select", ![c].groups = @ - 1, ![c].group = {},
                                ![c].op = None, ![c].segment = None]
  PROVE  /\ cycle'[c].pc = "select" /\ SamePlan(c)
         /\ cycle'[c].groups = cycle[c].groups - 1 /\ cycle'[c].todo = cycle[c].todo
         /\ cycle'[c].op = None
         /\ \A d \in Cycles : d # c => cycle'[d] = cycle[d]
BY DEF TypeOK, CycleRecord, SamePlan, None

\* What the claim of a deletion writes to the record of its cycle.
LEMMA CycleDeletes ==
  ASSUME TypeOK, NEW c \in Cycles, NEW s \in Segments, NEW o \in Operations, ClaimsDeletion(c, s, o)
  PROVE  /\ cycle'[c].pc = "stage" /\ SamePlan(c)
         /\ cycle'[c].op = o /\ cycle'[c].segment = s
         /\ \A d \in Cycles : d # c => cycle'[d] = cycle[d]
BY DEF TypeOK, CycleRecord, SamePlan, ClaimsDeletion

\* A cycle done with a deletion forgets its operation and segment.
LEMMA CycleForgets ==
  ASSUME TypeOK, NEW c \in Cycles,
         cycle' = [cycle EXCEPT ![c].pc = "delete", ![c].op = None, ![c].segment = None]
  PROVE  /\ cycle'[c].pc = "delete" /\ SamePlan(c)
         /\ cycle'[c].op = None
         /\ \A d \in Cycles : d # c => cycle'[d] = cycle[d]
BY DEF TypeOK, CycleRecord, SamePlan, None

\* A cycle begins with the exports and the time of that moment.
LEMMA CycleBegins ==
  ASSUME TypeOK, NEW c \in Cycles, BeginRetentionCycle(c)
  PROVE  /\ cycle'[c].pc = "queued" /\ cycle'[c].evaluatedAt = now
         /\ cycle'[c].op = None
         /\ cycle'[c].exports = {e \in Exports : export[e].state # "absent"}
         /\ \A d \in Cycles : d # c => cycle'[d] = cycle[d]
BY DEF TypeOK, CycleRecord, NoCycle, BeginRetentionCycle

\* A requested restore knows its scope and has claimed nothing.
LEMMA RestoreIsRequested ==
  ASSUME TypeOK, NEW r \in Restores, NEW scope \in Scopes,
         restore' = [restore EXCEPT ![r].pc = "claim", ![r].scope = scope]
  PROVE  /\ restore'[r].pc = "claim" /\ restore'[r].scope = scope
         /\ restore'[r].op = restore[r].op /\ restore'[r].segments = restore[r].segments
         /\ restore'[r].todo = restore[r].todo /\ restore'[r].fresh = restore[r].fresh
         /\ \A q \in Restores : q # r => restore'[q] = restore[q]
BY DEF TypeOK, RestoreRecord

\* A claimed restore knows its operation and its segments.
LEMMA RestoreIsClaimed ==
  ASSUME TypeOK, NEW r \in Restores, NEW o \in Operations, ClaimsRestore(r, o)
  PROVE  /\ restore'[r].pc = "queued" /\ restore'[r].op = o
         /\ restore'[r].segments = ScopeSegments(restore[r].scope)
         /\ restore'[r].fresh = restore[r].fresh
         /\ \A q \in Restores : q # r => restore'[q] = restore[q]
BY DEF TypeOK, RestoreRecord, ClaimsRestore

\* A restore starts with all its segments to verify.
LEMMA RestoreStarts ==
  ASSUME TypeOK, NEW r \in Restores,
         restore' = [restore EXCEPT ![r].pc = "verify", ![r].todo = restore[r].segments]
  PROVE  /\ restore'[r].pc = "verify" /\ SameClaim(r)
         /\ restore'[r].todo = restore[r].segments /\ restore'[r].fresh = restore[r].fresh
         /\ \A q \in Restores : q # r => restore'[q] = restore[q]
BY DEF TypeOK, RestoreRecord, SameClaim

\* A restore turns to its clean-up with all its segments to remove.
LEMMA RestoreCleans ==
  ASSUME TypeOK, NEW r \in Restores,
         restore' = [restore EXCEPT ![r].pc = "clean", ![r].todo = restore[r].segments]
  PROVE  /\ restore'[r].pc = "clean" /\ SameClaim(r)
         /\ restore'[r].todo = restore[r].segments /\ restore'[r].fresh = restore[r].fresh
         /\ \A q \in Restores : q # r => restore'[q] = restore[q]
BY DEF TypeOK, RestoreRecord, SameClaim

\* A restore that ends forgets everything.
LEMMA RestoreEnds ==
  ASSUME TypeOK, NEW r \in Restores, restore' = [restore EXCEPT ![r] = NoRestore]
  PROVE  /\ restore'[r] = NoRestore
         /\ \A q \in Restores : q # r => restore'[q] = restore[q]
BY DEF TypeOK

-----------------------------------------------------------------------------
(* The locks *)

\* A step of cycle c hands the locks over as its next step needs them.
LEMMA CycleKeepsLocks ==
  ASSUME Pools, LocksFit, NEW c \in Cycles, UNCHANGED <<process, closing, restore>>, process = "up",
         \A d \in Cycles : d # c => cycle'[d] = cycle[d],
         mu' = c <=> cycle'[c].pc \notin Sleeping,
         mu' # mu => mu \in {c, Nobody} /\ mu' \in {c, Nobody},
         gate' = c <=> cycle'[c].pc \in Gated,
         gate' # gate => gate \in {c, Nobody} /\ gate' \in {c, Nobody}
  PROVE  LocksFit'
<1>1. \A d \in Cycles : d # c => d \notin {c, Nobody}
  BY DEF Pools
<1>2. \A r \in Restores : r \notin {c, Nobody}
  BY DEF Pools
<1> QED BY <1>1, <1>2 DEF LocksFit

\* A step of restore r hands the locks over as its next step needs them.
LEMMA RestoreKeepsLocks ==
  ASSUME Pools, LocksFit, NEW r \in Restores, UNCHANGED <<process, closing, cycle>>, process = "up",
         \A q \in Restores : q # r => restore'[q] = restore[q],
         mu' = r <=> restore'[r].pc \in Working,
         mu' # mu => mu \in {r, Nobody} /\ mu' \in {r, Nobody},
         gate' = r <=> restore'[r].pc = "claim",
         gate' # gate => gate \in {r, Nobody} /\ gate' \in {r, Nobody}
  PROVE  LocksFit'
<1>1. \A q \in Restores : q # r => q \notin {r, Nobody}
  BY DEF Pools
<1>2. \A c \in Cycles : c \notin {r, Nobody}
  BY DEF Pools
<1> QED BY <1>1, <1>2 DEF LocksFit

\* What the process does not change.
LEMMA LocksStay ==
  LocksFit /\ UNCHANGED <<process, closing, locks, cycle, restore>> => LocksFit'
BY DEF LocksFit, locks

\* The planning of a cycle passes the locks on correctly.
LEMMA PlanningKeepsLocks ==
  ASSUME Pools, TypeOK, LocksFit, NEW c \in Cycles,
         \/ BeginRetentionCycle(c) \/ StartCycle(c) \/ LockResume(c) \/ ResumeRetentionDeletions(c)
         \/ PlanCycle(c) \/ SelectGroup(c)
  PROVE  LocksFit'
<1> USE DEF world, locks, Sleeping, Gated, CycleSteps
<1>0. /\ mu = c <=> cycle[c].pc \notin Sleeping
      /\ gate = c <=> cycle[c].pc \in Gated
      /\ c # Nobody
  BY DEF LocksFit, Pools
<1>e. EndCycle(c) => cycle'[c].pc = "idle"
  BY CycleEnds DEF NoCycle
<1>1. CASE BeginRetentionCycle(c)
  BY <1>0, <1>1, CycleBegins, CycleKeepsLocks DEF BeginRetentionCycle, GateFree
<1>2. CASE StartCycle(c)
  BY <1>0, <1>2, CycleTurns, CycleKeepsLocks DEF StartCycle, At
<1>3. CASE LockResume(c)
  BY <1>0, <1>e, <1>3, CycleTurns, CycleEnds, CycleKeepsLocks DEF LockResume, At, GateFree
<1>4. CASE ResumeRetentionDeletions(c)
  BY <1>0, <1>e, <1>4, CycleTurns, CycleEnds, CycleKeepsLocks, LocksStay
     DEF ResumeRetentionDeletions, At
<1>5. CASE PlanCycle(c)
  <2>1. CASE EndCycle(c)
    BY <1>0, <1>e, <1>5, <2>1, CycleEnds, CycleKeepsLocks DEF PlanCycle, At
  <2>2. CASE ~EndCycle(c)
    <3>1. cycle'[c].pc = "select" /\ \A d \in Cycles : d # c => cycle'[d] = cycle[d]
      <4>1. revision \in Nat
        BY DEF TypeOK
      <4>2. cycle' = [cycle EXCEPT ![c].pc = "select", ![c].revision = revision,
                                   ![c].todo = Deletable(c),
                                   ![c].groups = CountGroups(Archivable(c))]
        BY <1>5, <2>2 DEF PlanCycle
      <4> QED BY <4>1, <4>2, CyclePlans, SetsAreTyped
    <3> QED BY <1>0, <1>5, <2>2, <3>1, CycleKeepsLocks DEF PlanCycle, At
  <2> QED BY <2>1, <2>2
<1>6. CASE SelectGroup(c)
  <2>1. cycle'[c].pc \in {"claim", "delete"} /\ \A d \in Cycles : d # c => cycle'[d] = cycle[d]
    BY <1>6, CycleSelects, CycleTurns, SetsAreTyped DEF SelectGroup
  <2> QED BY <1>0, <1>6, <2>1, CycleKeepsLocks DEF SelectGroup, At
<1> QED BY <1>1, <1>2, <1>3, <1>4, <1>5, <1>6

\* The archiving of a group passes the locks on correctly.
LEMMA ArchivingKeepsLocks ==
  ASSUME Pools, TypeOK, LocksFit, NEW c \in Cycles, CycleFits(c),
         ClaimArchive(c) \/ BuildArchive(c) \/ PublishArchive(c) \/ FailArchive(c)
  PROVE  LocksFit'
<1> USE DEF world, locks, Sleeping, Gated, CycleSteps
<1>0. /\ mu = c <=> cycle[c].pc \notin Sleeping
      /\ gate = c <=> cycle[c].pc \in Gated
      /\ c # Nobody
  BY DEF LocksFit, Pools
<1>e. EndCycle(c) => cycle'[c].pc = "idle"
  BY CycleEnds DEF NoCycle
<1>1. CASE ClaimArchive(c)
  <2>1. CASE EndCycle(c)
    BY <1>0, <1>e, <1>1, <2>1, CycleEnds, CycleKeepsLocks DEF ClaimArchive, At
  <2>2. CASE ~EndCycle(c)
    <3>1. PICK o \in FreshOperation : cycle' = [cycle EXCEPT ![c].pc = "build", ![c].op = o]
      BY <1>1, <2>2 DEF ClaimArchive
    <3>2. cycle'[c].pc = "build" /\ \A d \in Cycles : d # c => cycle'[d] = cycle[d]
      BY <3>1, CycleClaims, FreshAreTyped
    <3> QED BY <1>0, <1>1, <2>2, <3>2, CycleKeepsLocks DEF ClaimArchive, At
  <2> QED BY <2>1, <2>2
<1>2. CASE BuildArchive(c)
  <2>1. cycle'[c].pc \in {"publish", "fail"} /\ \A d \in Cycles : d # c => cycle'[d] = cycle[d]
    BY <1>2, CycleBuilds, CycleTurns, FreshAreTyped DEF BuildArchive
  <2> QED BY <1>0, <1>2, <2>1, CycleKeepsLocks DEF BuildArchive, At
<1>3. CASE PublishArchive(c)
  <2>1. cycle'[c].pc \in {"select", "fail"} /\ \A d \in Cycles : d # c => cycle'[d] = cycle[d]
    <3>1. cycle[c].groups > 0
      BY <1>3 DEF CycleFits, PublishArchive, At
    <3> QED BY <1>3, <3>1, CyclePublishes, CycleTurns DEF PublishArchive
  <2> QED BY <1>0, <1>3, <2>1, CycleKeepsLocks DEF PublishArchive, At
<1>4. CASE FailArchive(c)
  BY <1>0, <1>e, <1>4, CycleEnds, CycleKeepsLocks DEF FailArchive, At
<1> QED BY <1>1, <1>2, <1>3, <1>4

\* A deletion passes the locks on correctly.
LEMMA DeletionKeepsLocks ==
  ASSUME Pools, TypeOK, LocksFit, NEW c \in Cycles,
         \/ ClaimDeletion(c) \/ StageDeletion(c) \/ PublishStaged(c) \/ Cutover(c)
         \/ AbandonCutover(c) \/ WithdrawDeletion(c) \/ RemoveContent(c) \/ PublishRemoved(c)
         \/ PublishDeleted(c) \/ ConvergeDeletion(c)
  PROVE  LocksFit'
<1> USE DEF world, locks, Sleeping, Gated, CycleSteps
<1>0. /\ mu = c <=> cycle[c].pc \notin Sleeping
      /\ gate = c <=> cycle[c].pc \in Gated
      /\ c # Nobody
  BY DEF LocksFit, Pools
<1>e. EndCycle(c) => cycle'[c].pc = "idle"
  BY CycleEnds DEF NoCycle
<1>f. cycle' = [cycle EXCEPT ![c].pc = "delete", ![c].op = None, ![c].segment = None] =>
      cycle'[c].pc = "delete" /\ \A d \in Cycles : d # c => cycle'[d] = cycle[d]
  BY CycleForgets
<1>1. CASE ClaimDeletion(c)
  <2>1. CASE EndCycle(c)
    BY <1>0, <1>e, <1>1, <2>1, CycleEnds, CycleKeepsLocks, ClaimDeletionParts DEF At
  <2>2. CASE ~EndCycle(c)
    <3>1. PICK s \in cycle[c].todo, o \in FreshOperation : ClaimsDeletion(c, s, o)
      BY <1>1, <2>2, ClaimDeletionParts
    <3>2. s \in Segments
      BY DEF TypeOK, CycleRecord
    <3>3. cycle'[c].pc = "stage" /\ \A d \in Cycles : d # c => cycle'[d] = cycle[d]
      BY <3>1, <3>2, CycleDeletes, FreshAreTyped
    <3> QED BY <1>0, <1>1, <2>2, <3>3, CycleKeepsLocks, ClaimDeletionParts DEF At, GateFree
  <2> QED BY <2>1, <2>2
<1>2. CASE StageDeletion(c)
  BY <1>0, <1>e, <1>2, CycleEnds, CycleTurns, CycleKeepsLocks DEF StageDeletion, At, Converge
<1>3. CASE PublishStaged(c)
  BY <1>0, <1>3, CycleTurns, CycleKeepsLocks DEF PublishStaged, At, Converge
<1>4. CASE Cutover(c)
  BY <1>0, <1>4, <1>f, CycleTurns, CycleKeepsLocks DEF Cutover, At, GateFree
<1>5. CASE AbandonCutover(c)
  BY <1>0, <1>e, <1>5, CycleEnds, CycleKeepsLocks DEF AbandonCutover, At
<1>6. CASE WithdrawDeletion(c)
  BY <1>0, <1>f, <1>6, CycleTurns, CycleKeepsLocks, LocksStay DEF WithdrawDeletion, At, Converge
<1>7. CASE RemoveContent(c)
  BY <1>0, <1>7, CycleTurns, CycleKeepsLocks DEF RemoveContent, At, Converge
<1>8. CASE PublishRemoved(c)
  BY <1>0, <1>8, CycleTurns, CycleKeepsLocks DEF PublishRemoved, At, Converge
<1>9. CASE PublishDeleted(c)
  BY <1>0, <1>f, <1>9, CycleTurns, CycleKeepsLocks DEF PublishDeleted, At, Converge
<1>10. CASE ConvergeDeletion(c)
  BY <1>0, <1>e, <1>10, CycleEnds, CycleKeepsLocks, LocksStay DEF ConvergeDeletion, At
<1> QED BY <1>1, <1>2, <1>3, <1>4, <1>5, <1>6, <1>7, <1>8, <1>9, <1>10

\* A restore passes the locks on correctly.
LEMMA RestoringKeepsLocks ==
  ASSUME Pools, TypeOK, LocksFit, NEW r \in Restores,
         Restoring(r) \/ \E scope \in Scopes : RequestRestore(r, scope)
  PROVE  LocksFit'
<1> USE DEF world, locks, Working, RestoreSteps, RestoreAt
<1>0. /\ mu = r <=> restore[r].pc \in Working
      /\ gate = r <=> restore[r].pc = "claim"
      /\ r # Nobody
  BY DEF LocksFit, Pools
<1>e. restore' = [restore EXCEPT ![r] = NoRestore] =>
      restore'[r].pc = "idle" /\ \A q \in Restores : q # r => restore'[q] = restore[q]
  <2>1. NoRestore.pc = "idle"
    BY DEF NoRestore
  <2> QED BY <2>1, RestoreEnds
<1>1. CASE FinishCommittedDeletions(r)
  BY <1>1, LocksStay DEF FinishCommittedDeletions
<1>2. CASE PreemptDeletion(r)
  BY <1>2, LocksStay DEF PreemptDeletion
<1>3. CASE ClaimRestore(r)
  <2>1. PICK o \in FreshOperation : ClaimsRestore(r, o)
    BY <1>3, ClaimRestoreParts
  <2>2. restore'[r].pc = "queued" /\ \A q \in Restores : q # r => restore'[q] = restore[q]
    BY <2>1, RestoreIsClaimed, FreshAreTyped
  <2> QED BY <1>0, <1>3, <2>2, RestoreKeepsLocks, ClaimRestoreParts
<1>4. CASE RefuseRestore(r)
  BY <1>0, <1>e, <1>4, RestoreKeepsLocks DEF RefuseRestore, ClaimOver
<1>5. CASE StartRestore(r)
  <2>1. restore'[r].pc \in {"verify", "fail"} /\ \A q \in Restores : q # r => restore'[q] = restore[q]
    BY <1>5, RestoreTurns, RestoreStarts DEF StartRestore
  <2> QED BY <1>0, <1>5, <2>1, RestoreKeepsLocks DEF StartRestore
<1>6. CASE VerifySegment(r)
  <2>1. restore[r].todo \in SUBSET Segments
    BY DEF TypeOK, RestoreRecord
  <2>2. restore'[r].pc = "verify" /\ \A q \in Restores : q # r => restore'[q] = restore[q]
    BY <1>6, <2>1, OneLess, OneReplaced, FreshAreTyped DEF VerifySegment
  <2> QED BY <1>0, <1>6, <2>2, RestoreKeepsLocks DEF VerifySegment
<1>7. CASE VerificationFails(r)
  BY <1>0, <1>7, RestoreTurns, RestoreKeepsLocks DEF VerificationFails
<1>8. CASE PublishRestore(r)
  BY <1>0, <1>8, RestoreCleans, RestoreKeepsLocks DEF PublishRestore
<1>9. CASE PreparationFails(r)
  BY <1>0, <1>9, RestoreTurns, RestoreKeepsLocks DEF PreparationFails
<1>10. CASE DropReplacements(r)
  BY <1>0, <1>10, RestoreTurns, RestoreKeepsLocks DEF DropReplacements
<1>11. CASE FailRestore(r)
  BY <1>0, <1>e, <1>11, RestoreKeepsLocks DEF FailRestore, RestoreOver
<1>12. CASE RemovePublishedArchive(r)
  BY <1>0, <1>12, OneLess, RestoreKeepsLocks DEF RemovePublishedArchive
<1>13. CASE CompleteRestore(r)
  BY <1>0, <1>e, <1>13, RestoreKeepsLocks DEF CompleteRestore, RestoreOver
<1>14. CASE AbandonCleanup(r)
  BY <1>0, <1>e, <1>14, RestoreKeepsLocks DEF AbandonCleanup, RestoreOver
<1>15. ASSUME NEW scope \in Scopes, RequestRestore(r, scope) PROVE LocksFit'
  <2>1. restore'[r].pc = "claim" /\ \A q \in Restores : q # r => restore'[q] = restore[q]
    BY <1>15, RestoreIsRequested DEF RequestRestore
  <2> QED BY <1>0, <1>15, <2>1, RestoreKeepsLocks DEF RequestRestore, GateFree
<1> QED BY <1>1, <1>2, <1>3, <1>4, <1>5, <1>6, <1>7, <1>8, <1>9, <1>10, <1>11, <1>12, <1>13,
           <1>14, <1>15 DEF Restoring

\* Every step passes the locks on correctly: mu and gate have one holder each.
LEMMA LocksKept == Invariant /\ [Next]_vars => LocksFit'
<1> SUFFICES ASSUME Invariant, [Next]_vars PROVE LocksFit'
  OBVIOUS
<1>1. TypeOK /\ LocksFit /\ Pools /\ \A c \in Cycles : CycleFits(c)
  BY Pools DEF Invariant
<1>2. ASSUME NEW c \in Cycles, BeginRetentionCycle(c) \/ Maintenance(c) PROVE LocksFit'
  BY <1>1, <1>2, PlanningKeepsLocks, ArchivingKeepsLocks, DeletionKeepsLocks DEF Maintenance
<1>3. ASSUME NEW r \in Restores,
             Restoring(r) \/ \E scope \in Scopes : RequestRestore(r, scope)
      PROVE  LocksFit'
  BY <1>1, <1>3, RestoringKeepsLocks
<1>4. CASE \/ Tick \/ (\E e \in Exports : Receive(e))
           \/ (\E enabled \in BOOLEAN : UpdateRetentionPolicy(enabled))
           \/ (\E s \in Segments : Damage(s))
  BY <1>1, <1>4, LocksStay DEF Tick, Receive, UpdateRetentionPolicy, Damage
<1>5. CASE Close
  BY <1>1, <1>5 DEF Close, LocksFit, locks
<1>6. CASE Exit \/ Crash
  <2>1. Vanish
    BY <1>6 DEF Exit, Crash
  <2>2. /\ \A c \in Cycles : cycle'[c] = NoCycle
        /\ \A r \in Restores : restore'[r] = NoRestore
        /\ gate' = Nobody /\ mu' = Nobody /\ ~closing'
    BY <2>1 DEF Vanish
  <2>3. NoCycle.pc = "idle" /\ NoRestore.pc = "idle"
    BY DEF NoCycle, NoRestore
  <2>4. Nobody \notin Cycles /\ Nobody \notin Restores
    BY <1>1 DEF Pools
  <2> QED BY <2>2, <2>3, <2>4 DEF LocksFit, Sleeping, Gated, Working
<1>7. CASE Recovery \/ RecoveryFails
  <2>1. process # "up" /\ UNCHANGED <<closing, locks, cycle, restore>>
    BY <1>7 DEF Recovery, RecoveryFails, Restart, RecoverArchives, RecoverRestores, RecoverUnpublished,
       RecoverDeletions, DeletionsRecovered, RemoveUnreferencedArchiveFiles, FilesRecovered,
       RecoverRestoreCleanup, Stage, world
  <2> QED BY <1>1, <2>1 DEF LocksFit, locks
<1>8. CASE UNCHANGED vars
  BY <1>1, <1>8, LocksStay DEF vars, world
<1> QED BY <1>2, <1>3, <1>4, <1>5, <1>6, <1>7, <1>8 DEF Next

-----------------------------------------------------------------------------
(* The catalog *)

\* Files come and go, and time passes, without the catalog.
LEMMA FilesLeaveCatalog ==
  ASSUME TypeOK, CatalogInv, UNCHANGED <<export, op>>, now' \in Nat, now <= now',
         \A s \in Segments : segment'[s].state = segment[s].state
  PROVE  CatalogInv'
<1>1. ExportsFit' /\ OwnedTogether'
  <2>1. \A e \in Exports : export[e].home \in Segments \union {None}
    BY DEF TypeOK, ExportRecord
  <2> QED BY <2>1 DEF CatalogInv, ExportsFit, ExportFits, OwnedTogether
<1>2. SegmentsFit'
  BY DEF CatalogInv, SegmentsFit
<1>3. OperationsFit'
  <2> SUFFICES ASSUME NEW o \in Operations, op[o].status = "running"
               PROVE  /\ op[o].kind = "archive" => Archives(o)'
                      /\ op[o].kind = "delete" /\ Deletes(o) => Deletes(o)'
                      /\ op[o].kind = "restore" /\ Reinstates(o) => Reinstates(o)'
    BY DEF CatalogInv, OperationsFit, OperationFits
  <2>1. op[o].kind = "archive" => Archives(o)'
    BY DEF CatalogInv, OperationsFit, OperationFits, Archives
  <2>2. Reinstates(o) => Reinstates(o)'
    BY DEF Reinstates
  <2>3. Deletes(o) => Deletes(o)'
    <3>1. \A e \in Exports : export[e].received \in Nat
      BY DEF TypeOK, ExportRecord
    <3>2. DeleteDays \in Nat /\ now \in Nat /\ op[o].targets \in SUBSET Exports
      BY PolicyDays DEF TypeOK, OperationRecord
    <3> QED BY <3>1, <3>2 DEF Deletes
  <2> QED BY <2>1, <2>2, <2>3
<1> QED BY <1>1, <1>2, <1>3 DEF CatalogInv

\* What follows from the catalog for the owner of an export.
LEMMA OwnersRun ==
  ASSUME Pools, TypeOK, CatalogInv, NEW e \in Exports
  PROVE  /\ \A o \in Operations :
               op[o].status = "running" => (export[e].owner = o <=> e \in op[o].targets)
         /\ export[e].owner # None =>
               export[e].owner \in Operations /\ op[export[e].owner].status = "running"
         /\ export[e].state \in {"absent", "deleted"} => export[e].owner = None
<1>1. export[e].owner \in Operations \union {None} /\ export[e].home \in Segments \union {None}
  BY DEF TypeOK, ExportRecord
<1>2. \A o \in Operations : op[o].targets \in SUBSET Exports /\ o # None
  BY Pools DEF TypeOK, OperationRecord, None
<1>3. ASSUME NEW o \in Operations, op[o].status = "running"
      PROVE  export[e].owner = o <=> e \in op[o].targets
  BY <1>2, <1>3 DEF CatalogInv, ExportsFit, ExportFits, OperationsFit, OperationFits
<1>4. export[e].owner # None =>
         export[e].owner \in Operations /\ op[export[e].owner].status = "running"
  BY <1>1 DEF CatalogInv, ExportsFit, ExportFits
<1>5. ASSUME export[e].owner # None PROVE export[e].state \in {"active", "archived"}
  <2> DEFINE o == export[e].owner
  <2>1. o \in Operations /\ op[o].status = "running" /\ e \in op[o].targets
    BY <1>1, <1>4, <1>5 DEF CatalogInv, ExportsFit, ExportFits
  <2>2. CASE op[o].kind = "archive" /\ Archives(o)
    BY <2>1, <2>2 DEF Archives
  <2>3. CASE op[o].kind = "delete" /\ Deletes(o)
    <3>1. export[e].home # None
      BY <1>2, <2>1, <2>3, Pools DEF Deletes, None
    <3> QED BY <3>1 DEF CatalogInv, ExportsFit, ExportFits
  <2>4. CASE op[o].kind = "restore" /\ Reinstates(o)
    BY <2>1, <2>4 DEF Reinstates
  <2> QED BY <2>1, <2>2, <2>3, <2>4 DEF CatalogInv, OperationsFit, OperationFits
<1> QED BY <1>3, <1>4, <1>5

\* A fresh operation is given exports nobody owns.
LEMMA ClaimKeepsCatalog ==
  ASSUME Pools, TypeOK, CatalogInv, UNCHANGED <<segment, now>>,
         NEW o \in Operations, op[o].status # "running",
         op'[o].status = "running", op'[o].targets \in SUBSET Exports, op'[o].targets # {},
         \A p \in Operations : p # o => op'[p] = op[p],
         \A e \in Exports : SameBut(e, IF e \in op'[o].targets THEN o ELSE export[e].owner),
         \A e \in op'[o].targets : export[e].owner = None,
         \A e, f \in Exports :
            export[e].home = export[f].home /\ export[e].home # None =>
               (e \in op'[o].targets <=> f \in op'[o].targets),
         \/ op'[o].kind = "archive" /\ Archives(o)'
         \/ op'[o].kind = "delete" /\ Deletes(o)'
  PROVE  CatalogInv'
<1>b. \A e \in Exports :
         /\ export'[e].state = export[e].state /\ export'[e].received = export[e].received
         /\ export'[e].hold = export[e].hold /\ export'[e].home = export[e].home
         /\ export'[e].owner = IF e \in op'[o].targets THEN o ELSE export[e].owner
  BY DEF SameBut
<1>0. o # None /\ \A e \in Exports : export[e].home \in Segments \union {None}
  BY DEF TypeOK, ExportRecord, Pools, None
<1>1. ExportsFit'
  <2> SUFFICES ASSUME NEW e \in Exports
               PROVE  /\ export'[e].state = "archived" <=> export'[e].home # None
                      /\ export'[e].home # None => segment'[export'[e].home].state = "current"
                      /\ export'[e].owner # None =>
                            op'[export'[e].owner].status = "running" /\ e \in op'[export'[e].owner].targets
                      /\ export'[e].state = "archived" => export'[e].hold = 0
    BY DEF ExportsFit, ExportFits
  <2>0. /\ export[e].state = "archived" <=> export[e].home # None
        /\ export[e].home # None => segment[export[e].home].state = "current"
        /\ export[e].owner # None =>
              op[export[e].owner].status = "running" /\ e \in op[export[e].owner].targets
        /\ export[e].state = "archived" => export[e].hold = 0
    BY DEF CatalogInv, ExportsFit, ExportFits
  <2>1. CASE e \in op'[o].targets
    BY <1>0, <1>b, <2>0, <2>1
  <2>2. CASE e \notin op'[o].targets
    <3>1. export[e].owner # None => export[e].owner \in Operations /\ export[e].owner # o
      BY OwnersRun
    <3>2. export'[e].owner = export[e].owner /\ export'[e].home = export[e].home
          /\ export'[e].state = export[e].state /\ export'[e].hold = export[e].hold
      BY <1>b, <2>2
    <3>3. export[e].owner # None => op'[export[e].owner] = op[export[e].owner]
      BY <3>1
    <3> QED BY <2>0, <3>2, <3>3
  <2> QED BY <2>1, <2>2
<1>2. SegmentsFit'
  BY <1>b DEF CatalogInv, SegmentsFit
<1>3. OwnedTogether'
  BY <1>b DEF CatalogInv, OwnedTogether
<1>4. ASSUME NEW p \in Operations, op'[p].status = "running"
      PROVE  /\ op'[p].targets # {}
             /\ \A e \in op'[p].targets : export'[e].owner = p
             /\ \/ op'[p].kind = "archive" /\ Archives(p)'
                \/ op'[p].kind = "delete" /\ Deletes(p)'
                \/ op'[p].kind = "restore" /\ Reinstates(p)'
  <2>1. CASE p = o
    BY <1>b, <2>1
  <2>2. CASE p # o
    <3>1. /\ op'[p] = op[p] /\ op[p].status = "running"
          /\ op[p].targets \in SUBSET Exports
          /\ \A e \in op[p].targets : export[e].owner = p /\ e \notin op'[o].targets
      BY <1>4, <2>2, Pools DEF CatalogInv, OperationsFit, OperationFits, TypeOK, OperationRecord, None
    <3>2. Archives(p) => Archives(p)'
      BY <1>b, <3>1 DEF Archives
    <3>3. Deletes(p) => Deletes(p)'
      BY <1>b, <3>1, ZenonT(40) DEF Deletes
    <3>4. Reinstates(p) => Reinstates(p)'
      <4>1. \A e \in op[p].targets : e \in Exports /\ export'[e].state = export[e].state
        BY <1>b, <3>1
      <4> QED BY <3>1, <4>1 DEF Reinstates
    <3>5. /\ op[p].targets # {}
          /\ \/ op[p].kind = "archive" /\ Archives(p)
             \/ op[p].kind = "delete" /\ Deletes(p)
             \/ op[p].kind = "restore" /\ Reinstates(p)
      BY <3>1 DEF CatalogInv, OperationsFit, OperationFits
    <3>6. \A e \in op[p].targets : export'[e].owner = p
      BY <1>b, <3>1
    <3> QED BY <3>1, <3>2, <3>3, <3>4, <3>5, <3>6
  <2> QED BY <2>1, <2>2
<1> QED BY <1>1, <1>2, <1>3, <1>4 DEF CatalogInv, OperationsFit, OperationFits

\* Operations end and give up what they own.
LEMMA ReleaseKeepsCatalog ==
  ASSUME Pools, TypeOK, CatalogInv, UNCHANGED now, NEW ops, NEW status \in Statuses, status # "running",
         export' = Released(ops), op' = Closed(ops, status), None \notin ops,
         \A s \in Segments : segment'[s].state = segment[s].state
  PROVE  CatalogInv'
<1>0. \A o \in Operations : IF o \in ops THEN op'[o].status = status ELSE op'[o] = op[o]
  BY ClosedIsTyped
<1>b. \A e \in Exports :
         /\ export'[e].state = export[e].state /\ export'[e].received = export[e].received
         /\ export'[e].hold = export[e].hold /\ export'[e].home = export[e].home
         /\ export'[e].owner = IF export[e].owner \in ops THEN None ELSE export[e].owner
  BY ReleasedIsTyped DEF SameBut
<1>h. \A e \in Exports : export[e].home \in Segments \union {None}
  BY DEF TypeOK, ExportRecord
<1>1. ExportsFit'
  <2>1. ASSUME NEW e \in Exports, export'[e].owner # None
        PROVE  op'[export'[e].owner].status = "running" /\ e \in op'[export'[e].owner].targets
    <3>1. export[e].owner # None /\ export[e].owner \notin ops /\ export'[e].owner = export[e].owner
      BY <1>b, <2>1
    <3>2. /\ export[e].owner \in Operations /\ op[export[e].owner].status = "running"
          /\ e \in op[export[e].owner].targets
      BY <3>1, OwnersRun
    <3> QED BY <1>0, <3>1, <3>2
  <2>2. ASSUME NEW e \in Exports
        PROVE  /\ export'[e].state = "archived" <=> export'[e].home # None
               /\ export'[e].home # None => segment'[export'[e].home].state = "current"
               /\ export'[e].state = "archived" => export'[e].hold = 0
    <3>1. /\ export[e].state = "archived" <=> export[e].home # None
          /\ export[e].home # None => segment[export[e].home].state = "current"
          /\ export[e].state = "archived" => export[e].hold = 0
      BY DEF CatalogInv, ExportsFit, ExportFits
    <3>2. export[e].home # None => segment'[export[e].home].state = segment[export[e].home].state
      BY <1>h
    <3> QED BY <1>b, <3>1, <3>2
  <2> QED BY <2>1, <2>2 DEF ExportsFit, ExportFits
<1>2. SegmentsFit'
  BY <1>b DEF CatalogInv, SegmentsFit
<1>3. OwnedTogether'
  BY <1>b DEF CatalogInv, OwnedTogether
<1>4. ASSUME NEW p \in Operations, op'[p].status = "running"
      PROVE  /\ op'[p].targets # {}
             /\ \A e \in op'[p].targets : export'[e].owner = p
             /\ \/ op'[p].kind = "archive" /\ Archives(p)'
                \/ op'[p].kind = "delete" /\ Deletes(p)'
                \/ op'[p].kind = "restore" /\ Reinstates(p)'
  <2>1. /\ op'[p] = op[p] /\ op[p].status = "running" /\ p \notin ops
        /\ op[p].targets \in SUBSET Exports
    BY <1>0, <1>4 DEF TypeOK, OperationRecord
  <2>2. Archives(p) => Archives(p)'
    BY <1>b, <2>1 DEF Archives
  <2>3. Deletes(p) => Deletes(p)'
    <3>1. \A e \in Exports : export'[e].home = export[e].home /\ export'[e].received = export[e].received
      BY <1>b
    <3>2. op[p].segment \in Segments => segment'[op[p].segment].state = segment[op[p].segment].state
      OBVIOUS
    <3> QED BY <2>1, <3>1, <3>2 DEF Deletes
  <2>4. Reinstates(p) => Reinstates(p)'
    <3>1. \A e \in op[p].targets : e \in Exports /\ export'[e].state = export[e].state
      BY <1>b, <2>1
    <3> QED BY <2>1, <3>1 DEF Reinstates
  <2>5. /\ op[p].targets # {}
        /\ \A e \in op[p].targets : export[e].owner = p
        /\ \/ op[p].kind = "archive" /\ Archives(p)
           \/ op[p].kind = "delete" /\ Deletes(p)
           \/ op[p].kind = "restore" /\ Reinstates(p)
    BY <2>1 DEF CatalogInv, OperationsFit, OperationFits
  <2>6. \A e \in op[p].targets : export'[e].owner = p
    BY <1>b, <2>1, <2>5
  <2> QED BY <2>1, <2>2, <2>3, <2>4, <2>5, <2>6
<1> QED BY <1>1, <1>2, <1>3, <1>4 DEF CatalogInv, OperationsFit, OperationFits

\* An operation that a step leaves alone, and what it needs for that.
LEMMA OthersFit ==
  ASSUME TypeOK, CatalogInv, UNCHANGED now, NEW p \in Operations, op[p].status = "running", op'[p] = op[p],
         \A e \in op[p].targets :
            /\ export'[e].state = export[e].state /\ export'[e].owner = export[e].owner
            /\ export'[e].received = export[e].received,
         op[p].kind = "delete" =>
            /\ segment'[op[p].segment].state = "current"
            /\ \A e \in Exports : export'[e].home = op[p].segment <=> export[e].home = op[p].segment
  PROVE  OperationFits(p)'
<1>0. OperationFits(p) /\ op[p].targets \in SUBSET Exports
  BY DEF CatalogInv, OperationsFit, TypeOK, OperationRecord
<1>1. CASE op[p].kind = "archive" /\ Archives(p)
  BY <1>0, <1>1 DEF OperationFits, Archives
<1>2. CASE op[p].kind = "delete" /\ Deletes(p)
  <2>1. Deletes(p)'
    BY <1>0, <1>2 DEF Deletes
  <2> QED BY <1>0, <1>2, <2>1 DEF OperationFits
<1>3. CASE op[p].kind = "restore" /\ Reinstates(p)
  <2>1. Reinstates(p)'
    BY <1>0, <1>3 DEF Reinstates
  <2> QED BY <1>0, <1>3, <2>1 DEF OperationFits
<1> QED BY <1>0, <1>1, <1>2, <1>3 DEF OperationFits

\* A running deletion goes on.
LEMMA PhaseKeepsCatalog ==
  ASSUME Pools, TypeOK, CatalogInv, UNCHANGED <<export, now>>, NEW o \in Operations,
         op[o].status = "running", op[o].kind = "delete",
         NEW phase \in BeforeCutover \union AfterCutover, op' = [op EXCEPT ![o].phase = phase],
         \A s \in Segments : segment'[s].state = segment[s].state
  PROVE  CatalogInv'
<1>0. phase \in Phases
  BY DEF Phases
<1>1. /\ \A p \in Operations : p # o => op'[p] = op[p]
      /\ op'[o].status = "running" /\ op'[o].kind = "delete" /\ op'[o].phase = phase
      /\ op'[o].targets = op[o].targets /\ op'[o].segment = op[o].segment
  BY <1>0, PhaseIsTyped DEF TypeOK, OperationRecord
<1>2. ExportsFit'
  <2> SUFFICES ASSUME NEW e \in Exports PROVE ExportFits(e)'
    BY DEF ExportsFit
  <2>1. ExportFits(e) /\ export[e].home \in Segments \union {None}
        /\ export[e].owner \in Operations \union {None}
    BY DEF CatalogInv, ExportsFit, TypeOK, ExportRecord
  <2>2. export[e].owner # None => /\ op'[export[e].owner].status = "running"
                                  /\ e \in op'[export[e].owner].targets
    BY <1>1, <2>1 DEF ExportFits
  <2>3. export[e].home # None => segment'[export[e].home].state = "current"
    BY <2>1 DEF ExportFits
  <2> QED BY <2>1, <2>2, <2>3 DEF ExportFits
<1>3. SegmentsFit' /\ OwnedTogether'
  BY DEF CatalogInv, SegmentsFit, OwnedTogether
<1>4. ASSUME NEW p \in Operations, op'[p].status = "running" PROVE OperationFits(p)'
  <2>0. op[p].status = "running" /\ OperationFits(p)
    BY <1>1, <1>4 DEF CatalogInv, OperationsFit
  <2>1. CASE p = o
    <3>1. Deletes(o) /\ op[o].targets \in SUBSET Exports
      BY <2>0, <2>1 DEF OperationFits, TypeOK, OperationRecord
    <3>2. Deletes(o)'
      BY <1>1, <3>1 DEF Deletes
    <3> QED BY <1>1, <2>0, <2>1, <3>2 DEF OperationFits
  <2>2. CASE p # o
    <3>1. op[p].kind = "delete" =>
            /\ segment'[op[p].segment].state = "current"
            /\ \A e \in Exports : export'[e].home = op[p].segment <=> export[e].home = op[p].segment
      BY <2>0 DEF OperationFits, Deletes
    <3> QED BY <1>1, <2>0, <2>2, <3>1, OthersFit
  <2> QED BY <2>1, <2>2
<1> QED BY <1>2, <1>3, <1>4 DEF CatalogInv, OperationsFit

\* Exports of different operations do not meet in a segment.
LEMMA DeletionsAreApart ==
  ASSUME Pools, TypeOK, CatalogInv, NEW o \in Operations, op[o].status = "running", op[o].kind = "delete"
  PROVE  /\ op[o].segment \in Segments /\ segment[op[o].segment].state = "current"
         /\ op[o].targets \in SUBSET Exports /\ op[o].targets # {}
         /\ \A e \in Exports : export[e].home = op[o].segment <=> e \in op[o].targets
         /\ \A e \in Exports : export[e].owner = o <=> e \in op[o].targets
         /\ \A p \in Operations :
               op[p].status = "running" /\ op[p].kind = "delete" /\ op[p].segment = op[o].segment => p = o
<1>1. \A p \in Operations : op[p].status = "running" /\ op[p].kind = "delete" =>
         /\ op[p].segment \in Segments /\ segment[op[p].segment].state = "current"
         /\ op[p].targets \in SUBSET Exports /\ op[p].targets # {}
         /\ \A e \in Exports : e \in op[p].targets <=> export[e].home = op[p].segment
  BY DEF CatalogInv, OperationsFit, OperationFits, Deletes, TypeOK, OperationRecord
<1>2. \A p \in Operations : op[p].status = "running" =>
         \A e \in Exports : export[e].owner = p <=> e \in op[p].targets
  BY OwnersRun
<1>3. PICK e \in Exports : e \in op[o].targets
  BY <1>1
<1> QED BY <1>1, <1>2, <1>3

\* A completed deletion leaves a catalog that is consistent.
LEMMA CompletionKeepsCatalog ==
  ASSUME Pools, TypeOK, CatalogInv, UNCHANGED now, NEW o \in Operations,
         op[o].status = "running", op[o].kind = "delete", CompleteDeletion(o)
  PROVE  CatalogInv'
<1> DEFINE s == op[o].segment
<1>0. o # None /\ s # None /\ s \in Segments
  BY DeletionsAreApart, Pools DEF None
<1>1. \A e \in Exports :
         /\ e \in op[o].targets => /\ export'[e].state = "deleted" /\ export'[e].home = None
                                   /\ export'[e].owner = None
         /\ e \notin op[o].targets => /\ export'[e].state = export[e].state
                                      /\ export'[e].hold = export[e].hold
                                      /\ export'[e].home = export[e].home
                                      /\ export'[e].owner = export[e].owner
         /\ export'[e].received = export[e].received
  BY CompletionIsTyped, DeletionsAreApart
<1>2. segment'[s].state = "deleted" /\ \A t \in Segments : t # s => segment'[t] = segment[t]
  BY <1>0, CompletionIsTyped
<1>3. op'[o].status = "completed" /\ \A p \in Operations : p # o => op'[p] = op[p]
  BY CompletionIsTyped
<1> HIDE DEF s
<1>4. \A e \in Exports : export[e].home = s <=> e \in op[o].targets
  BY DeletionsAreApart DEF s
<1>5. ExportsFit'
  <2> SUFFICES ASSUME NEW e \in Exports PROVE ExportFits(e)'
    BY DEF ExportsFit
  <2>1. ExportFits(e) /\ export[e].home \in Segments \union {None}
    BY DEF CatalogInv, ExportsFit, TypeOK, ExportRecord
  <2>2. CASE e \in op[o].targets
    BY <1>1, <2>2 DEF ExportFits
  <2>3. CASE e \notin op[o].targets
    <3>1. export[e].home # s /\ (export[e].home # None => segment'[export[e].home].state = "current")
      BY <1>2, <1>4, <2>1, <2>3 DEF ExportFits
    <3>2. export[e].owner # None => /\ export[e].owner \in Operations /\ export[e].owner # o
      BY <2>3, OwnersRun
    <3>3. export[e].owner # None => op'[export[e].owner] = op[export[e].owner]
      BY <1>3, <3>2
    <3> QED BY <1>1, <2>1, <2>3, <3>1, <3>3 DEF ExportFits
  <2> QED BY <2>2, <2>3
<1>6. SegmentsFit'
  <2> SUFFICES ASSUME NEW t \in Segments, segment'[t].state = "current"
               PROVE  \E e \in Exports : export'[e].home = t
    BY DEF SegmentsFit
  <2>1. t # s /\ segment[t].state = "current"
    BY <1>2
  <2>2. PICK e \in Exports : export[e].home = t
    BY <2>1 DEF CatalogInv, SegmentsFit
  <2>3. e \notin op[o].targets
    BY <1>4, <2>1, <2>2
  <2> QED BY <1>1, <2>2, <2>3
<1>7. OwnedTogether'
  BY <1>1 DEF CatalogInv, OwnedTogether
<1>8. ASSUME NEW p \in Operations, op'[p].status = "running" PROVE OperationFits(p)'
  <2>1. p # o /\ op'[p] = op[p] /\ op[p].status = "running" /\ op[p].targets \in SUBSET Exports
    BY <1>3, <1>8 DEF TypeOK, OperationRecord
  <2>2. ASSUME NEW e \in op[p].targets PROVE e \in Exports /\ e \notin op[o].targets
    <3>1. e \in Exports
      BY <2>1
    <3>2. export[e].owner = p
      BY <2>1, <3>1, OwnersRun
    <3>3. export[e].owner = o <=> e \in op[o].targets
      BY <3>1, OwnersRun
    <3> QED BY <2>1, <3>1, <3>2, <3>3
  <2>3. op[p].kind = "delete" =>
            /\ segment'[op[p].segment].state = "current"
            /\ \A e \in Exports : export'[e].home = op[p].segment <=> export[e].home = op[p].segment
    <3>1. op[p].kind = "delete" => /\ op[p].segment \in Segments /\ op[p].segment # s
                                   /\ segment[op[p].segment].state = "current"
                                   /\ op[p].segment # None
      BY <2>1, DeletionsAreApart, Pools DEF s, None
    <3> QED BY <1>1, <1>2, <1>4, <3>1
  <2> QED BY <1>1, <2>1, <2>2, <2>3, OthersFit
<1> QED BY <1>5, <1>6, <1>7, <1>8 DEF CatalogInv, OperationsFit

\* What follows from the catalog for the home of an export.
LEMMA HomesAreCurrent ==
  ASSUME Pools, TypeOK, CatalogInv
  PROVE  /\ None \notin Segments /\ None \notin Operations
         /\ \A e \in Exports :
               /\ export[e].home \in Segments \union {None}
               /\ export[e].state = "archived" <=> export[e].home # None
               /\ export[e].state = "archived" => export[e].hold = 0
               /\ export[e].home # None => segment[export[e].home].state = "current"
BY DEF Pools, None, CatalogInv, ExportsFit, ExportFits, TypeOK, ExportRecord

\* A recovered deletion, completed or cancelled, leaves a consistent catalog.
LEMMA RecoveryKeepsCatalog ==
  ASSUME Pools, TypeOK, CatalogInv, UNCHANGED now, NEW o \in Running("delete"),
         RecoverDeletionOperation(o)
  PROVE  CatalogInv'
<1>0. o \in Operations /\ op[o].status = "running" /\ op[o].kind = "delete" /\ o # None
      /\ now' \in Nat /\ now <= now'
  BY HomesAreCurrent DEF Running, TypeOK
<1>1. op[o].segment \in Segments
  BY <1>0, DeletionsAreApart
<1>2. ASSUME UNCHANGED <<export, op>>, NEW place \in Places, segment' = MoveFile(op[o].segment, place)
      PROVE  CatalogInv'
  <2>1. \A s \in Segments : segment'[s].state = segment[s].state
    BY <1>1, <1>2, MovedIsTyped DEF SameRow
  <2> QED BY <1>0, <1>2, <2>1, FilesLeaveCatalog
<1>3. ASSUME UNCHANGED <<export, op>>, segment' = Erased({op[o].segment}) PROVE CatalogInv'
  <2>1. \A s \in Segments : segment'[s].state = segment[s].state
    BY <1>3, ErasedIsTyped DEF SameRow
  <2> QED BY <1>0, <1>3, <2>1, FilesLeaveCatalog
<1>4. CASE CancelDeletion(o)
  BY <1>0, <1>4, ReleaseKeepsCatalog DEF CancelDeletion, Statuses
<1>5. CASE CompleteDeletion(o)
  BY <1>0, <1>5, CompletionKeepsCatalog
<1> QED BY <1>2, <1>3, <1>4, <1>5, PlacesAre DEF RecoverDeletionOperation

\* A new export is active, unowned and in no segment.
LEMMA ReceivingKeepsCatalog ==
  ASSUME Pools, TypeOK, CatalogInv, NEW x \in Exports, Receive(x)
  PROVE  CatalogInv'
<1>1. /\ export'[x].state = "active" /\ export[x].state = "absent"
      /\ export'[x].home = export[x].home /\ export'[x].hold = export[x].hold
      /\ export'[x].owner = export[x].owner
      /\ \A e \in Exports : e # x => export'[e] = export[e]
      /\ UNCHANGED <<now, segment, op>>
  BY DEF Receive, TypeOK, ExportRecord
<1>2. export[x].home = None /\ export[x].owner = None
  BY <1>1, HomesAreCurrent, OwnersRun
<1>3. ExportsFit'
  <2> SUFFICES ASSUME NEW e \in Exports PROVE ExportFits(e)'
    BY DEF ExportsFit
  <2>1. ExportFits(e)
    BY DEF CatalogInv, ExportsFit
  <2> QED BY <1>1, <1>2, <2>1 DEF ExportFits
<1>4. SegmentsFit' /\ OwnedTogether'
  <2>1. \A e \in Exports : export'[e].home = export[e].home /\ export'[e].owner = export[e].owner
    BY <1>1
  <2>2. SegmentsFit'
    BY <1>1, <2>1 DEF CatalogInv, SegmentsFit
  <2>3. OwnedTogether'
    BY <2>1 DEF CatalogInv, OwnedTogether
  <2> QED BY <2>2, <2>3
<1>5. ASSUME NEW p \in Operations, op'[p].status = "running" PROVE OperationFits(p)'
  <2>1. op[p].status = "running" /\ op'[p] = op[p] /\ op[p].targets \in SUBSET Exports
    BY <1>1, <1>5 DEF TypeOK, OperationRecord
  <2>2. x \notin op[p].targets
    BY <1>2, <2>1, OwnersRun, HomesAreCurrent, ZenonT(40)
  <2>3. op[p].kind = "delete" =>
            /\ segment'[op[p].segment].state = "current"
            /\ \A e \in Exports : export'[e].home = op[p].segment <=> export[e].home = op[p].segment
    <3>1. \A e \in Exports : export'[e].home = export[e].home
      BY <1>1
    <3> QED BY <1>1, <2>1, <3>1, DeletionsAreApart
  <2>4. \A e \in op[p].targets : export'[e] = export[e]
    BY <1>1, <2>1, <2>2
  <2> QED BY <1>1, <2>1, <2>3, <2>4, OthersFit
<1> QED BY <1>3, <1>4, <1>5 DEF CatalogInv, OperationsFit

\* A group of active exports becomes a segment.
\* The exports T are archived in segment s.
MovedIn(T, s) ==
    \A e \in Exports :
       /\ e \in T => /\ export'[e].state = "archived" /\ export'[e].home = s /\ export'[e].hold = 0
                   /\ export'[e].owner = None
       /\ e \notin T => /\ export'[e].state = export[e].state
                      /\ export'[e].hold = export[e].hold
                      /\ export'[e].home = export[e].home
                      /\ export'[e].owner = export[e].owner
       /\ export'[e].received = export[e].received

\* The update of the exports by an archive, row by row.
LEMMA ArchivingMovesExports ==
  ASSUME TypeOK, NEW s \in Segments, NEW T,
         export' = [e \in Exports |->
            IF e \in T
            THEN [export[e] EXCEPT !.state = "archived", !.hold = 0, !.home = s, !.owner = None]
            ELSE export[e]]
  PROVE  MovedIn(T, s)
<1> SUFFICES ASSUME NEW e \in Exports
             PROVE  /\ e \in T => /\ export'[e].state = "archived" /\ export'[e].home = s
                                  /\ export'[e].hold = 0 /\ export'[e].owner = None
                    /\ e \notin T => export'[e] = export[e]
                    /\ export'[e].received = export[e].received
  BY DEF MovedIn
<1>1. export[e] \in ExportRecord
  BY DEF TypeOK
<1>2. export'[e] = IF e \in T
                   THEN [export[e] EXCEPT !.state = "archived", !.hold = 0, !.home = s, !.owner = None]
                   ELSE export[e]
  OBVIOUS
<1> QED BY <1>1, <1>2 DEF ExportRecord

\* Archiving a group leaves a consistent catalog.
LEMMA ArchivingKeepsCatalog ==
  ASSUME Pools, TypeOK, CatalogInv, UNCHANGED now, NEW o \in Operations, NEW s \in Segments,
         op[o].status = "running", op[o].kind = "archive", segment[s].state = "unused",
         segment'[s].state = "current", \A t \in Segments : t # s => segment'[t] = segment[t],
         op'[o].status = "completed", \A p \in Operations : p # o => op'[p] = op[p],
         NEW T, T = op[o].targets,
         MovedIn(T, s)
  PROVE  CatalogInv'
<1> USE DEF MovedIn
<1>0. /\ T \in SUBSET Exports /\ T # {} /\ s # None
      /\ \A e \in T : export[e].state = "active" /\ export[e].home = None
      /\ \A e \in Exports : export[e].home # s /\ (export[e].owner = o <=> e \in T)
  <2>1. OperationFits(o) /\ T \in SUBSET Exports
    BY DEF CatalogInv, OperationsFit, TypeOK, OperationRecord
  <2>2. T # {} /\ \A e \in T : export[e].state = "active"
    BY <2>1 DEF OperationFits, Archives
  <2>3. \A e \in Exports : export[e].owner = o <=> e \in T
    BY OwnersRun
  <2> QED BY <2>1, <2>2, <2>3, HomesAreCurrent
<1>5. ExportsFit'
  <2> SUFFICES ASSUME NEW e \in Exports PROVE ExportFits(e)'
    BY DEF ExportsFit
  <2>1. ExportFits(e) /\ export[e].home \in Segments \union {None}
    BY HomesAreCurrent DEF CatalogInv, ExportsFit
  <2>2. CASE e \in T
    BY <1>0, <2>2 DEF ExportFits
  <2>3. CASE e \notin T
    <3>1. export[e].home # None => segment'[export[e].home].state = "current"
      BY <1>0, <2>1 DEF ExportFits
    <3>2. export[e].owner # None => op'[export[e].owner] = op[export[e].owner]
      BY <1>0, <2>3, OwnersRun
    <3>3. /\ export'[e].state = export[e].state /\ export'[e].hold = export[e].hold
          /\ export'[e].home = export[e].home /\ export'[e].owner = export[e].owner
      BY <2>3
    <3> QED BY <2>1, <3>1, <3>2, <3>3 DEF ExportFits
  <2> QED BY <2>2, <2>3
<1>6. SegmentsFit'
  <2> SUFFICES ASSUME NEW t \in Segments, segment'[t].state = "current"
               PROVE  \E e \in Exports : export'[e].home = t
    BY DEF SegmentsFit
  <2>1. CASE t = s
    BY <1>0, <2>1
  <2>2. CASE t # s
    <3>1. PICK e \in Exports : export[e].home = t
      BY <2>2 DEF CatalogInv, SegmentsFit
    <3>2. e \notin T
      BY <1>0, <3>1, HomesAreCurrent
    <3> QED BY <3>1, <3>2
  <2> QED BY <2>1, <2>2
<1>7. OwnedTogether'
  <2> SUFFICES ASSUME NEW e \in Exports, NEW f \in Exports,
                      export'[e].home = export'[f].home, export'[e].home # None
               PROVE  export'[e].owner = export'[f].owner
    BY DEF OwnedTogether
  <2>1. CASE e \in T
    <3>1. f \in T
      BY <1>0, <2>1
    <3> QED BY <2>1, <3>1
  <2>2. CASE e \notin T
    <3>1. f \notin T
      BY <1>0, <2>2
    <3> QED BY <2>2, <3>1 DEF CatalogInv, OwnedTogether
  <2> QED BY <2>1, <2>2
<1>8. ASSUME NEW p \in Operations, op'[p].status = "running" PROVE OperationFits(p)'
  <2>1. p # o /\ op'[p] = op[p] /\ op[p].status = "running" /\ op[p].targets \in SUBSET Exports
    BY <1>8 DEF TypeOK, OperationRecord
  <2>2. ASSUME NEW e \in op[p].targets PROVE e \in Exports /\ e \notin T
    <3>1. e \in Exports /\ export[e].owner = p
      BY <2>1, OwnersRun, ZenonT(40)
    <3> QED BY <1>0, <2>1, <3>1
  <2>3. op[p].kind = "delete" =>
            /\ segment'[op[p].segment].state = "current"
            /\ \A e \in Exports : export'[e].home = op[p].segment <=> export[e].home = op[p].segment
    <3>1. op[p].kind = "delete" => /\ op[p].segment \in Segments
                                   /\ segment[op[p].segment].state = "current"
      BY <2>1, DeletionsAreApart
    <3>2. op[p].kind = "delete" => op[p].segment # s /\ op[p].segment # None
      BY <3>1, HomesAreCurrent
    <3>3. op[p].kind = "delete" => segment'[op[p].segment].state = "current"
      BY <3>1, <3>2
    <3>4. ASSUME op[p].kind = "delete", NEW e \in Exports
          PROVE  export'[e].home = op[p].segment <=> export[e].home = op[p].segment
      <4>1. CASE e \in T
        BY <1>0, <3>2, <3>4, <4>1
      <4>2. CASE e \notin T
        BY <4>2
      <4> QED BY <4>1, <4>2
    <3> QED BY <3>3, <3>4
  <2> QED BY <2>1, <2>2, <2>3, OthersFit
<1> QED BY <1>5, <1>6, <1>7, <1>8 DEF CatalogInv, OperationsFit

\* The exports T lose their segments: those in U are back and held until n, the
\* others are in the replacements f.
MovedOut(T, U, f, n) ==
    \A e \in Exports :
       /\ export'[e].received = export[e].received /\ export'[e].owner = export[e].owner
       /\ e \in T /\ e \in U => export'[e].state = "active" /\ export'[e].home = None
       /\ e \in T /\ e \notin U => /\ export'[e].state = export[e].state
                                   /\ export'[e].hold = export[e].hold
                                   /\ export'[e].home = f[export[e].home]
       /\ e \notin T => /\ export'[e].state = export[e].state
                        /\ export'[e].hold = export[e].hold
                        /\ export'[e].home = export[e].home
       /\ e \in T /\ e \in U => export'[e].hold = n

\* The segments S are history and their replacements f are current.
Replaced(S, f) ==
    \A s \in Segments :
       /\ segment'[s].file = segment[s].file /\ segment'[s].damage = segment[s].damage
       /\ segment'[s].metadata = segment[s].metadata
       /\ s \in S => segment'[s].state \in {"restored", "superseded"}
       /\ s \notin S /\ (\E t \in S : f[t] = s) => segment'[s].state = "current"
       /\ s \notin S /\ ~(\E t \in S : f[t] = s) => segment'[s].state = segment[s].state

\* The update of the exports by a restore, row by row.
LEMMA RestoringMovesExports ==
  ASSUME TypeOK, NEW T, NEW U, NEW f, NEW n \in Nat,
         export' = [e \in Exports |->
            IF e \in T
            THEN IF e \in U THEN [export[e] EXCEPT !.state = "active", !.home = None, !.hold = n]
                            ELSE [export[e] EXCEPT !.home = f[export[e].home]]
            ELSE export[e]]
  PROVE  MovedOut(T, U, f, n)
<1> SUFFICES ASSUME NEW e \in Exports
             PROVE  /\ export'[e].received = export[e].received /\ export'[e].owner = export[e].owner
                    /\ e \in T /\ e \in U => /\ export'[e].state = "active" /\ export'[e].home = None
                                             /\ export'[e].hold = n
                    /\ e \in T /\ e \notin U => /\ export'[e].state = export[e].state
                                                /\ export'[e].hold = export[e].hold
                                                /\ export'[e].home = f[export[e].home]
                    /\ e \notin T => export'[e] = export[e]
  BY DEF MovedOut
<1>1. export[e] \in ExportRecord
  BY DEF TypeOK
<1>2. export'[e] = IF e \in T
            THEN IF e \in U THEN [export[e] EXCEPT !.state = "active", !.home = None, !.hold = n]
                            ELSE [export[e] EXCEPT !.home = f[export[e].home]]
            ELSE export[e]
  OBVIOUS
<1> QED BY <1>1, <1>2 DEF ExportRecord

\* The update of the segments by a restore, row by row.
LEMMA RestoringMovesSegments ==
  ASSUME TypeOK, NEW S \in SUBSET Segments, NEW f,
         segment' = [s \in Segments |->
            IF s \in S
            THEN [segment[s] EXCEPT !.state = IF f[s] = None THEN "restored" ELSE "superseded"]
            ELSE IF \E t \in S : f[t] = s
            THEN [segment[s] EXCEPT !.state = "current"]
            ELSE segment[s]]
  PROVE  Replaced(S, f)
<1> SUFFICES ASSUME NEW s \in Segments
             PROVE  /\ segment'[s].file = segment[s].file /\ segment'[s].damage = segment[s].damage
                    /\ segment'[s].metadata = segment[s].metadata
                    /\ s \in S => segment'[s].state \in {"restored", "superseded"}
                    /\ s \notin S /\ (\E t \in S : f[t] = s) => segment'[s].state = "current"
                    /\ s \notin S /\ ~(\E t \in S : f[t] = s) => segment'[s] = segment[s]
  BY DEF Replaced
<1>1. segment[s] \in SegmentRecord
  BY DEF TypeOK
<1>2. segment'[s] =
            IF s \in S
            THEN [segment[s] EXCEPT !.state = IF f[s] = None THEN "restored" ELSE "superseded"]
            ELSE IF \E t \in S : f[t] = s
            THEN [segment[s] EXCEPT !.state = "current"]
            ELSE segment[s]
  OBVIOUS
<1> QED BY <1>1, <1>2 DEF SegmentRecord

\* The affected exports of a restore leave their segments.
LEMMA RestoringKeepsCatalog ==
  ASSUME Pools, TypeOK, CatalogInv, UNCHANGED now,
         NEW o \in Operations, op[o].status = "running", op[o].kind = "restore",
         op[o].phase = "planned",
         NEW T, T = op[o].targets, NEW U, U = op[o].selected,
         NEW S \in SUBSET Segments, NEW f,
         \A s \in S : segment[s].state = "current",
         \A e \in Exports : e \in T <=> export[e].home \in S,
         \A s \in S : f[s] \in Segments \union {None},
         \A s \in S : f[s] # None => segment[f[s]].state = "unused",
         \A s, t \in S : f[s] # None /\ f[t] = f[s] => t = s,
         \A s \in S : f[s] = None <=> \A e \in Exports : export[e].home = s => e \in U,
         NEW n, MovedOut(T, U, f, n), Replaced(S, f),
         op' = [op EXCEPT ![o].phase = "content_removed"]
  PROVE  CatalogInv'
<1> USE DEF MovedOut, Replaced
<1>1. /\ \A p \in Operations : p # o => op'[p] = op[p]
      /\ op'[o].status = "running" /\ op'[o].kind = "restore" /\ op'[o].phase = "content_removed"
      /\ op'[o].targets = T /\ op'[o].selected = U
  <2>1. "content_removed" \in Phases
    BY DEF Phases, AfterCutover
  <2>2. op'[o] = [op[o] EXCEPT !.phase = "content_removed"] /\ op[o] \in OperationRecord
    BY <2>1, PhaseIsTyped DEF TypeOK
  <2> QED BY <2>1, <2>2, PhaseIsTyped DEF OperationRecord
<1>2. /\ T \in SUBSET Exports /\ T # {} /\ U \in SUBSET T
      /\ \A e \in T : export[e].state = "archived" /\ export[e].home \in S
      /\ \A e \in Exports : export[e].owner = o <=> e \in T
      /\ None \notin S
  <2>1. OperationFits(o) /\ T \in SUBSET Exports
    BY DEF CatalogInv, OperationsFit, TypeOK, OperationRecord
  <2>2. T # {} /\ U \in SUBSET T
    BY <2>1 DEF OperationFits, Reinstates
  <2>3. \A e \in Exports : export[e].owner = o <=> e \in T
    BY OwnersRun
  <2>4. None \notin S
    BY HomesAreCurrent
  <2>5. \A e \in T : export[e].home \in S
    BY <2>1
  <2>6. \A e \in T : export[e].state = "archived"
    BY <2>1, <2>4, <2>5, HomesAreCurrent
  <2> QED BY <2>1, <2>2, <2>3, <2>4, <2>5, <2>6
<1>3. \A e \in T : e \notin U => f[export[e].home] # None
  BY <1>2
<1>4. \A s \in S : f[s] # None => f[s] \in Segments /\ f[s] \notin S /\ segment'[f[s]].state = "current"
  <2> SUFFICES ASSUME NEW s \in S, f[s] # None
               PROVE  f[s] \in Segments /\ f[s] \notin S /\ segment'[f[s]].state = "current"
    OBVIOUS
  <2>1. f[s] \in Segments /\ segment[f[s]].state = "unused"
    OBVIOUS
  <2>2. f[s] \notin S
    BY <2>1
  <2> QED BY <2>1, <2>2
<1>5. \A s \in Segments \ S : segment[s].state = "current" => segment'[s].state = "current"
  OBVIOUS
<1>6. ASSUME NEW e \in Exports PROVE ExportFits(e)'
  <2>1. ExportFits(e) /\ export[e].home \in Segments \union {None}
    BY HomesAreCurrent DEF CatalogInv, ExportsFit
  <2>2. export[e].owner # None => /\ export[e].owner \in Operations
                                  /\ op[export[e].owner].status = "running"
                                  /\ e \in op[export[e].owner].targets
    BY <2>1, OwnersRun DEF ExportFits
  <2>3. export'[e].owner # None => /\ op'[export'[e].owner].status = "running"
                                   /\ e \in op'[export'[e].owner].targets
    <3>1. CASE export[e].owner = o
      BY <1>1, <2>2, <3>1
    <3>2. CASE export[e].owner # o
      BY <1>1, <2>2, <3>2
    <3> QED BY <3>1, <3>2
  <2>4. CASE e \in T /\ e \in U
    BY <2>3, <2>4 DEF ExportFits
  <2>5. CASE e \in T /\ e \notin U
    <3>1. export[e].home \in S /\ f[export[e].home] # None
      BY <1>2, <1>3, <2>5
    <3>2. segment'[export'[e].home].state = "current" /\ export'[e].home # None
      BY <1>4, <2>5, <3>1
    <3>3. export'[e].state = "archived" /\ export'[e].hold = 0
      BY <1>2, <2>1, <2>5 DEF ExportFits
    <3> QED BY <2>3, <3>2, <3>3 DEF ExportFits
  <2>6. CASE e \notin T
    <3>1. export[e].home # None => segment'[export[e].home].state = "current"
      BY <1>5, <2>1, <2>6 DEF ExportFits
    <3>2. export'[e].state = export[e].state /\ export'[e].hold = export[e].hold
          /\ export'[e].home = export[e].home
      BY <2>6
    <3> QED BY <2>1, <2>3, <3>1, <3>2 DEF ExportFits
  <2> QED BY <2>4, <2>5, <2>6
<1>7. SegmentsFit'
  <2> SUFFICES ASSUME NEW s \in Segments, segment'[s].state = "current"
               PROVE  \E e \in Exports : export'[e].home = s
    BY DEF SegmentsFit
  <2>0. s \notin S
    OBVIOUS
  <2>1. ASSUME NEW t \in S, f[t] = s PROVE \E e \in Exports : export'[e].home = s
    <3>1. f[t] # None
      BY <2>1, HomesAreCurrent
    <3>2. PICK e \in Exports : export[e].home = t /\ e \notin U
      BY <3>1
    <3>3. e \in T
      BY <3>2
    <3>4. export'[e].home = s
      BY <2>1, <3>2, <3>3
    <3> QED BY <3>4
  <2>2. CASE ~(\E t \in S : f[t] = s)
    <3>1. segment[s].state = "current"
      BY <2>0, <2>2
    <3>2. PICK e \in Exports : export[e].home = s
      BY <3>1 DEF CatalogInv, SegmentsFit
    <3>3. e \notin T
      BY <2>0, <3>2
    <3>4. export'[e].home = s
      BY <3>2, <3>3
    <3> QED BY <3>4
  <2> QED BY <2>1, <2>2
<1>8. OwnedTogether'
  <2> SUFFICES ASSUME NEW e \in Exports, NEW g \in Exports,
                      export'[e].home = export'[g].home, export'[e].home # None
               PROVE  export'[e].owner = export'[g].owner
    BY DEF OwnedTogether
  <2>1. ASSUME NEW a \in Exports, a \in T, export'[a].home # None
        PROVE  /\ segment[export'[a].home].state = "unused" /\ export'[a].owner = o
    <3>1. a \notin U /\ export[a].home \in S /\ export'[a].home = f[export[a].home]
      BY <1>2, <2>1
    <3>2. export[a].owner = o
      BY <1>2, <2>1
    <3> QED BY <2>1, <3>1, <3>2
  <2>2. ASSUME NEW a \in Exports, a \notin T, export'[a].home # None
        PROVE  /\ segment[export'[a].home].state = "current"
               /\ export'[a].home = export[a].home /\ export'[a].owner = export[a].owner
    <3>1. export'[a].home = export[a].home /\ export'[a].owner = export[a].owner
      BY <2>2
    <3> QED BY <2>2, <3>1, HomesAreCurrent
  <2>3. CASE e \in T
    <3>1. segment[export'[e].home].state = "unused" /\ export'[e].owner = o
      BY <2>1, <2>3
    <3>2. g \in T
      BY <2>2, <3>1
    <3> QED BY <2>1, <3>1, <3>2
  <2>4. CASE e \notin T
    <3>1. /\ segment[export'[e].home].state = "current"
          /\ export'[e].home = export[e].home /\ export'[e].owner = export[e].owner
      BY <2>2, <2>4
    <3>2. g \notin T
      BY <2>1, <3>1
    <3>3. export'[g].home = export[g].home /\ export'[g].owner = export[g].owner
      BY <2>2, <3>2
    <3>4. export[e].home = export[g].home /\ export[e].home # None
      BY <3>1, <3>3
    <3>5. export[e].owner = export[g].owner
      BY <3>4 DEF CatalogInv, OwnedTogether
    <3> QED BY <3>1, <3>3, <3>5
  <2> QED BY <2>3, <2>4
<1>9. ASSUME NEW p \in Operations, op'[p].status = "running" PROVE OperationFits(p)'
  <2>1. CASE p = o
    <3>1. Reinstates(o)'
      <4>1. \A e \in T : export'[e].state = IF e \in U THEN "active" ELSE "archived"
        BY <1>2
      <4> QED BY <1>1, <1>2, <4>1 DEF Reinstates
    <3>2. \A e \in T : export'[e].owner = o
      BY <1>2
    <3> QED BY <1>1, <1>2, <2>1, <3>1, <3>2 DEF OperationFits
  <2>2. CASE p # o
    <3>1. op'[p] = op[p] /\ op[p].status = "running" /\ op[p].targets \in SUBSET Exports
      BY <1>1, <1>9, <2>2 DEF TypeOK, OperationRecord
    <3>2. ASSUME NEW e \in op[p].targets PROVE e \in Exports /\ e \notin T
      <4>1. e \in Exports /\ export[e].owner = p
        BY <3>1, OwnersRun
      <4> QED BY <1>2, <2>2, <4>1
    <3>3. ASSUME op[p].kind = "delete"
          PROVE  /\ segment'[op[p].segment].state = "current"
                 /\ \A e \in Exports : export'[e].home = op[p].segment <=> export[e].home = op[p].segment
      <4>1. /\ op[p].segment \in Segments /\ segment[op[p].segment].state = "current"
            /\ op[p].targets # {}
            /\ \A e \in Exports : export[e].home = op[p].segment <=> e \in op[p].targets
        BY <3>1, <3>3, DeletionsAreApart
      <4>2. op[p].segment \notin S
        BY <3>1, <3>2, <4>1
      <4>3. op[p].segment # None
        BY <4>1, HomesAreCurrent
      <4>4. ASSUME NEW e \in Exports PROVE export'[e].home = op[p].segment <=> export[e].home = op[p].segment
        <5>1. CASE e \in T
          <6>1. export[e].home \in S
            BY <5>1
          <6>2. export'[e].home # None => segment[export'[e].home].state = "unused"
            BY <1>2, <1>3, <5>1, <6>1
          <6> QED BY <4>1, <4>2, <4>3, <6>1, <6>2
        <5>2. CASE e \notin T
          BY <5>2
        <5> QED BY <5>1, <5>2
      <4> QED BY <1>5, <4>1, <4>2, <4>4
    <3>4. \A e \in op[p].targets :
            /\ export'[e].state = export[e].state /\ export'[e].owner = export[e].owner
            /\ export'[e].received = export[e].received
      BY <3>2
    <3> QED BY <3>1, <3>3, <3>4, OthersFit
  <2> QED BY <2>1, <2>2
<1>10. ExportsFit'
  BY <1>6 DEF ExportsFit
<1>11. OperationsFit'
  BY <1>9 DEF OperationsFit
<1> QED BY <1>7, <1>8, <1>10, <1>11 DEF CatalogInv

\* What a scope affects, seen from the catalog.
LEMMA ScopesAreCurrent ==
  ASSUME Pools, TypeOK, CatalogInv, NEW r \in Restores
  PROVE  LET scope == restore[r].scope IN
         /\ \A s \in ScopeSegments(scope) : s \in Segments /\ segment[s].state = "current"
         /\ \A e \in Exports : e \in Affected(scope) <=> export[e].home \in ScopeSegments(scope)
         /\ \A e \in Affected(scope) :
               e \in Exports /\ export[e].state = "archived" /\ export[e].home # None
         /\ Selected(scope) \subseteq Affected(scope)
<1> DEFINE scope == restore[r].scope
<1>1. scope.exports \in SUBSET Exports /\ ScopeSegments(scope) \in SUBSET Segments
  BY ScopesAreTyped, HomesAreCurrent
<1>2. ASSUME NEW s \in ScopeSegments(scope) PROVE segment[s].state = "current"
  <2>1. CASE scope.segment # None
    BY <1>2, <2>1 DEF ScopeSegments, Current
  <2>2. CASE scope.segment = None
    <3>1. PICK e \in scope.exports : export[e].state = "archived" /\ s = export[e].home
      BY <1>2, <2>2 DEF ScopeSegments
    <3> QED BY <1>1, <3>1, HomesAreCurrent
  <2> QED BY <2>1, <2>2
<1>3. \A e \in Exports : e \in Affected(scope) <=> export[e].home \in ScopeSegments(scope)
  BY DEF Affected
<1>4. ASSUME NEW e \in Affected(scope)
      PROVE  e \in Exports /\ export[e].state = "archived" /\ export[e].home # None
  <2>1. e \in Exports /\ export[e].home \in Segments
    BY <1>1 DEF Affected
  <2> QED BY <2>1, HomesAreCurrent
<1>5. Selected(scope) \subseteq Affected(scope)
  BY DEF Selected
<1> QED BY <1>1, <1>2, <1>3, <1>4, <1>5

\* The competitors that a claim preempts are deletions whose every export it affects.
LEMMA CompetitorsAreDeletions ==
  ASSUME Pools, TypeOK, CatalogInv, NEW r \in Restores, ~Unclaimable(restore[r].scope),
         NEW o \in Competing(restore[r].scope)
  PROVE  /\ o \in Operations /\ op[o].status = "running" /\ op[o].kind = "delete"
         /\ op[o].phase \in BeforeCutover
         /\ op[o].targets \subseteq Affected(restore[r].scope)
         /\ op[o].segment \in ScopeSegments(restore[r].scope)
<1> DEFINE scope == restore[r].scope
<1>1. PICK e \in Affected(scope) : export[e].owner = o /\ o # None
  BY DEF Competing
<1>2. e \in Exports /\ export[e].home \in ScopeSegments(scope)
  BY ScopesAreCurrent
<1>3. o \in Operations /\ op[o].status = "running" /\ e \in op[o].targets
  BY <1>1, <1>2, OwnersRun
<1>4. op[o].kind = "delete" /\ op[o].phase \in BeforeCutover
  BY DEF Unclaimable, Preemptible
<1>5. /\ op[o].targets \in SUBSET Exports
      /\ \A f \in Exports : export[f].home = op[o].segment <=> f \in op[o].targets
  BY <1>3, <1>4, DeletionsAreApart
<1>6. export[e].home = op[o].segment
  BY <1>2, <1>3, <1>5
<1>7. op[o].targets \subseteq Affected(scope)
  BY <1>2, <1>5, <1>6 DEF Affected
<1> QED BY <1>2, <1>3, <1>4, <1>6, <1>7

\* The claim of a restore in terms of its fields.
LEMMA RestoreClaimParts ==
  ASSUME Pools, TypeOK, CatalogInv, NEW r \in Restores, NEW o \in Operations, ClaimsRestore(r, o),
         ~Unclaimable(restore[r].scope)
  PROVE  LET scope == restore[r].scope IN
         /\ op'[o].status = "running" /\ op'[o].kind = "restore" /\ op'[o].phase = "planned"
         /\ op'[o].targets = Affected(scope) /\ op'[o].selected = Selected(scope)
         /\ \A p \in Operations : p # o /\ p \in Competing(scope) => op'[p].status = "cancelled"
         /\ \A p \in Operations : p # o /\ p \notin Competing(scope) => op'[p] = op[p]
         /\ \A e \in Exports : SameBut(e, IF e \in Affected(scope) THEN o ELSE export[e].owner)
<1> DEFINE scope == restore[r].scope
           k == [NoOperation EXCEPT
                    !.kind = "restore", !.status = "running", !.phase = "planned",
                    !.targets = Affected(scope), !.selected = Selected(scope)]
<1>1. op' = [Closed(Competing(scope), "cancelled") EXCEPT ![o] = k]
  BY DEF ClaimsRestore
<1>2. export' = [e \in Exports |-> IF e \in Affected(scope) THEN [export[e] EXCEPT !.owner = o] ELSE export[e]]
  BY DEF ClaimsRestore, ClaimAffected
<1>3. /\ k.status = "running" /\ k.kind = "restore" /\ k.phase = "planned"
      /\ k.targets = Affected(scope) /\ k.selected = Selected(scope)
  BY DEF NoOperation
<1>4. [NoOperation EXCEPT !.status = "cancelled"].status = "cancelled"
  BY DEF NoOperation
<1> HIDE DEF k
<1>5. op'[o] = k
  BY <1>1 DEF Closed
<1>6. \A p \in Operations : p # o =>
         op'[p] = IF p \in Competing(scope) THEN [NoOperation EXCEPT !.status = "cancelled"] ELSE op[p]
  BY <1>1 DEF Closed
<1>7. \A e \in Exports : SameBut(e, IF e \in Affected(scope) THEN o ELSE export[e].owner)
  BY <1>2, GivenIsTyped
<1> QED BY <1>3, <1>4, <1>5, <1>6, <1>7

\* Operation o takes the place of the deletions C and owns the exports T.
Preempts(o, C, T) ==
    /\ \A p \in Operations : p # o /\ p \in C => op'[p].status = "cancelled"
    /\ \A p \in Operations : p # o /\ p \notin C => op'[p] = op[p]
    /\ \A e \in Exports : SameBut(e, IF e \in T THEN o ELSE export[e].owner)

\* A claim does exactly that.
LEMMA RestoreClaimPreempts ==
  ASSUME Pools, TypeOK, CatalogInv, NEW r \in Restores, NEW o \in Operations, ClaimsRestore(r, o),
         ~Unclaimable(restore[r].scope)
  PROVE  Preempts(o, Competing(restore[r].scope), Affected(restore[r].scope))
<1>1. \A p \in Operations : p # o /\ p \in Competing(restore[r].scope) => op'[p].status = "cancelled"
  <2> DEFINE C == Competing(restore[r].scope)
             k == [NoOperation EXCEPT
                      !.kind = "restore", !.status = "running", !.phase = "planned",
                      !.targets = Affected(restore[r].scope), !.selected = Selected(restore[r].scope)]
  <2>1. op' = [Closed(C, "cancelled") EXCEPT ![o] = k]
    BY DEF ClaimsRestore
  <2>2. [NoOperation EXCEPT !.status = "cancelled"].status = "cancelled"
    BY DEF NoOperation
  <2> HIDE DEF C, k
  <2>3. \A p \in Operations : p # o /\ p \in C => op'[p] = [NoOperation EXCEPT !.status = "cancelled"]
    BY <2>1 DEF Closed
  <2>4. \A p \in Operations : p # o /\ p \in C => op'[p].status = "cancelled"
    BY <2>2, <2>3
  <2> QED BY <2>4 DEF C
<1>2. \A p \in Operations : p # o /\ p \notin Competing(restore[r].scope) => op'[p] = op[p]
  BY RestoreClaimParts
<1>3. \A e \in Exports : SameBut(e, IF e \in Affected(restore[r].scope) THEN o ELSE export[e].owner)
  BY RestoreClaimParts
<1> QED BY <1>1, <1>2, <1>3 DEF Preempts

\* A claim that takes the place of deletions leaves a consistent catalog.
LEMMA RestoreClaimKeepsCatalog ==
  ASSUME Pools, TypeOK, CatalogInv, UNCHANGED <<segment, now>>, NEW r \in Restores,
         ~Unclaimable(restore[r].scope), NEW o \in Operations, op[o].status # "running",
         NEW T, T = Affected(restore[r].scope), NEW C, C = Competing(restore[r].scope),
         op'[o].status = "running", op'[o].kind = "restore", op'[o].phase = "planned",
         op'[o].targets = T, op'[o].selected \subseteq T, Preempts(o, C, T)
  PROVE  CatalogInv'
<1> USE DEF Preempts
<1>b. \A e \in Exports :
         /\ export'[e].state = export[e].state /\ export'[e].received = export[e].received
         /\ export'[e].hold = export[e].hold /\ export'[e].home = export[e].home
         /\ export'[e].owner = IF e \in T THEN o ELSE export[e].owner
  BY DEF SameBut
<1>1. /\ \A e \in T : e \in Exports /\ export[e].state = "archived" /\ export[e].home # None
      /\ \A e, f \in Exports : export[e].home = export[f].home => (e \in T <=> f \in T)
      /\ T # {}
  <2> DEFINE S == ScopeSegments(restore[r].scope)
  <2>1. /\ \A s \in S : s \in Segments /\ segment[s].state = "current"
        /\ \A e \in Exports : e \in T <=> export[e].home \in S
        /\ \A e \in T : e \in Exports /\ export[e].state = "archived" /\ export[e].home # None
    BY ScopesAreCurrent
  <2>2. S # {}
    BY DEF Unclaimable
  <2>3. T # {}
    <3>1. PICK s \in S : s \in Segments /\ segment[s].state = "current"
      BY <2>1, <2>2
    <3>2. PICK e \in Exports : export[e].home = s
      BY <3>1 DEF CatalogInv, SegmentsFit
    <3> QED BY <2>1, <3>1, <3>2
  <2> HIDE DEF S
  <2> QED BY <2>1, <2>3
<1>2. \A p \in C : p \in Operations /\ op[p].status = "running" /\ op[p].targets \subseteq T
  BY CompetitorsAreDeletions
<1>3. \A e \in T : export[e].owner \in C \union {None}
  BY DEF Competing
<1>4. ASSUME NEW e \in Exports PROVE ExportFits(e)'
  <2>1. ExportFits(e)
    BY DEF CatalogInv, ExportsFit
  <2>2. CASE e \in T
    <3>1. export'[e].owner # None => /\ op'[export'[e].owner].status = "running"
                                     /\ e \in op'[export'[e].owner].targets
      BY <1>b, <2>2, ZenonT(40)
    <3> QED BY <1>b, <2>1, <3>1 DEF ExportFits
  <2>3. CASE e \notin T
    <3>1. export[e].owner # None => /\ export[e].owner \in Operations
                                    /\ op[export[e].owner].status = "running"
                                    /\ e \in op[export[e].owner].targets
      BY <2>1, OwnersRun DEF ExportFits
    <3>2. export[e].owner # None => export[e].owner # o /\ export[e].owner \notin C
      BY <1>2, <2>3, <3>1
    <3>3. export'[e].owner # None => /\ op'[export'[e].owner].status = "running"
                                     /\ e \in op'[export'[e].owner].targets
      <4>1. export'[e].owner = export[e].owner
        BY <1>b, <2>3
      <4>2. export[e].owner # None => op'[export[e].owner] = op[export[e].owner]
        BY <3>1, <3>2
      <4> QED BY <3>1, <4>1, <4>2
    <3> QED BY <1>b, <2>1, <3>3 DEF ExportFits
  <2> QED BY <2>2, <2>3
<1>5. SegmentsFit'
  <2>1. \A e \in Exports : export'[e].home = export[e].home
    BY <1>b
  <2>2. SegmentsFit
    BY DEF CatalogInv
  <2> QED BY <2>1, <2>2 DEF SegmentsFit
<1>6. OwnedTogether'
  <2> SUFFICES ASSUME NEW e \in Exports, NEW f \in Exports,
                      export'[e].home = export'[f].home, export'[e].home # None
               PROVE  export'[e].owner = export'[f].owner
    BY DEF OwnedTogether
  <2>1. export[e].home = export[f].home /\ export[e].home # None
    BY <1>b
  <2>2. export[e].owner = export[f].owner /\ (e \in T <=> f \in T)
    BY <1>1, <2>1 DEF CatalogInv, OwnedTogether
  <2> QED BY <1>b, <2>2
<1>7. ASSUME NEW p \in Operations, op'[p].status = "running" PROVE OperationFits(p)'
  <2>1. CASE p = o
    <3>1. \A e \in T : export'[e].state = "archived" /\ export'[e].owner = o
      BY <1>1, <1>b
    <3>2. Reinstates(o)'
      BY <3>1 DEF Reinstates
    <3> QED BY <1>1, <2>1, <3>1, <3>2 DEF OperationFits
  <2>2. CASE p # o
    <3>1. p \notin C /\ op'[p] = op[p] /\ op[p].status = "running" /\ op[p].targets \in SUBSET Exports
      <4>1. p \notin C
        BY <1>7, <2>2
      <4> QED BY <1>7, <2>2, <4>1 DEF TypeOK, OperationRecord
    <3>2. ASSUME NEW e \in op[p].targets PROVE e \in Exports /\ e \notin T
      <4>1. e \in Exports /\ export[e].owner = p
        BY <3>1, OwnersRun, ZenonT(40)
      <4>2. p # None
        BY HomesAreCurrent
      <4> QED BY <1>3, <3>1, <4>1, <4>2
    <3>3. op[p].kind = "delete" =>
            /\ segment'[op[p].segment].state = "current"
            /\ \A e \in Exports : export'[e].home = op[p].segment <=> export[e].home = op[p].segment
      BY <1>b, <3>1, DeletionsAreApart
    <3>4. \A e \in op[p].targets :
            /\ export'[e].state = export[e].state /\ export'[e].owner = export[e].owner
            /\ export'[e].received = export[e].received
      BY <1>b, <3>2
    <3> QED BY <3>1, <3>3, <3>4, OthersFit
  <2> QED BY <2>1, <2>2
<1>8. ExportsFit'
  BY <1>4 DEF ExportsFit
<1>9. OperationsFit'
  BY <1>7 DEF OperationsFit
<1> QED BY <1>5, <1>6, <1>8, <1>9 DEF CatalogInv

\* Steps that at most move files.
LEMMA MovesLeaveCatalog ==
  ASSUME TypeOK, CatalogInv, UNCHANGED <<export, op, now>>,
         \A s \in Segments : segment'[s].state = segment[s].state
  PROVE  CatalogInv'
<1>1. now' \in Nat /\ now <= now'
  BY DEF TypeOK
<1> QED BY <1>1, FilesLeaveCatalog

\* A catalog left alone stays consistent.
LEMMA CatalogStays ==
  ASSUME TypeOK, CatalogInv, UNCHANGED <<catalog, now>>
  PROVE  CatalogInv'
BY MovesLeaveCatalog DEF catalog

\* A file that is moved leaves the catalog consistent.
LEMMA MoveLeavesCatalog ==
  ASSUME TypeOK, CatalogInv, UNCHANGED <<export, op, now>>, NEW s \in Segments, NEW place \in Places,
         segment' = MoveFile(s, place)
  PROVE  CatalogInv'
<1>1. \A t \in Segments : segment'[t].state = segment[t].state
  BY MovedIsTyped DEF SameRow
<1> QED BY <1>1, MovesLeaveCatalog

\* Files that are erased leave the catalog consistent.
LEMMA ErasureLeavesCatalog ==
  ASSUME TypeOK, CatalogInv, UNCHANGED <<export, op, now>>, NEW S, segment' = Erased(S)
  PROVE  CatalogInv'
<1>1. \A t \in Segments : segment'[t].state = segment[t].state
  BY ErasedIsTyped DEF SameRow
<1> QED BY <1>1, MovesLeaveCatalog

\* An operation that ends and gives up its exports leaves it consistent.
LEMMA EndKeepsCatalog ==
  ASSUME Pools, TypeOK, CatalogInv, UNCHANGED <<segment, now>>, NEW o \in Operations,
         NEW status \in {"completed", "failed", "cancelled"},
         export' = Released({o}), op' = Closed({o}, status)
  PROVE  CatalogInv'
<1>1. None \notin {o} /\ status \in Statuses /\ status # "running"
  BY HomesAreCurrent DEF Statuses
<1> QED BY <1>1, ReleaseKeepsCatalog

\* What a working cycle holds.
LEMMA CycleHolds ==
  ASSUME Pools, TypeOK, NEW c \in Cycles, CycleFits(c)
  PROVE  /\ cycle[c].pc \in InArchive \union InDeletion => cycle[c].op \in Operations
         /\ cycle[c].pc = "publish" \/ cycle[c].pc \in InDeletion => cycle[c].segment \in Segments
         /\ cycle[c].pc = "claim" => cycle[c].group \in SUBSET Exports
<1>1. /\ cycle[c].op \in Operations \union {None} /\ cycle[c].segment \in Segments \union {None}
      /\ cycle[c].group \in SUBSET Exports
  BY DEF TypeOK, CycleRecord
<1> QED BY <1>1 DEF CycleFits

\* The claim of a group leaves a consistent catalog.
LEMMA ArchiveClaimKeepsCatalog ==
  ASSUME Pools, TypeOK, CatalogInv, NEW c \in Cycles, CycleFits(c), ClaimArchive(c),
         cycle[c].group # {}
  PROVE  CatalogInv'
<1>1. CASE UNCHANGED catalog
  BY <1>1, CatalogStays DEF ClaimArchive, world
<1>2. CASE ~UNCHANGED catalog
  <2> DEFINE T == cycle[c].group
             k(o) == [NoOperation EXCEPT
                        !.kind = "archive", !.status = "running", !.phase = "planned",
                        !.targets = cycle[c].group]
  <2>1. PICK o \in FreshOperation :
           /\ op' = [op EXCEPT ![o] = k(o)]
           /\ export' = [e \in Exports |->
                           IF e \in T THEN [export[e] EXCEPT !.owner = o] ELSE export[e]]
    BY <1>2 DEF ClaimArchive
  <2>2. /\ T \in SUBSET Exports /\ UNCHANGED <<segment, now>>
        /\ \A e \in T : export[e].state = "active" /\ export[e].owner = None
    BY <1>2 DEF ClaimArchive, Claimable, TypeOK, CycleRecord, world
  <2>3. o \in Operations /\ op[o].status # "running"
    BY FreshAreTyped
  <2>4. /\ k(o).kind = "archive" /\ k(o).status = "running" /\ k(o).phase = "planned"
        /\ k(o).targets = T
    BY DEF NoOperation
  <2> HIDE DEF k
  <2>5. op'[o] = k(o) /\ \A p \in Operations : p # o => op'[p] = op[p]
    BY <2>1, <2>3 DEF TypeOK
  <2>6. \A e \in Exports : SameBut(e, IF e \in T THEN o ELSE export[e].owner)
    BY <2>1, <2>3, GivenIsTyped
  <2> HIDE DEF T
  <2>7. \A e \in T : export'[e].state = "active" /\ export[e].home = None
    BY <2>2, <2>6, HomesAreCurrent DEF SameBut
  <2>8. Archives(o)'
    BY <2>4, <2>5, <2>7 DEF Archives
  <2>9. T # {}
    BY DEF T
  <2>10. \A e, f \in Exports :
            export[e].home = export[f].home /\ export[e].home # None => (e \in T <=> f \in T)
    BY <2>7
  <2>11. /\ op'[o].status = "running" /\ op'[o].kind = "archive" /\ op'[o].targets = T
    BY <2>4, <2>5
  <2> QED BY <2>2, <2>3, <2>5, <2>6, <2>8, <2>9, <2>10, <2>11, ClaimKeepsCatalog
<1> QED BY <1>1, <1>2

\* The claim of a deletion leaves a consistent catalog.
LEMMA DeletionClaimKeepsCatalog ==
  ASSUME Pools, TypeOK, CatalogInv, NEW c \in Cycles, CycleFits(c), cycle[c].pc = "delete", UNCHANGED <<segment, now>>,
         NEW s \in Segments, DeletionClaimable(c, s), NEW o \in FreshOperation, ClaimsDeletion(c, s, o)
  PROVE  CatalogInv'
<1> DEFINE T == Members(s)
           k == [NoOperation EXCEPT
                   !.kind = "delete", !.status = "running", !.phase = "staging",
                   !.targets = Members(s), !.segment = s, !.decided = cycle[c].revision]
<1>1. /\ op' = [op EXCEPT ![o] = k]
      /\ export' = [e \in Exports |-> IF e \in T THEN [export[e] EXCEPT !.owner = o] ELSE export[e]]
  BY DEF ClaimsDeletion
<1>2. /\ segment[s].state = "current"
      /\ \A e \in Exports : e \in T <=> export[e].home = s
      /\ T \in SUBSET Exports
      /\ \A e \in T : export[e].owner = None /\ export[e].received + DeleteDays <= cycle[c].evaluatedAt
  BY DEF DeletionClaimable, Members, Current
<1>3. o \in Operations /\ op[o].status # "running" /\ s # None
  BY FreshAreTyped, HomesAreCurrent
<1>4. /\ k.kind = "delete" /\ k.status = "running" /\ k.phase = "staging"
      /\ k.targets = T /\ k.segment = s
  BY DEF NoOperation
<1> HIDE DEF k
<1>5. op'[o] = k /\ \A p \in Operations : p # o => op'[p] = op[p]
  BY <1>1, <1>3 DEF TypeOK
<1>6. \A e \in Exports : SameBut(e, IF e \in T THEN o ELSE export[e].owner)
  BY <1>1, <1>3, GivenIsTyped
<1> HIDE DEF T
<1>7. T # {}
  BY <1>2 DEF CatalogInv, SegmentsFit
<1>8. ASSUME NEW e \in T PROVE export'[e].received + DeleteDays <= now'
  <2>1. export'[e].received = export[e].received
    BY <1>2, <1>6 DEF SameBut
  <2>2. export[e].received \in Nat /\ cycle[c].evaluatedAt \in Nat /\ now \in Nat /\ DeleteDays \in Nat
    BY <1>2, PolicyDays DEF TypeOK, ExportRecord, CycleRecord
  <2>3. cycle[c].evaluatedAt <= now
    BY DEF CycleFits
  <2> QED BY <1>2, <2>1, <2>2, <2>3
<1>9. Deletes(o)'
  <2>1. op'[o].phase \in BeforeCutover \union AfterCutover
    BY <1>4, <1>5 DEF BeforeCutover
  <2>2. \A e \in Exports : export'[e].home = export[e].home
    BY <1>6 DEF SameBut
  <2> QED BY <1>2, <1>4, <1>5, <1>8, <2>1, <2>2 DEF Deletes
<1>10. \A e, f \in Exports :
            export[e].home = export[f].home /\ export[e].home # None => (e \in T <=> f \in T)
  BY <1>2
<1>11. op'[o].status = "running" /\ op'[o].kind = "delete" /\ op'[o].targets = T
  BY <1>4, <1>5
<1> QED BY <1>2, <1>3, <1>5, <1>6, <1>7, <1>9, <1>10, <1>11, ClaimKeepsCatalog

\* Every step of an archive leaves a consistent catalog.
LEMMA ArchiveKeepsCatalog ==
  ASSUME Pools, TypeOK, CatalogInv, NEW c \in Cycles, CycleFits(c), cycle[c].pc = "claim" => cycle[c].group # {},
         ClaimArchive(c) \/ BuildArchive(c) \/ PublishArchive(c) \/ FailArchive(c)
  PROVE  CatalogInv'
<1> USE DEF world
<1>1. CASE ClaimArchive(c)
  BY <1>1, ArchiveClaimKeepsCatalog DEF ClaimArchive, At
<1>2. CASE BuildArchive(c)
  BY <1>2, FreshAreTyped, PlacesAre, MoveLeavesCatalog, CatalogStays
     DEF BuildArchive, BuildWithIncarnation, catalog
<1>3. CASE PublishArchive(c)
  <2> DEFINE o == cycle[c].op
             s == cycle[c].segment
             T == cycle[c].group
  <2>0. /\ o \in Operations /\ s \in Segments /\ segment[s].state = "unused"
        /\ op[o].status = "running" /\ op[o].kind = "archive" /\ op[o].targets = T
    BY <1>3, CycleHolds DEF PublishArchive, At, CycleFits, InArchive
  <2>1. CASE segment' = Erased({s}) /\ UNCHANGED <<export, op>>
    BY <1>3, <2>1, ErasureLeavesCatalog DEF PublishArchive
  <2>2. CASE /\ segment' = [segment EXCEPT ![s].state = "current"]
             /\ export' = [e \in Exports |->
                   IF e \in T
                   THEN [export[e] EXCEPT !.state = "archived", !.hold = 0, !.home = s, !.owner = None]
                   ELSE export[e]]
             /\ op' = Closed({o}, "completed")
    <3> HIDE DEF o, s, T
    <3>1. segment'[s].state = "current" /\ \A t \in Segments : t # s => segment'[t] = segment[t]
      <4>1. [segment[s] EXCEPT !.state = "current"].state = "current"
        BY <2>0 DEF TypeOK, SegmentRecord
      <4> QED BY <2>0, <2>2, <4>1 DEF TypeOK
    <3>2. op'[o].status = "completed" /\ \A p \in Operations : p # o => op'[p] = op[p]
      <4>1. "completed" \in Statuses
        BY DEF Statuses
      <4>2. \A p \in Operations : IF p \in {o} THEN op'[p].status = "completed" ELSE op'[p] = op[p]
        BY <2>2, <4>1, ClosedIsTyped
      <4> QED BY <2>0, <4>2
    <3>3. MovedIn(T, s)
      BY <2>0, <2>2, ArchivingMovesExports
    <3>4. UNCHANGED now
      BY <1>3 DEF PublishArchive
    <3> QED BY <2>0, <3>1, <3>2, <3>3, <3>4, ArchivingKeepsCatalog
  <2> QED BY <1>3, <2>1, <2>2 DEF PublishArchive
<1>4. CASE FailArchive(c)
  <2>1. cycle[c].op \in Operations
    BY <1>4, CycleHolds DEF FailArchive, At, InArchive
  <2> QED BY <1>4, <2>1, EndKeepsCatalog, CatalogStays DEF FailArchive, catalog
<1> QED BY <1>1, <1>2, <1>3, <1>4

\* Every step of a deletion leaves a consistent catalog.
LEMMA DeletionKeepsCatalog ==
  ASSUME Pools, TypeOK, CatalogInv, NEW c \in Cycles, CycleFits(c),
         \/ ClaimDeletion(c) \/ StageDeletion(c) \/ PublishStaged(c) \/ Cutover(c)
         \/ AbandonCutover(c) \/ WithdrawDeletion(c) \/ RemoveContent(c) \/ PublishRemoved(c)
         \/ PublishDeleted(c) \/ ConvergeDeletion(c)
  PROVE  CatalogInv'
<1> USE DEF world
<1>0. cycle[c].pc \in InDeletion => cycle[c].op \in Operations /\ cycle[c].segment \in Segments
  BY CycleHolds
<1>1. CASE ClaimDeletion(c)
  <2>1. ASSUME NEW s \in cycle[c].todo, DeletionClaimable(c, s), NEW o \in FreshOperation,
               ClaimsDeletion(c, s, o), UNCHANGED segment
        PROVE  CatalogInv'
    <3>1. s \in Segments
      BY DEF TypeOK, CycleRecord
    <3> QED BY <1>1, <2>1, <3>1, DeletionClaimKeepsCatalog, ClaimDeletionParts DEF At
  <2> QED BY <1>1, <2>1, CatalogStays, ClaimDeletionParts
<1>2. CASE StageDeletion(c)
  BY <1>0, <1>2, MoveLeavesCatalog, PlacesAre, EndKeepsCatalog, CatalogStays
     DEF StageDeletion, At, InDeletion, catalog
<1>3. CASE PublishStaged(c)
  <2>1. /\ cycle[c].op \in Operations
        /\ op[cycle[c].op].status = "running" /\ op[cycle[c].op].kind = "delete"
    BY <1>0, <1>3 DEF PublishStaged, At, InDeletion, CycleFits, RunningDeletion
  <2>2. "staged" \in BeforeCutover \union AfterCutover
    BY DEF BeforeCutover
  <2> QED BY <1>3, <2>1, <2>2, PhaseKeepsCatalog, CatalogStays DEF PublishStaged, catalog
<1>4. CASE Cutover(c)
  <2>1. /\ cycle[c].op \in Operations
        /\ op[cycle[c].op].status = "running" => op[cycle[c].op].kind = "delete"
    BY <1>0, <1>4 DEF Cutover, At, InDeletion, CycleFits, RunningDeletion
  <2>2. "delete_committing" \in BeforeCutover \union AfterCutover
    BY DEF AfterCutover
  <2> QED BY <1>4, <2>1, <2>2, PhaseKeepsCatalog, CatalogStays DEF Cutover, catalog
<1>5. CASE AbandonCutover(c)
  BY <1>5, CatalogStays DEF AbandonCutover
<1>6. CASE WithdrawDeletion(c)
  BY <1>0, <1>6, MoveLeavesCatalog, PlacesAre, EndKeepsCatalog, CatalogStays
     DEF WithdrawDeletion, At, InDeletion, CancelDeletion
<1>7. CASE RemoveContent(c)
  BY <1>7, ErasureLeavesCatalog, CatalogStays DEF RemoveContent, catalog
<1>8. CASE PublishRemoved(c)
  <2>1. /\ cycle[c].op \in Operations
        /\ op[cycle[c].op].status = "running" /\ op[cycle[c].op].kind = "delete"
    BY <1>0, <1>8 DEF PublishRemoved, At, InDeletion, CycleFits, RunningDeletion
  <2>2. "content_removed" \in BeforeCutover \union AfterCutover
    BY DEF AfterCutover
  <2> QED BY <1>8, <2>1, <2>2, PhaseKeepsCatalog, CatalogStays DEF PublishRemoved, catalog
<1>9. CASE PublishDeleted(c)
  <2>1. /\ cycle[c].op \in Operations
        /\ op[cycle[c].op].status = "running" /\ op[cycle[c].op].kind = "delete"
    BY <1>0, <1>9 DEF PublishDeleted, At, InDeletion, CycleFits, RunningDeletion
  <2> QED BY <1>9, <2>1, CompletionKeepsCatalog, CatalogStays DEF PublishDeleted
<1>10. CASE ConvergeDeletion(c)
  <2>1. /\ cycle[c].op \in Operations
        /\ op[cycle[c].op].status = "running" => cycle[c].op \in Running("delete")
    BY <1>0, <1>10 DEF ConvergeDeletion, At, InDeletion, CycleFits, RunningDeletion, Running
  <2> QED BY <1>10, <2>1, RecoveryKeepsCatalog, CatalogStays DEF ConvergeDeletion
<1> QED BY <1>1, <1>2, <1>3, <1>4, <1>5, <1>6, <1>7, <1>8, <1>9, <1>10

\* The terminal transaction of a restore leaves a consistent catalog.
LEMMA PublishingRestoreKeepsCatalog ==
  ASSUME Pools, TypeOK, CatalogInv, NEW r \in Restores, RestoreFits(r), PublishRestore(r)
  PROVE  CatalogInv'
<1> DEFINE o == restore[r].op
           S == restore[r].segments
           f == restore[r].fresh
           T == op[o].targets
           U == op[o].selected
<1>0. restore[r].pc = "verify" /\ restore[r].todo = {} /\ UNCHANGED now
  BY DEF PublishRestore, RestoreAt, world
<1>1. /\ o \in Operations /\ S \in SUBSET Segments /\ f \in [Segments -> Segments \union {None}]
  BY <1>0 DEF RestoreFits, Preparing, TypeOK, RestoreRecord
<1>2. /\ op[o].status = "running" /\ op[o].kind = "restore" /\ op[o].phase = "planned"
      /\ \A s \in S : segment[s].state = "current"
      /\ \A e \in Exports : e \in T <=> export[e].home \in S
  BY <1>0 DEF RestoreFits, Preparing
<1>3. /\ \A s \in S : f[s] # None => segment[f[s]].state = "unused"
      /\ \A s, t \in S : f[s] # None /\ f[t] = f[s] => t = s
  <2>1. ASSUME NEW s \in S, NEW t \in S, f[s] # None PROVE segment[f[s]].state = "unused" /\ (f[t] = f[s] => t = s)
    <3>1. s \in Segments /\ t \in Segments
      BY <1>1
    <3>2. /\ segment[f[s]].state = "unused"
          /\ \A u \in Segments : f[u] = f[s] => u = s
      BY <1>0, <2>1, <3>1 DEF RestoreFits
    <3> QED BY <3>1, <3>2
  <2> HIDE DEF S, f
  <2> QED BY <2>1
<1>4. \A s \in S : f[s] = None <=> \A e \in Exports : export[e].home = s => e \in U
  BY <1>0, ZenonT(40) DEF RestoreFits
<1>5. now + HoldDays \in Nat
  BY PolicyDays DEF TypeOK
<1>6. /\ export' = [e \in Exports |->
            IF e \in T
            THEN IF e \in U THEN [export[e] EXCEPT !.state = "active", !.home = None, !.hold = now + HoldDays]
                            ELSE [export[e] EXCEPT !.home = f[export[e].home]]
            ELSE export[e]]
      /\ segment' = [s \in Segments |->
            IF s \in S
            THEN [segment[s] EXCEPT !.state = IF f[s] = None THEN "restored" ELSE "superseded"]
            ELSE IF \E t \in S : f[t] = s
            THEN [segment[s] EXCEPT !.state = "current"]
            ELSE segment[s]]
      /\ op' = [op EXCEPT ![o].phase = "content_removed"]
  BY DEF PublishRestore, Restored
<1> HIDE DEF o, S, f, T, U
<1>7. MovedOut(T, U, f, now + HoldDays)
  BY <1>5, <1>6, RestoringMovesExports
<1>8. Replaced(S, f)
  BY <1>1, <1>6, RestoringMovesSegments
<1>9. \A s \in S : f[s] \in Segments \union {None}
  BY <1>1
<1>10. T = op[o].targets /\ U = op[o].selected
  BY DEF T, U
<1> QED BY <1>0, <1>1, <1>2, <1>3, <1>4, <1>6, <1>7, <1>8, <1>9, <1>10, RestoringKeepsCatalog

\* Every step of a restore leaves a consistent catalog.
LEMMA RestoreKeepsCatalog ==
  ASSUME Pools, TypeOK, CatalogInv, NEW r \in Restores, RestoreFits(r),
         Restoring(r) \/ \E scope \in Scopes : RequestRestore(r, scope)
  PROVE  CatalogInv'
<1> USE DEF world
<1>0. restore[r].pc \in Preparing \union {"clean"} => restore[r].op \in Operations
  BY DEF RestoreFits, TypeOK, RestoreRecord
<1>1. CASE FinishCommittedDeletions(r)
  BY <1>1, RecoveryKeepsCatalog DEF FinishCommittedDeletions, CommittedDeletions
<1>2. CASE PreemptDeletion(r)
  <2>1. PICK o \in Running("delete") : segment' = MoveFile(op[o].segment, "installed")
    BY <1>2 DEF PreemptDeletion
  <2>2. op[o].segment \in Segments
    BY DeletionsAreApart DEF Running
  <2> QED BY <1>2, <2>1, <2>2, MoveLeavesCatalog, PlacesAre DEF PreemptDeletion
<1>3. CASE ClaimRestore(r)
  <2>1. PICK o \in FreshOperation : ClaimsRestore(r, o)
    BY <1>3, ClaimRestoreParts
  <2>2. o \in Operations /\ op[o].status # "running" /\ ~Unclaimable(restore[r].scope)
        /\ UNCHANGED <<segment, now>>
    BY <1>3, FreshAreTyped, ClaimRestoreParts
  <2> DEFINE T == Affected(restore[r].scope)
             C == Competing(restore[r].scope)
  <2>3. /\ op'[o].status = "running" /\ op'[o].kind = "restore" /\ op'[o].phase = "planned"
        /\ op'[o].targets = T /\ op'[o].selected = Selected(restore[r].scope)
        /\ Preempts(o, C, T)
    BY <2>1, <2>2, RestoreClaimParts DEF Preempts
  <2>4. Selected(restore[r].scope) \subseteq T
    BY ScopesAreCurrent
  <2>5. T = Affected(restore[r].scope) /\ C = Competing(restore[r].scope)
    OBVIOUS
  <2> HIDE DEF T, C
  <2> QED BY <2>2, <2>3, <2>4, <2>5, RestoreClaimKeepsCatalog
<1>4. CASE RefuseRestore(r) \/ StartRestore(r) \/ PreparationFails(r) \/ AbandonCleanup(r)
  BY <1>4, CatalogStays DEF RefuseRestore, StartRestore, PreparationFails, AbandonCleanup
<1>5. CASE VerifySegment(r)
  BY <1>5, FreshAreTyped, PlacesAre, MoveLeavesCatalog, CatalogStays
     DEF VerifySegment, BuildWithIncarnation, catalog
<1>6. CASE VerificationFails(r)
  <2>1. \A s \in Segments : segment'[s].state = segment[s].state
    <3>1. PICK s \in restore[r].todo :
             \/ segment' = RecordSegmentVerificationFailure(s, "metadata", "unverifiable")
             \/ segment' = RecordSegmentVerificationFailure(s, "payload", "corrupt")
      BY <1>6 DEF VerificationFails
    <3>2. \A t \in Segments : segment[t] \in SegmentRecord
      BY DEF TypeOK
    <3> QED BY <3>1, <3>2 DEF RecordSegmentVerificationFailure, SegmentRecord, TypeOK
  <2> QED BY <1>6, <2>1, MovesLeaveCatalog DEF VerificationFails
<1>7. CASE PublishRestore(r)
  BY <1>7, PublishingRestoreKeepsCatalog
<1>8. CASE DropReplacements(r)
  BY <1>8, ErasureLeavesCatalog, CatalogStays DEF DropReplacements, catalog
<1>9. CASE FailRestore(r)
  BY <1>0, <1>9, EndKeepsCatalog, CatalogStays DEF FailRestore, RestoreAt, Preparing, catalog
<1>10. CASE RemovePublishedArchive(r)
  BY <1>10, ErasureLeavesCatalog DEF RemovePublishedArchive
<1>11. CASE CompleteRestore(r)
  BY <1>0, <1>11, EndKeepsCatalog DEF CompleteRestore, RestoreAt
<1>12. ASSUME NEW scope \in Scopes, RequestRestore(r, scope) PROVE CatalogInv'
  BY <1>12, CatalogStays DEF RequestRestore
<1> QED BY <1>1, <1>2, <1>3, <1>4, <1>5, <1>6, <1>7, <1>8, <1>9, <1>10, <1>11, <1>12 DEF Restoring

\* Every step of the recovery leaves a consistent catalog.
LEMMA RecoveringKeepsCatalog ==
  ASSUME Pools, TypeOK, CatalogInv, Recovery \/ RecoveryFails
  PROVE  CatalogInv'
<1> USE DEF world
<1>1. CASE Restart \/ DeletionsRecovered \/ FilesRecovered \/ RecoveryFails
  BY <1>1, CatalogStays DEF Restart, DeletionsRecovered, FilesRecovered, RecoveryFails
<1>2. ASSUME NEW ops \in SUBSET Operations, NEW status \in {"failed", "completed"},
             export' = Released(ops), op' = Closed(ops, status), UNCHANGED <<segment, now>>
      PROVE  CatalogInv'
  <2>1. status \in Statuses /\ status # "running" /\ None \notin ops
    BY HomesAreCurrent DEF Statuses
  <2> QED BY <1>2, <2>1, ReleaseKeepsCatalog
<1>3. CASE RecoverArchives \/ RecoverRestores
  <2>1. \A kind : {o \in Running(kind) : op[o].phase = "planned"} \in SUBSET Operations
    BY DEF Running
  <2> QED BY <1>2, <1>3, <2>1 DEF RecoverArchives, RecoverRestores, RecoverUnpublished
<1>4. CASE RecoverRestoreCleanup
  <2>1. {o \in Running("restore") : op[o].phase = "content_removed"} \in SUBSET Operations
    BY DEF Running
  <2> QED BY <1>2, <1>4, <2>1 DEF RecoverRestoreCleanup
<1>5. CASE RecoverDeletions
  BY <1>5, RecoveryKeepsCatalog DEF RecoverDeletions
<1>6. CASE RemoveUnreferencedArchiveFiles
  BY <1>6, ErasureLeavesCatalog DEF RemoveUnreferencedArchiveFiles
<1> QED BY <1>1, <1>3, <1>4, <1>5, <1>6 DEF Recovery

\* What happens outside the goroutines leaves a consistent catalog.
LEMMA WorldKeepsCatalog ==
  ASSUME Pools, TypeOK, CatalogInv,
         \/ Tick \/ (\E e \in Exports : Receive(e))
         \/ (\E enabled \in BOOLEAN : UpdateRetentionPolicy(enabled))
         \/ (\E s \in Segments : Damage(s)) \/ Close \/ Exit \/ Crash
         \/ UNCHANGED vars
  PROVE  CatalogInv'
<1>1. CASE Tick
  <2>1. now' \in Nat /\ now <= now'
    BY <1>1 DEF Tick, TypeOK
  <2> QED BY <1>1, <2>1, FilesLeaveCatalog DEF Tick, catalog
<1>2. ASSUME NEW s \in Segments, Damage(s) PROVE CatalogInv'
  <2>1. \A t \in Segments : segment'[t].state = segment[t].state
    BY <1>2 DEF Damage, TypeOK, SegmentRecord
  <2> QED BY <1>2, <2>1, MovesLeaveCatalog DEF Damage
<1>3. CASE Close \/ Exit \/ Crash \/ UNCHANGED vars \/ (\E enabled \in BOOLEAN : UpdateRetentionPolicy(enabled))
  BY <1>3, CatalogStays DEF Close, Exit, Crash, Vanish, UpdateRetentionPolicy, vars, world
<1> QED BY <1>1, <1>2, <1>3, ReceivingKeepsCatalog

\* The planning of a cycle leaves a consistent catalog.
LEMMA PlanningKeepsCatalog ==
  ASSUME Pools, TypeOK, CatalogInv, NEW c \in Cycles,
         \/ BeginRetentionCycle(c) \/ StartCycle(c) \/ LockResume(c) \/ ResumeRetentionDeletions(c)
         \/ PlanCycle(c) \/ SelectGroup(c)
  PROVE  CatalogInv'
<1> USE DEF world
<1>1. CASE \/ BeginRetentionCycle(c) \/ StartCycle(c) \/ LockResume(c) \/ PlanCycle(c) \/ SelectGroup(c)
  BY <1>1, CatalogStays DEF BeginRetentionCycle, StartCycle, LockResume, PlanCycle, SelectGroup
<1>2. CASE ResumeRetentionDeletions(c)
  BY <1>2, RecoveryKeepsCatalog, CatalogStays DEF ResumeRetentionDeletions
<1> QED BY <1>1, <1>2

\* A group about to be claimed is not empty.
LEMMA GroupIsThere ==
  ASSUME Pools, TypeOK, NEW c \in Cycles, CycleFits(c), PlanFits(c), cycle[c].pc = "claim"
  PROVE  cycle[c].group # {}
<1> DEFINE A == Archivable(c)
<1>1. A \in SUBSET Exports /\ Typed
  BY SetsAreTyped DEF TypeOK, Typed
<1>2. cycle[c].groups > 0 /\ CountGroups(A) = cycle[c].groups /\ cycle[c].group = NextGroup(A)
  BY DEF CycleFits, PlanFits
<1> HIDE DEF A
<1>3. A # {}
  BY <1>2, NoGroups
<1> QED BY <1>1, <1>2, <1>3, OneGroupLess

\* Every step leaves a consistent catalog.
LEMMA CatalogKept == Invariant /\ [Next]_vars => CatalogInv'
<1> SUFFICES ASSUME Invariant, [Next]_vars PROVE CatalogInv'
  OBVIOUS
<1>1. /\ Pools /\ TypeOK /\ CatalogInv
      /\ \A c \in Cycles : CycleFits(c) /\ PlanFits(c)
      /\ \A r \in Restores : RestoreFits(r)
  BY Pools DEF Invariant
<1>2. ASSUME NEW c \in Cycles, BeginRetentionCycle(c) \/ Maintenance(c) PROVE CatalogInv'
  <2>1. cycle[c].pc = "claim" => cycle[c].group # {}
    BY <1>1, GroupIsThere
  <2> QED BY <1>1, <1>2, <2>1, PlanningKeepsCatalog, ArchiveKeepsCatalog, DeletionKeepsCatalog DEF Maintenance
<1>3. ASSUME NEW r \in Restores, Restoring(r) \/ \E scope \in Scopes : RequestRestore(r, scope)
      PROVE  CatalogInv'
  BY <1>1, <1>3, RestoreKeepsCatalog
<1>4. CASE \/ Tick \/ (\E e \in Exports : Receive(e))
           \/ (\E enabled \in BOOLEAN : UpdateRetentionPolicy(enabled))
           \/ (\E s \in Segments : Damage(s)) \/ Close \/ Exit \/ Crash
           \/ UNCHANGED vars
  BY <1>1, <1>4, WorldKeepsCatalog
<1>5. CASE Recovery \/ RecoveryFails
  BY <1>1, <1>5, RecoveringKeepsCatalog
<1> QED BY <1>2, <1>3, <1>4, <1>5 DEF Next

-----------------------------------------------------------------------------
(* What a step leaves alone *)

\* No export and no segment changes its place in the catalog ...
HomesStay ==
    /\ \A e \in Exports : export'[e].home = export[e].home
    /\ \A s \in Segments : segment'[s].state = segment[s].state

\* ... or only what operation p is about does.
WorkOf(p) ==
    /\ \A e \in Exports : export'[e].home # export[e].home =>
          /\ e \in op[p].targets
          /\ export'[e].home = None \/ segment[export'[e].home].state = "unused"
    /\ \A s \in Segments : segment'[s].state # segment[s].state =>
          segment[s].state = "unused" \/ \E e \in op[p].targets : export[e].home = s

\* Owners and files may change without any export or segment moving.
LEMMA HomesAreKept ==
  ASSUME TypeOK,
         UNCHANGED export \/ \E ops : export' = Released(ops),
         \/ UNCHANGED segment
         \/ \E S : segment' = Erased(S)
         \/ \E s \in Segments, place \in Places : segment' = MoveFile(s, place)
  PROVE  HomesStay
<1>1. \A e \in Exports : export'[e].home = export[e].home
  BY ReleasedIsTyped DEF SameBut
<1>2. \A s \in Segments : segment'[s].state = segment[s].state
  <2>1. CASE UNCHANGED segment
    BY <2>1
  <2>2. ASSUME NEW S, segment' = Erased(S) PROVE \A s \in Segments : segment'[s].state = segment[s].state
    BY <2>2, ErasedIsTyped DEF SameRow
  <2>3. ASSUME NEW s \in Segments, NEW place \in Places, segment' = MoveFile(s, place)
        PROVE  \A t \in Segments : segment'[t].state = segment[t].state
    BY <2>3, MovedIsTyped DEF SameRow
  <2> QED BY <2>1, <2>2, <2>3
<1> QED BY <1>1, <1>2 DEF HomesStay

\* What the recovery of deletion o changes.
DeletionWork(o) ==
    /\ \A p \in Operations : p # o => op'[p] = op[p]
    /\ op'[o] = op[o] \/ op'[o].status \in {"cancelled", "completed"}
    /\ \A s \in Segments : s # op[o].segment => segment'[s] = segment[s]
    /\ \A s \in Segments : segment'[s].metadata = segment[s].metadata
    /\ \A e \in Exports : e \notin op[o].targets => SameBut(e, export[e].owner)

\* A completed deletion touches its own targets and segment only.
LEMMA CompletionWorks ==
  ASSUME Pools, TypeOK, CatalogInv, NEW o \in Running("delete"), CompleteDeletion(o)
  PROVE  DeletionWork(o) /\ WorkOf(o)
<1>0. o \in Operations /\ op[o].status = "running" /\ op[o].kind = "delete"
  BY DEF Running
<1>1. /\ op[o].segment \in Segments /\ op[o].targets # {} /\ op[o].targets \in SUBSET Exports
      /\ \A e \in Exports : export[e].home = op[o].segment <=> e \in op[o].targets
      /\ \A e \in Exports : export[e].owner = o <=> e \in op[o].targets
  BY <1>0, DeletionsAreApart
<1>2. /\ \A e \in Exports :
            /\ export'[e].state = (IF e \in op[o].targets THEN "deleted" ELSE export[e].state)
            /\ export'[e].received = export[e].received
            /\ export'[e].hold = (IF e \in op[o].targets THEN 0 ELSE export[e].hold)
            /\ export'[e].home = (IF export[e].home = op[o].segment THEN None ELSE export[e].home)
            /\ export'[e].owner = (IF export[e].owner = o THEN None ELSE export[e].owner)
      /\ \A s \in Segments : s # op[o].segment => segment'[s] = segment[s]
      /\ \A s \in Segments : segment'[s].metadata = segment[s].metadata
      /\ op'[o].status = "completed"
      /\ \A p \in Operations : p # o => op'[p] = op[p]
  BY <1>0, CompletionIsTyped
<1>3. DeletionWork(o)
  BY <1>1, <1>2 DEF DeletionWork, SameBut
<1>4. WorkOf(o)
  <2>1. PICK e \in op[o].targets : export[e].home = op[o].segment
    BY <1>1
  <2>2. ASSUME NEW s \in Segments, segment'[s].state # segment[s].state
        PROVE  \E f \in op[o].targets : export[f].home = s
    BY <1>2, <2>1, <2>2
  <2>3. ASSUME NEW f \in Exports, export'[f].home # export[f].home
        PROVE  f \in op[o].targets /\ export'[f].home = None
    BY <1>1, <1>2, <2>3
  <2> QED BY <2>2, <2>3 DEF WorkOf
<1> QED BY <1>3, <1>4

\* A cancelled deletion moves no export.
LEMMA CancellationWorks ==
  ASSUME Pools, TypeOK, CatalogInv, NEW o \in Running("delete"), CancelDeletion(o)
  PROVE  DeletionWork(o) /\ HomesStay
<1>0. o \in Operations /\ op[o].status = "running" /\ op[o].kind = "delete"
  BY DEF Running
<1>1. \A e \in Exports : export[e].owner = o <=> e \in op[o].targets
  BY <1>0, DeletionsAreApart
<1>2. \A e \in Exports : SameBut(e, IF export[e].owner \in {o} THEN None ELSE export[e].owner)
  BY ReleasedIsTyped DEF CancelDeletion
<1>3. \A e \in Exports : e \notin op[o].targets => SameBut(e, export[e].owner)
  BY <1>1, <1>2 DEF SameBut
<1>4. "cancelled" \in Statuses
  BY DEF Statuses
<1>5. \A p \in Operations : IF p \in {o} THEN op'[p].status = "cancelled" ELSE op'[p] = op[p]
  BY <1>4, ClosedIsTyped DEF CancelDeletion
<1>6. DeletionWork(o)
  BY <1>0, <1>3, <1>5 DEF DeletionWork, CancelDeletion
<1>7. HomesStay
  BY HomesAreKept DEF CancelDeletion
<1> QED BY <1>6, <1>7

\* A recovered deletion touches its own targets and segment at most.
LEMMA RecoveryWorks ==
  ASSUME Pools, TypeOK, CatalogInv, NEW o \in Running("delete"), RecoverDeletionOperation(o)
  PROVE  DeletionWork(o) /\ (HomesStay \/ WorkOf(o))
<1>0. op[o].segment \in Segments
  BY DeletionsAreApart DEF Running
<1>1. ASSUME UNCHANGED <<export, op>>, NEW place \in Places, segment' = MoveFile(op[o].segment, place)
      PROVE  DeletionWork(o) /\ HomesStay
  <2>1. /\ \A s \in Segments : s # op[o].segment => segment'[s] = segment[s]
        /\ \A s \in Segments : segment'[s].metadata = segment[s].metadata
    BY <1>0, <1>1, MovedIsTyped DEF SameRow
  <2>2. HomesStay
    BY <1>0, <1>1, HomesAreKept
  <2> QED BY <1>1, <2>1, <2>2 DEF DeletionWork, SameBut
<1>2. ASSUME UNCHANGED <<export, op>>, segment' = Erased({op[o].segment})
      PROVE  DeletionWork(o) /\ HomesStay
  <2>1. /\ \A s \in Segments : s # op[o].segment => segment'[s] = segment[s]
        /\ \A s \in Segments : segment'[s].metadata = segment[s].metadata
    <3>1. /\ \A s \in Segments : s \in {op[o].segment} => SameRow(s)
          /\ \A s \in Segments : s \notin {op[o].segment} => segment'[s] = segment[s]
      BY <1>2, ErasedIsTyped
    <3>2. \A s \in Segments : s \in {op[o].segment} => segment'[s].metadata = segment[s].metadata
      BY <3>1 DEF SameRow
    <3> QED BY <3>1, <3>2
  <2>2. HomesStay
    BY <1>2, HomesAreKept
  <2> QED BY <1>2, <2>1, <2>2 DEF DeletionWork, SameBut
<1> QED BY <1>1, <1>2, PlacesAre, CancellationWorks, CompletionWorks DEF RecoverDeletionOperation

\* A step by or for operation p, or by none, seen from the other restores.
Elsewhere(p) ==
    /\ \A o \in Running("restore") : o # p => op'[o] = op[o]
    /\ \/ HomesStay
       \/ p \in Operations /\ op[p].status = "running" /\ WorkOf(p)
       \/ \E o \in Running("delete") : WorkOf(o)

\* A catalog left alone is left alone by everybody.
LEMMA HomesStayElsewhere ==
  ASSUME UNCHANGED catalog
  PROVE  HomesStay /\ \A p : Elsewhere(p)
BY DEF catalog, HomesStay, Elsewhere, Running

\* Closing an operation does not touch what others own.
LEMMA ClosingIsElsewhere ==
  ASSUME TypeOK, NEW o \in Operations, NEW status \in Statuses,
         op' = Closed({o}, status), export' = Released({o}), UNCHANGED segment
  PROVE  Elsewhere(o)
<1>1. HomesStay
  BY HomesAreKept
<1>2. \A p \in Operations : IF p \in {o} THEN op'[p].status = status ELSE op'[p] = op[p]
  BY ClosedIsTyped
<1> QED BY <1>1, <1>2 DEF Elsewhere, Running

\* The phase of an operation is nobody else's.
LEMMA PhaseIsElsewhere ==
  ASSUME TypeOK, NEW o \in Operations, NEW phase \in Phases,
         op' = [op EXCEPT ![o].phase = phase], UNCHANGED <<export, segment>>
  PROVE  Elsewhere(o)
<1>1. HomesStay
  BY HomesAreKept
<1> QED BY <1>1, PhaseIsTyped DEF Elsewhere, Running

\* A recovered deletion does not touch what others own.
LEMMA RecoveryIsElsewhere ==
  ASSUME Pools, TypeOK, CatalogInv, NEW o \in Running("delete"), RecoverDeletionOperation(o)
  PROVE  \A p : Elsewhere(p)
<1>1. \A q \in Running("restore") : q # o /\ q \in Operations
  BY DEF Running
<1> QED BY <1>1, RecoveryWorks DEF Elsewhere, DeletionWork

\* The planning of a cycle does not touch what anybody owns.
LEMMA PlanningIsElsewhere ==
  ASSUME Pools, TypeOK, CatalogInv, NEW c \in Cycles,
         \/ BeginRetentionCycle(c) \/ StartCycle(c) \/ LockResume(c) \/ ResumeRetentionDeletions(c)
         \/ PlanCycle(c) \/ SelectGroup(c)
  PROVE  \A p : Elsewhere(p)
<1>1. CASE \/ BeginRetentionCycle(c) \/ StartCycle(c) \/ LockResume(c) \/ PlanCycle(c) \/ SelectGroup(c)
  BY <1>1, HomesStayElsewhere DEF BeginRetentionCycle, StartCycle, LockResume, PlanCycle, SelectGroup
<1>2. CASE ResumeRetentionDeletions(c)
  BY <1>2, HomesStayElsewhere, RecoveryIsElsewhere DEF ResumeRetentionDeletions
<1> QED BY <1>1, <1>2

\* The archive of a group does not touch what other operations own.
LEMMA ArchiveIsElsewhere ==
  ASSUME Pools, TypeOK, CatalogInv, NEW c \in Cycles, CycleFits(c),
         ClaimArchive(c) \/ BuildArchive(c) \/ PublishArchive(c) \/ FailArchive(c)
  PROVE  Elsewhere(cycle[c].op)
<1> USE DEF world
<1>1. CASE ClaimArchive(c)
  <2>1. CASE UNCHANGED catalog
    BY <2>1, HomesStayElsewhere
  <2>2. CASE ~UNCHANGED catalog
    <3>1. PICK o \in FreshOperation :
             /\ op' = [op EXCEPT ![o] = [NoOperation EXCEPT
                        !.kind = "archive", !.status = "running", !.phase = "planned",
                        !.targets = cycle[c].group]]
             /\ export' = [e \in Exports |->
                        IF e \in cycle[c].group THEN [export[e] EXCEPT !.owner = o] ELSE export[e]]
             /\ UNCHANGED segment
      BY <1>1, <2>2 DEF ClaimArchive
    <3>2. o \in Operations /\ op[o].status # "running"
      BY FreshAreTyped
    <3>3. \A p \in Running("restore") : op'[p] = op[p]
      BY <3>1, <3>2 DEF Running, TypeOK
    <3>4. \A e \in Exports : export'[e].home = export[e].home
      BY <3>1, <3>2, GivenIsTyped DEF SameBut
    <3> QED BY <3>1, <3>3, <3>4 DEF Elsewhere, HomesStay
  <2> QED BY <2>1, <2>2
<1>2. CASE BuildArchive(c)
  <2>1. /\ UNCHANGED <<export, op>>
        /\ \/ \E s \in Segments, place \in Places : segment' = MoveFile(s, place)
           \/ UNCHANGED segment
    BY <1>2, FreshAreTyped, PlacesAre DEF BuildArchive, BuildWithIncarnation
  <2> QED BY <2>1, HomesAreKept DEF Elsewhere, Running
<1>3. CASE PublishArchive(c)
  <2> DEFINE o == cycle[c].op
             s == cycle[c].segment
             T == cycle[c].group
  <2>0. /\ o \in Operations /\ s \in Segments /\ segment[s].state = "unused"
        /\ op[o].status = "running" /\ op[o].kind = "archive" /\ op[o].targets = T
    BY <1>3, CycleHolds DEF PublishArchive, At, CycleFits, InArchive
  <2>1. CASE segment' = Erased({s}) /\ UNCHANGED <<export, op>>
    BY <2>1, HomesAreKept DEF Elsewhere, Running
  <2>2. CASE /\ segment' = [segment EXCEPT ![s].state = "current"]
             /\ export' = [e \in Exports |->
                   IF e \in T
                   THEN [export[e] EXCEPT !.state = "archived", !.hold = 0, !.home = s, !.owner = None]
                   ELSE export[e]]
             /\ op' = Closed({o}, "completed")
    <3> HIDE DEF o, s, T
    <3>1. \A t \in Segments : t # s => segment'[t] = segment[t]
      BY <2>2 DEF TypeOK
    <3>2. \A p \in Operations : IF p \in {o} THEN op'[p].status = "completed" ELSE op'[p] = op[p]
      <4>1. "completed" \in Statuses
        BY DEF Statuses
      <4> QED BY <2>2, <4>1, ClosedIsTyped
    <3>3. MovedIn(T, s)
      BY <2>0, <2>2, ArchivingMovesExports
    <3>4. WorkOf(o)
      BY <2>0, <3>1, <3>3 DEF WorkOf, MovedIn
    <3>5. o = cycle[c].op
      BY DEF o
    <3> QED BY <2>0, <3>2, <3>4, <3>5 DEF Elsewhere, Running
  <2> QED BY <1>3, <2>1, <2>2 DEF PublishArchive
<1>4. CASE FailArchive(c)
  <2>1. cycle[c].op \in Operations /\ "failed" \in Statuses
    BY <1>4, CycleHolds DEF FailArchive, At, InArchive, Statuses
  <2> QED BY <1>4, <2>1, ClosingIsElsewhere, HomesStayElsewhere DEF FailArchive, catalog
<1> QED BY <1>1, <1>2, <1>3, <1>4

\* A deletion does not touch what other operations own.
LEMMA DeletionIsElsewhere ==
  ASSUME Pools, TypeOK, CatalogInv, NEW c \in Cycles, CycleFits(c),
         \/ ClaimDeletion(c) \/ StageDeletion(c) \/ PublishStaged(c) \/ Cutover(c)
         \/ AbandonCutover(c) \/ WithdrawDeletion(c) \/ RemoveContent(c) \/ PublishRemoved(c)
         \/ PublishDeleted(c) \/ ConvergeDeletion(c)
  PROVE  Elsewhere(cycle[c].op)
<1> USE DEF world
<1>0. cycle[c].pc \in InDeletion => cycle[c].op \in Operations /\ cycle[c].segment \in Segments
  BY CycleHolds
<1>p. {"staged", "delete_committing", "content_removed"} \subseteq Phases
  BY DEF Phases, BeforeCutover, AfterCutover
<1>s. {"cancelled", "failed"} \subseteq Statuses
  BY DEF Statuses
<1>m. ASSUME UNCHANGED <<export, op>>, NEW s \in Segments,
             \/ UNCHANGED segment \/ segment' = Erased({s})
             \/ \E place \in Places : segment' = MoveFile(s, place)
      PROVE  Elsewhere(cycle[c].op)
  BY <1>m, HomesAreKept DEF Elsewhere, Running
<1>1. CASE ClaimDeletion(c)
  <2>1. ASSUME NEW s \in cycle[c].todo, NEW o \in FreshOperation, ClaimsDeletion(c, s, o), UNCHANGED segment
        PROVE  Elsewhere(cycle[c].op)
    <3>1. o \in Operations /\ op[o].status # "running"
      BY FreshAreTyped
    <3>2. \A p \in Running("restore") : op'[p] = op[p]
      BY <2>1, <3>1 DEF Running, TypeOK, ClaimsDeletion
    <3>3. \A e \in Exports : export'[e].home = export[e].home
      BY <2>1, <3>1, GivenIsTyped DEF SameBut, ClaimsDeletion
    <3> QED BY <2>1, <3>2, <3>3 DEF Elsewhere, HomesStay
  <2> QED BY <1>1, <2>1, HomesStayElsewhere, ClaimDeletionParts
<1>2. CASE StageDeletion(c)
  BY <1>0, <1>m, <1>s, <1>2, PlacesAre, ClosingIsElsewhere DEF StageDeletion, At, InDeletion
<1>3. CASE PublishStaged(c)
  BY <1>0, <1>p, <1>3, PhaseIsElsewhere, HomesStayElsewhere DEF PublishStaged, At, InDeletion, catalog
<1>4. CASE Cutover(c)
  BY <1>0, <1>p, <1>4, PhaseIsElsewhere, HomesStayElsewhere DEF Cutover, At, InDeletion, catalog
<1>5. CASE AbandonCutover(c)
  BY <1>5, HomesStayElsewhere DEF AbandonCutover
<1>6. CASE WithdrawDeletion(c)
  <2>1. CASE CancelDeletion(cycle[c].op)
    BY <1>0, <1>s, <1>6, <2>1, ClosingIsElsewhere DEF WithdrawDeletion, At, InDeletion, CancelDeletion
  <2>2. CASE ~CancelDeletion(cycle[c].op)
    BY <1>0, <1>m, <1>6, <2>2, PlacesAre, HomesStayElsewhere DEF WithdrawDeletion, At, InDeletion
  <2> QED BY <2>1, <2>2
<1>7. CASE RemoveContent(c)
  BY <1>0, <1>m, <1>7 DEF RemoveContent, At, InDeletion
<1>8. CASE PublishRemoved(c)
  BY <1>0, <1>p, <1>8, PhaseIsElsewhere, HomesStayElsewhere DEF PublishRemoved, At, InDeletion, catalog
<1>9. CASE PublishDeleted(c)
  <2>1. CASE CompleteDeletion(cycle[c].op)
    <3>1. cycle[c].op \in Running("delete")
      BY <1>0, <1>9 DEF PublishDeleted, At, InDeletion, CycleFits, RunningDeletion, Running
    <3>2. \A p \in Running("restore") : p \in Operations
      BY DEF Running
    <3> QED BY <2>1, <3>1, <3>2, CompletionWorks DEF Elsewhere, DeletionWork
  <2>2. CASE ~CompleteDeletion(cycle[c].op)
    BY <1>9, <2>2, HomesStayElsewhere DEF PublishDeleted
  <2> QED BY <2>1, <2>2
<1>10. CASE ConvergeDeletion(c)
  <2>1. op[cycle[c].op].status = "running" => cycle[c].op \in Running("delete")
    BY <1>0, <1>10 DEF ConvergeDeletion, At, InDeletion, CycleFits, RunningDeletion, Running
  <2> QED BY <1>10, <2>1, RecoveryIsElsewhere, HomesStayElsewhere DEF ConvergeDeletion
<1> QED BY <1>1, <1>2, <1>3, <1>4, <1>5, <1>6, <1>7, <1>8, <1>9, <1>10

\* A restore does not touch what other operations own.
LEMMA RestoreIsElsewhere ==
  ASSUME Pools, TypeOK, CatalogInv, NEW r \in Restores, RestoreFits(r),
         Restoring(r) \/ \E scope \in Scopes : RequestRestore(r, scope)
  PROVE  Elsewhere(restore[r].op)
<1> USE DEF world
<1>0. restore[r].pc \in Preparing \union {"clean"} => restore[r].op \in Operations
  BY DEF RestoreFits, TypeOK, RestoreRecord
<1>s. {"completed", "failed", "cancelled"} \subseteq Statuses
  BY DEF Statuses
<1>m. ASSUME UNCHANGED <<export, op>>,
             \/ UNCHANGED segment \/ \E S : segment' = Erased(S)
             \/ \E s \in Segments, place \in Places : segment' = MoveFile(s, place)
      PROVE  Elsewhere(restore[r].op)
  BY <1>m, HomesAreKept DEF Elsewhere, Running
<1>1. CASE FinishCommittedDeletions(r)
  BY <1>1, RecoveryIsElsewhere DEF FinishCommittedDeletions, CommittedDeletions
<1>2. CASE PreemptDeletion(r)
  <2>1. PICK o \in Running("delete") : segment' = MoveFile(op[o].segment, "installed")
    BY <1>2 DEF PreemptDeletion
  <2>2. op[o].segment \in Segments
    BY DeletionsAreApart DEF Running
  <2> QED BY <1>2, <1>m, <2>1, <2>2, PlacesAre DEF PreemptDeletion
<1>3. CASE ClaimRestore(r)
  <2>1. PICK o \in FreshOperation : ClaimsRestore(r, o)
    BY <1>3, ClaimRestoreParts
  <2>2. o \in Operations /\ op[o].status # "running" /\ ~Unclaimable(restore[r].scope) /\ UNCHANGED segment
    BY <1>3, FreshAreTyped, ClaimRestoreParts
  <2>3. /\ \A p \in Operations : p # o /\ p \notin Competing(restore[r].scope) => op'[p] = op[p]
        /\ \A e \in Exports : SameBut(e, IF e \in Affected(restore[r].scope) THEN o ELSE export[e].owner)
    BY <2>1, <2>2, RestoreClaimParts
  <2>4. \A p \in Competing(restore[r].scope) : op[p].kind = "delete"
    BY <2>2, CompetitorsAreDeletions
  <2>5. \A p \in Running("restore") : op'[p] = op[p]
    BY <2>2, <2>3, <2>4 DEF Running
  <2>6. \A e \in Exports : export'[e].home = export[e].home
    BY <2>3 DEF SameBut
  <2> QED BY <2>2, <2>5, <2>6 DEF Elsewhere, HomesStay
<1>4. CASE RefuseRestore(r) \/ StartRestore(r) \/ PreparationFails(r) \/ AbandonCleanup(r)
  BY <1>4, HomesStayElsewhere DEF RefuseRestore, StartRestore, PreparationFails, AbandonCleanup
<1>5. CASE VerifySegment(r)
  BY <1>5, <1>m, FreshAreTyped, PlacesAre DEF VerifySegment, BuildWithIncarnation
<1>6. CASE VerificationFails(r)
  <2>1. HomesStay
    <3>1. PICK s \in restore[r].todo :
             \/ segment' = RecordSegmentVerificationFailure(s, "metadata", "unverifiable")
             \/ segment' = RecordSegmentVerificationFailure(s, "payload", "corrupt")
      BY <1>6 DEF VerificationFails
    <3>2. \A t \in Segments : segment[t] \in SegmentRecord
      BY DEF TypeOK
    <3>3. \A t \in Segments : segment'[t].state = segment[t].state
      BY <3>1, <3>2 DEF RecordSegmentVerificationFailure, SegmentRecord, TypeOK
    <3> QED BY <1>6, <3>3 DEF HomesStay, VerificationFails
  <2> QED BY <1>6, <2>1 DEF VerificationFails, Elsewhere, Running
<1>7. CASE PublishRestore(r)
  <2> DEFINE o == restore[r].op
             S == restore[r].segments
             f == restore[r].fresh
             T == op[o].targets
             U == op[o].selected
  <2>0. restore[r].pc = "verify" /\ restore[r].todo = {} /\ o \in Operations
    BY <1>0, <1>7 DEF PublishRestore, RestoreAt, Preparing
  <2>1. /\ S \in SUBSET Segments /\ f \in [Segments -> Segments \union {None}]
    BY DEF TypeOK, RestoreRecord
  <2>2. /\ \A s \in S : segment[s].state = "current"
        /\ \A e \in Exports : e \in T <=> export[e].home \in S
        /\ \A s \in S : f[s] # None => segment[f[s]].state = "unused"
    BY <2>0, <2>1 DEF RestoreFits, Preparing
  <2>3. now + HoldDays \in Nat
    BY PolicyDays DEF TypeOK
  <2>4. /\ export' = [e \in Exports |->
              IF e \in T
              THEN IF e \in U THEN [export[e] EXCEPT !.state = "active", !.home = None, !.hold = now + HoldDays]
                              ELSE [export[e] EXCEPT !.home = f[export[e].home]]
              ELSE export[e]]
        /\ segment' = [s \in Segments |->
              IF s \in S
              THEN [segment[s] EXCEPT !.state = IF f[s] = None THEN "restored" ELSE "superseded"]
              ELSE IF \E t \in S : f[t] = s
              THEN [segment[s] EXCEPT !.state = "current"]
              ELSE segment[s]]
        /\ op' = [op EXCEPT ![o].phase = "content_removed"]
    BY <1>7 DEF PublishRestore, Restored
  <2>5. o = restore[r].op
    OBVIOUS
  <2> HIDE DEF o, S, f, T, U
  <2>6. MovedOut(T, U, f, now + HoldDays)
    BY <2>3, <2>4, RestoringMovesExports
  <2>7. Replaced(S, f)
    BY <2>1, <2>4, RestoringMovesSegments
  <2>8. \A p \in Operations : p # o => op'[p] = op[p]
    <3>1. "content_removed" \in Phases
      BY DEF Phases, AfterCutover
    <3> QED BY <2>0, <2>4, <3>1, PhaseIsTyped
  <2>9. ASSUME NEW e \in Exports, export'[e].home # export[e].home
        PROVE  e \in T /\ (export'[e].home = None \/ segment[export'[e].home].state = "unused")
    <3>1. e \in T
      BY <2>6, <2>9 DEF MovedOut
    <3>2. CASE e \in U
      BY <2>6, <3>1, <3>2 DEF MovedOut
    <3>3. CASE e \notin U
      <4>1. export'[e].home = f[export[e].home] /\ export[e].home \in S
        BY <2>2, <2>6, <3>1, <3>3 DEF MovedOut
      <4> QED BY <2>2, <3>1, <4>1
    <3> QED BY <3>2, <3>3
  <2>10. ASSUME NEW s \in Segments, segment'[s].state # segment[s].state
         PROVE  segment[s].state = "unused" \/ \E e \in T : export[e].home = s
    <3>1. CASE s \in S
      <4>1. segment[s].state = "current"
        BY <2>2, <3>1
      <4>2. PICK e \in Exports : export[e].home = s
        BY <4>1 DEF CatalogInv, SegmentsFit
      <4> QED BY <2>2, <3>1, <4>2
    <3>2. CASE s \notin S
      <4>1. PICK t \in S : f[t] = s
        BY <2>7, <2>10, <3>2 DEF Replaced
      <4>2. s # None
        BY HomesAreCurrent
      <4> QED BY <2>2, <4>1, <4>2
    <3> QED BY <3>1, <3>2
  <2>11. WorkOf(o)
    <3>1. T = op[o].targets
      BY DEF T
    <3> QED BY <2>9, <2>10, <3>1 DEF WorkOf
  <2>12. op[o].status = "running"
    BY <2>0 DEF RestoreFits, Preparing, o
  <2> QED BY <2>0, <2>5, <2>8, <2>11, <2>12 DEF Elsewhere, Running
<1>8. CASE DropReplacements(r)
  BY <1>8, <1>m DEF DropReplacements
<1>9. CASE FailRestore(r)
  BY <1>0, <1>s, <1>9, ClosingIsElsewhere, HomesStayElsewhere DEF FailRestore, RestoreAt, Preparing, catalog
<1>10. CASE RemovePublishedArchive(r)
  BY <1>10, <1>m DEF RemovePublishedArchive
<1>11. CASE CompleteRestore(r)
  BY <1>0, <1>s, <1>11, ClosingIsElsewhere DEF CompleteRestore, RestoreAt
<1>12. ASSUME NEW scope \in Scopes, RequestRestore(r, scope) PROVE Elsewhere(restore[r].op)
  BY <1>12, HomesStayElsewhere DEF RequestRestore
<1> QED BY <1>1, <1>2, <1>3, <1>4, <1>5, <1>6, <1>7, <1>8, <1>9, <1>10, <1>11, <1>12 DEF Restoring

\* What is not current any more, or not yet, and what the catalog says of it.
HistoryStays ==
    \A s \in Segments :
       /\ segment'[s].metadata = segment[s].metadata
       /\ segment[s].state # "current" =>
             segment'[s].state = segment[s].state /\ segment'[s].file = segment[s].file

\* The segments a restore has claimed stay as they are while others act.
LEMMA ClaimedStays ==
  ASSUME Pools, TypeOK, CatalogInv, NEW r \in Restores, RestoreFits(r), restore[r].pc \in Preparing,
         NEW p, Elsewhere(p), p # restore[r].op
  PROVE  /\ op'[restore[r].op] = op[restore[r].op]
         /\ \A s \in restore[r].segments :
               /\ segment'[s].state = "current"
               /\ \A e \in Exports : export'[e].home = s <=> export[e].home = s
<1> DEFINE o == restore[r].op
           S == restore[r].segments
<1>1. /\ o \in Operations /\ op[o].status = "running" /\ op[o].kind = "restore"
      /\ S \in SUBSET Segments
      /\ \A s \in S : segment[s].state = "current"
      /\ \A e \in Exports : e \in op[o].targets <=> export[e].home \in S
  BY DEF RestoreFits, Preparing, TypeOK, RestoreRecord
<1>2. op'[o] = op[o]
  BY <1>1 DEF Elsewhere, Running
<1>3. \A e \in Exports, q \in Operations :
         op[q].status = "running" /\ e \in op[q].targets /\ e \in op[o].targets => q = o
  <2>1. \A q \in Operations : op[q].status = "running" => \A e \in op[q].targets : export[e].owner = q
    BY DEF CatalogInv, OperationsFit, OperationFits
  <2> SUFFICES ASSUME NEW q \in Operations, op[q].status = "running",
                      NEW e \in Exports, e \in op[q].targets, e \in op[o].targets
               PROVE  q = o
    OBVIOUS
  <2>2. export[e].owner = q
    BY <2>1
  <2>3. export[e].owner = o
    BY <1>1, <2>1
  <2> QED BY <2>2, <2>3
<1>4. None \notin Segments
  BY HomesAreCurrent
<1> HIDE DEF o, S
<1>5. ASSUME NEW q \in Operations, op[q].status = "running", q # o, WorkOf(q)
      PROVE  \A s \in S : /\ segment'[s].state = "current"
                          /\ \A e \in Exports : export'[e].home = s <=> export[e].home = s
  <2> SUFFICES ASSUME NEW s \in S
               PROVE  /\ segment'[s].state = "current"
                      /\ \A e \in Exports : export'[e].home = s <=> export[e].home = s
    OBVIOUS
  <2>0. op[q].targets \in SUBSET Exports
    BY <1>5 DEF TypeOK, OperationRecord
  <2>1. \A e \in op[q].targets : export[e].home \notin S
    BY <1>1, <1>3, <1>5, <2>0
  <2>2. segment[s].state = "current" /\ s \in Segments
    BY <1>1
  <2>3. segment'[s].state = "current"
    BY <1>5, <2>1, <2>2 DEF WorkOf
  <2>4. ASSUME NEW e \in Exports PROVE export'[e].home = s <=> export[e].home = s
    <3>1. export'[e].home # export[e].home =>
             /\ e \in op[q].targets
             /\ export'[e].home = None \/ segment[export'[e].home].state = "unused"
      BY <1>5 DEF WorkOf
    <3> QED BY <1>4, <2>1, <2>2, <3>1
  <2> QED BY <2>3, <2>4
<1>6. ASSUME HomesStay
      PROVE  \A s \in S : /\ segment'[s].state = "current"
                          /\ \A e \in Exports : export'[e].home = s <=> export[e].home = s
  BY <1>1, <1>6 DEF HomesStay
<1>7. \A q \in Running("delete") : q \in Operations /\ op[q].status = "running" /\ q # o
  BY <1>1 DEF Running
<1>8. p # o
  BY DEF o
<1>9. \A s \in S : /\ segment'[s].state = "current"
                   /\ \A e \in Exports : export'[e].home = s <=> export[e].home = s
  BY <1>5, <1>6, <1>7, <1>8 DEF Elsewhere
<1> QED BY <1>2, <1>9 DEF o, S

\* A restore that does not move keeps what it relies on.
LEMMA RestoreStays ==
  ASSUME Pools, TypeOK, CatalogInv, NEW r \in Restores, RestoreFits(r), restore'[r] = restore[r],
         NEW p, Elsewhere(p), restore[r].op # None => p # restore[r].op,
         restore[r].pc \in Working => HistoryStays
  PROVE  RestoreFits(r)'
<1> DEFINE k == restore[r]
           o == restore[r].op
<1>0. /\ k.segments \in SUBSET Segments /\ k.todo \in SUBSET Segments
      /\ k.fresh \in [Segments -> Segments \union {None}]
      /\ k.pc \in Preparing \union {"clean"} <=> o # None
      /\ o \in Operations \union {None}
  BY DEF TypeOK, RestoreRecord, RestoreFits
<1>1. k.pc \in Preparing =>
          /\ op'[o] = op[o]
          /\ \A s \in k.segments :
                /\ segment'[s].state = "current"
                /\ \A e \in Exports : export'[e].home = s <=> export[e].home = s
  BY <1>0, ClaimedStays
<1>2. k.pc \in Preparing =>
          /\ op'[o].status = "running" /\ op'[o].kind = "restore" /\ op'[o].phase = "planned"
          /\ \A s \in k.segments : segment'[s].state = "current"
          /\ \A e \in Exports : e \in op'[o].targets <=> export'[e].home \in k.segments
  BY <1>1 DEF RestoreFits
<1>3. k.pc = "clean" =>
          /\ op'[o].status = "running" /\ op'[o].kind = "restore" /\ op'[o].phase = "content_removed"
          /\ \A s \in k.todo : segment'[s].state \in {"superseded", "restored"}
  <2> SUFFICES ASSUME k.pc = "clean"
               PROVE  /\ op'[o].status = "running" /\ op'[o].kind = "restore"
                      /\ op'[o].phase = "content_removed"
                      /\ \A s \in k.todo : segment'[s].state \in {"superseded", "restored"}
    OBVIOUS
  <2>1. /\ op[o].status = "running" /\ op[o].kind = "restore" /\ op[o].phase = "content_removed"
        /\ \A s \in k.todo : segment[s].state \in {"superseded", "restored"}
    BY DEF RestoreFits
  <2>2. op'[o] = op[o]
    BY <1>0, <2>1 DEF Elsewhere, Running
  <2>3. \A s \in k.todo : segment'[s].state = segment[s].state
    BY <1>0, <2>1 DEF HistoryStays, Working
  <2> QED BY <2>1, <2>2, <2>3
<1>4. k.pc \notin {"verify", "drop"} => k.pc \in {"fail", "clean"} \/ \A s \in Segments : k.fresh[s] = None
  BY DEF RestoreFits
<1>5. k.pc \in {"verify", "drop"} =>
          /\ k.todo \subseteq k.segments
          /\ \A s \in Segments : k.fresh[s] # None =>
                /\ s \in k.segments \ k.todo
                /\ segment'[k.fresh[s]].state = "unused"
                /\ segment'[k.fresh[s]].file = "installed"
                /\ \A t \in Segments : k.fresh[t] = k.fresh[s] => t = s
  <2> SUFFICES ASSUME k.pc \in {"verify", "drop"}
               PROVE  /\ k.todo \subseteq k.segments
                      /\ \A s \in Segments : k.fresh[s] # None =>
                            /\ s \in k.segments \ k.todo
                            /\ segment'[k.fresh[s]].state = "unused"
                            /\ segment'[k.fresh[s]].file = "installed"
                            /\ \A t \in Segments : k.fresh[t] = k.fresh[s] => t = s
    OBVIOUS
  <2>1. /\ k.todo \subseteq k.segments
        /\ \A s \in Segments : k.fresh[s] # None =>
              /\ s \in k.segments \ k.todo
              /\ segment[k.fresh[s]].state = "unused"
              /\ segment[k.fresh[s]].file = "installed"
              /\ \A t \in Segments : k.fresh[t] = k.fresh[s] => t = s
    BY DEF RestoreFits
  <2>2. \A s \in Segments : segment[s].state = "unused" => segment'[s].state = "unused" /\ segment'[s].file = segment[s].file
    BY DEF HistoryStays, Working
  <2>3. \A s \in Segments : k.fresh[s] \in Segments \union {None}
    BY <1>0
  <2> HIDE DEF k
  <2> QED BY <2>1, <2>2, <2>3
<1>6. k.pc = "verify" =>
          \A s \in k.segments \ k.todo :
             /\ segment'[s].metadata = "verifiable"
             /\ k.fresh[s] = None <=> \A e \in Exports : export'[e].home = s => e \in op'[o].selected
  <2> SUFFICES ASSUME k.pc = "verify", NEW s \in k.segments \ k.todo
               PROVE  /\ segment'[s].metadata = "verifiable"
                      /\ k.fresh[s] = None <=> \A e \in Exports : export'[e].home = s => e \in op'[o].selected
    OBVIOUS
  <2>1. /\ segment[s].metadata = "verifiable"
        /\ k.fresh[s] = None <=> \A e \in Exports : export[e].home = s => e \in op[o].selected
    BY DEF RestoreFits
  <2>2. segment'[s].metadata = "verifiable"
    BY <1>0, <2>1 DEF HistoryStays, Working
  <2>3. op'[o] = op[o] /\ \A e \in Exports : export'[e].home = s <=> export[e].home = s
    BY <1>1 DEF Preparing
  <2> HIDE DEF k, o
  <2> QED BY <2>1, <2>2, <2>3
<1> QED BY <1>0, <1>2, <1>3, <1>4, <1>5, <1>6 DEF RestoreFits

-----------------------------------------------------------------------------
(* The restores *)

\* A restore at rest relies on nothing.
LEMMA IdleRestoreFits ==
  ASSUME NEW r \in Restores, restore'[r] = NoRestore
  PROVE  RestoreFits(r)'
BY DEF RestoreFits, NoRestore, Preparing

\* A cycle and a restore never have the same operation in hand.
LEMMA HandsDiffer ==
  ASSUME Pools, TypeOK, NEW c \in Cycles, CycleFits(c), NEW r \in Restores, RestoreFits(r),
         restore[r].op # None
  PROVE  cycle[c].op # restore[r].op
<1>1. op[restore[r].op].status = "running" /\ op[restore[r].op].kind = "restore"
  BY DEF RestoreFits
<1>2. /\ cycle[c].op # None => cycle[c].pc \in InArchive \union InDeletion
      /\ cycle[c].pc \in InArchive => op[cycle[c].op].kind = "archive"
  BY DEF CycleFits
<1>3. cycle[c].pc \in InDeletion /\ op[cycle[c].op].status = "running" => op[cycle[c].op].kind = "delete"
  BY DEF CycleFits, InDeletion, RunningDeletion
<1> QED BY <1>1, <1>2, <1>3

\* A restore that works keeps all others from archiving, deleting and restoring:
LEMMA OnlyOneWorks ==
  ASSUME Pools, TypeOK, LocksFit, NEW r \in Restores, restore[r].pc \in Working
  PROVE  /\ mu = r /\ r # Nobody
         /\ \A c \in Cycles : cycle[c].pc \in Sleeping /\ mu # c
         /\ \A q \in Restores : q # r => restore[q].pc \in {"idle", "claim", "queued"}
<1>1. mu = r /\ r \notin Cycles /\ r # Nobody
  BY DEF LocksFit, Pools
<1>2. \A q \in Restores : restore[q].pc \in RestoreSteps
  BY DEF TypeOK, RestoreRecord
<1>3. \A q \in Restores : q # r => restore[q].pc \notin Working
  BY <1>1 DEF LocksFit
<1>4. \A c \in Cycles : cycle[c].pc \in Sleeping /\ mu # c
  BY <1>1 DEF LocksFit
<1> QED BY <1>1, <1>2, <1>3, <1>4 DEF Working, RestoreSteps

\* the claim of a restore is all that may happen beside it.
LEMMA ClaimsKeepHistory ==
  ASSUME Pools, TypeOK, CatalogInv, NEW q \in Restores,
         \/ FinishCommittedDeletions(q) \/ PreemptDeletion(q) \/ ClaimRestore(q) \/ RefuseRestore(q)
         \/ \E scope \in Scopes : RequestRestore(q, scope)
  PROVE  HistoryStays
<1>1. ASSUME NEW o \in Running("delete"), \A s \in Segments : s # op[o].segment => segment'[s] = segment[s],
             \A s \in Segments : segment'[s].metadata = segment[s].metadata
      PROVE  HistoryStays
  <2>1. segment[op[o].segment].state = "current"
    BY DeletionsAreApart DEF Running
  <2> QED BY <1>1, <2>1 DEF HistoryStays
<1>2. CASE FinishCommittedDeletions(q)
  <2>1. PICK o \in Running("delete") : RecoverDeletionOperation(o)
    BY <1>2 DEF FinishCommittedDeletions, CommittedDeletions
  <2> QED BY <1>1, <2>1, RecoveryWorks DEF DeletionWork
<1>3. CASE PreemptDeletion(q)
  <2>1. PICK o \in Running("delete") : segment' = MoveFile(op[o].segment, "installed")
    BY <1>3 DEF PreemptDeletion
  <2>2. op[o].segment \in Segments
    BY DeletionsAreApart DEF Running
  <2>3. /\ \A s \in Segments : s # op[o].segment => segment'[s] = segment[s]
        /\ SameRow(op[o].segment)
    BY <2>1, <2>2, MovedIsTyped, PlacesAre
  <2>4. \A s \in Segments : segment'[s].metadata = segment[s].metadata
    BY <2>3 DEF SameRow
  <2> QED BY <1>1, <2>3, <2>4
<1>4. CASE ClaimRestore(q) \/ RefuseRestore(q) \/ \E scope \in Scopes : RequestRestore(q, scope)
  BY <1>4, ClaimRestoreParts DEF RefuseRestore, RequestRestore, catalog, HistoryStays
<1> QED BY <1>2, <1>3, <1>4

\* A restore whose goroutine does not move.
LEMMA OthersLeaveRestore ==
  ASSUME Invariant, NEW r \in Restores,
         \/ \E c \in Cycles : BeginRetentionCycle(c) \/ Maintenance(c)
         \/ \E q \in Restores : q # r /\ (Restoring(q) \/ \E scope \in Scopes : RequestRestore(q, scope))
  PROVE  /\ \E p : Elsewhere(p) /\ (restore[r].op # None => p # restore[r].op)
         /\ restore[r].pc \in Working => HistoryStays
<1>1. /\ Pools /\ TypeOK /\ CatalogInv /\ LocksFit /\ HandsApart
      /\ \A c \in Cycles : CycleFits(c)
      /\ \A q \in Restores : RestoreFits(q)
  BY Pools DEF Invariant
<1>2. ASSUME NEW c \in Cycles, BeginRetentionCycle(c) \/ Maintenance(c)
      PROVE  /\ Elsewhere(cycle[c].op) /\ (restore[r].op # None => cycle[c].op # restore[r].op)
             /\ restore[r].pc \in Working => HistoryStays
  <2>1. Elsewhere(cycle[c].op)
    BY <1>1, <1>2, PlanningIsElsewhere, ArchiveIsElsewhere, DeletionIsElsewhere DEF Maintenance
  <2>2. restore[r].op # None => cycle[c].op # restore[r].op
    BY <1>1, HandsDiffer
  <2>3. ASSUME restore[r].pc \in Working PROVE HistoryStays
    <3>1. cycle[c].pc \in Sleeping /\ mu # c /\ mu = r /\ r # Nobody
      BY <1>1, <2>3, OnlyOneWorks
    <3>2. BeginRetentionCycle(c)
      BY <1>2, <3>1 DEF Maintenance, StartCycle, LockResume, ResumeRetentionDeletions, PlanCycle,
         SelectGroup, ClaimArchive, BuildArchive, PublishArchive, FailArchive, ClaimDeletion,
         StageDeletion, PublishStaged, Cutover, AbandonCutover, WithdrawDeletion, RemoveContent,
         PublishRemoved, PublishDeleted, ConvergeDeletion, At, Sleeping
    <3> QED BY <3>2 DEF BeginRetentionCycle, catalog, HistoryStays
  <2> QED BY <2>1, <2>2, <2>3
<1>3. ASSUME NEW q \in Restores, q # r, Restoring(q) \/ \E scope \in Scopes : RequestRestore(q, scope)
      PROVE  /\ Elsewhere(restore[q].op) /\ (restore[r].op # None => restore[q].op # restore[r].op)
             /\ restore[r].pc \in Working => HistoryStays
  <2>1. Elsewhere(restore[q].op)
    BY <1>1, <1>3, RestoreIsElsewhere
  <2>2. restore[r].op # None => restore[q].op # restore[r].op
    BY <1>1, <1>3 DEF HandsApart
  <2>3. ASSUME restore[r].pc \in Working PROVE HistoryStays
    <3>1. restore[q].pc \in {"idle", "claim", "queued"} /\ mu = r /\ r # Nobody
      BY <1>1, <1>3, <2>3, OnlyOneWorks
    <3>2. \/ FinishCommittedDeletions(q) \/ PreemptDeletion(q) \/ ClaimRestore(q) \/ RefuseRestore(q)
          \/ \E scope \in Scopes : RequestRestore(q, scope)
      BY <1>3, <3>1 DEF Restoring, StartRestore, VerifySegment, VerificationFails, PublishRestore,
         PreparationFails, DropReplacements, FailRestore, RemovePublishedArchive, CompleteRestore,
         AbandonCleanup, RestoreAt
    <3> QED BY <1>1, <3>2, ClaimsKeepHistory
  <2> QED BY <2>1, <2>2, <2>3
<1> QED BY <1>2, <1>3

\* The restore whose goroutine moves.  Up to the end of its preparation it
\* needs its claim, which its own steps leave alone.
LEMMA OwnClaimFits ==
  ASSUME Pools, TypeOK, NEW r \in Restores, RestoreFits(r), restore[r].pc \in Preparing,
         restore'[r].pc \in Preparing, SameClaim(r), UNCHANGED <<export, op>>,
         \A s \in Segments : segment'[s].state = segment[s].state,
         restore'[r].pc = "fail" \/
            /\ restore'[r].pc \in {"verify", "drop"}
            /\ restore'[r].todo \subseteq restore[r].segments
            /\ \A s \in Segments : restore'[r].fresh[s] # None =>
                  /\ s \in restore[r].segments \ restore'[r].todo
                  /\ segment'[restore'[r].fresh[s]].state = "unused"
                  /\ segment'[restore'[r].fresh[s]].file = "installed"
                  /\ \A t \in Segments : restore'[r].fresh[t] = restore'[r].fresh[s] => t = s,
         restore'[r].pc = "verify" =>
            \A s \in restore[r].segments \ restore'[r].todo :
               /\ segment'[s].metadata = "verifiable"
               /\ restore'[r].fresh[s] = None <=>
                     \A e \in Exports : export[e].home = s => e \in op[restore[r].op].selected
  PROVE  RestoreFits(r)'
<1> DEFINE o == restore[r].op
           S == restore[r].segments
<1>1. /\ o # None /\ op[o].status = "running" /\ op[o].kind = "restore" /\ op[o].phase = "planned"
      /\ \A s \in S : segment[s].state = "current"
      /\ \A e \in Exports : e \in op[o].targets <=> export[e].home \in S
      /\ S \in SUBSET Segments
  BY DEF RestoreFits, TypeOK, RestoreRecord
<1>2. restore'[r].op = o /\ restore'[r].segments = S
  BY DEF SameClaim
<1>3. restore'[r].pc \in Preparing /\ restore'[r].pc # "clean"
  BY DEF Preparing
<1>4. \A s \in S : segment'[s].state = "current"
  BY <1>1
<1> HIDE DEF o, S
<1>5. restore'[r].pc \notin {"verify", "drop"} =>
         restore'[r].pc \in {"fail", "clean"} \/ \A s \in Segments : restore'[r].fresh[s] = None
  OBVIOUS
<1>6. restore'[r].pc \in {"verify", "drop"} =>
          /\ restore'[r].todo \subseteq S
          /\ \A s \in Segments : restore'[r].fresh[s] # None =>
                /\ s \in S \ restore'[r].todo
                /\ segment'[restore'[r].fresh[s]].state = "unused"
                /\ segment'[restore'[r].fresh[s]].file = "installed"
                /\ \A t \in Segments : restore'[r].fresh[t] = restore'[r].fresh[s] => t = s
  BY DEF S
<1>7. restore'[r].pc = "verify" =>
          \A s \in S \ restore'[r].todo :
             /\ segment'[s].metadata = "verifiable"
             /\ restore'[r].fresh[s] = None <=> \A e \in Exports : export'[e].home = s => e \in op'[o].selected
  BY DEF S, o
<1>8. restore'[r].pc \in Preparing \union {"clean"} <=> restore'[r].op # None
  BY <1>1, <1>2, <1>3
<1>9. /\ op'[restore'[r].op].status = "running" /\ op'[restore'[r].op].kind = "restore"
      /\ op'[restore'[r].op].phase = "planned"
      /\ \A s \in restore'[r].segments : segment'[s].state = "current"
      /\ \A e \in Exports : e \in op'[restore'[r].op].targets <=> export'[e].home \in restore'[r].segments
  BY <1>1, <1>2, <1>4
<1>10. restore'[r].pc \in {"verify", "drop"} =>
          /\ restore'[r].todo \subseteq restore'[r].segments
          /\ \A s \in Segments : restore'[r].fresh[s] # None =>
                /\ s \in restore'[r].segments \ restore'[r].todo
                /\ segment'[restore'[r].fresh[s]].state = "unused"
                /\ segment'[restore'[r].fresh[s]].file = "installed"
                /\ \A t \in Segments : restore'[r].fresh[t] = restore'[r].fresh[s] => t = s
  BY <1>2, <1>6
<1>11. restore'[r].pc = "verify" =>
          \A s \in restore'[r].segments \ restore'[r].todo :
             /\ segment'[s].metadata = "verifiable"
             /\ restore'[r].fresh[s] = None <=>
                   \A e \in Exports : export'[e].home = s => e \in op'[restore'[r].op].selected
  BY <1>2, <1>7
<1> QED BY <1>3, <1>5, <1>8, <1>9, <1>10, <1>11 DEF RestoreFits

\* A verified segment and its replacement are what the restore expects.
LEMMA VerifyingFits ==
  ASSUME Pools, TypeOK, CatalogInv, FilesFit, NEW r \in Restores, RestoreFits(r), VerifySegment(r)
  PROVE  RestoreFits(r)'
<1>1. PICK s \in restore[r].todo :
          /\ OpenVerified(s)
          /\ \/ /\ Remaining(r, s) = {}
                /\ restore' = [restore EXCEPT ![r].todo = @ \ {s}]
                /\ UNCHANGED segment
             \/ /\ Remaining(r, s) # {}
                /\ \E n \in FreshSegment :
                      /\ Replaces(r, s, n)
                      /\ segment' = BuildWithIncarnation(n)
  BY DEF VerifySegment, Replaces
<1> DEFINE S == restore[r].segments
           D == restore[r].todo
           f == restore[r].fresh
           U == op[restore[r].op].selected
<1>2. /\ restore[r].pc = "verify" /\ UNCHANGED <<export, op>>
      /\ S \in SUBSET Segments /\ D \in SUBSET Segments /\ D \subseteq S
      /\ f \in [Segments -> Segments \union {None}]
      /\ \A t \in Segments : f[t] # None =>
            /\ t \in S \ D
            /\ segment[f[t]].state = "unused" /\ segment[f[t]].file = "installed"
            /\ \A u \in Segments : f[u] = f[t] => u = t
      /\ \A t \in S \ D :
            /\ segment[t].metadata = "verifiable"
            /\ f[t] = None <=> \A e \in Exports : export[e].home = t => e \in U
  BY DEF VerifySegment, RestoreAt, RestoreFits, TypeOK, RestoreRecord
<1>3. segment[s].metadata = "verifiable" /\ s \in Segments /\ segment[s].file = "installed"
  <2>1. segment[s].damage = "none" /\ segment[s].file = "installed" /\ s \in Segments
    BY <1>1, <1>2 DEF OpenVerified
  <2>2. segment[s].metadata \in {"verifiable", "unverifiable"}
    BY <2>1 DEF TypeOK, SegmentRecord
  <2> QED BY <2>1, <2>2 DEF FilesFit
<1>4. Remaining(r, s) = {} <=> \A e \in Exports : export[e].home = s => e \in U
  BY DEF Remaining, Members
<1>5. f[s] = None
  BY <1>1, <1>2, <1>3
<1>6. CASE Remaining(r, s) = {} /\ restore' = [restore EXCEPT ![r].todo = @ \ {s}] /\ UNCHANGED segment
  <2>1. /\ restore'[r].pc = "verify" /\ SameClaim(r)
        /\ restore'[r].todo = D \ {s} /\ restore'[r].fresh = f
    BY <1>2, <1>6, OneLess
  <2>2. "verify" \in Preparing
    BY DEF Preparing
  <2> HIDE DEF S, D, f, U
  <2>3. \A t \in Segments : f[t] # None =>
            /\ t \in S \ (D \ {s})
            /\ segment'[f[t]].state = "unused" /\ segment'[f[t]].file = "installed"
            /\ \A u \in Segments : f[u] = f[t] => u = t
    BY <1>2, <1>6
  <2>4. \A t \in S \ (D \ {s}) :
            /\ segment'[t].metadata = "verifiable"
            /\ f[t] = None <=> \A e \in Exports : export[e].home = t => e \in U
    BY <1>2, <1>3, <1>4, <1>5, <1>6
  <2>5. D \ {s} \subseteq S /\ \A t \in Segments : segment'[t].state = segment[t].state
    BY <1>2, <1>6
  <2> QED BY <1>2, <2>1, <2>2, <2>3, <2>4, <2>5, OwnClaimFits DEF S, D, f, U
<1>7. ASSUME NEW n \in FreshSegment, Remaining(r, s) # {},
             Replaces(r, s, n), segment' = BuildWithIncarnation(n)
      PROVE  RestoreFits(r)'
  <2> DEFINE g == restore'[r].fresh
  <2>0. n \in Segments /\ segment[n].state = "unused" /\ segment[n].file = "absent" /\ n # None
    BY FreshAreTyped, HomesAreCurrent
  <2>1. /\ restore'[r].pc = "verify" /\ SameClaim(r)
        /\ restore'[r].todo = D \ {s}
        /\ \A t \in Segments : g[t] = IF t = s THEN n ELSE f[t]
    <3>1. /\ restore'[r].pc = restore[r].pc /\ SameClaim(r)
          /\ restore'[r].todo = restore[r].todo \ {s}
          /\ \A t \in Segments : restore'[r].fresh[t] = IF t = s THEN n ELSE restore[r].fresh[t]
      <4>1. \A t \in Segments : restore'[r].fresh[t] = IF t = s THEN n ELSE restore[r].fresh[t]
        BY <1>3, <1>7, <2>0, OneReplaced
      <4>2. /\ restore'[r].pc = restore[r].pc /\ SameClaim(r)
            /\ restore'[r].todo = restore[r].todo \ {s}
        BY <1>3, <1>7, <2>0, OneReplaced
      <4> QED BY <4>1, <4>2
    <3> QED BY <1>2, <3>1
  <2>2. "verify" \in Preparing
    BY DEF Preparing
  <2>3. /\ segment'[n].file = "installed" /\ SameRow(n)
        /\ \A t \in Segments : t # n => segment'[t] = segment[t]
    BY <1>7, <2>0, MovedIsTyped, PlacesAre DEF BuildWithIncarnation
  <2>4. \A t \in Segments : segment'[t].state = segment[t].state /\ segment'[t].metadata = segment[t].metadata
    BY <2>3 DEF SameRow
  <2> HIDE DEF S, D, f, U, g
  <2>5. ASSUME NEW t \in Segments, g[t] # None
        PROVE  /\ t \in S \ (D \ {s})
               /\ segment'[g[t]].state = "unused" /\ segment'[g[t]].file = "installed"
               /\ \A u \in Segments : g[u] = g[t] => u = t
    <3>1. CASE t = s
      <4>1. g[t] = n /\ \A u \in Segments : f[u] # n
        BY <1>2, <2>0, <2>1, <3>1
      <4> QED BY <1>1, <1>2, <2>0, <2>1, <2>3, <2>4, <3>1, <4>1 DEF D
    <3>2. CASE t # s
      <4>0. g[t] = f[t] /\ f[t] # None
        BY <2>1, <2>5, <3>2
      <4>1. g[t] = f[t] /\ f[t] # None /\ f[t] \in Segments
        BY <1>2, <4>0
      <4>2. f[t] # n /\ segment'[f[t]] = segment[f[t]]
        BY <1>2, <2>0, <2>3, <4>1
      <4>3. \A u \in Segments : g[u] = f[t] => u = t
        BY <1>2, <2>1, <4>1, <4>2
      <4> QED BY <1>2, <4>1, <4>2, <4>3
    <3> QED BY <3>1, <3>2
  <2>6. \A t \in S \ (D \ {s}) :
            /\ segment'[t].metadata = "verifiable"
            /\ g[t] = None <=> \A e \in Exports : export[e].home = t => e \in U
    BY <1>2, <1>3, <1>4, <1>7, <2>0, <2>1, <2>4
  <2>7. D \ {s} \subseteq S
    BY <1>2
  <2> QED BY <1>2, <2>1, <2>2, <2>4, <2>5, <2>6, <2>7, OwnClaimFits DEF S, D, f, U, g
<1> QED BY <1>1, <1>6, <1>7

\* A restore that has no claim.
LEMMA UnclaimedFits ==
  ASSUME NEW r \in Restores, RestoreFits(r), restore[r].pc \in {"idle", "claim"},
         restore'[r].pc \in {"idle", "claim"}, restore'[r].op = restore[r].op,
         restore'[r].fresh = restore[r].fresh
  PROVE  RestoreFits(r)'
<1>1. restore[r].op = None /\ \A s \in Segments : restore[r].fresh[s] = None
  BY DEF RestoreFits, Preparing
<1>2. restore'[r].pc \notin Preparing \union {"clean", "verify", "drop"}
  BY DEF Preparing
<1>3. restore'[r].op = None /\ \A s \in Segments : restore'[r].fresh[s] = None
  BY <1>1
<1> QED BY <1>2, <1>3 DEF RestoreFits

\* A preparing restore whose goroutine turns to its clean-up.
LEMMA TurningFits ==
  ASSUME Pools, TypeOK, NEW r \in Restores, RestoreFits(r), restore[r].pc \in Preparing,
         UNCHANGED <<export, op>>, \A s \in Segments : segment'[s].state = segment[s].state,
         \/ RestoreTo(r, "fail")
         \/ /\ restore[r].pc = "verify" /\ RestoreTo(r, "drop")
            /\ \A s \in Segments : segment'[s].file = segment[s].file
  PROVE  RestoreFits(r)'
<1>1. CASE RestoreTo(r, "fail")
  <2>1. "fail" \in RestoreSteps /\ "fail" \in Preparing
    BY DEF RestoreSteps, Preparing
  <2>2. restore'[r].pc = "fail" /\ SameClaim(r)
    BY <1>1, <2>1, RestoreTurns
  <2> QED BY <2>1, <2>2, OwnClaimFits
<1>2. CASE /\ restore[r].pc = "verify" /\ RestoreTo(r, "drop")
           /\ \A s \in Segments : segment'[s].file = segment[s].file
  <2>1. "drop" \in RestoreSteps /\ "drop" \in Preparing
    BY DEF RestoreSteps, Preparing
  <2>2. /\ restore'[r].pc = "drop" /\ SameClaim(r)
        /\ restore'[r].todo = restore[r].todo /\ restore'[r].fresh = restore[r].fresh
    BY <1>2, <2>1, RestoreTurns
  <2>3. /\ restore[r].todo \subseteq restore[r].segments
        /\ \A s \in Segments : restore[r].fresh[s] # None =>
              /\ s \in restore[r].segments \ restore[r].todo
              /\ segment[restore[r].fresh[s]].state = "unused"
              /\ segment[restore[r].fresh[s]].file = "installed"
              /\ \A t \in Segments : restore[r].fresh[t] = restore[r].fresh[s] => t = s
    BY <1>2 DEF RestoreFits
  <2>4. \A s \in Segments : restore[r].fresh[s] \in Segments \union {None}
    BY DEF TypeOK, RestoreRecord
  <2>5. \A s \in Segments : restore[r].fresh[s] # None =>
              /\ segment'[restore[r].fresh[s]].state = "unused"
              /\ segment'[restore[r].fresh[s]].file = "installed"
    BY <1>2, <2>3, <2>4
  <2>6. /\ restore'[r].todo \subseteq restore[r].segments
        /\ \A s \in Segments : restore'[r].fresh[s] # None =>
              /\ s \in restore[r].segments \ restore'[r].todo
              /\ segment'[restore'[r].fresh[s]].state = "unused"
              /\ segment'[restore'[r].fresh[s]].file = "installed"
              /\ \A t \in Segments : restore'[r].fresh[t] = restore'[r].fresh[s] => t = s
    BY <2>2, <2>3, <2>5
  <2> QED BY <2>1, <2>2, <2>6, OwnClaimFits
<1> QED BY <1>1, <1>2

\* A restore that gets mu starts from what it has claimed.
LEMMA StartingFits ==
  ASSUME Pools, TypeOK, NEW r \in Restores, RestoreFits(r), StartRestore(r)
  PROVE  RestoreFits(r)'
<1>1. restore[r].pc = "queued" /\ "queued" \in Preparing /\ UNCHANGED <<export, op, segment>>
  BY DEF StartRestore, RestoreAt, Preparing, catalog
<1>2. \A s \in Segments : segment'[s].state = segment[s].state
  BY <1>1
<1>3. CASE RestoreTo(r, "fail")
  BY <1>1, <1>2, <1>3, TurningFits
<1>4. CASE restore' = [restore EXCEPT ![r].pc = "verify", ![r].todo = restore[r].segments]
  <2>1. /\ restore'[r].pc = "verify" /\ SameClaim(r) /\ "verify" \in Preparing
        /\ restore'[r].todo = restore[r].segments /\ restore'[r].fresh = restore[r].fresh
    BY <1>4, RestoreStarts DEF Preparing
  <2>2. \A s \in Segments : restore[r].fresh[s] = None
    BY <1>1 DEF RestoreFits
  <2>3. \A s \in Segments : restore'[r].fresh[s] = None
    BY <2>1, <2>2
  <2>4. restore[r].segments \ restore'[r].todo = {} /\ restore'[r].todo \subseteq restore[r].segments
    BY <2>1
  <2> QED BY <1>1, <1>2, <2>1, <2>3, <2>4, OwnClaimFits
<1> QED BY <1>3, <1>4 DEF StartRestore

\* A mark left on a segment changes nothing else of it.
LEMMA MarksAreTyped ==
  ASSUME TypeOK, NEW r \in Restores, VerificationFails(r)
  PROVE  \A s \in Segments :
            /\ segment'[s].state = segment[s].state /\ segment'[s].file = segment[s].file
            /\ segment'[s].damage = segment[s].damage
            /\ segment'[s].metadata # segment[s].metadata =>
                  /\ s \in restore[r].todo /\ segment[s].state = "current"
                  /\ segment[s].damage = "metadata" /\ segment'[s].metadata = "unverifiable"
<1>1. PICK s \in restore[r].todo :
         \/ segment[s].damage = "metadata" /\ segment' = RecordSegmentVerificationFailure(s, "metadata", "unverifiable")
         \/ segment' = RecordSegmentVerificationFailure(s, "payload", "corrupt")
  BY DEF VerificationFails
<1>2. \A t \in Segments : segment[t] \in SegmentRecord
  BY DEF TypeOK
<1>3. CASE UNCHANGED segment
  BY <1>3
<1>4. CASE /\ segment[s].damage = "metadata" /\ segment[s].state = "current"
           /\ segment' = [segment EXCEPT ![s]["metadata"] = "unverifiable"]
  BY <1>1, <1>2, <1>4 DEF SegmentRecord, TypeOK
<1>5. CASE segment[s].state = "current" /\ segment' = [segment EXCEPT ![s]["payload"] = "corrupt"]
  BY <1>1, <1>2, <1>5 DEF SegmentRecord, TypeOK
<1> QED BY <1>1, <1>3, <1>4, <1>5 DEF RecordSegmentVerificationFailure

\* What the terminal transaction of a restore does to the tables.
LEMMA PublishRestoreParts ==
  ASSUME Pools, TypeOK, NEW r \in Restores, RestoreFits(r), PublishRestore(r)
  PROVE  LET o == restore[r].op IN
         /\ o \in Operations /\ o # None
         /\ MovedOut(op[o].targets, op[o].selected, restore[r].fresh, now + HoldDays)
         /\ Replaced(restore[r].segments, restore[r].fresh)
         /\ op'[o] = [op[o] EXCEPT !.phase = "content_removed"]
         /\ \A p \in Operations : p # o => op'[p] = op[p]
<1> DEFINE o == restore[r].op
           S == restore[r].segments
           f == restore[r].fresh
           T == op[o].targets
           U == op[o].selected
<1>1. o \in Operations /\ o # None /\ S \in SUBSET Segments
  BY DEF PublishRestore, RestoreAt, RestoreFits, Preparing, TypeOK, RestoreRecord
<1>2. now + HoldDays \in Nat
  BY PolicyDays DEF TypeOK
<1>3. /\ export' = [e \in Exports |->
            IF e \in T
            THEN IF e \in U THEN [export[e] EXCEPT !.state = "active", !.home = None, !.hold = now + HoldDays]
                            ELSE [export[e] EXCEPT !.home = f[export[e].home]]
            ELSE export[e]]
      /\ segment' = [s \in Segments |->
            IF s \in S
            THEN [segment[s] EXCEPT !.state = IF f[s] = None THEN "restored" ELSE "superseded"]
            ELSE IF \E t \in S : f[t] = s
            THEN [segment[s] EXCEPT !.state = "current"]
            ELSE segment[s]]
      /\ op' = [op EXCEPT ![o].phase = "content_removed"]
  BY DEF PublishRestore, Restored
<1>4. "content_removed" \in Phases
  BY DEF Phases, AfterCutover
<1> HIDE DEF o, S, f, T, U
<1>5. MovedOut(T, U, f, now + HoldDays)
  BY <1>2, <1>3, RestoringMovesExports
<1>6. Replaced(S, f)
  BY <1>1, <1>3, RestoringMovesSegments
<1>7. op'[o] = [op[o] EXCEPT !.phase = "content_removed"] /\ \A p \in Operations : p # o => op'[p] = op[p]
  BY <1>1, <1>3, <1>4, PhaseIsTyped
<1> QED BY <1>1, <1>5, <1>6, <1>7 DEF o, S, f, T, U

\* A restore that cleans up.
LEMMA CleaningFits ==
  ASSUME NEW r \in Restores, restore'[r].pc = "clean", restore'[r].op # None,
         op'[restore'[r].op].status = "running", op'[restore'[r].op].kind = "restore",
         op'[restore'[r].op].phase = "content_removed",
         \A s \in restore'[r].todo : segment'[s].state \in {"superseded", "restored"}
  PROVE  RestoreFits(r)'
BY DEF RestoreFits, Preparing

\* A published restore has only its old files left to remove.
LEMMA PublishingFits ==
  ASSUME Pools, TypeOK, NEW r \in Restores, RestoreFits(r), PublishRestore(r)
  PROVE  RestoreFits(r)'
<1> DEFINE o == restore[r].op
<1>1. /\ restore'[r].pc = "clean" /\ SameClaim(r) /\ restore'[r].todo = restore[r].segments
  BY RestoreCleans DEF PublishRestore
<1>2. o \in Operations /\ o # None /\ op'[o] = [op[o] EXCEPT !.phase = "content_removed"]
  BY PublishRestoreParts
<1>3. op[o].status = "running" /\ op[o].kind = "restore"
  BY DEF PublishRestore, RestoreAt, RestoreFits, Preparing
<1>4. op[o] \in OperationRecord
  BY <1>2 DEF TypeOK
<1>5. op'[o].status = "running" /\ op'[o].kind = "restore" /\ op'[o].phase = "content_removed"
  BY <1>2, <1>3, <1>4 DEF OperationRecord
<1>6. \A s \in restore[r].segments : segment'[s].state \in {"superseded", "restored"}
  <2>1. restore[r].segments \in SUBSET Segments
    BY DEF TypeOK, RestoreRecord
  <2> QED BY <2>1, PublishRestoreParts DEF Replaced
<1>7. restore'[r].op = o
  BY <1>1 DEF SameClaim
<1> HIDE DEF o
<1> QED BY <1>1, <1>2, <1>5, <1>6, <1>7, CleaningFits

\* Removing the old files of a published restore touches nothing else.
LEMMA RemovingFits ==
  ASSUME Pools, TypeOK, NEW r \in Restores, RestoreFits(r), RemovePublishedArchive(r)
  PROVE  RestoreFits(r)'
<1>1. PICK s \in restore[r].todo :
          segment' = Erased({s}) /\ restore' = [restore EXCEPT ![r].todo = @ \ {s}]
  BY DEF RemovePublishedArchive
<1>2. /\ restore[r].pc = "clean" /\ UNCHANGED op /\ restore[r].todo \in SUBSET Segments
      /\ restore[r].op # None
      /\ op[restore[r].op].status = "running" /\ op[restore[r].op].kind = "restore"
      /\ op[restore[r].op].phase = "content_removed"
      /\ \A t \in restore[r].todo : segment[t].state \in {"superseded", "restored"}
  BY DEF RemovePublishedArchive, RestoreAt, RestoreFits, TypeOK, RestoreRecord
<1>3. /\ restore'[r].pc = "clean" /\ SameClaim(r) /\ restore'[r].todo \subseteq restore[r].todo
  <2>1. /\ restore'[r].pc = restore[r].pc /\ SameClaim(r)
        /\ restore'[r].todo = restore[r].todo \ {s}
    BY <1>1, OneLess
  <2> QED BY <1>2, <2>1
<1>4. \A t \in Segments : segment'[t].state = segment[t].state
  BY <1>1, ErasedIsTyped DEF SameRow
<1>5. restore'[r].op = restore[r].op
  BY <1>3 DEF SameClaim
<1>6. \A t \in restore'[r].todo : segment'[t].state \in {"superseded", "restored"}
  BY <1>2, <1>3, <1>4
<1> QED BY <1>2, <1>3, <1>5, <1>6, CleaningFits

\* A restore that has claimed owns exactly what its scope affects.
LEMMA ClaimingFits ==
  ASSUME Pools, TypeOK, CatalogInv, NEW r \in Restores, RestoreFits(r), ClaimRestore(r)
  PROVE  RestoreFits(r)'
<1> DEFINE scope == restore[r].scope
<1>1. PICK o \in FreshOperation : ClaimsRestore(r, o)
  BY ClaimRestoreParts
<1>2. o \in Operations /\ ~Unclaimable(scope) /\ UNCHANGED segment /\ restore[r].pc = "claim"
  BY FreshAreTyped, ClaimRestoreParts DEF RestoreAt
<1>3. /\ restore'[r].pc = "queued" /\ restore'[r].op = o
      /\ restore'[r].segments = ScopeSegments(scope) /\ restore'[r].fresh = restore[r].fresh
  BY <1>1, <1>2, RestoreIsClaimed
<1>4. \A s \in Segments : restore[r].fresh[s] = None
  BY <1>2 DEF RestoreFits
<1>5. /\ op'[o].status = "running" /\ op'[o].kind = "restore" /\ op'[o].phase = "planned"
      /\ op'[o].targets = Affected(scope)
      /\ \A e \in Exports : SameBut(e, IF e \in Affected(scope) THEN o ELSE export[e].owner)
  BY <1>1, <1>2, RestoreClaimParts
<1>6. /\ \A s \in ScopeSegments(scope) : segment[s].state = "current"
      /\ \A e \in Exports : e \in Affected(scope) <=> export[e].home \in ScopeSegments(scope)
  BY ScopesAreCurrent
<1>7. \A e \in Exports : export'[e].home = export[e].home
  BY <1>5 DEF SameBut
<1>8. o # None
  BY <1>2, Pools DEF None
<1> HIDE DEF scope
<1> QED BY <1>2, <1>3, <1>4, <1>5, <1>6, <1>7, <1>8 DEF RestoreFits, Preparing

\* The restore whose goroutine moves has what its next step needs.
LEMMA OwnRestoreFits ==
  ASSUME Pools, TypeOK, CatalogInv, FilesFit, NEW r \in Restores, RestoreFits(r),
         Restoring(r) \/ \E scope \in Scopes : RequestRestore(r, scope)
  PROVE  RestoreFits(r)'
<1>0. {"verify", "drop", "fail"} \subseteq Preparing
  BY DEF Preparing
<1>1. CASE FinishCommittedDeletions(r) \/ PreemptDeletion(r)
  BY <1>1, UnclaimedFits DEF FinishCommittedDeletions, PreemptDeletion, RestoreAt
<1>2. CASE RefuseRestore(r) \/ FailRestore(r) \/ CompleteRestore(r) \/ AbandonCleanup(r)
  BY <1>2, RestoreEnds, IdleRestoreFits DEF RefuseRestore, ClaimOver, FailRestore, CompleteRestore,
     AbandonCleanup, RestoreOver
<1>3. CASE VerificationFails(r)
  BY <1>0, <1>3, MarksAreTyped, TurningFits DEF VerificationFails, RestoreAt
<1>4. CASE PreparationFails(r)
  BY <1>0, <1>4, TurningFits DEF PreparationFails, RestoreAt, catalog
<1>5. CASE DropReplacements(r)
  <2>1. \A s \in Segments : segment'[s].state = segment[s].state
    BY <1>5, ErasedIsTyped DEF DropReplacements, SameRow
  <2> QED BY <1>0, <1>5, <2>1, TurningFits DEF DropReplacements, RestoreAt
<1>6. ASSUME NEW scope \in Scopes, RequestRestore(r, scope) PROVE RestoreFits(r)'
  <2>1. restore[r].pc = "idle" /\ restore' = [restore EXCEPT ![r].pc = "claim", ![r].scope = scope]
    BY <1>6 DEF RequestRestore
  <2>2. restore'[r].pc = "claim" /\ restore'[r].op = restore[r].op /\ restore'[r].fresh = restore[r].fresh
    BY <2>1, RestoreIsRequested
  <2> QED BY <2>1, <2>2, UnclaimedFits
<1> QED BY <1>1, <1>2, <1>3, <1>4, <1>5, <1>6, StartingFits, VerifyingFits, PublishingFits,
        RemovingFits, ClaimingFits DEF Restoring

\* The goroutine of a restore moves only its own record, and takes only an
\* operation nobody else has in hand.
LEMMA RestoreMovesAlone ==
  ASSUME Pools, TypeOK, NEW r \in Restores,
         Restoring(r) \/ \E scope \in Scopes : RequestRestore(r, scope)
  PROVE  /\ \A q \in Restores : q # r => restore'[q] = restore[q]
         /\ restore'[r].op \in {restore[r].op, None} \/ restore'[r].op \notin InHand
         /\ UNCHANGED cycle
<1>0. {"verify", "drop", "fail"} \subseteq RestoreSteps /\ NoRestore.op = None
  BY DEF RestoreSteps, NoRestore
<1>1. CASE FinishCommittedDeletions(r) \/ PreemptDeletion(r)
  BY <1>1 DEF FinishCommittedDeletions, PreemptDeletion
<1>2. CASE RefuseRestore(r) \/ FailRestore(r) \/ CompleteRestore(r) \/ AbandonCleanup(r)
  BY <1>0, <1>2, RestoreEnds DEF RefuseRestore, ClaimOver, FailRestore, CompleteRestore,
     AbandonCleanup, RestoreOver
<1>3. CASE VerificationFails(r) \/ PreparationFails(r) \/ DropReplacements(r)
  BY <1>0, <1>3, RestoreTurns DEF VerificationFails, PreparationFails, DropReplacements, SameClaim
<1>4. CASE StartRestore(r)
  BY <1>0, <1>4, RestoreTurns, RestoreStarts DEF StartRestore, SameClaim
<1>5. CASE VerifySegment(r)
  <2>1. PICK s \in restore[r].todo :
           \/ restore' = [restore EXCEPT ![r].todo = @ \ {s}]
           \/ \E n \in FreshSegment : Replaces(r, s, n)
    BY <1>5 DEF VerifySegment, Replaces
  <2>2. s \in Segments
    BY DEF TypeOK, RestoreRecord
  <2>3. SameClaim(r) /\ \A q \in Restores : q # r => restore'[q] = restore[q]
    BY <2>1, <2>2, FreshAreTyped, OneLess, OneReplaced
  <2> QED BY <1>5, <2>3 DEF VerifySegment, SameClaim
<1>6. CASE PublishRestore(r)
  BY <1>6, RestoreCleans DEF PublishRestore, SameClaim
<1>7. CASE RemovePublishedArchive(r)
  BY <1>7, OneLess DEF RemovePublishedArchive, SameClaim
<1>8. CASE ClaimRestore(r)
  <2>1. PICK o \in FreshOperation : ClaimsRestore(r, o)
    BY <1>8, ClaimRestoreParts
  <2> QED BY <1>8, <2>1, FreshAreTyped, RestoreIsClaimed, ZenonT(40) DEF ClaimRestore
<1>9. ASSUME NEW scope \in Scopes, RequestRestore(r, scope)
      PROVE  /\ \A q \in Restores : q # r => restore'[q] = restore[q]
             /\ restore'[r].op = restore[r].op
             /\ UNCHANGED cycle
  BY <1>9, RestoreIsRequested DEF RequestRestore
<1> QED BY <1>1, <1>2, <1>3, <1>4, <1>5, <1>6, <1>7, <1>8, <1>9 DEF Restoring

\* What happens outside the goroutines touches nothing they own.
LEMMA WorldIsElsewhere ==
  ASSUME TypeOK,
         \/ Tick \/ (\E e \in Exports : Receive(e))
         \/ (\E enabled \in BOOLEAN : UpdateRetentionPolicy(enabled))
         \/ (\E s \in Segments : Damage(s)) \/ Close \/ UNCHANGED vars
  PROVE  /\ \A p : Elsewhere(p)
         /\ HistoryStays /\ UNCHANGED <<restore, cycle>>
<1>1. ASSUME UNCHANGED catalog PROVE (\A p : Elsewhere(p)) /\ HistoryStays
  BY <1>1, HomesStayElsewhere DEF HistoryStays, catalog
<1>2. ASSUME NEW e \in Exports, Receive(e) PROVE (\A p : Elsewhere(p)) /\ HistoryStays
  <2>1. UNCHANGED <<segment, op>> /\ export' = [export EXCEPT ![e].state = "active", ![e].received = now]
    BY <1>2 DEF Receive
  <2>2. \A f \in Exports : export'[f].home = export[f].home
    BY <2>1 DEF TypeOK, ExportRecord
  <2> QED BY <2>1, <2>2 DEF Elsewhere, HomesStay, HistoryStays, Running
<1>3. ASSUME NEW s \in Segments, Damage(s) PROVE (\A p : Elsewhere(p)) /\ HistoryStays
  <2>1. UNCHANGED <<export, op>> /\ segment[s].state = "current"
        /\ \E part \in {"payload", "metadata"} : segment' = [segment EXCEPT ![s].damage = part]
    BY <1>3 DEF Damage
  <2>2. \A t \in Segments : /\ segment'[t].state = segment[t].state /\ segment'[t].file = segment[t].file
                            /\ segment'[t].metadata = segment[t].metadata
    BY <2>1 DEF TypeOK, SegmentRecord
  <2> QED BY <2>1, <2>2 DEF Elsewhere, HomesStay, HistoryStays, Running
<1>4. UNCHANGED <<restore, cycle>>
  BY DEF Tick, Receive, UpdateRetentionPolicy, Damage, Close, vars
<1> QED BY <1>1, <1>2, <1>3, <1>4 DEF Tick, UpdateRetentionPolicy, Close, vars

\* A cycle does not write the record of a restore.
LEMMA CyclesLeaveRestores ==
  ASSUME NEW c \in Cycles, BeginRetentionCycle(c) \/ Maintenance(c)
  PROVE  UNCHANGED restore
BY DEF Maintenance, BeginRetentionCycle, StartCycle, LockResume, ResumeRetentionDeletions, PlanCycle,
   SelectGroup, ClaimArchive, BuildArchive, PublishArchive, FailArchive, ClaimDeletion,
   StageDeletion, PublishStaged, Cutover, AbandonCutover, WithdrawDeletion, RemoveContent,
   PublishRemoved, PublishDeleted, ConvergeDeletion

\* The recovery runs before any cycle and any restore.
LEMMA RecoveryIsAlone ==
  ASSUME LocksFit, Recovery \/ RecoveryFails
  PROVE  /\ process # "up" /\ UNCHANGED <<cycle, restore>>
         /\ \A c \in Cycles : cycle[c] = NoCycle
         /\ \A r \in Restores : restore[r] = NoRestore
BY DEF LocksFit, Recovery, RecoveryFails, Restart, RecoverArchives, RecoverRestores, RecoverDeletions,
   DeletionsRecovered, RemoveUnreferencedArchiveFiles, FilesRecovered, RecoverRestoreCleanup,
   RecoverUnpublished, Stage

\* After every step each restore has what its next step needs.
LEMMA RestoresKept == Invariant /\ [Next]_vars => (\A r \in Restores : RestoreFits(r)') /\ HandsApart'
<1> SUFFICES ASSUME Invariant, [Next]_vars PROVE (\A r \in Restores : RestoreFits(r)') /\ HandsApart'
  OBVIOUS
<1>0. /\ Pools /\ TypeOK /\ CatalogInv /\ LocksFit /\ HandsApart /\ FilesFit
      /\ \A r \in Restores : RestoreFits(r)
  BY Pools DEF Invariant
<1>1. CASE \E c \in Cycles : BeginRetentionCycle(c) \/ Maintenance(c)
  <2>1. UNCHANGED restore
    BY <1>1, CyclesLeaveRestores
  <2>2. \A r \in Restores : RestoreFits(r)'
    BY <1>0, <1>1, <2>1, OthersLeaveRestore, RestoreStays
  <2> QED BY <1>0, <2>1, <2>2 DEF HandsApart
<1>2. ASSUME NEW q \in Restores, Restoring(q) \/ \E scope \in Scopes : RequestRestore(q, scope)
      PROVE  (\A r \in Restores : RestoreFits(r)') /\ HandsApart'
  <2>1. /\ \A r \in Restores : r # q => restore'[r] = restore[r]
        /\ restore'[q].op \in {restore[q].op, None} \/ restore'[q].op \notin InHand
    BY <1>0, <1>2, RestoreMovesAlone
  <2>2. RestoreFits(q)'
    BY <1>0, <1>2, OwnRestoreFits
  <2>3. ASSUME NEW r \in Restores, r # q PROVE RestoreFits(r)'
    <3>1. \E p : Elsewhere(p) /\ (restore[r].op # None => p # restore[r].op)
      BY <1>2, <2>3, OthersLeaveRestore
    <3>2. restore[r].pc \in Working => HistoryStays
      BY <1>2, <2>3, OthersLeaveRestore
    <3> QED BY <1>0, <2>1, <2>3, <3>1, <3>2, RestoreStays
  <2>4. HandsApart'
    BY <1>0, <2>1 DEF HandsApart, InHand
  <2> QED BY <2>2, <2>3, <2>4
<1>3. CASE \/ Tick \/ (\E e \in Exports : Receive(e))
           \/ (\E enabled \in BOOLEAN : UpdateRetentionPolicy(enabled))
           \/ (\E s \in Segments : Damage(s)) \/ Close \/ UNCHANGED vars
  <2>1. Elsewhere(None) /\ HistoryStays /\ UNCHANGED restore
    BY <1>0, <1>3, WorldIsElsewhere
  <2>2. \A r \in Restores : RestoreFits(r)'
    BY <1>0, <2>1, RestoreStays
  <2> QED BY <1>0, <2>1, <2>2 DEF HandsApart
<1>4. CASE Exit \/ Crash \/ Recovery \/ RecoveryFails
  <2>1. \A r \in Restores : restore'[r] = NoRestore
    BY <1>0, <1>4, RecoveryIsAlone DEF Exit, Crash, Vanish
  <2>2. \A r \in Restores : RestoreFits(r)'
    BY <2>1, IdleRestoreFits
  <2> QED BY <2>1, <2>2 DEF HandsApart, NoRestore
<1> QED BY <1>1, <1>2, <1>3, <1>4 DEF Next

=============================================================================
