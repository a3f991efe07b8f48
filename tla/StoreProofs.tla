------------------------------- MODULE StoreProofs -------------------------------
(***************************************************************************)
(* Theorems about two algorithms the store is built from.                   *)
(*                                                                         *)
(* SessionGraph, for any finite set of links: the memberships made of them  *)
(* are trees, and conversations have all their sessions in common or none.  *)
(* ModelRates, for any history and any rates added to it: no time gets two  *)
(* prices, and no call made before the rates that are added is repriced.    *)
(***************************************************************************)
EXTENDS SessionGraph, ModelRates, FiniteSetTheorems, WellFoundedInduction, TLAPS

-----------------------------------------------------------------------------
(* Numbers *)

\* A set of numbers has a least one.
LEMMA LeastExists ==
  ASSUME NEW S \in SUBSET Nat, S # {}
  PROVE  \E m \in S : \A n \in S : m <= n
<1> DEFINE R == OpToRel(<, Nat)
<1>1. IsWellFoundedOn(R, Nat)
  BY NatLessThanWellFounded
<1>2. ASSUME NEW m \in Nat, NEW n \in Nat, ~ (<<n, m>> \in R) PROVE m <= n
  BY <1>2 DEF OpToRel
<1> HIDE DEF R
<1>3. S \subseteq Nat
  OBVIOUS
<1>4. PICK m \in S : \A n \in S : ~ (<<n, m>> \in R)
  BY <1>1, <1>3, WFMin
<1>5. ASSUME NEW n \in S PROVE m <= n
  BY <1>2, <1>4
<1> QED BY <1>5

\* A set that holds zero and, with a number, the next one, holds every number.
LEMMA Upwards ==
  ASSUME NEW S, 0 \in S, \A n \in Nat : n \in S => n + 1 \in S
  PROVE  Nat \subseteq S
<1> SUFFICES ASSUME Nat \ S # {} PROVE FALSE
  OBVIOUS
<1>1. PICK m \in Nat \ S : \A n \in Nat \ S : m <= n
  BY LeastExists
<1>2. m # 0 /\ m \in Nat
  OBVIOUS
<1>3. m - 1 \in Nat /\ m - 1 \in S
  BY <1>1, <1>2
<1>4. (m - 1) + 1 = m
  BY <1>2
<1> QED BY <1>1, <1>3, <1>4

-----------------------------------------------------------------------------
(* Climbing from parent to parent *)

\* Everyone one parent up.
Stepped(nodes, parents, f) ==
    [node \in nodes |-> LET at == f[node] IN IF at \in DOMAIN parents THEN parents[at] ELSE at]

\* The equation of the recursion in Climb.
Climbs(nodes, parents, n, up) ==
    up = [i \in 0..n |-> IF i = 0 THEN [node \in nodes |-> node] ELSE Stepped(nodes, parents, up[i - 1])]

LEMMA ClimbIs ==
  ASSUME NEW nodes, NEW parents, NEW n
  PROVE  Climb(nodes, parents, n) = (CHOOSE up : Climbs(nodes, parents, n, up))[n]
BY DEF Climb, Climbs, Stepped

\* It has a solution: one for n steps takes another step.
LEMMA ClimbsExists ==
  ASSUME NEW nodes, NEW parents, NEW n \in Nat
  PROVE  \E up : Climbs(nodes, parents, n, up)
<1> DEFINE S == {m \in Nat : \E up : Climbs(nodes, parents, m, up)}
<1>1. 0 \in S
  <2> DEFINE up == [i \in 0..0 |-> [node \in nodes |-> node]]
  <2>1. Climbs(nodes, parents, 0, up)
    BY DEF Climbs
  <2> QED BY <2>1
<1>2. ASSUME NEW m \in Nat, m \in S PROVE m + 1 \in S
  <2>1. PICK up : Climbs(nodes, parents, m, up)
    BY <1>2
  <2> DEFINE next == [i \in 0..(m + 1) |-> IF i = m + 1 THEN Stepped(nodes, parents, up[m]) ELSE up[i]]
  <2>2. ASSUME NEW i \in 0..(m + 1)
        PROVE  next[i] = IF i = 0 THEN [node \in nodes |-> node] ELSE Stepped(nodes, parents, next[i - 1])
    <3>1. CASE i = m + 1
      <4>1. i # 0 /\ i - 1 = m /\ m \in 0..(m + 1) /\ m # m + 1
        BY <3>1
      <4>2. next[i - 1] = up[m]
        BY <4>1
      <4> QED BY <3>1, <4>1, <4>2
    <3>2. CASE i # m + 1
      <4>1. i \in 0..m /\ next[i] = up[i]
        BY <3>2
      <4>2. up[i] = IF i = 0 THEN [node \in nodes |-> node] ELSE Stepped(nodes, parents, up[i - 1])
        BY <2>1, <4>1 DEF Climbs
      <4>3. i # 0 => next[i - 1] = up[i - 1]
        BY <3>2
      <4> HIDE DEF next
      <4> QED BY <4>1, <4>2, <4>3
    <3> QED BY <3>1, <3>2
  <2>3. next = [i \in 0..(m + 1) |-> next[i]]
    OBVIOUS
  <2> HIDE DEF next
  <2>4. Climbs(nodes, parents, m + 1, next)
    BY <2>2, <2>3 DEF Climbs
  <2> QED BY <2>4
<1>3. Nat \subseteq S
  <2> HIDE DEF S
  <2> QED BY <1>1, <1>2, Upwards
<1> QED BY <1>3

\* Two solutions agree where both are defined.
LEMMA ClimbsAgree ==
  ASSUME NEW nodes, NEW parents, NEW n \in Nat, NEW m \in Nat, n <= m,
         NEW up, Climbs(nodes, parents, n, up), NEW other, Climbs(nodes, parents, m, other)
  PROVE  \A i \in 0..n : up[i] = other[i]
<1> DEFINE S == {i \in Nat : i <= n => up[i] = other[i]}
<1>1. 0 \in S
  <2>1. 0 \in 0..n /\ 0 \in 0..m
    OBVIOUS
  <2> QED BY <2>1 DEF Climbs
<1>2. ASSUME NEW i \in Nat, i \in S PROVE i + 1 \in S
  <2> SUFFICES ASSUME i + 1 <= n PROVE up[i + 1] = other[i + 1]
    OBVIOUS
  <2> DEFINE k == i + 1
  <2>1. k \in 0..n /\ k \in 0..m /\ k # 0 /\ k - 1 = i /\ up[i] = other[i]
    BY <1>2
  <2> HIDE DEF k
  <2>2. up[k] = Stepped(nodes, parents, up[k - 1])
    BY <2>1 DEF Climbs
  <2>3. other[k] = Stepped(nodes, parents, other[k - 1])
    BY <2>1 DEF Climbs
  <2> QED BY <2>1, <2>2, <2>3 DEF k
<1>3. Nat \subseteq S
  <2> HIDE DEF S
  <2> QED BY <1>1, <1>2, Upwards
<1> QED BY <1>3

\* Nobody has moved at first, and every further step goes one parent up.
LEMMA ClimbZero ==
  ASSUME NEW nodes, NEW parents
  PROVE  Climb(nodes, parents, 0) = [node \in nodes |-> node]
<1> DEFINE up == CHOOSE u : Climbs(nodes, parents, 0, u)
<1>1. Climbs(nodes, parents, 0, up)
  BY ClimbsExists
<1>2. up[0] = [node \in nodes |-> node]
  <2> HIDE DEF up
  <2> QED BY <1>1 DEF Climbs
<1> QED BY <1>2, ClimbIs

LEMMA ClimbNext ==
  ASSUME NEW nodes, NEW parents, NEW n \in Nat
  PROVE  Climb(nodes, parents, n + 1) = Stepped(nodes, parents, Climb(nodes, parents, n))
<1> DEFINE up == CHOOSE u : Climbs(nodes, parents, n, u)
           next == CHOOSE u : Climbs(nodes, parents, n + 1, u)
<1>1. Climbs(nodes, parents, n, up)
  BY ClimbsExists
<1>2. Climbs(nodes, parents, n + 1, next)
  <2>1. n + 1 \in Nat
    OBVIOUS
  <2> QED BY <2>1, ClimbsExists
<1>3. Climb(nodes, parents, n) = up[n] /\ Climb(nodes, parents, n + 1) = next[n + 1]
  BY ClimbIs
<1> HIDE DEF up, next
<1>4. next[n + 1] = Stepped(nodes, parents, next[n])
  <2>1. n + 1 \in 0..(n + 1) /\ n + 1 # 0 /\ (n + 1) - 1 = n
    OBVIOUS
  <2> DEFINE k == n + 1
  <2> HIDE DEF k
  <2>2. next[k] = Stepped(nodes, parents, next[k - 1])
    BY <1>2, <2>1 DEF Climbs, k
  <2> QED BY <2>1, <2>2 DEF k
<1>5. up[n] = next[n]
  <2>1. n + 1 \in Nat /\ n <= n + 1 /\ n \in 0..n
    OBVIOUS
  <2> QED BY <1>1, <1>2, <2>1, ClimbsAgree
<1> QED BY <1>3, <1>4, <1>5

\* Every session that has a parent, and its parent, are among the nodes.
Parenting(nodes, parents) == DOMAIN parents \subseteq nodes /\ parents \in [DOMAIN parents -> nodes]

\* Everyone stays among the nodes.
LEMMA ClimbType ==
  ASSUME NEW nodes, NEW parents, Parenting(nodes, parents), NEW n \in Nat
  PROVE  Climb(nodes, parents, n) \in [nodes -> nodes]
<1> DEFINE S == {k \in Nat : Climb(nodes, parents, k) \in [nodes -> nodes]}
<1>1. 0 \in S
  BY ClimbZero
<1>2. ASSUME NEW k \in Nat, k \in S PROVE k + 1 \in S
  <2>1. Climb(nodes, parents, k) \in [nodes -> nodes]
    BY <1>2
  <2>2. Stepped(nodes, parents, Climb(nodes, parents, k)) \in [nodes -> nodes]
    BY <2>1 DEF Stepped, Parenting
  <2> QED BY <2>2, ClimbNext
<1>3. Nat \subseteq S
  <2> HIDE DEF S
  <2> QED BY <1>1, <1>2, Upwards
<1> QED BY <1>3

\* One step more, for one session.
LEMMA ClimbsOn ==
  ASSUME NEW nodes, NEW parents, Parenting(nodes, parents), NEW n \in Nat, NEW x \in nodes
  PROVE  /\ Climb(nodes, parents, n)[x] \in nodes
         /\ Climb(nodes, parents, n)[x] \in DOMAIN parents =>
               Climb(nodes, parents, n + 1)[x] = parents[Climb(nodes, parents, n)[x]]
         /\ Climb(nodes, parents, n)[x] \notin DOMAIN parents =>
               Climb(nodes, parents, n + 1)[x] = Climb(nodes, parents, n)[x]
<1>1. Climb(nodes, parents, n) \in [nodes -> nodes]
  BY ClimbType
<1>2. Climb(nodes, parents, n + 1) = Stepped(nodes, parents, Climb(nodes, parents, n))
  BY ClimbNext
<1> QED BY <1>1, <1>2 DEF Stepped

\* Who climbs j steps from where i steps lead has climbed i + j steps.
LEMMA ClimbAdds ==
  ASSUME NEW nodes, NEW parents, Parenting(nodes, parents), NEW i \in Nat, NEW j \in Nat, NEW x \in nodes
  PROVE  Climb(nodes, parents, j)[Climb(nodes, parents, i)[x]] = Climb(nodes, parents, i + j)[x]
<1> DEFINE y == Climb(nodes, parents, i)[x]
           S == {k \in Nat : Climb(nodes, parents, k)[y] = Climb(nodes, parents, i + k)[x]}
<1>0. y \in nodes
  BY ClimbsOn
<1>1. 0 \in S
  <2>1. Climb(nodes, parents, 0)[y] = y /\ i + 0 = i
    BY <1>0, ClimbZero
  <2> QED BY <2>1
<1>2. ASSUME NEW k \in Nat, k \in S PROVE k + 1 \in S
  <2> DEFINE z == Climb(nodes, parents, k)[y]
             m == i + k
  <2>1. m \in Nat /\ z = Climb(nodes, parents, m)[x] /\ m + 1 = i + (k + 1)
    BY <1>2
  <2> HIDE DEF m, y
  <2>2. Climb(nodes, parents, k + 1)[y] = Climb(nodes, parents, m + 1)[x]
    <3>1. CASE z \in DOMAIN parents
      BY <1>0, <2>1, <3>1, ClimbsOn
    <3>2. CASE z \notin DOMAIN parents
      BY <1>0, <2>1, <3>2, ClimbsOn
    <3> QED BY <3>1, <3>2
  <2> QED BY <2>1, <2>2
<1>3. Nat \subseteq S
  <2> HIDE DEF S
  <2> QED BY <1>1, <1>2, Upwards
<1>4. j \in S
  BY <1>3
<1> QED BY <1>4

\* Who has arrived at a root stays there.
LEMMA RootsStay ==
  ASSUME NEW nodes, NEW parents, Parenting(nodes, parents), NEW i \in Nat, NEW j \in Nat, NEW x \in nodes,
         Climb(nodes, parents, i)[x] \notin DOMAIN parents
  PROVE  Climb(nodes, parents, i + j)[x] = Climb(nodes, parents, i)[x]
<1> DEFINE S == {k \in Nat : Climb(nodes, parents, i + k)[x] = Climb(nodes, parents, i)[x]}
<1>1. 0 \in S
  <2>1. i + 0 = i
    OBVIOUS
  <2> QED BY <2>1
<1>2. ASSUME NEW k \in Nat, k \in S PROVE k + 1 \in S
  <2> DEFINE m == i + k
  <2>1. m \in Nat /\ Climb(nodes, parents, m)[x] = Climb(nodes, parents, i)[x] /\ m + 1 = i + (k + 1)
    BY <1>2
  <2> HIDE DEF m
  <2>2. Climb(nodes, parents, m + 1)[x] = Climb(nodes, parents, m)[x]
    BY <2>1, ClimbsOn
  <2> QED BY <2>1, <2>2
<1>3. Nat \subseteq S
  <2> HIDE DEF S
  <2> QED BY <1>1, <1>2, Upwards
<1>4. j \in S
  BY <1>3
<1> QED BY <1>4

-----------------------------------------------------------------------------
(* Removing cycles *)

\* With fewer parents the way is the same as long as it meets those that are left.
LEMMA SameWay ==
  ASSUME NEW nodes, NEW parents, Parenting(nodes, parents),
         NEW left \in SUBSET DOMAIN parents, NEW x \in nodes, NEW n \in Nat,
         \A k \in 0..n : k < n => Climb(nodes, Restrict(parents, left), k)[x] \in left
  PROVE  Climb(nodes, parents, n)[x] = Climb(nodes, Restrict(parents, left), n)[x]
<1> DEFINE fewer == Restrict(parents, left)
           S == {k \in Nat : k <= n => Climb(nodes, parents, k)[x] = Climb(nodes, fewer, k)[x]}
<1>0. Parenting(nodes, fewer) /\ DOMAIN fewer = left /\ \A y \in left : fewer[y] = parents[y]
  BY DEF Parenting, Restrict
<1>1. 0 \in S
  BY ClimbZero
<1> HIDE DEF fewer
<1>2. ASSUME NEW k \in Nat, k \in S PROVE k + 1 \in S
  <2> SUFFICES ASSUME k + 1 <= n PROVE Climb(nodes, parents, k + 1)[x] = Climb(nodes, fewer, k + 1)[x]
    OBVIOUS
  <2> DEFINE y == Climb(nodes, fewer, k)[x]
  <2>1. k \in 0..n /\ k < n /\ Climb(nodes, parents, k)[x] = y
    BY <1>2
  <2>2. y \in left /\ y \in DOMAIN parents
    BY <2>1 DEF fewer
  <2> HIDE DEF y
  <2>3. Climb(nodes, parents, k + 1)[x] = parents[y]
    BY <2>1, <2>2, ClimbsOn
  <2>4. Climb(nodes, fewer, k + 1)[x] = fewer[y]
    BY <1>0, <2>2, ClimbsOn DEF y
  <2> QED BY <1>0, <2>2, <2>3, <2>4
<1>3. Nat \subseteq S
  <2> HIDE DEF S
  <2> QED BY <1>1, <1>2, Upwards
<1>4. n \in S
  BY <1>3
<1> QED BY <1>4 DEF fewer

\* Once the parents of the sessions on cycles are removed, a chain of parents has
\* ended after as many steps as there are sessions: on a longer one a session
\* would come twice, and would have been on a cycle.
LEMMA ChainsEnd ==
  ASSUME NEW nodes, IsFiniteSet(nodes), NEW parents, Parenting(nodes, parents), NEW x \in nodes
  PROVE  LET acyclic == RemoveCyclicSessionParents(nodes, parents)
         IN  Climb(nodes, acyclic, Cardinality(nodes))[x] \notin DOMAIN acyclic
<1> DEFINE left == DOMAIN parents \ Cyclic(nodes, parents)
           acyclic == Restrict(parents, left)
           N == Cardinality(nodes)
           At == [k \in 0..N |-> Climb(nodes, acyclic, k)[x]]
<1>1. RemoveCyclicSessionParents(nodes, parents) = acyclic /\ DOMAIN acyclic = left /\ left \in SUBSET DOMAIN parents
  BY DEF RemoveCyclicSessionParents, Restrict
<1>2. Parenting(nodes, acyclic)
  BY DEF Parenting, Restrict
<1>3. N \in Nat
  BY FS_CardinalityType
<1> SUFFICES ASSUME At[N] \in left PROVE FALSE
  BY <1>1, <1>3
<1> HIDE DEF left, acyclic, N
<1>4. \A k \in 0..N : At[k] \in nodes
  BY <1>2, ClimbsOn
<1>5. \A k \in 0..N : At[k] \in left
  <2> SUFFICES ASSUME NEW k \in 0..N, At[k] \notin left PROVE FALSE
    OBVIOUS
  <2> DEFINE j == N - k
  <2>1. k \in Nat /\ j \in Nat /\ k + j = N /\ N \in 0..N
    BY <1>3
  <2> HIDE DEF j
  <2>2. Climb(nodes, acyclic, k + j)[x] = Climb(nodes, acyclic, k)[x]
    BY <1>1, <1>2, <2>1, RootsStay
  <2> QED BY <2>1, <2>2
<1>6. PICK i \in 0..N, j \in 0..N : i < j /\ At[i] = At[j]
  <2>1. IsFiniteSet(0..N) /\ Cardinality(0..N) = N + 1
    BY <1>3, FS_Interval
  <2>2. At \in [0..N -> nodes]
    BY <1>4
  <2>3. N < N + 1
    BY <1>3
  <2> HIDE DEF At
  <2>4. PICK k, m \in 0..N : k # m /\ At[k] = At[m]
    BY <2>1, <2>2, <2>3, FS_PigeonHole DEF N
  <2>5. k < m \/ m < k
    BY <1>3, <2>4
  <2> QED BY <2>4, <2>5
<1> DEFINE y == At[i]
           d == j - i
<1>7. i \in Nat /\ d \in 1..N /\ d \in Nat /\ y \in nodes /\ y \in left
  BY <1>3, <1>4, <1>5, <1>6
<1>8. \A k \in 0..d : Climb(nodes, acyclic, k)[y] = At[i + k] /\ i + k \in 0..N
  <2> SUFFICES ASSUME NEW k \in 0..d PROVE Climb(nodes, acyclic, k)[y] = At[i + k] /\ i + k \in 0..N
    OBVIOUS
  <2>1. k \in Nat /\ i + k \in 0..N
    BY <1>3, <1>6
  <2>2. y = Climb(nodes, acyclic, i)[x]
    BY <1>6
  <2> HIDE DEF y
  <2>3. Climb(nodes, acyclic, k)[Climb(nodes, acyclic, i)[x]] = Climb(nodes, acyclic, i + k)[x]
    BY <1>2, <1>7, <2>1, ClimbAdds
  <2> QED BY <2>1, <2>2, <2>3
<1>9. Climb(nodes, acyclic, d)[y] = y
  <2>1. d \in 0..d /\ i + d = j
    BY <1>3, <1>6, <1>7
  <2> HIDE DEF d, y, At
  <2>2. Climb(nodes, acyclic, d)[y] = At[j]
    BY <1>8, <2>1
  <2> QED BY <1>6, <2>2 DEF y
<1>10. Climb(nodes, parents, d)[y] = y
  <2> HIDE DEF At, y, d
  <2>1. \A k \in 0..d : Climb(nodes, acyclic, k)[y] \in left
    BY <1>5, <1>8
  <2>2. Climb(nodes, parents, d)[y] = Climb(nodes, acyclic, d)[y]
    BY <1>1, <1>7, <2>1, SameWay DEF acyclic
  <2> QED BY <1>9, <2>2
<1>11. y \in Cyclic(nodes, parents)
  BY <1>1, <1>7, <1>10 DEF Cyclic, N
<1> QED BY <1>7, <1>11 DEF left

-----------------------------------------------------------------------------
(* The memberships of some links *)

\* What the memberships of some links are.  There is one row for every linked
\* session.  A session has a parent unless it has no single possible one or is on
\* a cycle; without a parent it is its own root, and no other is.  A parent is
\* the only possible one, and has the same root; a root is a linked session
\* that is its own root.
AreTrees(memberships, links) ==
    /\ \A m, other \in memberships : m.session = other.session => m = other
    /\ {m.session : m \in memberships} = Nodes(links)
    /\ \A m \in memberships :
          /\ m.parent = NoSession <=>
                \/ Cardinality(PossibleParents(links, m.session)) # 1
                \/ m.session \in Cyclic(Nodes(links), SingleParents(links))
          /\ m.parent = NoSession <=> m.root = m.session
          /\ \E r \in memberships : r.session = m.root /\ r.root = m.root
          /\ m.parent # NoSession =>
                /\ PossibleParents(links, m.session) = {m.parent}
                /\ \E p \in memberships : p.session = m.parent /\ p.root = m.root

\* Some links say something, and there are finitely many of them.
Sensible(links) == IsFiniteSet(links) /\ \A link \in links : IsLink(link)

LEMMA NodesAreFinite ==
  ASSUME NEW links, IsFiniteSet(links)
  PROVE  IsFiniteSet(Nodes(links))
<1> DEFINE parents == {link.parent : link \in links}
           children == {link.child : link \in links}
           parent == [link \in links |-> link.parent]
           child == [link \in links |-> link.child]
<1>1. parent \in Surjection(links, parents) /\ child \in Surjection(links, children)
  BY DEF Surjection
<1> HIDE DEF parents, children, parent, child
<1>2. IsFiniteSet(parents) /\ IsFiniteSet(children)
  BY <1>1, FS_Surjection
<1> QED BY <1>2, FS_Union DEF Nodes, parents, children

\* A session with a single parent has no other possible one, and is not its own.
LEMMA SingleParent ==
  ASSUME NEW links, Sensible(links)
  PROVE  /\ Parenting(Nodes(links), SingleParents(links))
         /\ \A child \in DOMAIN SingleParents(links) :
               /\ PossibleParents(links, child) = {SingleParents(links)[child]}
               /\ SingleParents(links)[child] # NoSession
<1> DEFINE parents == SingleParents(links)
<1>1. ASSUME NEW child \in DOMAIN parents
      PROVE  /\ child \in Nodes(links) /\ PossibleParents(links, child) = {parents[child]}
             /\ parents[child] \in Nodes(links) /\ parents[child] # NoSession
  <2>1. child \in Nodes(links) /\ Cardinality(PossibleParents(links, child)) = 1
    BY DEF SingleParents
  <2>2. IsFiniteSet(PossibleParents(links, child))
    <3>1. IsFiniteSet(Nodes(links)) /\ PossibleParents(links, child) \subseteq Nodes(links)
      BY NodesAreFinite DEF Sensible, PossibleParents, Nodes
    <3> QED BY <3>1, FS_Subset
  <2>3. PICK p : PossibleParents(links, child) = {p}
    BY <2>1, <2>2, FS_Singleton
  <2>4. parents[child] = p
    BY <2>1, <2>3 DEF SingleParents
  <2>5. PICK link \in links : link.parent = p
    BY <2>3 DEF PossibleParents
  <2>6. p \in Nodes(links) /\ p # NoSession
    BY <2>5 DEF Nodes, Sensible, IsLink
  <2> QED BY <2>1, <2>3, <2>4, <2>6
<1>2. parents = [child \in DOMAIN parents |-> parents[child]]
  BY DEF SingleParents
<1> HIDE DEF parents
<1>3. Parenting(Nodes(links), parents)
  BY <1>1, <1>2 DEF Parenting
<1> QED BY <1>1, <1>3 DEF parents

\* The memberships made of the links a store has are trees: removing cycles
\* leaves no chain of parents without an end (session_graph.go:146-241).
THEOREM MembershipsAreTrees ==
  ASSUME NEW links, Sensible(links)
  PROVE  AreTrees(Memberships(links), links)
<1> DEFINE nodes == Nodes(links)
           single == SingleParents(links)
           parents == RemoveCyclicSessionParents(nodes, single)
           N == Cardinality(nodes)
           Root(x) == Climb(nodes, parents, N)[x]
           Row(x) == [session |-> x, root |-> Root(x),
                      parent |-> IF x \in DOMAIN parents THEN parents[x] ELSE NoSession]
<1>1. Memberships(links) = {Row(x) : x \in nodes}
  BY DEF Memberships
<1>2. IsFiniteSet(nodes) /\ N \in Nat
  BY NodesAreFinite, FS_CardinalityType DEF Sensible
<1>3. /\ Parenting(nodes, single)
      /\ \A x \in DOMAIN single : PossibleParents(links, x) = {single[x]} /\ single[x] # NoSession
  BY SingleParent
<1>4. /\ DOMAIN parents \subseteq DOMAIN single
      /\ \A x \in DOMAIN parents : parents[x] = single[x]
      /\ Parenting(nodes, parents)
  BY <1>3 DEF RemoveCyclicSessionParents, Restrict, Parenting
<1>5. \A x \in nodes : x \notin DOMAIN parents <=>
                          \/ Cardinality(PossibleParents(links, x)) # 1
                          \/ x \in Cyclic(nodes, single)
  BY DEF RemoveCyclicSessionParents, Restrict, SingleParents
<1>6. \A x \in nodes : Root(x) \in nodes /\ Root(x) \notin DOMAIN parents
  <2> SUFFICES ASSUME NEW x \in nodes PROVE Root(x) \in nodes /\ Root(x) \notin DOMAIN parents
    OBVIOUS
  <2>1. Root(x) \notin DOMAIN parents
    BY <1>2, <1>3, ChainsEnd
  <2> HIDE DEF parents, N
  <2>2. Root(x) \in nodes
    BY <1>2, <1>4, ClimbsOn
  <2> QED BY <2>1, <2>2
<1> HIDE DEF nodes, single, parents, N
\* A root is its own root.
<1>7. ASSUME NEW x \in nodes, x \notin DOMAIN parents PROVE Root(x) = x
  <2>1. Climb(nodes, parents, 0)[x] = x /\ 0 + N = N
    BY <1>2, ClimbZero
  <2>2. Climb(nodes, parents, 0 + N)[x] = Climb(nodes, parents, 0)[x]
    BY <1>2, <1>4, <1>7, <2>1, RootsStay
  <2> QED BY <2>1, <2>2
\* A session has the root of its parent: one step more from a root leads nowhere.
<1>8. ASSUME NEW x \in DOMAIN parents PROVE x \in nodes /\ parents[x] \in nodes /\ Root(parents[x]) = Root(x)
  <2>1. x \in nodes /\ parents[x] \in nodes
    BY <1>4 DEF Parenting
  <2>2. Climb(nodes, parents, 0)[x] = x /\ 0 + 1 = 1
    BY <2>1, ClimbZero
  <2>3. Climb(nodes, parents, 1)[x] = parents[x]
    BY <1>4, <2>1, <2>2, ClimbsOn
  <2>4. Climb(nodes, parents, N)[Climb(nodes, parents, 1)[x]] = Climb(nodes, parents, 1 + N)[x]
    BY <1>2, <1>4, <2>1, ClimbAdds
  <2>5. Climb(nodes, parents, N + 1)[x] = Root(x)
    BY <1>2, <1>4, <1>6, <2>1, ClimbsOn
  <2>6. 1 + N = N + 1
    BY <1>2
  <2> QED BY <2>1, <2>3, <2>4, <2>5, <2>6
<1>9. \A x \in nodes : /\ Row(x).session = x /\ Row(x).root = Root(x)
                       /\ x \in DOMAIN parents => Row(x).parent = parents[x]
                       /\ x \notin DOMAIN parents => Row(x).parent = NoSession
  OBVIOUS
<1> HIDE DEF Root, Row
<1>10. \A m, other \in Memberships(links) : m.session = other.session => m = other
  BY <1>1, <1>9
<1>11. {m.session : m \in Memberships(links)} = nodes
  BY <1>1, <1>9
<1>12. ASSUME NEW m \in Memberships(links)
       PROVE  /\ m.parent = NoSession <=>
                    \/ Cardinality(PossibleParents(links, m.session)) # 1
                    \/ m.session \in Cyclic(nodes, single)
              /\ m.parent = NoSession <=> m.root = m.session
              /\ \E r \in Memberships(links) : r.session = m.root /\ r.root = m.root
              /\ m.parent # NoSession =>
                    /\ PossibleParents(links, m.session) = {m.parent}
                    /\ \E p \in Memberships(links) : p.session = m.parent /\ p.root = m.root
  <2>1. PICK x \in nodes : m = Row(x)
    BY <1>1
  <2>2. Row(Root(x)) \in Memberships(links) /\ Root(x) \in nodes /\ Root(x) \notin DOMAIN parents
    BY <1>1, <1>6, <2>1
  <2>3. \E r \in Memberships(links) : r.session = m.root /\ r.root = m.root
    BY <1>7, <1>9, <2>1, <2>2
  <2>4. CASE x \in DOMAIN parents
    <3>1. m.session = x /\ m.root = Root(x) /\ m.parent = parents[x]
      BY <1>9, <2>1, <2>4
    <3>2. m.parent # NoSession /\ m.root # m.session /\ PossibleParents(links, m.session) = {m.parent}
      BY <1>3, <1>4, <2>2, <2>4, <3>1
    <3>3. Row(parents[x]) \in Memberships(links) /\ Row(parents[x]).session = parents[x]
          /\ Row(parents[x]).root = Root(x)
      BY <1>1, <1>8, <1>9, <2>4
    <3> QED BY <1>5, <2>3, <2>4, <3>1, <3>2, <3>3
  <2>5. CASE x \notin DOMAIN parents
    <3>1. m.session = x /\ m.root = Root(x) /\ m.parent = NoSession /\ Root(x) = x
      BY <1>7, <1>9, <2>1, <2>5
    <3> QED BY <1>5, <2>3, <2>5, <3>1
  <2> QED BY <2>4, <2>5
<1> QED BY <1>10, <1>11, <1>12 DEF AreTrees, nodes, single

-----------------------------------------------------------------------------
(* The conversations *)

\* The root of a session: that of its row, or itself.
LEMMA RootValue ==
  ASSUME NEW memberships, NEW links, AreTrees(memberships, links)
  PROVE  /\ \A m \in memberships : RootOf(memberships, m.session) = m.root
         /\ \A s : (\A m \in memberships : m.session # s) => RootOf(memberships, s) = s
<1>1. ASSUME NEW m \in memberships PROVE RootOf(memberships, m.session) = m.root
  <2>1. \A other \in memberships : other.session = m.session => other = m
    BY DEF AreTrees
  <2>2. (CHOOSE other \in memberships : other.session = m.session) = m
    BY <2>1
  <2> QED BY <2>2 DEF RootOf
<1>2. ASSUME NEW s, \A m \in memberships : m.session # s PROVE RootOf(memberships, s) = s
  BY <1>2 DEF RootOf
<1> QED BY <1>1, <1>2

\* A conversation shows the session it is opened by, and the same sessions
\* whichever of them it is opened by: two conversations have all their sessions
\* in common or none (session_graph.go:46-57, session_graph.go:243-256).
THEOREM ConversationsAreApart ==
  ASSUME NEW links, Sensible(links), NEW session, NEW other
  PROVE  LET Group(s) == GroupOf(Memberships(links), s)
         IN  /\ session \in Group(session)
             /\ other \in Group(session) => Group(other) = Group(session)
             /\ other \notin Group(session) => Group(other) \cap Group(session) = {}
<1> DEFINE memberships == Memberships(links)
           Root(s) == RootOf(memberships, s)
           Group(s) == GroupOf(memberships, s)
<1>1. AreTrees(memberships, links)
  BY MembershipsAreTrees
<1> HIDE DEF memberships
<1>2. /\ \A m \in memberships : Root(m.session) = m.root
      /\ \A s : (\A m \in memberships : m.session # s) => Root(s) = s
  BY <1>1, RootValue
<1>3. \A s : Group(s) = {m.session : m \in {n \in memberships : n.root = Root(s)}} \cup {Root(s)}
  BY DEF GroupOf
<1> HIDE DEF Root, Group
\* A root is its own root, and with every session of its group it has it in common.
<1>4. ASSUME NEW s PROVE Root(Root(s)) = Root(s)
  <2>1. CASE \E m \in memberships : m.session = s
    <3>1. PICK m \in memberships : m.session = s
      BY <2>1
    <3>2. PICK r \in memberships : r.session = m.root /\ r.root = m.root
      BY <1>1 DEF AreTrees
    <3> QED BY <1>2, <3>1, <3>2
  <2>2. CASE \A m \in memberships : m.session # s
    BY <1>2, <2>2
  <2> QED BY <2>1, <2>2
<1>5. ASSUME NEW s, NEW t PROVE t \in Group(s) <=> Root(t) = Root(s)
  <2>1. ASSUME t \in Group(s) PROVE Root(t) = Root(s)
    BY <1>2, <1>3, <1>4, <2>1
  <2>2. ASSUME Root(t) = Root(s) PROVE t \in Group(s)
    <3>1. CASE \E m \in memberships : m.session = t
      BY <1>2, <1>3, <2>2, <3>1
    <3>2. CASE \A m \in memberships : m.session # t
      BY <1>2, <1>3, <2>2, <3>2
    <3> QED BY <3>1, <3>2
  <2> QED BY <2>1, <2>2
<1>6. session \in Group(session)
  BY <1>5
<1>7. ASSUME other \in Group(session) PROVE Group(other) = Group(session)
  <2>1. Root(other) = Root(session)
    BY <1>5, <1>7
  <2>2. Group(other) = {m.session : m \in {n \in memberships : n.root = Root(other)}} \cup {Root(other)}
    BY <1>3
  <2>3. Group(session) = {m.session : m \in {n \in memberships : n.root = Root(session)}} \cup {Root(session)}
    BY <1>3
  <2> QED BY <2>1, <2>2, <2>3
<1>8. ASSUME other \notin Group(session) PROVE Group(other) \cap Group(session) = {}
  BY <1>5, <1>8
<1> QED BY <1>6, <1>7, <1>8 DEF Group, memberships

-----------------------------------------------------------------------------
(* The history of the rates *)

\* Rates of any models, limits and prices; a time comes before the end of time or
\* is that.  A rate a manifest may list is open and begins before it.
RatesOf(models, limits, prices) ==
    [model : models, limit : limits, from : 0..Forever, to : 0..Forever, price : prices]
OpenRatesOf(models, limits, prices) ==
    {r \in RatesOf(models, limits, prices) : r.to = Forever /\ r.from < Forever}

\* A rate by another end: the identity and the price are the same.
LEMMA ClosedRate ==
  ASSUME NEW models, NEW limits, NEW prices, NEW r \in RatesOf(models, limits, prices), NEW t \in 0..Forever
  PROVE  LET closed == [r EXCEPT !.to = t]
         IN  /\ closed \in RatesOf(models, limits, prices)
             /\ closed.to = t /\ closed.from = r.from /\ closed.model = r.model /\ closed.limit = r.limit
             /\ closed.price = r.price
BY DEF RatesOf

\* There is a latest rate among some.
LEMMA LatestIsLast ==
  ASSUME NEW models, NEW limits, NEW prices, NEW series \in SUBSET RatesOf(models, limits, prices), series # {}
  PROVE  Latest(series) \in series /\ \A other \in series : other.from <= Latest(series).from
<1> DEFINE Ages == {Forever - r.from : r \in series}
<1>1. \A r \in series : r.from \in Nat /\ r.from <= Forever
  BY DEF RatesOf
<1>0. Forever \in Nat
  BY DEF Forever
<1>2. Ages \in SUBSET Nat /\ Ages # {}
  <2>1. ASSUME NEW r \in series PROVE Forever - r.from \in Nat
    BY <1>0, <1>1
  <2> QED BY <2>1
<1>3. PICK age \in Ages : \A other \in Ages : age <= other
  BY <1>2, LeastExists
<1>4. PICK r \in series : age = Forever - r.from
  OBVIOUS
<1>5. ASSUME NEW other \in series PROVE other.from <= r.from
  <2>1. Forever - r.from <= Forever - other.from
    BY <1>3, <1>4
  <2>2. r.from \in Nat /\ other.from \in Nat
    BY <1>1
  <2> QED BY <1>0, <2>1, <2>2
<1> QED BY <1>4, <1>5 DEF Latest

\* The rates of a model at a time, and those of them that some tokens fit.
Holding(rates, model, at) == {r \in rates : r.model = model /\ r.from <= at /\ at < r.to}
Fitting(rates, model, at, tokens) == {r \in Holding(rates, model, at) : tokens <= r.limit}

\* A call costs the same by two histories when the rates that fit it are the same
\* but for their ends.
LEMMA SameFitSamePrice ==
  ASSUME NEW rates, NEW plan, NEW call,
         IsFiniteSet(Fitting(rates, call.model, call.at, call.billed.input)),
         Holding(rates, call.model, call.at) = {} <=> Holding(plan, call.model, call.at) = {},
         NEW f \in Bijection(Fitting(rates, call.model, call.at, call.billed.input),
                             Fitting(plan, call.model, call.at, call.billed.input)),
         \A r \in Fitting(rates, call.model, call.at, call.billed.input) :
            RateId(f[r]) = RateId(r) /\ f[r].price = r.price
  PROVE  AttributeCodexCall(call, plan) = AttributeCodexCall(call, rates)
<1> DEFINE before == Fitting(rates, call.model, call.at, call.billed.input)
           after == Fitting(plan, call.model, call.at, call.billed.input)
           old == ResolveRate(rates, call.model, call.at, call.billed.input)
           new == ResolveRate(plan, call.model, call.at, call.billed.input)
<1>1. /\ old = CASE Cardinality(before) > 1 -> [status |-> "rate_conflict"]
                 [] Cardinality(before) = 1 -> [status |-> "resolved", rate |-> CHOOSE r \in before : TRUE]
                 [] before = {} /\ Holding(rates, call.model, call.at) # {} -> [status |-> "unsupported_usage_condition"]
                 [] OTHER -> [status |-> "rate_not_found"]
      /\ new = CASE Cardinality(after) > 1 -> [status |-> "rate_conflict"]
                 [] Cardinality(after) = 1 -> [status |-> "resolved", rate |-> CHOOSE r \in after : TRUE]
                 [] after = {} /\ Holding(plan, call.model, call.at) # {} -> [status |-> "unsupported_usage_condition"]
                 [] OTHER -> [status |-> "rate_not_found"]
  BY DEF ResolveRate, Fitting, Holding
<1> HIDE DEF before, after
<1>2. /\ Cardinality(after) = Cardinality(before) /\ Cardinality(before) \in Nat
      /\ before = {} <=> after = {}
      /\ before = {} => Cardinality(before) = 0
  <2>1. ExistsBijection(before, after)
    BY DEF ExistsBijection, before, after
  <2>2. IsFiniteSet(before)
    BY DEF before
  <2>3. Cardinality(after) = Cardinality(before) /\ IsFiniteSet(after)
    BY <2>1, <2>2, FS_Bijection
  <2> QED BY <2>2, <2>3, FS_CardinalityType, FS_EmptySet
<1>3. CASE Cardinality(before) = 1
  <2>1. PICK r : before = {r}
    BY <1>3, FS_Singleton DEF before
  <2>2. f \in Surjection(before, after)
    BY DEF Bijection, before, after
  <2>3. after = {f[r]}
    BY <2>1, <2>2 DEF Surjection
  <2>4. RateId(f[r]) = RateId(r) /\ f[r].price = r.price
    BY <2>1 DEF before
  <2>5. old = [status |-> "resolved", rate |-> r] /\ new = [status |-> "resolved", rate |-> f[r]]
    BY <1>1, <1>2, <1>3, <2>1, <2>3
  <2>6. EstimateBy(new, call.billed) = EstimateBy(old, call.billed)
    <3> HIDE DEF old, new
    <3>1. EstimateBy(new, call.billed) = Estimate(Calculate(call.billed, f[r].price), f[r])
      BY <2>5 DEF EstimateBy
    <3>2. EstimateBy(old, call.billed) = Estimate(Calculate(call.billed, r.price), r)
      BY <2>5 DEF EstimateBy
    <3>3. \A amount : Estimate(amount, f[r]) = Estimate(amount, r)
      BY <2>4 DEF Estimate
    <3> QED BY <2>4, <3>1, <3>2, <3>3
  <2> QED BY <2>6 DEF AttributeCodexCall
<1>4. CASE Cardinality(before) # 1
  <2>1. new = old /\ old.status # "resolved"
    BY <1>1, <1>2, <1>4
  <2> QED BY <2>1 DEF AttributeCodexCall
<1> QED BY <1>3, <1>4

\* Two rates of a sound history that differ are of different series, or one ends
\* before the other begins.
LEMMA SoundPairs ==
  ASSUME NEW models, NEW limits, NEW prices, NEW rates \in SUBSET RatesOf(models, limits, prices)
  PROVE  SoundHistory(rates) <=>
            \A r \in rates :
               /\ r.from < r.to
               /\ \A other \in rates : Series(r) = Series(other) /\ r # other => r.to <= other.from \/ other.to <= r.from
<1>1. \A r \in rates : r.from \in Int /\ r.to \in Int
  BY DEF RatesOf
<1> QED BY <1>1 DEF SoundHistory, Overlap

\* What adding some rates to a history may do.  No price is forgotten, and no call
\* that was made before each of the added rates that are new has another price.
Appended(rates, updates, plan) ==
    /\ \A r \in rates \cup updates : \E s \in plan : RateId(s) = RateId(r) /\ s.price = r.price
    /\ \A call :
          /\ call.at \in Int
          /\ \A update \in updates : (\A r \in rates : RateId(r) # RateId(update)) => call.at < update.from
          => AttributeCodexCall(call, plan) = AttributeCodexCall(call, rates)

\* One rate is appended to a sound history, which stays sound: it is in the history
\* already, or begins its series, or follows the last rate of it.
LEMMA RateIsAppended ==
  ASSUME NEW models, NEW limits, NEW prices,
         NEW rates \in SUBSET RatesOf(models, limits, prices), IsFiniteSet(rates), SoundHistory(rates),
         NEW update \in OpenRatesOf(models, limits, prices), NEW plan \in PlanRate(rates, update)
  PROVE  /\ plan \in SUBSET RatesOf(models, limits, prices) /\ IsFiniteSet(plan) /\ SoundHistory(plan)
         /\ Appended(rates, {update}, plan)
<1> DEFINE R == RatesOf(models, limits, prices)
           known == {stored \in rates : RateId(stored) = RateId(update)}
           series == {stored \in rates : Series(stored) = Series(update)}
           last == Latest(series)
           closed == [last EXCEPT !.to = update.from]
<1>0. Forever \in Nat
  BY DEF Forever
<1>1. /\ \A r \in R : r.from \in Int /\ r.to \in Int /\ r.to <= Forever
      /\ update \in R /\ update.to = Forever /\ update.from < Forever /\ update.from \in 0..Forever
  BY <1>0 DEF RatesOf, OpenRatesOf
<1>2. \A r \in rates :
         /\ r.from < r.to
         /\ \A other \in rates : Series(r) = Series(other) /\ r # other => r.to <= other.from \/ other.to <= r.from
  BY SoundPairs
<1>3. CASE known # {}
  <2>1. plan = rates /\ \E stored \in rates : SameImmutableRate(stored, update)
    BY <1>3 DEF PlanRate
  <2> QED BY <2>1 DEF Appended, SameImmutableRate
<1>4. CASE known = {} /\ series = {}
  <2>1. plan = rates \cup {update}
    BY <1>4 DEF PlanRate
  <2>2. plan \in SUBSET R /\ IsFiniteSet(plan)
    BY <1>1, <2>1, FS_AddElement
  <2>3. SoundHistory(plan)
    <3>1. \A r \in plan :
             /\ r.from < r.to
             /\ \A other \in plan : Series(r) = Series(other) /\ r # other => r.to <= other.from \/ other.to <= r.from
      BY <1>1, <1>2, <1>4, <2>1
    <3> HIDE DEF R
    <3> QED BY <2>2, <3>1, SoundPairs DEF R
  <2>4. ASSUME NEW call, call.at \in Int, call.at < update.from
        PROVE  AttributeCodexCall(call, plan) = AttributeCodexCall(call, rates)
    <3>1. Holding(plan, call.model, call.at) = Holding(rates, call.model, call.at)
      BY <1>1, <2>1, <2>4 DEF Holding
    <3>2. ResolveRate(plan, call.model, call.at, call.billed.input) = ResolveRate(rates, call.model, call.at, call.billed.input)
      BY <3>1 DEF ResolveRate, Holding
    <3> QED BY <3>2 DEF AttributeCodexCall
  <2>5. \A r \in rates : RateId(r) # RateId(update)
    BY <1>4
  <2> QED BY <2>1, <2>2, <2>3, <2>4, <2>5 DEF Appended
<1>5. CASE known = {} /\ series # {}
  <2>1. /\ last \in rates /\ last \in R /\ Series(last) = Series(update)
        /\ \A r \in rates : Series(r) = Series(update) => r.from <= last.from
    <3>1. series \in SUBSET R
      OBVIOUS
    <3>2. last \in series /\ \A r \in series : r.from <= last.from
      <4> HIDE DEF series
      <4> QED BY <1>5, <3>1, LatestIsLast
    <3> QED BY <3>1, <3>2
  <2>2. /\ update.from > last.from /\ last.to = Forever
        /\ plan = (rates \ {last}) \cup {closed, update}
    <3>1. PlanRate(rates, update) =
            IF update.from <= last.from \/ last.to # Forever THEN {}
            ELSE {(rates \ {last}) \cup {closed, update}}
      BY <1>5 DEF PlanRate
    <3>2. last.from \in Int /\ update.from \in Int
      BY <1>1, <2>1
    <3> HIDE DEF last, closed
    <3> QED BY <3>1, <3>2
  <2>3. /\ closed \in R /\ closed.to = update.from /\ closed.from = last.from
        /\ Series(closed) = Series(last) /\ RateId(closed) = RateId(last) /\ closed.price = last.price
        /\ closed.model = last.model /\ closed.limit = last.limit
    <3> HIDE DEF last
    <3> QED BY <1>1, <2>1, ClosedRate DEF Series, RateId
  <2> HIDE DEF last, closed
  <2>4. plan \in SUBSET R /\ IsFiniteSet(plan)
    <3>1. IsFiniteSet(rates \ {last}) /\ IsFiniteSet((rates \ {last}) \cup {closed})
      BY FS_Difference, FS_AddElement
    <3>2. plan = ((rates \ {last}) \cup {closed}) \cup {update}
      BY <2>2
    <3> QED BY <1>1, <2>3, <3>1, <3>2, FS_AddElement
\* The others of the series had ended when the last began.
  <2>5. \A r \in rates \ {last} : Series(r) = Series(update) => r.to <= last.from
    <3> SUFFICES ASSUME NEW r \in rates \ {last}, Series(r) = Series(update) PROVE r.to <= last.from
      OBVIOUS
    <3>1. r.to <= last.from \/ last.to <= r.from
      BY <1>2, <2>1
    <3>2. r.from < r.to /\ r.to <= Forever /\ r.from \in Int /\ r.to \in Int
      BY <1>1, <1>2
    <3> QED BY <1>0, <2>2, <3>1, <3>2
  <2>6. SoundHistory(plan)
    <3>1. \A r \in plan : r.from < r.to
      BY <1>1, <1>2, <2>1, <2>2, <2>3
    <3>2. \A r \in rates \ {last} : Series(r) = Series(update) => r.to <= closed.from /\ r.to <= update.from
      BY <1>1, <2>1, <2>2, <2>3, <2>5
    <3>3. ASSUME NEW r \in plan, NEW other \in plan, Series(r) = Series(other), r # other
          PROVE  r.to <= other.from \/ other.to <= r.from
      <4>1. CASE r \in rates \ {last} /\ other \in rates \ {last}
        BY <1>2, <3>3, <4>1
      <4>2. CASE r \in rates \ {last} /\ other \in {closed, update}
        BY <2>1, <2>3, <3>2, <3>3, <4>2
      <4>3. CASE r \in {closed, update} /\ other \in rates \ {last}
        BY <2>1, <2>3, <3>2, <3>3, <4>3
      <4>4. CASE r \in {closed, update} /\ other \in {closed, update}
        BY <1>1, <2>3, <3>3, <4>4
      <4> QED BY <2>2, <4>1, <4>2, <4>3, <4>4
    <3> HIDE DEF R
    <3> QED BY <2>4, <3>1, <3>3, SoundPairs DEF R
  <2>7. ASSUME NEW r \in rates \cup {update} PROVE \E s \in plan : RateId(s) = RateId(r) /\ s.price = r.price
    BY <2>2, <2>3, <2>7
  <2>8. ASSUME NEW call, call.at \in Int, call.at < update.from
        PROVE  AttributeCodexCall(call, plan) = AttributeCodexCall(call, rates)
    <3> DEFINE Held(history) == Holding(history, call.model, call.at)
               Fit(history) == Fitting(history, call.model, call.at, call.billed.input)
               f == [r \in Fit(rates) |-> IF r = last THEN closed ELSE r]
    <3>1. closed \notin rates \ {last}
      BY <1>1, <1>2, <2>1, <2>2, <2>3
    <3>2. \A r \in rates \ {last} : r \in Held(plan) <=> r \in Held(rates)
      BY <2>2 DEF Holding
    <3>3. closed \in Held(plan) <=> last \in Held(rates)
      BY <1>0, <1>1, <2>1, <2>2, <2>3, <2>8 DEF Holding
    <3>4. update \notin Held(plan)
      BY <1>1, <2>8 DEF Holding
    <3>5. Held(rates) \subseteq rates /\ Held(plan) \subseteq plan
      BY DEF Holding
    <3>6. Held(rates) = {} <=> Held(plan) = {}
      BY <2>1, <2>2, <3>2, <3>3, <3>4, <3>5
    <3>7. /\ \A r \in rates \ {last} : r \in Fit(plan) <=> r \in Fit(rates)
          /\ closed \in Fit(plan) <=> last \in Fit(rates)
          /\ update \notin Fit(plan)
          /\ Fit(rates) \subseteq rates /\ Fit(plan) \subseteq plan
      BY <2>3, <3>2, <3>3, <3>4, <3>5 DEF Fitting
    <3> HIDE DEF Held, Fit
    <3>8. \A r \in Fit(rates) : f[r] \in Fit(plan) /\ RateId(f[r]) = RateId(r) /\ f[r].price = r.price
      BY <2>3, <3>7
    <3>9. ASSUME NEW r \in Fit(rates), NEW other \in Fit(rates), f[r] = f[other] PROVE r = other
      BY <3>1, <3>7, <3>9
    <3>10. ASSUME NEW s \in Fit(plan) PROVE \E r \in Fit(rates) : f[r] = s
      <4>1. CASE s \in rates \ {last}
        <5>1. s \in Fit(rates) /\ f[s] = s
          BY <3>7, <4>1
        <5> QED BY <5>1
      <4>2. CASE s = closed
        <5>1. last \in Fit(rates) /\ f[last] = s
          BY <3>7, <3>10, <4>2
        <5> QED BY <5>1
      <4> QED BY <2>2, <3>7, <3>10, <4>1, <4>2
    <3>11. f \in [Fit(rates) -> Fit(plan)]
      BY <3>8
    <3> HIDE DEF f
    <3>12. f \in Bijection(Fit(rates), Fit(plan))
      BY <3>9, <3>10, <3>11 DEF Bijection, Injection, Surjection, IsInjective
    <3>13. IsFiniteSet(Fit(rates))
      BY <3>7, FS_Subset
    <3> QED BY <3>6, <3>8, <3>12, <3>13, SameFitSamePrice DEF Held, Fit
  <2>9. \A r \in rates : RateId(r) # RateId(update)
    BY <1>5
  <2> QED BY <2>4, <2>6, <2>7, <2>8, <2>9 DEF Appended
<1> QED BY <1>3, <1>4, <1>5

-----------------------------------------------------------------------------
(* Taking the elements of a sequence in turn *)

\* A bounded set of numbers has a largest one, and Max is it.
LEMMA MaxOfBounded ==
  ASSUME NEW bound \in Nat, NEW S \in SUBSET (0..bound), S # {}
  PROVE  /\ Max(S) \in S
         /\ \A x \in S : x <= Max(S)
<1> DEFINE R == {bound - x : x \in S}
<1>1. R \in SUBSET Nat /\ R # {}
  OBVIOUS
<1>2. PICK m \in R : \A n \in R : m <= n
  BY <1>1, LeastExists
<1>3. PICK y \in S : m = bound - y
  OBVIOUS
<1>4. ASSUME NEW x \in S PROVE y >= x
  <2>1. bound - x \in R /\ x \in Int /\ y \in Int
    OBVIOUS
  <2>2. bound - y <= bound - x
    BY <1>2, <1>3, <2>1
  <2> QED BY <2>1, <2>2
<1>5. Max(S) \in S /\ \A x \in S : Max(S) >= x
  BY <1>4 DEF Max
<1>6. \A x \in S : x \in Int
  OBVIOUS
<1> HIDE DEF Max, R
<1> QED BY <1>5, <1>6

\* What holds of the empty set, and of a set when it holds of the set without
\* any one of its elements, holds of every finite set.
LEMMA FiniteInduction ==
  ASSUME NEW S, IsFiniteSet(S), NEW H, {} \in H,
         \A s \in SUBSET S : s # {} /\ (\A x \in s : s \ {x} \in H) => s \in H
  PROVE  \A s \in SUBSET S : s \in H
<1> SUFFICES ASSUME NEW s \in SUBSET S, s \notin H PROVE FALSE
  OBVIOUS
<1> DEFINE Sizes == {Cardinality(t) : t \in {u \in SUBSET S : u \notin H}}
<1>1. \A t \in SUBSET S : IsFiniteSet(t) /\ Cardinality(t) \in Nat
  BY FS_Subset, FS_CardinalityType
<1>2. Sizes \in SUBSET Nat /\ Sizes # {}
  BY <1>1
<1>3. PICK m \in Sizes : \A n \in Sizes : m <= n
  BY <1>2, LeastExists
<1>4. PICK t \in SUBSET S : t \notin H /\ m = Cardinality(t)
  OBVIOUS
<1>5. ASSUME NEW x \in t PROVE t \ {x} \in H
  <2>1. Cardinality(t \ {x}) = m - 1 /\ m \in Nat
    BY <1>1, <1>4, FS_RemoveElement
  <2>2. t \ {x} \in SUBSET S
    OBVIOUS
  <2>3. CASE t \ {x} \notin H
    <3>1. Cardinality(t \ {x}) \in Sizes
      BY <2>2, <2>3
    <3>2. m <= m - 1
      BY <1>3, <2>1, <3>1
    <3> QED BY <2>1, <3>2
  <2> QED BY <2>3
<1>6. t # {}
  BY <1>4
<1> QED BY <1>4, <1>5, <1>6

\* What a fold satisfies: it takes up the elements one after the other.
Folds(S, seed, pick, step, g) ==
    \A s \in SUBSET S : g[s] = IF s = {} THEN seed ELSE step[<<pick[s], g[s \ {pick[s]}]>>]
\* The same for the sets of at most n elements, and that there is one.
FoldsUpTo(S, seed, pick, step, g, n) ==
    \A s \in SUBSET S : Cardinality(s) <= n =>
        g[s] = IF s = {} THEN seed ELSE step[<<pick[s], g[s \ {pick[s]}]>>]
CanFold(S, seed, pick, step, Y, n) ==
    \E g \in [SUBSET S -> Y] : FoldsUpTo(S, seed, pick, step, g, n)

\* A fold of a finite set exists: one for n elements takes up another.
LEMMA FoldExists ==
  ASSUME NEW S, IsFiniteSet(S), NEW Y, NEW seed \in Y, NEW pick,
         \A s \in SUBSET S : s # {} => pick[s] \in s,
         NEW step \in [S \X Y -> Y]
  PROVE  \E g \in [SUBSET S -> Y] : Folds(S, seed, pick, step, g)
<1>0. \A s \in SUBSET S : IsFiniteSet(s) /\ Cardinality(s) \in Nat /\ (Cardinality(s) = 0 <=> s = {})
  BY FS_Subset, FS_CardinalityType, FS_EmptySet
<1>1. \A s \in SUBSET S : s # {} =>
         /\ s \ {pick[s]} \in SUBSET S /\ pick[s] \in S
         /\ Cardinality(s \ {pick[s]}) = Cardinality(s) - 1
  <2> SUFFICES ASSUME NEW s \in SUBSET S, s # {}
               PROVE  /\ s \ {pick[s]} \in SUBSET S /\ pick[s] \in S
                      /\ Cardinality(s \ {pick[s]}) = Cardinality(s) - 1
    OBVIOUS
  <2>1. pick[s] \in s /\ IsFiniteSet(s)
    BY <1>0
  <2> QED BY <2>1, FS_RemoveElement
<1> DEFINE T == {n \in Nat : CanFold(S, seed, pick, step, Y, n)}
<1>2. CanFold(S, seed, pick, step, Y, 0)
  <2> DEFINE g == [s \in SUBSET S |-> seed]
  <2>1. g \in [SUBSET S -> Y] /\ FoldsUpTo(S, seed, pick, step, g, 0)
    <3>1. \A s \in SUBSET S : Cardinality(s) <= 0 => s = {}
      BY <1>0
    <3> QED BY <3>1 DEF FoldsUpTo
  <2> QED BY <2>1 DEF CanFold
<1>3. ASSUME NEW n \in Nat, CanFold(S, seed, pick, step, Y, n)
      PROVE  CanFold(S, seed, pick, step, Y, n + 1)
  <2>1. PICK g \in [SUBSET S -> Y] : FoldsUpTo(S, seed, pick, step, g, n)
    BY <1>3 DEF CanFold
  <2> DEFINE body(s) == IF s = {} THEN seed ELSE step[<<pick[s], g[s \ {pick[s]}]>>]
             h == [s \in SUBSET S |-> IF Cardinality(s) <= n THEN g[s] ELSE body(s)]
  <2>2. \A s \in SUBSET S : body(s) \in Y
    BY <1>1
  <2>3. h \in [SUBSET S -> Y]
    BY <2>2
  <2>4. ASSUME NEW s \in SUBSET S, Cardinality(s) <= n PROVE h[s] = g[s] /\ g[s] = body(s)
    BY <2>1, <2>4 DEF FoldsUpTo
  <2>5. ASSUME NEW s \in SUBSET S, Cardinality(s) <= n + 1 PROVE h[s] = body(s)
    <3>1. CASE Cardinality(s) <= n
      BY <2>4, <3>1
    <3>2. CASE ~(Cardinality(s) <= n)
      BY <3>2
    <3> QED BY <3>1, <3>2
  <2>6. ASSUME NEW s \in SUBSET S, Cardinality(s) <= n + 1, s # {}
        PROVE  h[s \ {pick[s]}] = g[s \ {pick[s]}]
    <3>1. Cardinality(s \ {pick[s]}) <= n /\ s \ {pick[s]} \in SUBSET S
      BY <1>0, <1>1, <2>6
    <3> HIDE DEF h
    <3> QED BY <2>4, <3>1
  <2> HIDE DEF h
  <2>7. FoldsUpTo(S, seed, pick, step, h, n + 1)
    BY <2>5, <2>6 DEF FoldsUpTo
  <2> QED BY <2>3, <2>7 DEF CanFold
<1>4. \A n \in Nat : CanFold(S, seed, pick, step, Y, n)
  <2> SUFFICES ASSUME NEW n \in Nat, ~CanFold(S, seed, pick, step, Y, n) PROVE FALSE
    OBVIOUS
  <2> DEFINE Not == {k \in Nat : ~CanFold(S, seed, pick, step, Y, k)}
  <2>1. PICK m \in Not : \A k \in Not : m <= k
    BY LeastExists
  <2>2. m # 0 /\ m \in Nat
    BY <1>2
  <2>3. m - 1 \in Nat /\ m - 1 \notin Not
    BY <2>1, <2>2
  <2>4. CanFold(S, seed, pick, step, Y, (m - 1) + 1)
    BY <1>3, <2>3
  <2>5. (m - 1) + 1 = m
    BY <2>2
  <2> QED BY <2>4, <2>5
<1>5. PICK g \in [SUBSET S -> Y] : FoldsUpTo(S, seed, pick, step, g, Cardinality(S))
  <2>1. CanFold(S, seed, pick, step, Y, Cardinality(S))
    BY <1>0, <1>4
  <2> QED BY <2>1 DEF CanFold
<1>6. \A s \in SUBSET S : Cardinality(s) <= Cardinality(S)
  BY FS_Subset
<1> QED BY <1>5, <1>6 DEF Folds, FoldsUpTo

-----------------------------------------------------------------------------
(* The rates of a manifest *)

\* The equation of the fold in PlanInTurn.
Plans(rates, updates, g) ==
    g = [s \in SUBSET (DOMAIN updates) |->
            IF s = {} THEN {rates} ELSE UNION {PlanRate(plan, updates[Max(s)]) : plan \in g[s \ {Max(s)}]}]

LEMMA PlanInTurnIs ==
  ASSUME NEW rates, NEW updates
  PROVE  PlanInTurn(rates, updates) = (CHOOSE g : Plans(rates, updates, g))[DOMAIN updates]
BY DEF PlanInTurn, FoldLeft, MapThenFoldSet, Plans, Max

\* The equation has a solution.
LEMMA PlansExist ==
  ASSUME NEW models, NEW limits, NEW prices,
         NEW rates \in SUBSET RatesOf(models, limits, prices), IsFiniteSet(rates), SoundHistory(rates),
         NEW updates \in Seq(OpenRatesOf(models, limits, prices))
  PROVE  \E g : Plans(rates, updates, g)
<1> DEFINE S == 1..Len(updates)
           Histories == {q \in SUBSET RatesOf(models, limits, prices) : IsFiniteSet(q) /\ SoundHistory(q)}
           Y == SUBSET Histories
           pick == [s \in SUBSET S |-> Max(s)]
           step == [p \in S \X Y |-> UNION {PlanRate(plan, updates[p[1]]) : plan \in p[2]}]
<1>0. /\ Len(updates) \in Nat /\ DOMAIN updates = S
      /\ \A i \in S : updates[i] \in OpenRatesOf(models, limits, prices)
  OBVIOUS
<1>1. IsFiniteSet(S)
  BY <1>0, FS_Interval
<1>2. \A s \in SUBSET S : s # {} => pick[s] \in s
  <2> SUFFICES ASSUME NEW s \in SUBSET S, s # {} PROVE Max(s) \in s
    OBVIOUS
  <2>1. s \in SUBSET (0..Len(updates))
    BY <1>0
  <2> QED BY <1>0, <2>1, MaxOfBounded
<1> HIDE DEF S
<1>3. step \in [S \X Y -> Y]
  <2>1. ASSUME NEW i \in S, NEW before \in Y
        PROVE  UNION {PlanRate(plan, updates[i]) : plan \in before} \in Y
    <3>1. ASSUME NEW plan \in before, NEW q \in PlanRate(plan, updates[i]) PROVE q \in Histories
      <4>1. plan \in SUBSET RatesOf(models, limits, prices) /\ IsFiniteSet(plan) /\ SoundHistory(plan)
        OBVIOUS
      <4>2. updates[i] \in OpenRatesOf(models, limits, prices)
        BY <1>0
      <4> QED BY <3>1, <4>1, <4>2, RateIsAppended
    <3> HIDE DEF Histories
    <3> QED BY <3>1
  <2> HIDE DEF Y
  <2> QED BY <2>1
<1>4. {rates} \in Y
  OBVIOUS
<1> HIDE DEF Y, pick, step
<1>5. PICK f \in [SUBSET S -> Y] : Folds(S, {rates}, pick, step, f)
  BY <1>1, <1>2, <1>3, <1>4, FoldExists
<1>6. Plans(rates, updates, f)
  <2> SUFFICES ASSUME NEW s \in SUBSET S
               PROVE  f[s] = IF s = {} THEN {rates}
                             ELSE UNION {PlanRate(plan, updates[Max(s)]) : plan \in f[s \ {Max(s)}]}
    BY <1>0 DEF Plans
  <2>1. CASE s = {}
    BY <1>5, <2>1 DEF Folds
  <2>2. CASE s # {}
    <3>1. pick[s] = Max(s) /\ Max(s) \in S /\ f[s \ {Max(s)}] \in Y
      BY <1>2, <1>5, <2>2 DEF pick
    <3>2. f[s] = step[<<Max(s), f[s \ {Max(s)}]>>]
      BY <1>5, <2>2, <3>1 DEF Folds
    <3>3. step[<<Max(s), f[s \ {Max(s)}]>>]
            = UNION {PlanRate(plan, updates[Max(s)]) : plan \in f[s \ {Max(s)}]}
      BY <3>1 DEF step
    <3> QED BY <2>2, <3>2, <3>3
  <2> QED BY <2>1, <2>2
<1> QED BY <1>6

\* One more rate after some: what they did is done still.
LEMMA OneMoreRate ==
  ASSUME NEW rates, NEW updates, NEW plan, NEW update, NEW next,
         Appended(rates, updates, plan), Appended(plan, {update}, next)
  PROVE  Appended(rates, updates \cup {update}, next)
<1>1. ASSUME NEW r \in rates \cup (updates \cup {update})
      PROVE  \E s \in next : RateId(s) = RateId(r) /\ s.price = r.price
  <2>1. CASE r \in rates \cup updates
    <3>1. PICK s \in plan : RateId(s) = RateId(r) /\ s.price = r.price
      BY <2>1 DEF Appended
    <3>2. PICK last \in next : RateId(last) = RateId(s) /\ last.price = s.price
      BY DEF Appended
    <3> QED BY <3>1, <3>2
  <2>2. CASE r = update
    BY <2>2 DEF Appended
  <2> QED BY <2>1, <2>2
<1>2. ASSUME NEW call, call.at \in Int,
             \A new \in updates \cup {update} : (\A r \in rates : RateId(r) # RateId(new)) => call.at < new.from
      PROVE  AttributeCodexCall(call, next) = AttributeCodexCall(call, rates)
  <2>1. AttributeCodexCall(call, plan) = AttributeCodexCall(call, rates)
    BY <1>2 DEF Appended
  <2>2. (\A r \in plan : RateId(r) # RateId(update)) => \A r \in rates : RateId(r) # RateId(update)
    BY DEF Appended
  <2>3. AttributeCodexCall(call, next) = AttributeCodexCall(call, plan)
    BY <1>2, <2>2 DEF Appended
  <2> QED BY <2>1, <2>3
<1> QED BY <1>1, <1>2 DEF Appended

\* Whatever rates a manifest appends to a sound history, in whatever order they are
\* taken, the history that results has no two prices for one time, holds every
\* rate there was at its price and every rate of the manifest, and leaves the cost
\* of a call that was made before the rates the manifest adds as it was
\* (billing/manifest.go:23-88).
THEOREM RatesAreAppended ==
  ASSUME NEW models, NEW limits, NEW prices,
         NEW rates \in SUBSET RatesOf(models, limits, prices), IsFiniteSet(rates), SoundHistory(rates),
         NEW updates \in Seq(OpenRatesOf(models, limits, prices)),
         NEW plan \in PlanInTurn(rates, updates)
  PROVE  SoundHistory(plan) /\ Appended(rates, {updates[i] : i \in DOMAIN updates}, plan)
<1> DEFINE S == 1..Len(updates)
           g == CHOOSE x : Plans(rates, updates, x)
           Among(s) == {updates[i] : i \in s}
           Good(s, q) == /\ q \in SUBSET RatesOf(models, limits, prices) /\ IsFiniteSet(q)
                         /\ SoundHistory(q) /\ Appended(rates, Among(s), q)
           H == {s \in SUBSET S : \A q \in g[s] : Good(s, q)}
<1>0. /\ Len(updates) \in Nat /\ DOMAIN updates = S
      /\ \A i \in S : updates[i] \in OpenRatesOf(models, limits, prices)
  OBVIOUS
<1>1. Plans(rates, updates, g)
  BY PlansExist
<1>2. PlanInTurn(rates, updates) = g[S]
  BY <1>0, PlanInTurnIs
<1>3. IsFiniteSet(S)
  BY <1>0, FS_Interval
<1> HIDE DEF g, S
<1>4. {} \in H
  <2>1. g[{}] = {rates}
    BY <1>0, <1>1 DEF Plans
  <2>2. Appended(rates, {}, rates)
    BY DEF Appended
  <2>3. Among({}) = {}
    OBVIOUS
  <2> HIDE DEF Among
  <2> QED BY <2>1, <2>2, <2>3
<1>5. ASSUME NEW s \in SUBSET S, s # {}, \A x \in s : s \ {x} \in H PROVE s \in H
  <2> DEFINE x == Max(s)
  <2>1. x \in s
    <3>1. s \in SUBSET (0..Len(updates))
      BY <1>0 DEF S
    <3> QED BY <1>0, <1>5, <3>1, MaxOfBounded
  <2>2. g[s] = UNION {PlanRate(q, updates[x]) : q \in g[s \ {x}]}
    BY <1>0, <1>1, <1>5 DEF Plans
  <2> HIDE DEF x
  <2>3. Among(s) = Among(s \ {x}) \cup {updates[x]}
    BY <2>1
  <2>4. updates[x] \in OpenRatesOf(models, limits, prices)
    BY <1>0, <2>1
  <2> HIDE DEF Among
  <2>5. ASSUME NEW next \in g[s] PROVE Good(s, next)
    <3>1. PICK q \in g[s \ {x}] : next \in PlanRate(q, updates[x])
      BY <2>2
    <3>2. Good(s \ {x}, q)
      BY <1>5, <2>1
    <3>3. /\ next \in SUBSET RatesOf(models, limits, prices) /\ IsFiniteSet(next) /\ SoundHistory(next)
          /\ Appended(q, {updates[x]}, next)
      BY <2>4, <3>1, <3>2, RateIsAppended
    <3>4. Appended(rates, Among(s \ {x}), q)
      BY <3>2
    <3>5. Appended(rates, Among(s \ {x}) \cup {updates[x]}, next)
      BY <3>3, <3>4, OneMoreRate
    <3>6. Appended(rates, Among(s), next)
      BY <2>3, <3>5
    <3> QED BY <3>3, <3>6
  <2> HIDE DEF Good
  <2> QED BY <2>5
<1>6. \A s \in SUBSET S : s \in H
  <2> HIDE DEF H
  <2> QED BY <1>3, <1>4, <1>5, FiniteInduction
<1>7. Good(S, plan)
  <2> HIDE DEF Good
  <2>1. S \in H
    BY <1>6
  <2> QED BY <1>2, <2>1
<1>8. Among(S) = {updates[i] : i \in DOMAIN updates}
  BY <1>0
<1> HIDE DEF Among
<1> QED BY <1>7, <1>8

=============================================================================
