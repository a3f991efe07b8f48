-------------------------- MODULE LiveUpdatesProofs --------------------------
(***************************************************************************)
(* Theorems about LiveUpdates and the ProjectionFeed in it, for any targets, *)
(* kinds, views, limits and bounds, and any number of mishaps and moves.    *)
(*                                                                         *)
(* First the folds: what AddTargets makes of a set of targets, and what     *)
(* WindowTargets makes of rows, covers every one of them and stays within   *)
(* the limit.  Then the inductive invariant LiveInv, one part at a time:    *)
(* the feed, the controller, the stream and the views, and the steps of     *)
(* each.  Last the theorems, and the sleep of the handler.                  *)
(***************************************************************************)
EXTENDS LiveUpdates, FiniteSetTheorems, WellFoundedInduction, TLAPS

-----------------------------------------------------------------------------
(* Folds *)

\* A set of numbers has a least one.
LEMMA LeastExists ==
  ASSUME NEW S \in SUBSET Nat, S # {}
  PROVE  \E m \in S : \A n \in S : m <= n
<1> DEFINE R == OpToRel(<, Nat)
<1>1. IsWellFoundedOn(R, Nat)
  BY NatLessThanWellFounded
<1>2. ASSUME NEW m \in Nat, NEW n \in Nat, ~ (<<n, m>> \in R) PROVE m <= n
  BY <1>2 DEF OpToRel
<1> HIDE DEF R
<1>3. S \subseteq Nat
  OBVIOUS
<1>4. PICK m \in S : \A n \in S : ~ (<<n, m>> \in R)
  BY <1>1, <1>3, WFMin
<1>5. ASSUME NEW n \in S PROVE m <= n
  <2>1. ~ (<<n, m>> \in R)
    BY <1>4
  <2>2. m \in Nat /\ n \in Nat
    OBVIOUS
  <2> QED BY <1>2, <2>1, <2>2
<1> QED BY <1>5

\* A bounded set of numbers has a largest one, and Max is it.
LEMMA MaxOfBounded ==
  ASSUME NEW bound \in Nat, NEW S \in SUBSET (0..bound), S # {}
  PROVE  /\ Max(S) \in S
         /\ \A x \in S : x <= Max(S)
<1> DEFINE R == {bound - x : x \in S}
<1>1. R \in SUBSET Nat /\ R # {}
  OBVIOUS
<1>2. PICK m \in R : \A n \in R : m <= n
  BY <1>1, LeastExists
<1>3. PICK y \in S : m = bound - y
  OBVIOUS
<1>4. ASSUME NEW x \in S PROVE y >= x
  <2>1. bound - x \in R /\ x \in Int /\ y \in Int
    OBVIOUS
  <2>2. bound - y <= bound - x
    BY <1>2, <1>3, <2>1
  <2> QED BY <2>1, <2>2
<1>5. Max(S) \in S /\ \A x \in S : Max(S) >= x
  BY <1>4 DEF Max
<1>6. \A x \in S : x \in Int
  OBVIOUS
<1> HIDE DEF Max, R
<1> QED BY <1>5, <1>6

\* What holds of the empty set, and of a set when it holds of the set without
\* any one of its elements, holds of every finite set.
LEMMA FiniteInduction ==
  ASSUME NEW S, IsFiniteSet(S), NEW H, {} \in H,
         \A s \in SUBSET S : s # {} /\ (\A x \in s : s \ {x} \in H) => s \in H
  PROVE  \A s \in SUBSET S : s \in H
<1> SUFFICES ASSUME NEW s \in SUBSET S, s \notin H PROVE FALSE
  OBVIOUS
<1> DEFINE Sizes == {Cardinality(t) : t \in {u \in SUBSET S : u \notin H}}
<1>1. \A t \in SUBSET S : IsFiniteSet(t) /\ Cardinality(t) \in Nat
  BY FS_Subset, FS_CardinalityType
<1>2. Sizes \in SUBSET Nat /\ Sizes # {}
  BY <1>1
<1>3. PICK m \in Sizes : \A n \in Sizes : m <= n
  BY <1>2, LeastExists
<1>4. PICK t \in SUBSET S : t \notin H /\ m = Cardinality(t)
  OBVIOUS
<1>5. ASSUME NEW x \in t PROVE t \ {x} \in H
  <2>1. Cardinality(t \ {x}) = m - 1 /\ m \in Nat
    BY <1>1, <1>4, FS_RemoveElement
  <2>2. t \ {x} \in SUBSET S
    OBVIOUS
  <2>3. CASE t \ {x} \notin H
    <3>1. Cardinality(t \ {x}) \in Sizes
      BY <2>2, <2>3
    <3>2. m <= m - 1
      BY <1>3, <2>1, <3>1
    <3> QED BY <2>1, <3>2
  <2> QED BY <2>3
<1>6. t # {}
  BY <1>4
<1> QED BY <1>4, <1>5, <1>6

\* What a fold satisfies: it takes up the elements one after the other.
Folds(S, seed, pick, step, g) ==
    \A s \in SUBSET S : g[s] = IF s = {} THEN seed ELSE step[<<pick[s], g[s \ {pick[s]}]>>]
\* The same for the sets of at most n elements, and that there is one.
FoldsUpTo(S, seed, pick, step, g, n) ==
    \A s \in SUBSET S : Cardinality(s) <= n =>
        g[s] = IF s = {} THEN seed ELSE step[<<pick[s], g[s \ {pick[s]}]>>]
CanFold(S, seed, pick, step, Y, n) ==
    \E g \in [SUBSET S -> Y] : FoldsUpTo(S, seed, pick, step, g, n)

\* A fold of a finite set exists: one for n elements takes up another.
LEMMA FoldExists ==
  ASSUME NEW S, IsFiniteSet(S), NEW Y, NEW seed \in Y, NEW pick,
         \A s \in SUBSET S : s # {} => pick[s] \in s,
         NEW step \in [S \X Y -> Y]
  PROVE  \E g \in [SUBSET S -> Y] : Folds(S, seed, pick, step, g)
<1>0. \A s \in SUBSET S : IsFiniteSet(s) /\ Cardinality(s) \in Nat /\ (Cardinality(s) = 0 <=> s = {})
  BY FS_Subset, FS_CardinalityType, FS_EmptySet
<1>1. \A s \in SUBSET S : s # {} =>
         /\ s \ {pick[s]} \in SUBSET S /\ pick[s] \in S
         /\ Cardinality(s \ {pick[s]}) = Cardinality(s) - 1
  <2> SUFFICES ASSUME NEW s \in SUBSET S, s # {}
               PROVE  /\ s \ {pick[s]} \in SUBSET S /\ pick[s] \in S
                      /\ Cardinality(s \ {pick[s]}) = Cardinality(s) - 1
    OBVIOUS
  <2>1. pick[s] \in s /\ IsFiniteSet(s)
    BY <1>0
  <2> QED BY <2>1, FS_RemoveElement
<1> DEFINE T == {n \in Nat : CanFold(S, seed, pick, step, Y, n)}
<1>2. CanFold(S, seed, pick, step, Y, 0)
  <2> DEFINE g == [s \in SUBSET S |-> seed]
  <2>1. g \in [SUBSET S -> Y] /\ FoldsUpTo(S, seed, pick, step, g, 0)
    <3>1. \A s \in SUBSET S : Cardinality(s) <= 0 => s = {}
      BY <1>0
    <3> QED BY <3>1 DEF FoldsUpTo
  <2> QED BY <2>1 DEF CanFold
<1>3. ASSUME NEW n \in Nat, CanFold(S, seed, pick, step, Y, n)
      PROVE  CanFold(S, seed, pick, step, Y, n + 1)
  <2>1. PICK g \in [SUBSET S -> Y] : FoldsUpTo(S, seed, pick, step, g, n)
    BY <1>3 DEF CanFold
  <2> DEFINE body(s) == IF s = {} THEN seed ELSE step[<<pick[s], g[s \ {pick[s]}]>>]
             h == [s \in SUBSET S |-> IF Cardinality(s) <= n THEN g[s] ELSE body(s)]
  <2>2. \A s \in SUBSET S : body(s) \in Y
    BY <1>1
  <2>3. h \in [SUBSET S -> Y]
    BY <2>2
  <2>4. ASSUME NEW s \in SUBSET S, Cardinality(s) <= n PROVE h[s] = g[s] /\ g[s] = body(s)
    BY <2>1, <2>4 DEF FoldsUpTo
  <2>5. ASSUME NEW s \in SUBSET S, Cardinality(s) <= n + 1 PROVE h[s] = body(s)
    <3>1. CASE Cardinality(s) <= n
      BY <2>4, <3>1
    <3>2. CASE ~(Cardinality(s) <= n)
      BY <3>2
    <3> QED BY <3>1, <3>2
  <2>6. ASSUME NEW s \in SUBSET S, Cardinality(s) <= n + 1, s # {}
        PROVE  h[s \ {pick[s]}] = g[s \ {pick[s]}]
    <3>1. Cardinality(s \ {pick[s]}) <= n /\ s \ {pick[s]} \in SUBSET S
      BY <1>0, <1>1, <2>6
    <3> HIDE DEF h
    <3> QED BY <2>4, <3>1
  <2> HIDE DEF h
  <2>7. FoldsUpTo(S, seed, pick, step, h, n + 1)
    BY <2>5, <2>6 DEF FoldsUpTo
  <2> QED BY <2>3, <2>7 DEF CanFold
<1>4. \A n \in Nat : CanFold(S, seed, pick, step, Y, n)
  <2> SUFFICES ASSUME NEW n \in Nat, ~CanFold(S, seed, pick, step, Y, n) PROVE FALSE
    OBVIOUS
  <2> DEFINE Not == {k \in Nat : ~CanFold(S, seed, pick, step, Y, k)}
  <2>1. PICK m \in Not : \A k \in Not : m <= k
    BY LeastExists
  <2>2. m # 0 /\ m \in Nat
    BY <1>2
  <2>3. m - 1 \in Nat /\ m - 1 \notin Not
    BY <2>1, <2>2
  <2>4. CanFold(S, seed, pick, step, Y, (m - 1) + 1)
    BY <1>3, <2>3
  <2>5. (m - 1) + 1 = m
    BY <2>2
  <2> QED BY <2>4, <2>5
<1>5. PICK g \in [SUBSET S -> Y] : FoldsUpTo(S, seed, pick, step, g, Cardinality(S))
  <2>1. CanFold(S, seed, pick, step, Y, Cardinality(S))
    BY <1>0, <1>4
  <2> QED BY <2>1 DEF CanFold
<1>6. \A s \in SUBSET S : Cardinality(s) <= Cardinality(S)
  BY FS_Subset
<1> QED BY <1>5, <1>6 DEF Folds, FoldsUpTo

-----------------------------------------------------------------------------
(* Sets of targets *)

\* Everything a set of targets may hold, and the sets there are.
AllTargets == Targets \cup Kinds
TargetSets == {set \in SUBSET AllTargets : IsFiniteSet(set)}

\* A target of a set, or the coarse one of its kind, is in the set.
Covers(set, target) == target \in set \/ Kind(target) \in set

\* The targets that are not coarse stay within the limit.
Within(set) == Cardinality(set \ Kinds) <= TargetLimit

\* One target taken up, by the client or by the window of the feed.
Take(client, target, set) ==
    IF client THEN AddTarget(target, set) ELSE AddToWindow(target, set)

\* What a set has to be, after some targets were taken up from an earlier one.
Taken(before, targets, after) ==
    /\ after \in TargetSets
    /\ \A u \in AllTargets : Covers(before, u) \/ u \in targets => Covers(after, u)
    /\ Within(before) => Within(after)

\* The kind of a target is a kind, and a kind is its own.
LEMMA KindOfKind ==
  ASSUME NEW target \in AllTargets
  PROVE  /\ Kind(target) \in Kinds /\ Kind(Kind(target)) = Kind(target)
         /\ Kind(target) \in AllTargets
BY FeedAssumption DEF AllTargets, Kind

\* A coarse set has the kinds of what it stands for, and nothing else.
LEMMA CoarseTaken ==
  ASSUME NEW set \in SUBSET AllTargets
  PROVE  /\ Coarse(set) \in TargetSets /\ Coarse(set) \subseteq Kinds
         /\ \A u \in AllTargets : Covers(set, u) => Covers(Coarse(set), u)
         /\ Within(Coarse(set))
<1>1. Coarse(set) \subseteq Kinds
  BY KindOfKind DEF Coarse
<1>2. IsFiniteSet(Coarse(set))
  BY <1>1, FeedAssumption, FS_Subset
<1>3. Coarse(set) \in TargetSets
  BY <1>1, <1>2 DEF TargetSets, AllTargets
<1>4. ASSUME NEW u \in AllTargets, Covers(set, u) PROVE Covers(Coarse(set), u)
  BY <1>4, KindOfKind DEF Covers, Coarse
<1>5. Within(Coarse(set))
  <2>1. Coarse(set) \ Kinds = {}
    BY <1>1
  <2>2. Cardinality(Coarse(set) \ Kinds) = 0
    BY <2>1, FS_EmptySet
  <2>3. TargetLimit \in Nat
    BY FeedAssumption
  <2> QED BY <2>2, <2>3 DEF Within
<1> QED BY <1>1, <1>3, <1>4, <1>5

\* A small set is within the limit.
LEMMA SmallWithin ==
  ASSUME NEW set, IsFiniteSet(set), Cardinality(set) <= TargetLimit
  PROVE  Within(set)
<1>1. Cardinality(set \ Kinds) <= Cardinality(set)
  BY FS_Subset
<1>2. Cardinality(set) \in Nat /\ Cardinality(set \ Kinds) \in Nat
  BY FS_CardinalityType, FS_Subset
<1>3. TargetLimit \in Nat
  BY FeedAssumption
<1> QED BY <1>1, <1>2, <1>3 DEF Within

\* A set that adds no target but coarse ones stays within the limit.
LEMMA FewerWithin ==
  ASSUME NEW before \in TargetSets, NEW after, after \ Kinds \subseteq before, Within(before)
  PROVE  Within(after)
<1>1. before \ Kinds \in SUBSET before /\ IsFiniteSet(before)
  BY DEF TargetSets
<1>2. IsFiniteSet(before \ Kinds) /\ after \ Kinds \in SUBSET (before \ Kinds)
  BY <1>1, FS_Subset
<1>3. Cardinality(after \ Kinds) <= Cardinality(before \ Kinds)
  BY <1>2, FS_Subset
<1>4. Cardinality(after \ Kinds) \in Nat /\ Cardinality(before \ Kinds) \in Nat
  BY <1>2, FS_Subset, FS_CardinalityType
<1>5. TargetLimit \in Nat
  BY FeedAssumption
<1> QED BY <1>3, <1>4, <1>5 DEF Within

\* The client takes a target up.
LEMMA AddTargetTakes ==
  ASSUME NEW target \in AllTargets, NEW set \in TargetSets
  PROVE  Taken(set, {target}, AddTarget(target, set))
<1> DEFINE added == set \cup {target}
<1>1. added \in TargetSets /\ \A u \in AllTargets : Covers(set, u) \/ u = target => Covers(added, u)
  <2>1. IsFiniteSet(added)
    BY FS_AddElement DEF TargetSets
  <2> QED BY <2>1 DEF TargetSets, Covers
<1>2. CASE Kind(target) \in set
  BY <1>2 DEF AddTarget, Taken, Covers
<1>3. CASE Kind(target) \notin set /\ Cardinality(added) <= TargetLimit
  <2>1. AddTarget(target, set) = added
    BY <1>3 DEF AddTarget
  <2>2. Within(added)
    BY <1>1, <1>3, SmallWithin DEF TargetSets
  <2> HIDE DEF added
  <2> QED BY <1>1, <2>1, <2>2 DEF Taken
<1>4. CASE Kind(target) \notin set /\ ~(Cardinality(added) <= TargetLimit)
  <2>1. AddTarget(target, set) = Coarse(added)
    BY <1>4 DEF AddTarget
  <2>2. added \in SUBSET AllTargets
    BY DEF TargetSets
  <2> HIDE DEF added
  <2> QED BY <1>1, <2>1, <2>2, CoarseTaken DEF Taken
<1> QED BY <1>2, <1>3, <1>4

\* A window takes a target up.
LEMMA AddToWindowTakes ==
  ASSUME NEW target \in AllTargets, NEW set \in TargetSets
  PROVE  Taken(set, {target}, AddToWindow(target, set))
<1> DEFINE added == set \cup {target}
           ofKind == {other \in added : Kind(other) = Kind(target)}
           narrowed == IF Cardinality(ofKind) > TargetLimit
                         THEN (added \ ofKind) \cup {Kind(target)}
                         ELSE added
           bare == {other \in added : other = target \/ Kind(other) # target}
<1>0. Kind(target) \in Kinds /\ Kind(target) \in AllTargets /\ Kind(Kind(target)) = Kind(target)
  BY KindOfKind
<1>1. added \in TargetSets /\ \A u \in AllTargets : Covers(set, u) \/ u = target => Covers(added, u)
  <2>1. IsFiniteSet(added)
    BY FS_AddElement DEF TargetSets
  <2> QED BY <2>1 DEF TargetSets, Covers
<1>2. AddToWindow(target, set) = IF target \in Kinds THEN bare
                                 ELSE IF Kind(target) \in set THEN set
                                 ELSE IF Cardinality(narrowed) > TargetLimit THEN Coarse(narrowed)
                                 ELSE narrowed
  BY DEF AddToWindow
<1>3. CASE target \in Kinds
  <2>1. bare \in SUBSET added /\ IsFiniteSet(added) /\ added \in SUBSET AllTargets
    BY <1>1 DEF TargetSets
  <2>2. bare \in TargetSets
    BY <2>1, FS_Subset DEF TargetSets
  <2>3. ASSUME NEW u \in AllTargets, Covers(added, u) PROVE Covers(bare, u)
    <3>1. Kind(u) \in Kinds /\ Kind(Kind(u)) = Kind(u) /\ target \in bare
      BY KindOfKind
    <3>2. CASE Kind(u) = target
      BY <3>1, <3>2 DEF Covers
    <3>3. CASE Kind(u) # target
      BY <2>3, <3>1, <3>3 DEF Covers
    <3> QED BY <3>2, <3>3
  <2>4. Within(set) => Within(bare)
    <3>1. bare \ Kinds \subseteq set
      BY <1>3
    <3> QED BY <3>1, FewerWithin
  <2>5. AddToWindow(target, set) = bare
    BY <1>2, <1>3
  <2> HIDE DEF bare, added
  <2> QED BY <1>1, <2>2, <2>3, <2>4, <2>5 DEF Taken
<1>4. CASE target \notin Kinds /\ Kind(target) \in set
  <2>1. AddToWindow(target, set) = set
    BY <1>2, <1>4
  <2> QED BY <1>4, <2>1 DEF Taken, Covers
<1>5. CASE target \notin Kinds /\ Kind(target) \notin set
  <2>1. narrowed \in TargetSets
    <3>1. added \ ofKind \in SUBSET added /\ IsFiniteSet(added) /\ added \in SUBSET AllTargets
      BY <1>1 DEF TargetSets
    <3>2. IsFiniteSet((added \ ofKind) \cup {Kind(target)})
      <4>1. IsFiniteSet(added \ ofKind)
        BY <3>1, FS_Subset
      <4> HIDE DEF ofKind, added
      <4> QED BY <4>1, FS_AddElement
    <3>3. (added \ ofKind) \cup {Kind(target)} \in TargetSets
      BY <1>0, <3>1, <3>2 DEF TargetSets
    <3> QED BY <1>1, <3>3
  <2>2. ASSUME NEW u \in AllTargets, Covers(added, u) PROVE Covers(narrowed, u)
    <3>1. Kind(Kind(u)) = Kind(u)
      BY KindOfKind
    <3>2. CASE Cardinality(ofKind) > TargetLimit
      <4>1. narrowed = (added \ ofKind) \cup {Kind(target)}
        BY <3>2
      <4>2. CASE Kind(u) = Kind(target)
        BY <4>1, <4>2 DEF Covers
      <4>3. CASE Kind(u) # Kind(target)
        <5>1. u \notin ofKind /\ Kind(u) \notin ofKind
          BY <3>1, <4>3
        <5> QED BY <2>2, <4>1, <5>1 DEF Covers
      <4> QED BY <4>2, <4>3
    <3>3. CASE ~(Cardinality(ofKind) > TargetLimit)
      <4>1. narrowed = added
        BY <3>3
      <4> QED BY <2>2, <4>1
    <3> QED BY <3>2, <3>3
  <2> HIDE DEF narrowed, added
  <2>3. CASE Cardinality(narrowed) > TargetLimit
    <3>1. AddToWindow(target, set) = Coarse(narrowed)
      BY <1>2, <1>5, <2>3
    <3>2. narrowed \in SUBSET AllTargets
      BY <2>1 DEF TargetSets
    <3> QED BY <1>1, <2>2, <3>1, <3>2, CoarseTaken DEF Taken
  <2>4. CASE ~(Cardinality(narrowed) > TargetLimit)
    <3>1. AddToWindow(target, set) = narrowed
      BY <1>2, <1>5, <2>4
    <3>2. IsFiniteSet(narrowed) /\ Cardinality(narrowed) \in Nat /\ TargetLimit \in Nat
      BY <2>1, FS_CardinalityType, FeedAssumption DEF TargetSets
    <3>3. Within(narrowed)
      BY <2>4, <3>2, SmallWithin
    <3> QED BY <1>1, <2>1, <2>2, <3>1, <3>3 DEF Taken
  <2> QED BY <2>3, <2>4
<1> QED BY <1>3, <1>4, <1>5

-----------------------------------------------------------------------------
(* Windows *)

\* The element that a fold over a set takes up.
OneOf(s) == CHOOSE x \in s : TRUE

\* The equation of a fold over a set of targets.
TakesAll(client, seed, set, g) ==
    g = [s \in SUBSET set |-> IF s = {} THEN seed ELSE Take(client, OneOf(s), g[s \ {OneOf(s)}])]

\* The two folds over sets of targets are functions with that equation.
LEMMA TargetsFold ==
  ASSUME NEW seed, NEW set
  PROVE  /\ FoldSet(AddTarget, seed, set) = (CHOOSE g : TakesAll(TRUE, seed, set, g))[set]
         /\ FoldSet(AddToWindow, seed, set) = (CHOOSE g : TakesAll(FALSE, seed, set, g))[set]
<1>1. FoldSet(AddTarget, seed, set) = (CHOOSE g : TakesAll(TRUE, seed, set, g))[set]
  BY DEF FoldSet, MapThenFoldSet, TakesAll, OneOf, Take
<1>2. FoldSet(AddToWindow, seed, set) = (CHOOSE g : TakesAll(FALSE, seed, set, g))[set]
  BY DEF FoldSet, MapThenFoldSet, TakesAll, OneOf, Take
<1> QED BY <1>1, <1>2

\* One target taken up.
LEMMA TakeTakes ==
  ASSUME NEW client \in BOOLEAN, NEW target \in AllTargets, NEW set \in TargetSets
  PROVE  Taken(set, {target}, Take(client, target, set))
BY AddTargetTakes, AddToWindowTakes DEF Take

\* There is a function with the equation.
LEMMA TakesAllExists ==
  ASSUME NEW client \in BOOLEAN, NEW seed \in TargetSets, NEW set \in TargetSets
  PROVE  \E g : TakesAll(client, seed, set, g)
<1> DEFINE pick == [s \in SUBSET set |-> OneOf(s)]
           step == [p \in set \X TargetSets |-> Take(client, p[1], p[2])]
<1>1. IsFiniteSet(set) /\ set \subseteq AllTargets
  BY DEF TargetSets
<1>2. \A s \in SUBSET set : s # {} => pick[s] \in s
  BY DEF OneOf
<1>3. step \in [set \X TargetSets -> TargetSets]
  BY <1>1, TakeTakes DEF Taken
<1>4. PICK g \in [SUBSET set -> TargetSets] : Folds(set, seed, pick, step, g)
  <2> HIDE DEF pick, step
  <2> QED BY <1>1, <1>2, <1>3, FoldExists
<1>5. ASSUME NEW s \in SUBSET set
      PROVE  g[s] = IF s = {} THEN seed ELSE Take(client, OneOf(s), g[s \ {OneOf(s)}])
  <2>1. CASE s = {}
    BY <1>4, <2>1 DEF Folds
  <2>2. CASE s # {}
    <3>1. pick[s] = OneOf(s) /\ OneOf(s) \in set /\ g[s \ {OneOf(s)}] \in TargetSets
      BY <1>2, <2>2
    <3>2. g[s] = step[<<OneOf(s), g[s \ {OneOf(s)}]>>]
      BY <1>4, <2>2, <3>1 DEF Folds
    <3>3. step[<<OneOf(s), g[s \ {OneOf(s)}]>>] = Take(client, OneOf(s), g[s \ {OneOf(s)}])
      BY <3>1
    <3> QED BY <2>2, <3>2, <3>3
  <2> QED BY <2>1, <2>2
<1> QED BY <1>5 DEF TakesAll

\* A set of targets taken up one by one.
LEMMA AllTaken ==
  ASSUME NEW client \in BOOLEAN, NEW seed \in TargetSets, NEW set \in TargetSets,
         NEW g, TakesAll(client, seed, set, g)
  PROVE  Taken(seed, set, g[set])
<1> DEFINE H == {s \in SUBSET set : Taken(seed, s, g[s])}
<1>1. IsFiniteSet(set) /\ set \subseteq AllTargets
  BY DEF TargetSets
<1>2. {} \in H
  <2>1. g[{}] = seed
    BY DEF TakesAll
  <2> QED BY <2>1 DEF Taken
<1>3. ASSUME NEW s \in SUBSET set, s # {}, s \ {OneOf(s)} \in H PROVE s \in H
  <2> DEFINE x == OneOf(s)
             rest == g[s \ {x}]
  <2>1. x \in s /\ x \in AllTargets
    BY <1>1, <1>3 DEF OneOf
  <2>2. g[s] = Take(client, x, rest)
    BY <1>3 DEF TakesAll
  <2>3. Taken(seed, s \ {x}, rest)
    BY <1>3
  <2> HIDE DEF x, rest
  <2>4. Taken(rest, {x}, g[s])
    BY <2>1, <2>2, <2>3, TakeTakes DEF Taken
  <2> QED BY <2>3, <2>4 DEF Taken
<1>4. \A s \in SUBSET set : s # {} /\ (\A x \in s : s \ {x} \in H) => s \in H
  <2> SUFFICES ASSUME NEW s \in SUBSET set, s # {}, \A x \in s : s \ {x} \in H PROVE s \in H
    OBVIOUS
  <2>1. OneOf(s) \in s
    BY DEF OneOf
  <2> HIDE DEF H
  <2> QED BY <1>3, <2>1
<1>5. set \in H
  <2> HIDE DEF H
  <2> QED BY <1>1, <1>2, <1>4, FiniteInduction
<1> QED BY <1>5

\* A set of targets added by the client.
LEMMA AddTargetsTakes ==
  ASSUME NEW seed \in TargetSets, NEW set \in TargetSets
  PROVE  Taken(seed, set, AddTargets(set, seed))
<1> DEFINE g == CHOOSE x : TakesAll(TRUE, seed, set, x)
<1>1. TakesAll(TRUE, seed, set, g)
  BY TakesAllExists
<1>2. AddTargets(set, seed) = g[set]
  BY TargetsFold DEF AddTargets
<1> HIDE DEF g
<1> QED BY <1>1, <1>2, AllTaken

\* A row of the feed added to a window.
LEMMA AddRowTakes ==
  ASSUME NEW seed \in TargetSets, NEW set \in TargetSets
  PROVE  Taken(seed, set, FoldSet(AddToWindow, seed, set))
<1> DEFINE g == CHOOSE x : TakesAll(FALSE, seed, set, x)
<1>1. TakesAll(FALSE, seed, set, g)
  BY TakesAllExists
<1>2. FoldSet(AddToWindow, seed, set) = g[set]
  BY TargetsFold
<1> HIDE DEF g
<1> QED BY <1>1, <1>2, AllTaken

\* A row added to a window.
AddRow(set, row) == FoldSet(AddToWindow, set, row)

\* The equation of the fold over the rows.
TakesRows(rows, g) ==
    g = [s \in SUBSET (DOMAIN rows) |-> IF s = {} THEN {} ELSE AddRow(g[s \ {Max(s)}], rows[Max(s)])]

\* The fold over the rows is a function with that equation.
LEMMA RowsFold ==
  ASSUME NEW rows
  PROVE  FoldLeft(LAMBDA set, row : FoldSet(AddToWindow, set, row), {}, rows)
           = (CHOOSE g : TakesRows(rows, g))[DOMAIN rows]
BY DEF FoldLeft, MapThenFoldSet, TakesRows, AddRow, Max

\* The rows of a window, one after the other.
LEMMA RowsTaken ==
  ASSUME NEW rows \in Seq(TargetSets)
  PROVE  LET result == FoldLeft(LAMBDA set, row : FoldSet(AddToWindow, set, row), {}, rows)
         IN  /\ result \in TargetSets /\ Within(result)
             /\ \A i \in 1..Len(rows) : \A u \in rows[i] : Covers(result, u)
<1> DEFINE S == 1..Len(rows)
           pick == [s \in SUBSET S |-> Max(s)]
           step == [p \in S \X TargetSets |-> AddRow(p[2], rows[p[1]])]
<1>0. Len(rows) \in Nat /\ DOMAIN rows = S /\ \A i \in S : rows[i] \in TargetSets
  OBVIOUS
<1>1. IsFiniteSet(S)
  BY <1>0, FS_Interval
<1>2. \A s \in SUBSET S : s # {} => pick[s] \in s
  <2> SUFFICES ASSUME NEW s \in SUBSET S, s # {} PROVE Max(s) \in s
    OBVIOUS
  <2>1. s \in SUBSET (0..Len(rows))
    BY <1>0
  <2> QED BY <1>0, <2>1, MaxOfBounded
<1>3. step \in [S \X TargetSets -> TargetSets]
  <2> HIDE DEF S
  <2> QED BY <1>0, AddRowTakes DEF Taken, AddRow
<1>4. {} \in TargetSets /\ Within({})
  <2>1. {} \ Kinds = {} /\ TargetLimit \in Nat
    BY FeedAssumption
  <2> QED BY <2>1, FS_EmptySet DEF TargetSets, Within
<1>5. PICK f \in [SUBSET S -> TargetSets] : Folds(S, {}, pick, step, f)
  <2> HIDE DEF pick, step, S
  <2> QED BY <1>1, <1>2, <1>3, <1>4, FoldExists
<1>6. TakesRows(rows, f)
  <2> SUFFICES ASSUME NEW s \in SUBSET S
               PROVE  f[s] = IF s = {} THEN {} ELSE AddRow(f[s \ {Max(s)}], rows[Max(s)])
    BY <1>0 DEF TakesRows
  <2>1. CASE s = {}
    BY <1>5, <2>1 DEF Folds
  <2>2. CASE s # {}
    <3>1. pick[s] = Max(s) /\ Max(s) \in S /\ f[s \ {Max(s)}] \in TargetSets
      BY <1>2, <2>2
    <3>2. f[s] = step[<<Max(s), f[s \ {Max(s)}]>>]
      BY <1>5, <2>2, <3>1 DEF Folds
    <3>3. step[<<Max(s), f[s \ {Max(s)}]>>] = AddRow(f[s \ {Max(s)}], rows[Max(s)])
      BY <3>1
    <3> QED BY <2>2, <3>2, <3>3
  <2> QED BY <2>1, <2>2
<1> DEFINE g == CHOOSE x : TakesRows(rows, x)
<1>7. TakesRows(rows, g)
  BY <1>6
<1> HIDE DEF g, S
<1> DEFINE Good(s, r) == /\ r \in TargetSets /\ Within(r)
                         /\ \A i \in s : \A u \in rows[i] : Covers(r, u)
           H == {s \in SUBSET S : Good(s, g[s])}
<1>8. {} \in H
  <2>1. g[{}] = {}
    BY <1>7 DEF TakesRows
  <2> QED BY <1>4, <2>1
<1>9. ASSUME NEW s \in SUBSET S, s # {}, \A x \in s : s \ {x} \in H PROVE s \in H
  <2> DEFINE x == Max(s)
             rest == g[s \ {x}]
  <2>1. x \in s /\ x \in S /\ rows[x] \in TargetSets
    BY <1>0, <1>2, <1>9
  <2>2. g[s] = AddRow(rest, rows[x])
    BY <1>0, <1>7, <1>9 DEF TakesRows
  <2>3. Good(s \ {x}, rest)
    BY <1>9, <2>1
  <2> HIDE DEF x, rest
  <2>4. Taken(rest, rows[x], g[s])
    BY <2>1, <2>2, <2>3, AddRowTakes DEF AddRow
  <2>5. ASSUME NEW i \in s, NEW u \in rows[i] PROVE Covers(g[s], u)
    <3>1. u \in AllTargets
      BY <1>0 DEF TargetSets
    <3> QED BY <2>3, <2>4, <2>5, <3>1 DEF Taken
  <2> QED BY <2>3, <2>4, <2>5 DEF Taken
<1>10. \A s \in SUBSET S : s \in H
  <2> HIDE DEF H
  <2> QED BY <1>1, <1>8, <1>9, FiniteInduction
<1>11. Good(S, g[S])
  BY <1>10
<1> HIDE DEF Good
<1>12. FoldLeft(LAMBDA set, row : FoldSet(AddToWindow, set, row), {}, rows) = g[S]
  BY <1>0, RowsFold DEF g
<1> QED BY <1>11, <1>12 DEF Good, S

-----------------------------------------------------------------------------
(* What holds in every state *)

\* The type of a position.
Places == [generation : Nat, sequence : Nat]

\* A position of a database that has been installed, at a row that has been appended.
Placed(position) ==
    /\ position \in Places
    /\ position.generation <= generation
    /\ Absolute(position) <= Len(log)

\* The types of windows, of handlers and of what a view shows.
Windows == [targets : TargetSets, through : Places, resync : BOOLEAN]
RenderWindows == [targets : TargetSets, resync : BOOLEAN, through : Places, waiting : SUBSET Views]
Pcs == {"off", "begin", "check", "take", "second", "wait", "read"}
Handlers == [pc : Pcs, position : Places, closed : BOOLEAN]
ViewStates == [stale : BOOLEAN, request : {"none", "sent", "read"}, seen : Nat, shown : Nat,
               failed : BOOLEAN]

\* The feed is a sequence of rows, and every database begins within it.
FeedOK ==
    /\ log \in Seq(TargetSets)
    /\ generation \in 1..MaxGeneration
    /\ base \in [0..MaxGeneration -> Nat]
    /\ base[0] = 0
    /\ \A g \in 0..MaxGeneration : base[g] <= Len(log)
    /\ first \in Int

\* The handler stands at a row, of the installed database once it has looked.
StreamOK ==
    /\ watch \in Handlers
    /\ Placed(watch.position)
    /\ watch.pc \in {"take", "second", "wait", "read"} => watch.position.generation = generation

\* At most one window is on its way, and it is within the limit.
WindowOK ==
    wire # <<>> =>
      /\ wire = <<wire[1]>>
      /\ wire[1] \in Windows
      /\ Placed(wire[1].through)
      /\ Within(wire[1].targets)

\* The controller's positions are places of the feed, and the acknowledged one is behind.
ControllerOK ==
    /\ Placed(cursor)
    /\ Placed(through)
    /\ pending \in TargetSets
    /\ Within(pending)
    /\ resync \in BOOLEAN
    /\ applying \in RenderWindows
    /\ Placed(applying.through)
    /\ acknowledged \in Nat
    /\ acknowledged <= Len(log)
    /\ Absolute(cursor) <= acknowledged

\* A view that reads reports no error.
ViewsOK ==
    /\ view \in [Views -> ViewStates]
    /\ \A v \in Views : view[v].request # "none" => ~view[v].failed

\* A set of targets covers a row.
CoversRow(set, i) == \A target \in log[i] : Covers(set, target)

\* The rows that were received and not acknowledged are pending or being applied ...
ReceivedHeld ==
    \A i \in 1..Len(log) :
      acknowledged < i /\ i <= Absolute(through) =>
        resync \/ applying.resync \/ CoversRow(pending \cup applying.targets, i)

\* ... and those after the window being applied are pending.
BehindHeld ==
    ~Idle =>
      \A i \in 1..Len(log) :
        acknowledged < i /\ Absolute(applying.through) < i /\ i <= Absolute(through) =>
          resync \/ CoversRow(pending, i)

\* The handler goes on from what was received, or from what was acknowledged once.
StreamFollows ==
    watch.pc # "off" =>
      IF wire = <<>> THEN watch.position = through \/ Absolute(watch.position) <= acknowledged
                     ELSE watch.position = wire[1].through

\* A window on its way holds what is new in it.
WindowHolds ==
    wire # <<>> =>
      \A i \in 1..Len(log) :
        acknowledged < i /\ Absolute(through) < i /\ i <= Absolute(wire[1].through) =>
          wire[1].resync \/ CoversRow(wire[1].targets, i)

\* A view shows a row, or is loading it, or reports an error, or knows that it has to read again.
Fresh(v, i) ==
    Affected(v, log[i]) =>
      \/ view[v].failed
      \/ Showing(v) >= i
      \/ v # page /\ view[v].stale

\* Every view is fresh up to the newest acknowledged place ...
AcknowledgedFresh ==
    started => \A v \in Views : \A i \in 1..Len(log) : i <= acknowledged => Fresh(v, i)

\* ... and, while a window is applied, up to the end of that one.
AppliedFresh ==
    started /\ ~Idle =>
      \A v \in Views : \A i \in 1..Len(log) : i <= Absolute(applying.through) => Fresh(v, i)

-----------------------------------------------------------------------------
(* The feed *)

\* The feed is as it was, but for rows and databases that were added.
FeedGrows ==
    /\ FeedOK'
    /\ Len(log) <= Len(log')
    /\ \A i \in 1..Len(log) : log'[i] = log[i]
    /\ generation <= generation'
    /\ \A g \in 0..generation : base'[g] = base[g]

\* Nothing is added.
LEMMA SameFeed ==
  ASSUME FeedOK, UNCHANGED <<log, base, generation, first>> PROVE FeedGrows
<1>1. FeedOK'
  BY DEF FeedOK
<1> QED BY <1>1 DEF FeedOK, FeedGrows

\* The numbers of the feed.
LEMMA FeedNumbers ==
  ASSUME FeedOK
  PROVE  /\ Len(log) \in Nat
         /\ generation \in Nat
         /\ generation \in 0..MaxGeneration
         /\ 0 \in 0..generation
         /\ \A g \in 0..generation : g \in 0..MaxGeneration /\ base[g] \in Nat /\ base[g] <= Len(log)
<1>1. MaxGeneration \in Nat
  BY FeedAssumption
<1> QED BY <1>1 DEF FeedOK

\* A kind of sets of targets: all the coarse ones, none, and what a commit may touch.
LEMMA SomeTargetSets ==
  /\ {} \in TargetSets /\ Within({})
  /\ Kinds \in TargetSets /\ Within(Kinds)
  /\ Changes \subseteq TargetSets
<1>1. {} \ Kinds = {} /\ Kinds \ Kinds = {} /\ TargetLimit \in Nat /\ Cardinality({}) = 0
  BY FeedAssumption, FS_EmptySet
<1>2. Within({}) /\ Within(Kinds)
  BY <1>1 DEF Within
<1>3. {} \in TargetSets /\ Kinds \in TargetSets
  BY FeedAssumption, FS_EmptySet DEF TargetSets, AllTargets
<1>4. Changes \subseteq TargetSets
  BY FeedAssumption DEF TargetSets, AllTargets
<1> QED BY <1>2, <1>3, <1>4

\* A pruning keeps the earliest row a number.
LEMMA PrunedInt ==
  ASSUME FeedOK, NEW sequence \in Int PROVE FirstRetained(sequence) \in Int
<1>1. Retained \in Nat /\ first \in Int
  BY FeedAssumption DEF FeedOK
<1>2. Max({first, sequence - Retained + 1}) \in Int
  <2>1. CASE first <= sequence - Retained + 1
    <3>1. Max({first, sequence - Retained + 1}) = sequence - Retained + 1
      BY <1>1, <2>1 DEF Max
    <3> QED BY <1>1, <3>1
  <2>2. CASE ~(first <= sequence - Retained + 1)
    <3>1. Max({first, sequence - Retained + 1}) = first
      BY <1>1, <2>2 DEF Max
    <3> QED BY <1>1, <3>1
  <2> QED BY <2>1, <2>2
<1> QED BY <1>1, <1>2 DEF FirstRetained

\* A commit appends a row.
LEMMA CommitGrows ==
  ASSUME FeedOK, NEW targets \in Changes, Commit(targets) PROVE FeedGrows
<1>1. targets \in TargetSets
  BY SomeTargetSets
<1>2. log \in Seq(TargetSets) /\ log' = Append(log, targets)
  BY DEF FeedOK, Commit
<1>3. /\ log' \in Seq(TargetSets) /\ Len(log') = Len(log) + 1 /\ Len(log) \in Nat
      /\ \A i \in 1..Len(log) : log'[i] = log[i]
  BY <1>1, <1>2
<1>4. Current.sequence + 1 \in Int
  BY FeedNumbers DEF Current
<1>5. first' \in Int
  BY <1>4, PrunedInt DEF Commit
<1>6. base' = base /\ generation' = generation
  BY DEF Commit
<1>7. FeedOK'
  <2>1. \A g \in 0..MaxGeneration : base[g] \in Nat /\ base[g] <= Len(log')
    BY <1>3 DEF FeedOK
  <2> QED BY <1>3, <1>5, <1>6, <2>1 DEF FeedOK
<1> QED BY <1>3, <1>6, <1>7, FeedNumbers DEF FeedGrows

\* A restart goes on with the feed, or begins another one behind it.
LEMMA RestartGrows ==
  ASSUME FeedOK, NEW rebuilt \in BOOLEAN, RestartFeed(rebuilt) PROVE FeedGrows
<1>1. CASE ~rebuilt
  BY <1>1, SameFeed DEF RestartFeed
<1>2. CASE rebuilt
  <2>1. Kinds \in TargetSets
    BY SomeTargetSets
  <2>2. log \in Seq(TargetSets) /\ log' = Append(log, Kinds)
    BY <1>2 DEF FeedOK, RestartFeed
  <2>3. /\ log' \in Seq(TargetSets) /\ Len(log') = Len(log) + 1 /\ Len(log) \in Nat
        /\ \A i \in 1..Len(log) : log'[i] = log[i]
    BY <2>1, <2>2
  <2>4. /\ generation < MaxGeneration /\ generation' = generation + 1 /\ first' = 1
        /\ base' = [base EXCEPT ![generation + 1] = Len(log)]
    BY <1>2 DEF RestartFeed
  <2>5. MaxGeneration \in Nat /\ generation \in Nat \ {0} /\ generation + 1 \in 0..MaxGeneration
    BY <2>4, FeedAssumption DEF FeedOK
  <2>6. base' \in [0..MaxGeneration -> Nat] /\ \A g \in 0..MaxGeneration : base'[g] <= Len(log')
    <3>1. \A g \in 0..MaxGeneration : base[g] \in Nat /\ base[g] <= Len(log')
      BY <2>3 DEF FeedOK
    <3>2. \A g \in 0..MaxGeneration : base'[g] = IF g = generation + 1 THEN Len(log) ELSE base[g]
      BY <2>4 DEF FeedOK
    <3>3. Len(log) \in Nat /\ Len(log) <= Len(log')
      BY <2>3
    <3>4. base' \in [0..MaxGeneration -> Nat]
      BY <2>4, <3>3 DEF FeedOK
    <3> QED BY <3>1, <3>2, <3>3, <3>4
  <2>7. \A g \in 0..generation : base'[g] = base[g]
    BY <2>4, <2>5 DEF FeedOK
  <2>8. base'[0] = 0
    BY <2>5, <2>7 DEF FeedOK
  <2>9. FeedOK'
    BY <2>3, <2>4, <2>5, <2>6, <2>8 DEF FeedOK
  <2> QED BY <2>3, <2>4, <2>5, <2>7, <2>9 DEF FeedGrows
<1> QED BY <1>1, <1>2

\* A position stays where it was.
LEMMA PlacedStays ==
  ASSUME FeedOK, FeedGrows, NEW position, Placed(position)
  PROVE  /\ Placed(position)' /\ Absolute(position)' = Absolute(position)
         /\ Absolute(position) \in Nat
<1>1. position \in Places /\ position.generation \in 0..generation
  BY FeedNumbers DEF Placed, Places
<1>2. base'[position.generation] = base[position.generation] /\ base[position.generation] \in Nat
  BY <1>1, FeedNumbers DEF FeedGrows
<1>3. generation \in Nat /\ generation' \in Nat /\ Len(log) \in Nat /\ Len(log') \in Nat
  BY FeedNumbers DEF FeedGrows, FeedOK
<1> QED BY <1>1, <1>2, <1>3 DEF Placed, Absolute, FeedGrows, Places

\* The newest position, and that of a client without one.
LEMMA SomePlaces ==
  ASSUME FeedOK
  PROVE  /\ Placed(Current) /\ Absolute(Current) = Len(log) /\ Current.generation = generation
         /\ Current.sequence = Len(log) - base[generation]
         /\ Placed(NoCursor) /\ Absolute(NoCursor) = 0
<1>1. base[generation] \in Nat /\ base[generation] <= Len(log) /\ Len(log) \in Nat /\ generation \in Nat
  BY FeedNumbers
<1>2. Placed(Current) /\ Absolute(Current) = Len(log) /\ Current.generation = generation
  BY <1>1 DEF Placed, Absolute, Current, Places
<1>3. Absolute(NoCursor) = 0 /\ NoCursor \in Places
  BY DEF FeedOK, Absolute, NoCursor, Places
<1>4. Placed(NoCursor)
  BY <1>1, <1>3 DEF Placed, NoCursor
<1> QED BY <1>2, <1>3, <1>4 DEF Current

\* The larger of two places.
LEMMA MaxOfTwo ==
  ASSUME NEW a \in Int, NEW b \in Int
  PROVE  Max({a, b}) = IF a <= b THEN b ELSE a
<1>1. CASE a <= b
  BY <1>1 DEF Max
<1>2. CASE ~(a <= b)
  BY <1>2 DEF Max
<1> QED BY <1>1, <1>2

\* The smaller of two.
LEMMA MinOfTwo ==
  ASSUME NEW a \in Int, NEW b \in Int
  PROVE  Min({a, b}) = IF a <= b THEN a ELSE b
<1>1. CASE a <= b
  BY <1>1 DEF Min
<1>2. CASE ~(a <= b)
  BY <1>2 DEF Min
<1> QED BY <1>1, <1>2

-----------------------------------------------------------------------------
(* The controller *)

\* What a set covers, it still covers when others were taken up, and it covers those.
LEMMA TakenCovers ==
  ASSUME NEW before, NEW targets, NEW after, Taken(before, targets, after),
         NEW u \in AllTargets, Covers(before, u) \/ Covers(targets, u)
  PROVE  Covers(after, u)
<1>1. Kind(u) \in AllTargets /\ Kind(Kind(u)) = Kind(u)
  BY KindOfKind
<1>2. CASE Covers(before, u) \/ u \in targets
  BY <1>2 DEF Taken
<1>3. CASE Kind(u) \in targets
  <2>1. Covers(after, Kind(u))
    BY <1>1, <1>3 DEF Taken
  <2> QED BY <1>1, <2>1 DEF Covers
<1> QED BY <1>2, <1>3 DEF Covers

\* All the coarse targets cover every row.
LEMMA KindsCover ==
  ASSUME FeedOK, NEW i \in 1..Len(log), NEW set, Kinds \subseteq set PROVE CoversRow(set, i)
<1>1. log[i] \in TargetSets
  BY DEF FeedOK
<1> QED BY <1>1, KindOfKind DEF CoversRow, Covers, TargetSets

\* The targets of a row are targets.
LEMMA RowTyped ==
  ASSUME FeedOK, NEW i \in 1..Len(log) PROVE log[i] \subseteq AllTargets
BY DEF FeedOK, TargetSets

\* The window being applied is left as it is, or waits for fewer views.
KeepsWindow ==
    /\ UNCHANGED <<cursor, acknowledged, through, pending, resync>>
    /\ applying' \in RenderWindows
    /\ applying'.targets = applying.targets
    /\ applying'.resync = applying.resync
    /\ applying'.through = applying.through
    /\ Idle => applying' = NoWindow

\* It has been applied.
EndsWindow ==
    /\ ~Idle
    /\ UNCHANGED <<through, pending, resync>>
    /\ ResumeFrom(applying.through)
    /\ applying' = NoWindow

\* It has been refused.
ReturnsWindow ==
    /\ ~Idle
    /\ UNCHANGED <<cursor, acknowledged, through>>
    /\ pending' = AddTargets(applying.targets, pending)
    /\ resync' = (resync \/ applying.resync)
    /\ applying' = NoWindow

\* What views do to the window that waits for them is one of these.
LEMMA ReleaseIs ==
  ASSUME ControllerOK, NEW vs, NEW refused, Release(vs, refused), through' = through
  PROVE  KeepsWindow \/ EndsWindow \/ ReturnsWindow
<1> DEFINE window == [applying EXCEPT !.waiting = @ \ vs]
<1>1. applying \in RenderWindows
  BY DEF ControllerOK
<1>2. /\ window \in RenderWindows /\ window.targets = applying.targets
      /\ window.resync = applying.resync /\ window.through = applying.through
  BY <1>1 DEF RenderWindows
<1>3. CASE Idle
  <2>1. UNCHANGED <<cursorVars, pending, resync, timer, applying>>
    BY <1>3 DEF Release
  <2> QED BY <1>1, <1>3, <2>1 DEF KeepsWindow, cursorVars, Idle
<1>4. CASE ~Idle /\ applying.waiting \cap refused # {}
  <2>1. GiveBack(window)
    BY <1>4 DEF Release
  <2> HIDE DEF window
  <2> QED BY <1>2, <1>4, <2>1 DEF GiveBack, ReturnsWindow, cursorVars
<1>5. CASE ~Idle /\ applying.waiting \cap refused = {} /\ window.waiting = {}
  <2>1. Acknowledge(window)
    BY <1>5 DEF Release
  <2> HIDE DEF window
  <2> QED BY <1>2, <1>5, <2>1 DEF Acknowledge, EndsWindow
<1>6. CASE ~Idle /\ applying.waiting \cap refused = {} /\ window.waiting # {}
  <2>1. applying' = window /\ UNCHANGED <<cursorVars, pending, resync, timer>>
    BY <1>6 DEF Release
  <2> HIDE DEF window
  <2> QED BY <1>2, <1>6, <2>1 DEF KeepsWindow, cursorVars
<1> QED BY <1>3, <1>4, <1>5, <1>6

\* Nothing that was received or acknowledged moves back.
Onward ==
    /\ through' = through
    /\ acknowledged' \in Nat
    /\ acknowledged <= acknowledged'

\* The positions of the controller and what it holds.
ControllerInv == ControllerOK /\ ReceivedHeld /\ BehindHeld

\* The positions of the controller stay where they were.
LEMMA ControllerPlaces ==
  ASSUME FeedOK, ControllerOK, FeedGrows
  PROVE  /\ \A p \in {cursor, through, applying.through} :
              Placed(p)' /\ Absolute(p)' = Absolute(p) /\ Absolute(p) \in Nat /\ Absolute(p) <= Len(log)
         /\ acknowledged \in Nat /\ acknowledged <= Len(log) /\ Len(log) \in Nat
         /\ Len(log') \in Nat /\ Len(log) <= Len(log')
         /\ \A i \in 1..Len(log) : i \in 1..Len(log') /\ log'[i] = log[i]
<1>1. Placed(cursor) /\ Placed(through) /\ Placed(applying.through)
  BY DEF ControllerOK
<1>2. ASSUME NEW p, Placed(p)
      PROVE  Placed(p)' /\ Absolute(p)' = Absolute(p) /\ Absolute(p) \in Nat /\ Absolute(p) <= Len(log)
  BY <1>2, PlacedStays DEF Placed
<1>3. acknowledged \in Nat /\ acknowledged <= Len(log)
  BY DEF ControllerOK
<1>4. Len(log) \in Nat /\ Len(log') \in Nat /\ Len(log) <= Len(log')
  BY FeedNumbers DEF FeedGrows, FeedOK
<1>5. \A i \in 1..Len(log) : i \in 1..Len(log') /\ log'[i] = log[i]
  BY <1>4 DEF FeedGrows
<1> QED BY <1>1, <1>2, <1>3, <1>4, <1>5

\* Positions that are left alone stay placed.
LEMMA PositionsStay ==
  ASSUME FeedOK, ControllerOK, FeedGrows
  PROVE  /\ cursor' \in {cursor, through, applying.through} =>
              Placed(cursor)' /\ Absolute(cursor)' = Absolute(cursor')
         /\ through' \in {cursor, through} => Placed(through)'
         /\ through' = through => Absolute(through)' = Absolute(through)
         /\ through' = cursor => Absolute(through)' = Absolute(cursor)
         /\ applying'.through \in {through, applying.through} => Placed(applying.through)'
         /\ applying'.through = applying.through =>
              Absolute(applying.through)' = Absolute(applying.through)
         /\ applying'.through = through => Absolute(applying.through)' = Absolute(through)
<1>1. PICK c, t, a : c = cursor /\ t = through /\ a = applying.through
  OBVIOUS
<1>2. \A p \in {c, t, a} : Placed(p)' /\ Absolute(p)' = Absolute(p)
  BY <1>1, ControllerPlaces
<1>3. cursor' \in {cursor, through, applying.through} =>
              Placed(cursor)' /\ Absolute(cursor)' = Absolute(cursor')
  BY <1>1, <1>2 DEF Placed, Absolute
<1>4. through' \in {cursor, through} => Placed(through)'
  BY <1>1, <1>2 DEF Placed, Absolute
<1>5. through' = through => Absolute(through)' = Absolute(through)
  BY <1>1, <1>2 DEF Absolute
<1>6. through' = cursor => Absolute(through)' = Absolute(cursor)
  BY <1>1, <1>2 DEF Absolute
<1>7. applying'.through \in {through, applying.through} => Placed(applying.through)'
  BY <1>1, <1>2 DEF Placed, Absolute
<1>8. applying'.through = applying.through =>
              Absolute(applying.through)' = Absolute(applying.through)
  BY <1>1, <1>2 DEF Absolute
<1>9. applying'.through = through => Absolute(applying.through)' = Absolute(through)
  BY <1>1, <1>2 DEF Absolute
<1> QED BY <1>3, <1>4, <1>5, <1>6, <1>7, <1>8, <1>9

\* Without a window.
LEMMA NoWindowIs ==
  ASSUME FeedOK
  PROVE  /\ NoWindow \in RenderWindows /\ Placed(NoWindow.through)
         /\ NoWindow.targets = {} /\ NoWindow.resync = FALSE
<1>1. NoCursor \in Places /\ Placed(NoCursor)
  BY SomePlaces DEF Placed
<1>2. {} \in TargetSets
  BY SomeTargetSets
<1> QED BY <1>1, <1>2 DEF NoWindow, RenderWindows

\* After a step that ends the window being applied.
LEMMA EndedWindowPlaced ==
  ASSUME FeedOK', applying' = NoWindow
  PROVE  applying' \in RenderWindows /\ Placed(applying.through)'
<1>1. NoCursor \in Places /\ NoCursor.generation = 0
  BY DEF NoCursor, Places
<1>2. base'[0] = 0 /\ generation' \in Nat /\ Len(log') \in Nat
  BY FeedAssumption DEF FeedOK
<1>3. (NoWindow \in RenderWindows) /\ NoWindow.through = NoCursor
  BY <1>1, SomeTargetSets DEF NoWindow, RenderWindows
<1> QED BY <1>1, <1>2, <1>3 DEF Placed, Absolute, NoCursor

\* What is pending holds what it held, and more.
LEMMA KeepsWindowHolds ==
  ASSUME FeedOK, FeedGrows, ControllerInv, KeepsWindow
  PROVE  ControllerInv' /\ Onward
<1>1. UNCHANGED <<cursor, acknowledged, through, pending, resync>> /\ applying' \in RenderWindows
  BY DEF KeepsWindow
<1>2. /\ applying'.targets = applying.targets /\ applying'.resync = applying.resync
      /\ applying'.through = applying.through
  BY DEF KeepsWindow
<1>3. Idle => Idle'
  BY DEF KeepsWindow, Idle
<1>4. ControllerOK
  BY DEF ControllerInv
<1>5. Placed(cursor)' /\ Placed(through)' /\ Placed(applying.through)'
  BY <1>1, <1>2, <1>4, PositionsStay
<1>6. /\ Absolute(through)' = Absolute(through) /\ Absolute(through) <= Len(log)
      /\ Absolute(applying.through)' = Absolute(applying.through)
      /\ Absolute(cursor)' = Absolute(cursor)
      /\ acknowledged \in Nat /\ acknowledged <= Len(log) /\ Len(log) \in Nat
      /\ Absolute(through) \in Nat
  BY <1>1, <1>2, <1>4, PositionsStay, ControllerPlaces
<1>7. Len(log') \in Nat /\ Len(log) <= Len(log') /\ \A i \in 1..Len(log) : log'[i] = log[i]
  BY <1>4, ControllerPlaces
<1>8. ControllerOK'
  BY <1>1, <1>4, <1>5, <1>6, <1>7 DEF ControllerOK
<1>9. ASSUME NEW i \in 1..Len(log'), i <= Absolute(through)
       PROVE  i \in 1..Len(log) /\ log'[i] = log[i]
  BY <1>6, <1>7, <1>9
<1>10. ReceivedHeld'
  BY <1>1, <1>2, <1>6, <1>9 DEF ControllerInv, ReceivedHeld, CoversRow
<1>11. BehindHeld'
  BY <1>1, <1>3, <1>6, <1>9 DEF ControllerInv, BehindHeld, CoversRow
<1> QED BY <1>1, <1>6, <1>8, <1>10, <1>11 DEF ControllerInv, Onward

\* What is acknowledged need not be held any more, and the rest is pending.
LEMMA EndsWindowHolds ==
  ASSUME FeedOK, FeedGrows, ControllerInv, EndsWindow
  PROVE  ControllerInv' /\ Onward
<1>1. ~Idle /\ UNCHANGED <<through, pending, resync>> /\ cursor' = applying.through /\ Idle'
  BY DEF EndsWindow, ResumeFrom, Idle
<1>2. ControllerOK
  BY DEF ControllerInv
<1>3. FeedOK'
  BY DEF FeedGrows
<1>4. Placed(cursor)' /\ Placed(through)' /\ Placed(applying.through)' /\ applying' \in RenderWindows
  BY <1>1, <1>2, <1>3, PositionsStay, EndedWindowPlaced DEF Idle
<1>5. /\ Absolute(through)' = Absolute(through) /\ Absolute(through) <= Len(log)
      /\ Absolute(cursor)' = Absolute(applying.through)
      /\ Absolute(applying.through) \in Nat /\ Absolute(applying.through) <= Len(log)
      /\ acknowledged \in Nat /\ acknowledged <= Len(log) /\ Len(log) \in Nat
      /\ Absolute(through) \in Nat
  BY <1>1, <1>2, PositionsStay, ControllerPlaces
<1>6. Len(log') \in Nat /\ Len(log) <= Len(log') /\ \A i \in 1..Len(log) : log'[i] = log[i]
  BY <1>2, ControllerPlaces
<1>7. acknowledged' = IF acknowledged <= Absolute(applying.through) THEN Absolute(applying.through)
                                                                   ELSE acknowledged
  BY <1>5, MaxOfTwo DEF EndsWindow, ResumeFrom
<1>8. /\ acknowledged' \in Nat /\ acknowledged <= acknowledged' /\ acknowledged' <= Len(log')
      /\ Absolute(applying.through) <= acknowledged'
  BY <1>5, <1>6, <1>7
<1>9. ControllerOK'
  BY <1>1, <1>2, <1>4, <1>5, <1>8 DEF ControllerOK
<1>10. ASSUME NEW i \in 1..Len(log'), i <= Absolute(through)
       PROVE  i \in 1..Len(log) /\ log'[i] = log[i]
  BY <1>5, <1>6, <1>10
<1>11. ASSUME NEW i \in 1..Len(log'), acknowledged' < i, i <= Absolute(through)
       PROVE  resync \/ \A target \in log'[i] : Covers(pending, target)
  <2>1. acknowledged < i /\ Absolute(applying.through) < i
    BY <1>5, <1>8, <1>11
  <2> QED BY <1>1, <1>10, <1>11, <2>1 DEF ControllerInv, BehindHeld, CoversRow
<1>12. ReceivedHeld'
  BY <1>1, <1>5, <1>11 DEF ReceivedHeld, CoversRow, Covers
<1>13. BehindHeld'
  BY <1>1 DEF BehindHeld
<1> QED BY <1>1, <1>8, <1>9, <1>12, <1>13 DEF ControllerInv, Onward

\* What is returned is pending again.
LEMMA ReturnsWindowHolds ==
  ASSUME FeedOK, FeedGrows, ControllerInv, ReturnsWindow
  PROVE  ControllerInv' /\ Onward
<1>1. ~Idle /\ UNCHANGED <<cursor, acknowledged, through>> /\ Idle'
  BY DEF ReturnsWindow, Idle
<1>2. ControllerOK
  BY DEF ControllerInv
<1>3. FeedOK'
  BY DEF FeedGrows
<1>4. Placed(cursor)' /\ Placed(through)' /\ Placed(applying.through)' /\ applying' \in RenderWindows
  BY <1>1, <1>2, <1>3, PositionsStay, EndedWindowPlaced DEF Idle
<1>5. /\ Absolute(through)' = Absolute(through) /\ Absolute(through) <= Len(log)
      /\ Absolute(cursor)' = Absolute(cursor)
      /\ acknowledged \in Nat /\ acknowledged <= Len(log) /\ Len(log) \in Nat
      /\ Absolute(through) \in Nat
  BY <1>1, <1>2, PositionsStay, ControllerPlaces
<1>6. Len(log') \in Nat /\ Len(log) <= Len(log') /\ \A i \in 1..Len(log) : log'[i] = log[i]
  BY <1>2, ControllerPlaces
<1>7. pending \in TargetSets /\ applying.targets \in TargetSets /\ applying.resync \in BOOLEAN
  BY <1>2 DEF ControllerOK, RenderWindows
<1>8. Taken(pending, applying.targets, pending')
  BY <1>7, AddTargetsTakes DEF ReturnsWindow
<1>9. ControllerOK'
  <2>1. pending' \in TargetSets /\ Within(pending')
    BY <1>2, <1>8 DEF Taken, ControllerOK
  <2>2. resync' \in BOOLEAN
    BY <1>2, <1>7 DEF ReturnsWindow, ControllerOK
  <2> QED BY <1>1, <1>2, <1>4, <1>5, <1>6, <2>1, <2>2 DEF ControllerOK
<1>10. ASSUME NEW i \in 1..Len(log'), acknowledged < i, i <= Absolute(through)
       PROVE  resync' \/ \A target \in log'[i] : Covers(pending', target)
  <2>1. i \in 1..Len(log) /\ log'[i] = log[i] /\ log[i] \subseteq AllTargets
    BY <1>5, <1>6, <1>10, RowTyped
  <2>2. resync \/ applying.resync \/ CoversRow(pending \cup applying.targets, i)
    BY <1>10, <2>1 DEF ControllerInv, ReceivedHeld
  <2>3. CASE CoversRow(pending \cup applying.targets, i)
    <3>1. ASSUME NEW u \in log[i] PROVE Covers(pending', u)
      <4>1. Covers(pending, u) \/ Covers(applying.targets, u)
        BY <2>3 DEF CoversRow, Covers
      <4>2. u \in AllTargets
        BY <2>1
      <4> QED BY <1>8, <4>1, <4>2, TakenCovers
    <3> QED BY <2>1, <3>1
  <2> QED BY <2>2, <2>3 DEF ReturnsWindow
<1>11. ReceivedHeld'
  BY <1>1, <1>5, <1>10 DEF ReceivedHeld, CoversRow, Covers
<1>12. BehindHeld'
  BY <1>1 DEF BehindHeld
<1> QED BY <1>1, <1>5, <1>9, <1>11, <1>12 DEF ControllerInv, Onward

\* A window that is handed over is being applied, or acknowledged at once.
HandsOver ==
    /\ Idle
    /\ UNCHANGED through
    /\ pending' = {}
    /\ resync' = FALSE
    /\ \/ /\ applying' = NoWindow
          /\ ResumeFrom(through)
       \/ /\ applying' \in RenderWindows
          /\ applying'.targets = pending /\ applying'.resync = resync /\ applying'.through = through
          /\ UNCHANGED <<cursor, acknowledged>>

\* What is handed over is being applied.
LEMMA HandsOverHolds ==
  ASSUME FeedOK, FeedGrows, ControllerInv, HandsOver
  PROVE  ControllerInv' /\ Onward
<1>1. Idle /\ UNCHANGED through /\ pending' = {} /\ resync' = FALSE
  BY DEF HandsOver
<1>2. ControllerOK
  BY DEF ControllerInv
<1>3. FeedOK'
  BY DEF FeedGrows
<1>4. /\ Absolute(through)' = Absolute(through) /\ Absolute(through) <= Len(log)
      /\ acknowledged \in Nat /\ acknowledged <= Len(log) /\ Len(log) \in Nat
      /\ Absolute(through) \in Nat
      /\ Absolute(cursor) \in Nat
  BY <1>1, <1>2, PositionsStay, ControllerPlaces
<1>5. Len(log') \in Nat /\ Len(log) <= Len(log') /\ \A i \in 1..Len(log) : log'[i] = log[i]
  BY <1>2, ControllerPlaces
<1>6. pending' \in TargetSets /\ Within(pending')
  BY <1>1, SomeTargetSets
<1>7. CASE applying' = NoWindow /\ ResumeFrom(through)
  <2>1. acknowledged' = IF acknowledged <= Absolute(through) THEN Absolute(through) ELSE acknowledged
    BY <1>4, <1>7, MaxOfTwo DEF ResumeFrom
  <2>2. /\ acknowledged' \in Nat /\ acknowledged <= acknowledged' /\ acknowledged' <= Len(log')
        /\ Absolute(through) <= acknowledged'
    BY <1>4, <1>5, <2>1
  <2>3. Placed(cursor)' /\ Placed(through)' /\ Placed(applying.through)' /\ applying' \in RenderWindows
    BY <1>1, <1>2, <1>3, <1>7, PositionsStay, EndedWindowPlaced DEF ResumeFrom
  <2>4. Absolute(cursor)' = Absolute(through)
    BY <1>2, <1>7, PositionsStay DEF ResumeFrom
  <2>5. ControllerOK'
    BY <1>1, <1>6, <2>2, <2>3, <2>4 DEF ControllerOK
  <2>6. ReceivedHeld'
    BY <1>4, <2>2 DEF ReceivedHeld
  <2>7. BehindHeld'
    BY <1>7 DEF BehindHeld, Idle
  <2> QED BY <1>1, <2>2, <2>5, <2>6, <2>7 DEF ControllerInv, Onward
<1>8. CASE /\ applying' \in RenderWindows
           /\ applying'.targets = pending /\ applying'.resync = resync /\ applying'.through = through
           /\ UNCHANGED <<cursor, acknowledged>>
  <2>1. Placed(cursor)' /\ Placed(through)' /\ Placed(applying.through)'
    BY <1>1, <1>2, <1>8, PositionsStay
  <2>2. Absolute(cursor)' = Absolute(cursor) /\ Absolute(applying.through)' = Absolute(through)
    BY <1>2, <1>8, PositionsStay
  <2>3. acknowledged' \in Nat /\ acknowledged' <= Len(log') /\ Absolute(cursor)' <= acknowledged'
    <3>1. Absolute(cursor) <= acknowledged
      BY <1>2 DEF ControllerOK
    <3> QED BY <1>4, <1>5, <1>8, <2>2, <3>1
  <2>9. ControllerOK'
    BY <1>1, <1>6, <1>8, <2>1, <2>3 DEF ControllerOK
  <2>4. applying.targets = {} /\ applying.resync = FALSE
    BY <1>1 DEF Idle, NoWindow
  <2>5. ReceivedHeld'
    <3> SUFFICES ASSUME NEW i \in 1..Len(log'), acknowledged < i, i <= Absolute(through)
                 PROVE  resync \/ \A target \in log'[i] : Covers({} \cup pending, target)
      BY <1>1, <1>4, <1>8 DEF ReceivedHeld, CoversRow
    <3>1. i \in 1..Len(log) /\ log'[i] = log[i]
      BY <1>4, <1>5
    <3>2. resync \/ CoversRow(pending \cup {}, i)
      BY <2>4, <3>1 DEF ControllerInv, ReceivedHeld
    <3> QED BY <3>1, <3>2 DEF CoversRow, Covers
  <2>6. BehindHeld'
    BY <1>4, <2>2 DEF BehindHeld
  <2> QED BY <1>1, <1>4, <1>8, <2>9, <2>5, <2>6 DEF ControllerInv, Onward
<1> QED BY <1>7, <1>8 DEF HandsOver

\* A window that is received is pending.
LEMMA ReceiveHolds ==
  ASSUME FeedOK, ControllerInv, WindowOK, WindowHolds, Receive
  PROVE  ControllerInv'
<1> DEFINE w == wire[1]
<1>1. wire # <<>> /\ wire = <<w>> /\ w \in Windows /\ Placed(w.through)
  BY DEF Receive, WindowOK
<1>2. /\ through' = w.through
      /\ resync' = (resync \/ w.resync)
      /\ pending' = AddTargets(w.targets, pending) \cup (IF w.resync THEN Kinds ELSE {})
  BY <1>1 DEF Receive
<1>3. UNCHANGED <<log, base, generation, first, cursor, acknowledged, applying>>
  BY DEF Receive, feedVars, cursorVars
<1>4. w.targets \in TargetSets /\ w.resync \in BOOLEAN
  BY <1>1 DEF Windows
<1> HIDE DEF w
<1>5. ControllerOK /\ pending \in TargetSets /\ Within(pending)
  BY DEF ControllerInv, ControllerOK
<1> DEFINE p == AddTargets(w.targets, pending)
<1>6. Taken(pending, w.targets, p)
  BY <1>4, <1>5, AddTargetsTakes
<1> HIDE DEF p
<1>7. p \in TargetSets /\ Within(p)
  BY <1>5, <1>6 DEF Taken
<1>8. pending' \in TargetSets /\ Within(pending')
  <2>1. CASE ~w.resync
    BY <1>2, <1>7, <2>1 DEF p
  <2>2. CASE w.resync
    <3>1. pending' = p \cup Kinds
      BY <1>2, <2>2 DEF p
    <3>2. IsFiniteSet(p \cup Kinds) /\ p \cup Kinds \in SUBSET AllTargets
      BY <1>7, FeedAssumption, FS_Union DEF TargetSets, AllTargets
    <3>3. (p \cup Kinds) \ Kinds \subseteq p
      OBVIOUS
    <3>4. Within(p \cup Kinds)
      BY <1>7, <3>3, FewerWithin
    <3> QED BY <3>1, <3>2, <3>4 DEF TargetSets
  <2> QED BY <1>4, <2>1, <2>2 DEF Windows
<1>9. p \subseteq pending' /\ (w.resync => Kinds \subseteq pending')
  BY <1>2 DEF p
<1>10. Placed(through)'
  BY <1>1, <1>2, <1>3 DEF Placed, Absolute
<1>11. ControllerOK'
  BY <1>2, <1>3, <1>4, <1>5, <1>8, <1>10 DEF ControllerOK, Placed, Absolute
<1>12. Absolute(through)' = Absolute(w.through)
  BY <1>2, <1>3 DEF Absolute
<1>13. Absolute(through) \in Nat /\ Absolute(w.through) \in Nat /\ acknowledged \in Nat
  BY <1>1, <1>5, SameFeed, <1>3, ControllerPlaces, PlacedStays
<1>14. ASSUME NEW i \in 1..Len(log), acknowledged < i, i <= Absolute(through)
       PROVE  resync' \/ applying.resync \/ CoversRow(pending' \cup applying.targets, i)
  <2>1. resync \/ applying.resync \/ CoversRow(pending \cup applying.targets, i)
    BY <1>14 DEF ControllerInv, ReceivedHeld
  <2>2. CASE CoversRow(pending \cup applying.targets, i)
    <3>1. ASSUME NEW u \in log[i] PROVE Covers(pending' \cup applying.targets, u)
      <4>1. Covers(pending, u) => Covers(p, u)
        BY <1>6, RowTyped DEF Taken
      <4> QED BY <1>9, <2>2, <4>1 DEF CoversRow, Covers
    <3> QED BY <3>1 DEF CoversRow
  <2> QED BY <1>2, <2>1, <2>2
<1>15. ASSUME NEW i \in 1..Len(log), acknowledged < i, i <= Absolute(through), CoversRow(pending, i)
       PROVE  CoversRow(pending', i)
  <2>1. ASSUME NEW u \in log[i] PROVE Covers(pending', u)
    <3>1. Covers(pending, u) => Covers(p, u)
      BY <1>6, RowTyped DEF Taken
    <3> QED BY <1>9, <1>15, <3>1 DEF CoversRow, Covers
  <2> QED BY <2>1 DEF CoversRow
<1>16. ASSUME NEW i \in 1..Len(log), acknowledged < i, Absolute(through) < i, i <= Absolute(w.through)
       PROVE  resync' \/ CoversRow(pending', i)
  <2>1. w.resync \/ CoversRow(w.targets, i)
    BY <1>1, <1>16 DEF WindowHolds, w
  <2>2. CASE CoversRow(w.targets, i)
    <3>1. ASSUME NEW u \in log[i] PROVE Covers(pending', u)
      <4>1. Covers(w.targets, u) /\ u \in AllTargets
        BY <2>2, RowTyped DEF CoversRow
      <4>2. Covers(p, u)
        BY <1>6, <4>1, TakenCovers
      <4> QED BY <1>9, <4>2 DEF Covers
    <3> QED BY <3>1 DEF CoversRow
  <2> QED BY <1>2, <2>1, <2>2
<1>17. ReceivedHeld'
  <2> SUFFICES ASSUME NEW i \in 1..Len(log), acknowledged < i, i <= Absolute(w.through)
               PROVE  resync' \/ applying.resync \/ CoversRow(pending' \cup applying.targets, i)
    BY <1>3, <1>12 DEF ReceivedHeld, CoversRow
  <2>1. CASE i <= Absolute(through)
    BY <1>14, <2>1
  <2>2. CASE ~(i <= Absolute(through))
    BY <1>13, <1>16, <2>2 DEF CoversRow, Covers
  <2> QED BY <2>1, <2>2
<1>18. BehindHeld'
  <2> SUFFICES ASSUME ~Idle, NEW i \in 1..Len(log), acknowledged < i,
                      Absolute(applying.through) < i, i <= Absolute(w.through)
               PROVE  resync' \/ CoversRow(pending', i)
    BY <1>3, <1>12 DEF BehindHeld, CoversRow, Absolute, Idle
  <2>1. CASE i <= Absolute(through)
    <3>1. resync \/ CoversRow(pending, i)
      BY <2>1 DEF ControllerInv, BehindHeld
    <3> QED BY <1>2, <1>15, <2>1, <3>1
  <2>2. CASE ~(i <= Absolute(through))
    BY <1>13, <1>16, <2>2
  <2> QED BY <2>1, <2>2
<1> QED BY <1>11, <1>17, <1>18 DEF ControllerInv

\* A page that is taken down forgets what it has not handed over.
LEMMA StopHolds ==
  ASSUME FeedOK, ControllerInv, Stop
  PROVE  ControllerInv'
<1>1. UNCHANGED <<log, base, generation, first, cursor, acknowledged>>
  BY DEF Stop, Move, feedVars, cursorVars
<1>2. pending' = {} /\ resync' = FALSE /\ through' = cursor /\ applying' = NoWindow
  BY DEF Stop
<1>3. FeedGrows /\ FeedOK'
  BY <1>1, SameFeed DEF FeedGrows
<1>4. ControllerOK
  BY DEF ControllerInv
<1>5. Placed(cursor)' /\ Placed(through)' /\ Placed(applying.through)' /\ applying' \in RenderWindows
  BY <1>1, <1>2, <1>3, <1>4, PositionsStay, EndedWindowPlaced
<1>6. Absolute(through)' = Absolute(cursor) /\ Absolute(cursor)' = Absolute(cursor)
  BY <1>1, <1>2, <1>3, <1>4, PositionsStay
<1>7. ControllerOK'
  BY <1>1, <1>2, <1>4, <1>5, <1>6, SomeTargetSets DEF ControllerOK
<1>8. ReceivedHeld'
  <2>1. Absolute(cursor) <= acknowledged /\ acknowledged \in Nat /\ Absolute(cursor) \in Nat
    BY <1>3, <1>4, ControllerPlaces DEF ControllerOK
  <2> QED BY <1>1, <1>6, <2>1 DEF ReceivedHeld
<1>9. BehindHeld'
  BY <1>2 DEF BehindHeld, Idle
<1> QED BY <1>7, <1>8, <1>9 DEF ControllerInv

\* The page that is put up.
LEMMA InitHolds == Init => FeedOK /\ ControllerInv
<1> SUFFICES ASSUME Init PROVE FeedOK /\ ControllerInv
  OBVIOUS
<1>1. /\ log = <<>> /\ base = [g \in 0..MaxGeneration |-> 0] /\ generation = 1 /\ first = 1
  BY DEF Init, FeedInit
<1>2. MaxGeneration \in Nat \ {0} /\ <<>> \in Seq(TargetSets) /\ Len(log) = 0
  BY <1>1, FeedAssumption
<1>3. FeedOK
  BY <1>1, <1>2 DEF FeedOK
<1>4. Placed(NoCursor) /\ Absolute(NoCursor) = 0
  BY <1>3, SomePlaces
<1>5. ControllerOK
  <2>1. /\ cursor = NoCursor /\ through = NoCursor /\ acknowledged = Absolute(NoCursor)
        /\ pending = {} /\ resync = FALSE /\ applying = NoWindow
    BY DEF Init
  <2>2. NoWindow \in RenderWindows /\ NoWindow.through = NoCursor
    BY <1>3, NoWindowIs DEF NoWindow
  <2>3. Placed(cursor) /\ Placed(through) /\ Placed(applying.through) /\ Absolute(cursor) = 0
    BY <1>4, <2>1, <2>2
  <2>4. acknowledged = 0
    BY <1>4, <2>1
  <2>5. pending \in TargetSets /\ Within(pending) /\ resync \in BOOLEAN /\ applying \in RenderWindows
    BY <2>1, <2>2, SomeTargetSets
  <2> QED BY <1>2, <2>3, <2>4, <2>5 DEF ControllerOK
<1>6. ReceivedHeld /\ BehindHeld
  BY <1>2 DEF ReceivedHeld, BehindHeld
<1> QED BY <1>3, <1>5, <1>6 DEF ControllerInv

-----------------------------------------------------------------------------
(* The stream *)

\* The handler and the window on its way.
StreamInv == StreamOK /\ WindowOK /\ StreamFollows /\ WindowHolds

\* A window that is on its way and stays there.
LEMMA WindowStays ==
  ASSUME FeedOK, FeedGrows, ControllerOK, WindowOK, WindowHolds, Onward, wire' = wire
  PROVE  WindowOK' /\ WindowHolds'
<1>1. CASE wire = <<>>
  BY <1>1 DEF WindowOK, WindowHolds
<1>2. CASE wire # <<>>
  <2>1. PICK w : w = wire[1]
    OBVIOUS
  <2>2. w \in Windows /\ Placed(w.through) /\ Within(w.targets) /\ wire = <<w>>
    BY <1>2, <2>1 DEF WindowOK
  <2>3. Placed(w.through)' /\ Absolute(w.through)' = Absolute(w.through) /\ Absolute(w.through) \in Nat
    BY <2>2, PlacedStays
  <2>4. WindowOK'
    BY <2>2, <2>3 DEF WindowOK
  <2>5. /\ Absolute(through)' = Absolute(through) /\ acknowledged <= acknowledged'
        /\ acknowledged' \in Nat /\ acknowledged \in Nat
    BY PositionsStay, ControllerPlaces DEF Onward
  <2>6. Absolute(w.through) <= Len(log) /\ Len(log) \in Nat
    BY <2>2, FeedNumbers DEF Placed
  <2>7. ASSUME NEW i \in 1..Len(log'), acknowledged' < i, Absolute(through) < i, i <= Absolute(w.through)
        PROVE  w.resync \/ \A target \in log'[i] : Covers(w.targets, target)
    <3>1. i \in 1..Len(log) /\ log'[i] = log[i] /\ acknowledged < i
      BY <2>3, <2>5, <2>6, <2>7 DEF FeedGrows
    <3> QED BY <1>2, <2>1, <2>7, <3>1 DEF WindowHolds, CoversRow
  <2>8. WindowHolds'
    BY <2>1, <2>3, <2>5, <2>7 DEF WindowHolds, CoversRow
  <2> QED BY <2>4, <2>8
<1> QED BY <1>1, <1>2

\* No window is on its way.
LEMMA NoWindowStays == wire' = <<>> => WindowOK' /\ WindowHolds'
BY DEF WindowOK, WindowHolds

\* No handler runs.
LEMMA StreamEnds ==
  ASSUME FeedOK', watch' = Closed
  PROVE  StreamOK' /\ StreamFollows'
<1>1. watch' = [pc |-> "off", position |-> NoCursor, closed |-> FALSE]
  BY DEF Closed
<1>2. NoCursor \in Places /\ NoCursor.generation = 0 /\ NoCursor.sequence = 0
  BY DEF NoCursor, Places
<1>3. base'[0] = 0 /\ generation' \in Nat /\ Len(log') \in Nat
  BY FeedAssumption DEF FeedOK
<1>4. Placed(watch.position)'
  BY <1>1, <1>2, <1>3 DEF Placed, Absolute
<1>5. watch' \in Handlers
  BY <1>1, <1>2 DEF Handlers, Pcs
<1> QED BY <1>1, <1>4, <1>5 DEF StreamOK, StreamFollows

\* The handler stays where it is while the feed may grow and the controller goes on.
LEMMA HandlerStays ==
  ASSUME FeedOK, FeedGrows, ControllerOK, StreamOK, StreamFollows, Onward, wire' = wire,
         watch' \in Handlers, watch'.pc = watch.pc, watch'.position = watch.position,
         generation' = generation \/ watch.pc = "off"
  PROVE  StreamOK' /\ StreamFollows'
<1>1. PICK p : p = watch.position
  OBVIOUS
<1>2. Placed(p) /\ Placed(p)' /\ Absolute(p)' = Absolute(p) /\ Absolute(p) \in Nat
  BY <1>1, PlacedStays DEF StreamOK
<1>3. Placed(watch.position)' /\ Absolute(watch.position)' = Absolute(watch.position)
  BY <1>1, <1>2 DEF Placed, Absolute
<1>4. StreamOK'
  BY <1>3 DEF StreamOK
<1>5. acknowledged \in Nat /\ acknowledged' \in Nat /\ acknowledged <= acknowledged'
      /\ Absolute(watch.position) \in Nat /\ through' = through
  BY <1>1, <1>2 DEF Onward, ControllerOK
<1>6. StreamFollows'
  BY <1>3, <1>5 DEF StreamFollows
<1> QED BY <1>4, <1>6

\* The stream is left alone.
LEMMA StreamStays ==
  ASSUME FeedOK, FeedGrows, ControllerOK, StreamInv, Onward, UNCHANGED streamVars,
         generation' = generation \/ watch.pc = "off"
  PROVE  StreamInv'
<1>1. wire' = wire /\ watch' = watch
  BY DEF streamVars
<1>2. WindowOK' /\ WindowHolds'
  BY <1>1, WindowStays DEF StreamInv
<1>3. StreamOK' /\ StreamFollows'
  <2>1. watch' \in Handlers
    BY <1>1 DEF StreamInv, StreamOK
  <2> QED BY <1>1, <2>1, HandlerStays DEF StreamInv
<1> QED BY <1>2, <1>3 DEF StreamInv

\* The writer closes the channel of the handler.
LEMMA StreamSignalled ==
  ASSUME FeedOK, FeedGrows, ControllerOK, StreamInv, Onward, Signal
  PROVE  StreamInv'
<1>1. wire' = wire /\ generation' = generation
  BY DEF Signal
<1>2. WindowOK' /\ WindowHolds'
  BY <1>1, WindowStays DEF StreamInv
<1>3. watch' \in Handlers /\ watch'.pc = watch.pc /\ watch'.position = watch.position
  <2>1. watch \in Handlers
    BY DEF StreamInv, StreamOK
  <2>2. PICK b \in BOOLEAN : watch' = [watch EXCEPT !.closed = b]
    <3>1. (watch.pc \in {"second", "wait"}) \in BOOLEAN
      OBVIOUS
    <3>2. watch' = [watch EXCEPT !.closed = (watch.pc \in {"second", "wait"})]
      BY DEF Signal
    <3> QED BY <3>1, <3>2, Zenon
  <2> QED BY <2>1, <2>2 DEF Handlers
<1>4. StreamOK' /\ StreamFollows'
  BY <1>1, <1>3, HandlerStays DEF StreamInv
<1> QED BY <1>2, <1>4 DEF StreamInv

\* The connection is gone.
LEMMA StreamDisconnected ==
  ASSUME FeedOK, FeedGrows, ControllerOK, StreamInv, Onward, Disconnect
  PROVE  StreamInv'
<1>1. watch' = Closed /\ wire' \in {wire, <<>>}
  BY DEF Disconnect
<1>2. WindowOK' /\ WindowHolds'
  BY <1>1, WindowStays, NoWindowStays DEF StreamInv
<1>3. StreamOK' /\ StreamFollows'
  BY <1>1, StreamEnds DEF FeedGrows
<1> QED BY <1>2, <1>3 DEF StreamInv

\* The page is taken down.
LEMMA StreamStopped ==
  ASSUME FeedOK, FeedGrows, StreamInv, Stop
  PROVE  StreamInv'
<1>1. watch' = Closed /\ wire' = <<>>
  BY DEF Stop
<1> QED BY <1>1, NoWindowStays, StreamEnds DEF StreamInv, FeedGrows

\* The controller connects from its cursor.
LEMMA StreamConnected ==
  ASSUME FeedOK, FeedGrows, ControllerOK, Connect
  PROVE  StreamInv'
<1>1. /\ wire' = <<>> /\ watch' = [pc |-> "begin", position |-> cursor, closed |-> FALSE]
      /\ UNCHANGED <<log, base, generation, first, cursor, acknowledged, through>>
  BY DEF Connect, feedVars, controllerVars, cursorVars
<1>2. WindowOK' /\ WindowHolds'
  BY <1>1, NoWindowStays
<1>3. Placed(cursor) /\ cursor \in Places
  BY DEF ControllerOK, Placed
<1>4. watch'.position = cursor /\ watch'.pc = "begin" /\ watch' \in Handlers
  BY <1>1, <1>3 DEF Handlers, Pcs
<1>5. Placed(watch.position)' /\ Absolute(watch.position)' = Absolute(cursor)
  BY <1>1, <1>3, <1>4 DEF Placed, Absolute
<1>6. StreamOK'
  BY <1>4, <1>5 DEF StreamOK
<1>7. StreamFollows'
  BY <1>1, <1>5 DEF StreamFollows, ControllerOK
<1> QED BY <1>2, <1>6, <1>7 DEF StreamInv

\* A window is received.
LEMMA StreamReceived ==
  ASSUME FeedOK, FeedGrows, StreamInv, Receive
  PROVE  StreamInv'
<1>1. PICK w : w = wire[1]
  OBVIOUS
<1>2. wire = <<w>> /\ wire' = <<>> /\ through' = w.through
  <2>1. wire = <<w>> /\ wire' = Tail(wire) /\ through' = Head(wire).through
    BY <1>1 DEF StreamInv, WindowOK, Receive
  <2>2. Tail(<<w>>) = <<>> /\ Head(<<w>>) = w
    OBVIOUS
  <2> QED BY <2>1, <2>2
<1>3. UNCHANGED <<log, base, generation, watch, acknowledged>>
  BY DEF Receive, feedVars, cursorVars
<1>4. WindowOK' /\ WindowHolds'
  BY <1>2, NoWindowStays
<1>5. StreamOK'
  BY <1>3 DEF StreamInv, StreamOK, Placed, Absolute
<1>6. StreamFollows'
  BY <1>2, <1>3 DEF StreamInv, StreamFollows
<1> QED BY <1>4, <1>5, <1>6 DEF StreamInv

\* A window that the handler sends, and goes on behind.
LEMMA StreamSends ==
  ASSUME FeedOK, UNCHANGED <<feedVars, controllerVars>>, ControllerOK, StreamOK,
         NEW targets \in TargetSets, NEW place \in Places, NEW again \in BOOLEAN,
         Placed(place), Within(targets), Send(Window(targets, place, again)),
         \/ watch' = Closed
         \/ watch' \in Handlers /\ watch'.pc = "check" /\ watch'.position = place,
         \A i \in 1..Len(log) : acknowledged < i /\ Absolute(through) < i /\ i <= Absolute(place) =>
           again \/ CoversRow(targets, i)
  PROVE  StreamInv'
<1>1. wire' = <<Window(targets, place, again)>>
  BY DEF Send
<1>2. UNCHANGED <<log, base, generation, first, acknowledged, through>>
  BY DEF feedVars, controllerVars, cursorVars
<1>3. /\ wire' # <<>> /\ wire'[1].targets = targets /\ wire'[1].through = place
      /\ wire'[1].resync = again /\ wire'[1] \in Windows /\ wire' = <<wire'[1]>>
  BY <1>1 DEF Window, Windows
<1>4. Placed(place)' /\ Absolute(place)' = Absolute(place) /\ Absolute(through)' = Absolute(through)
  BY <1>2 DEF Placed, Absolute
<1>5. WindowOK'
  BY <1>3, <1>4 DEF WindowOK
<1>6. WindowHolds'
  BY <1>2, <1>3, <1>4 DEF WindowHolds, CoversRow
<1>7. CASE watch' = Closed
  <2>1. FeedOK'
    BY <1>2, SameFeed DEF FeedGrows
  <2> QED BY <1>5, <1>6, <1>7, <2>1, StreamEnds DEF StreamInv
<1>8. CASE watch' \in Handlers /\ watch'.pc = "check" /\ watch'.position = place
  <2>1. StreamOK'
    BY <1>4, <1>8 DEF StreamOK, Placed, Absolute
  <2>2. StreamFollows'
    BY <1>3, <1>8 DEF StreamFollows
  <2> QED BY <1>5, <1>6, <2>1, <2>2 DEF StreamInv
<1> QED BY <1>7, <1>8

\* The handler goes on within its loop without sending.
LEMMA StreamGoesOn ==
  ASSUME FeedOK, UNCHANGED <<feedVars, controllerVars, wire>>, ControllerOK, StreamInv, wire = <<>>,
         watch' \in Handlers, watch'.position = watch.position, watch.pc # "off",
         watch'.pc \in {"take", "second", "wait", "read"} => watch.position.generation = generation
  PROVE  StreamInv'
<1>1. UNCHANGED <<log, base, generation, first, acknowledged, through, wire>>
  BY DEF feedVars, controllerVars, cursorVars
<1>2. WindowOK' /\ WindowHolds'
  BY <1>1, NoWindowStays
<1>3. StreamOK'
  BY <1>1 DEF StreamInv, StreamOK, Placed, Absolute
<1>4. StreamFollows'
  BY <1>1 DEF StreamInv, StreamFollows, Absolute
<1> QED BY <1>2, <1>3, <1>4 DEF StreamInv

\* The last message of a stream.
LEMMA ResyncSent ==
  ASSUME FeedOK, UNCHANGED <<feedVars, controllerVars>>, ControllerOK, StreamInv, SendResync
  PROVE  StreamInv'
<1>1. {} \in TargetSets /\ Within({}) /\ TRUE \in BOOLEAN
  BY SomeTargetSets
<1>2. Current \in Places /\ Placed(Current)
  BY SomePlaces DEF Placed
<1>3. PICK c : c = Current
  OBVIOUS
<1>4. Send(Window({}, c, TRUE)) /\ watch' = Closed /\ c \in Places /\ Placed(c)
  BY <1>2, <1>3 DEF SendResync
<1> QED BY <1>1, <1>4, StreamSends DEF StreamInv

\* A window of rows covers every row after the position, up to its own.
LEMMA WindowCovers ==
  ASSUME FeedOK, StreamOK, watch.pc = "read", ~Expired,
         NEW place, place \in Places, place.generation = watch.position.generation,
         Placed(place)
  PROVE  /\ WindowTargets(watch.position, place) \in TargetSets
         /\ Within(WindowTargets(watch.position, place))
         /\ \A i \in 1..Len(log) : Absolute(watch.position) < i /\ i <= Absolute(place) =>
              CoversRow(WindowTargets(watch.position, place), i)
<1>1. PICK p : p = watch.position
  OBVIOUS
<1>2. p \in Places /\ Placed(p) /\ p.generation = generation
  BY <1>1 DEF StreamOK, Placed
<1>3. base[generation] \in Nat /\ first \in Int /\ p.sequence \in Nat /\ Len(log) \in Nat
  BY <1>2, FeedNumbers DEF FeedOK, Places
<1>4. Absolute(p) = base[generation] + p.sequence /\ Absolute(p) \in Nat
  BY <1>2, <1>3 DEF Absolute
<1>5. ~(p.sequence < first - 1)
  BY <1>1 DEF Expired
<1>6. Max({Absolute(p) + 1, base[generation] + first}) = Absolute(p) + 1
  <2>1. Max({Absolute(p) + 1, base[generation] + first})
          = IF Absolute(p) + 1 <= base[generation] + first THEN base[generation] + first ELSE Absolute(p) + 1
    BY <1>3, <1>4, MaxOfTwo
  <2>2. base[generation] + first <= Absolute(p) + 1
    BY <1>3, <1>4, <1>5
  <2> QED BY <1>3, <1>4, <2>1, <2>2
<1>7. Absolute(place) <= Len(log) /\ Absolute(place) \in Nat
  <2>1. place.generation = generation /\ place.sequence \in Nat
    BY <1>1, <1>2 DEF Places
  <2> QED BY <1>3, <2>1 DEF Placed, Absolute
<1> DEFINE rows == SubSeq(log, Absolute(p) + 1, Absolute(place))
<1>8. WindowTargets(p, place)
        = FoldLeft(LAMBDA set, row : FoldSet(AddToWindow, set, row), {}, rows)
  BY <1>6 DEF WindowTargets
<1>9. /\ rows \in Seq(TargetSets)
      /\ \A i \in 1..Len(log) : Absolute(p) < i /\ i <= Absolute(place) =>
            i - Absolute(p) \in 1..Len(rows) /\ rows[i - Absolute(p)] = log[i]
  <2>1. log \in Seq(TargetSets) /\ Absolute(p) + 1 \in Nat /\ Absolute(p) + 1 \in 1..(Len(log) + 1)
    BY <1>2, <1>3, <1>4 DEF FeedOK, Placed
  <2>2. rows \in Seq(TargetSets)
    BY <1>7, <2>1
  <2>3. ASSUME NEW i \in 1..Len(log), Absolute(p) < i, i <= Absolute(place)
        PROVE  i - Absolute(p) \in 1..Len(rows) /\ rows[i - Absolute(p)] = log[i]
    <3>1. Len(rows) = Absolute(place) - Absolute(p)
      BY <1>3, <1>4, <1>7, <2>1, <2>3
    <3>2. i - Absolute(p) \in 1..Len(rows)
      BY <1>3, <1>4, <1>7, <2>3, <3>1
    <3>3. rows[i - Absolute(p)] = log[(Absolute(p) + 1) + (i - Absolute(p)) - 1]
      <4>1. PICK m, n, k : m = Absolute(p) + 1 /\ n = Absolute(place) /\ k = i - Absolute(p)
        OBVIOUS
      <4>2. m \in 1..(Len(log) + 1) /\ n \in 0..Len(log) /\ k \in 1..(n - m + 1) /\ Len(log) \in Nat
        <5>1. m \in Nat /\ n \in Nat /\ i \in Nat /\ k = i - m + 1
          BY <1>4, <1>7, <4>1
        <5>2. m \in 1..(Len(log) + 1) /\ n <= Len(log) /\ m <= i /\ i <= n /\ Len(log) \in Nat
          BY <1>3, <1>4, <1>7, <2>1, <2>3, <4>1
        <5> QED BY <5>1, <5>2
      <4>3. SubSeq(log, m, n)[k] = log[m + k - 1]
        BY <2>1, <4>2
      <4> QED BY <4>1, <4>3
    <3>4. (Absolute(p) + 1) + (i - Absolute(p)) - 1 = i
      BY <1>4
    <3> QED BY <3>2, <3>3, <3>4
  <2> QED BY <2>2, <2>3
<1> HIDE DEF rows
<1>10. /\ WindowTargets(p, place) \in TargetSets
       /\ Within(WindowTargets(p, place))
       /\ \A i \in 1..Len(rows) : \A u \in rows[i] : Covers(WindowTargets(p, place), u)
  BY <1>8, <1>9, RowsTaken
<1>11. \A i \in 1..Len(log) : Absolute(p) < i /\ i <= Absolute(place) =>
              CoversRow(WindowTargets(p, place), i)
  BY <1>9, <1>10 DEF CoversRow
<1> QED BY <1>1, <1>10, <1>11

\* The handler's loop.
LEMMA StreamSteps ==
  ASSUME FeedOK, ControllerOK, StreamInv, HandlerStep, UNCHANGED controllerVars
  PROVE  StreamInv'
<1>0. wire = <<>> /\ watch \in Handlers /\ Placed(watch.position) /\ StreamOK
  BY DEF HandlerStep, StreamInv, StreamOK
<1>1. CASE Begin
  <2>1. UNCHANGED <<feedVars, controllerVars>> /\ watch.pc = "begin"
    BY <1>1 DEF Begin
  <2>2. CASE watch.position = NoCursor
    <3>1. PICK c : c = Current
      OBVIOUS
    <3>2. /\ Send(Window(Kinds, c, FALSE)) /\ Placed(c) /\ c \in Places
          /\ watch' = [watch EXCEPT !.pc = "check", !.position = c]
      BY <1>1, <2>2, <3>1, SomePlaces DEF Begin, Placed
    <3>3. watch' \in Handlers /\ watch'.pc = "check" /\ watch'.position = c
      BY <1>0, <3>2 DEF Handlers, Pcs
    <3>4. Kinds \in TargetSets /\ Within(Kinds) /\ FALSE \in BOOLEAN
      BY SomeTargetSets
    <3>5. \A i \in 1..Len(log) : CoversRow(Kinds, i)
      BY KindsCover
    <3> QED BY <1>0, <2>1, <3>2, <3>3, <3>4, <3>5, StreamSends
  <2>3. CASE watch.position # NoCursor
    <3>1. wire' = wire /\ watch' = [watch EXCEPT !.pc = "check"]
      BY <1>1, <2>3 DEF Begin, Goto
    <3>2. watch' \in Handlers /\ watch'.pc = "check" /\ watch'.position = watch.position
      BY <1>0, <3>1 DEF Handlers, Pcs
    <3> QED BY <1>0, <2>1, <3>1, <3>2, StreamGoesOn
  <2> QED BY <2>2, <2>3
<1>2. CASE Check
  <2>1. UNCHANGED <<feedVars, controllerVars>> /\ watch.pc = "check"
    BY <1>2 DEF Check
  <2>2. CASE SendResync
    BY <2>1, <2>2, ResyncSent
  <2>3. CASE ~SendResync
    <3>1. /\ watch.position.generation = generation
          /\ Goto(IF watch.position = Current THEN "take" ELSE "read")
          /\ wire' = wire
      BY <1>2, <2>3 DEF Check
    <3>2. PICK q \in {"take", "read"} : watch' = [watch EXCEPT !.pc = q]
      BY <3>1 DEF Goto
    <3>3. watch' \in Handlers /\ watch'.position = watch.position
      BY <1>0, <3>2 DEF Handlers, Pcs
    <3> QED BY <1>0, <2>1, <3>1, <3>3, StreamGoesOn
  <2> QED BY <2>2, <2>3
<1>3. CASE TakeChannel
  <2>1. /\ UNCHANGED <<feedVars, controllerVars, wire>> /\ watch.pc = "take"
        /\ watch' = [watch EXCEPT !.pc = "second", !.closed = FALSE]
    BY <1>3 DEF TakeChannel
  <2>2. watch' \in Handlers /\ watch'.position = watch.position
    BY <1>0, <2>1 DEF Handlers, Pcs
  <2>3. watch.position.generation = generation
    BY <1>0, <2>1 DEF StreamOK
  <2> QED BY <1>0, <2>1, <2>2, <2>3, StreamGoesOn
<1>4. CASE CheckAgain
  <2>1. /\ UNCHANGED <<feedVars, controllerVars, wire>> /\ watch.pc = "second"
        /\ \/ watch' = [watch EXCEPT !.pc = "wait"]
           \/ watch' = [watch EXCEPT !.pc = "read", !.closed = FALSE]
    BY <1>4 DEF CheckAgain
  <2>2. watch' \in Handlers /\ watch'.position = watch.position
    BY <1>0, <2>1 DEF Handlers, Pcs
  <2>3. watch.position.generation = generation
    BY <1>0, <2>1 DEF StreamOK
  <2> QED BY <1>0, <2>1, <2>2, <2>3, StreamGoesOn
<1>5. CASE WakeUp
  <2>1. /\ UNCHANGED <<feedVars, controllerVars, wire>> /\ watch.pc = "wait"
        /\ watch' = [watch EXCEPT !.pc = "read", !.closed = FALSE]
    BY <1>5 DEF WakeUp
  <2>2. watch' \in Handlers /\ watch'.position = watch.position
    BY <1>0, <2>1 DEF Handlers, Pcs
  <2>3. watch.position.generation = generation
    BY <1>0, <2>1 DEF StreamOK
  <2> QED BY <1>0, <2>1, <2>2, <2>3, StreamGoesOn
<1>6. CASE ReadWindow
  <2>1. UNCHANGED <<feedVars, controllerVars>> /\ watch.pc = "read"
    BY <1>6 DEF ReadWindow
  <2>2. CASE Expired
    <3>1. SendResync
      BY <1>6, <2>2 DEF ReadWindow
    <3> QED BY <2>1, <3>1, ResyncSent
  <2>3. CASE ~Expired
    <3>1. PICK t : t = [watch.position EXCEPT !.sequence = Min({@ + CommitLimit, Current.sequence})]
      OBVIOUS
    <3>2. /\ watch.position \in Places /\ watch.position.generation = generation
          /\ watch.position.sequence \in Nat /\ base[generation] \in Nat
          /\ Absolute(watch.position) <= Len(log) /\ Len(log) \in Nat /\ base[generation] <= Len(log)
          /\ generation \in Nat
      BY <1>0, <2>1, FeedNumbers DEF StreamOK, Placed, Places
    <3>3. CommitLimit \in Nat
      BY FeedAssumption
    <3>4. PICK n \in Nat : n = Min({watch.position.sequence + CommitLimit, Current.sequence})
                           /\ base[generation] + n <= Len(log)
      <4>1. Current.sequence = Len(log) - base[generation]
        BY SomePlaces
      <4>2. Min({watch.position.sequence + CommitLimit, Current.sequence})
              = IF watch.position.sequence + CommitLimit <= Current.sequence
                  THEN watch.position.sequence + CommitLimit ELSE Current.sequence
        <5>1. watch.position.sequence + CommitLimit \in Int /\ Current.sequence \in Int
          BY <3>2, <3>3, <4>1
        <5> QED BY <5>1, MinOfTwo
      <4> QED BY <3>2, <3>3, <4>1, <4>2
    <3>5. t = [watch.position EXCEPT !.sequence = n]
      BY <3>1, <3>4
    <3>6. t \in Places /\ t.generation = generation /\ t.sequence = n
      BY <3>2, <3>5 DEF Places
    <3>7. Placed(t)
      BY <3>2, <3>4, <3>6 DEF Placed, Absolute
    <3>8. CASE t = watch.position
      <4>1. wire' = wire /\ watch' = [watch EXCEPT !.pc = "check"]
        BY <1>6, <2>3, <3>1, <3>8 DEF ReadWindow, Goto
      <4>2. watch' \in Handlers /\ watch'.pc = "check" /\ watch'.position = watch.position
        BY <1>0, <4>1 DEF Handlers, Pcs
      <4> QED BY <1>0, <2>1, <4>1, <4>2, StreamGoesOn
    <3>9. CASE t # watch.position
      <4>1. PICK targets : targets = WindowTargets(watch.position, t)
        OBVIOUS
      <4>2. /\ Send(Window(targets, t, FALSE))
            /\ watch' = [watch EXCEPT !.pc = "check", !.position = t]
        BY <1>6, <2>3, <3>1, <3>9, <4>1 DEF ReadWindow
      <4>3. watch' \in Handlers /\ watch'.pc = "check" /\ watch'.position = t
        BY <1>0, <3>6, <4>2 DEF Handlers, Pcs
      <4>4. /\ targets \in TargetSets /\ Within(targets) /\ FALSE \in BOOLEAN
            /\ \A i \in 1..Len(log) : Absolute(watch.position) < i /\ i <= Absolute(t) =>
                  CoversRow(targets, i)
        BY <1>0, <2>1, <2>3, <3>2, <3>6, <3>7, <4>1, WindowCovers
      <4>5. watch.position = through \/ Absolute(watch.position) <= acknowledged
        BY <1>0, <2>1 DEF StreamInv, StreamFollows
      <4>6. ASSUME NEW i \in 1..Len(log), acknowledged < i, Absolute(through) < i, i <= Absolute(t)
            PROVE  CoversRow(targets, i)
        <5>1. Absolute(watch.position) < i
          <6>1. Absolute(watch.position) \in Nat /\ acknowledged \in Nat
            BY <3>2 DEF Absolute, ControllerOK
          <6> QED BY <4>5, <4>6, <6>1
        <5> QED BY <4>4, <4>6, <5>1
      <4> QED BY <1>0, <2>1, <3>6, <3>7, <4>2, <4>3, <4>4, <4>6, StreamSends
    <3> QED BY <3>8, <3>9
  <2> QED BY <2>2, <2>3
<1> QED BY <1>1, <1>2, <1>3, <1>4, <1>5, <1>6 DEF HandlerStep

-----------------------------------------------------------------------------
(* The views *)

\* The row a view needs is the newest that affects it.
LEMMA NeededIs ==
  ASSUME NEW v, NEW place \in Nat
  PROVE  /\ Needed(v, place) \in Nat
         /\ \A i \in 1..place : Affected(v, log[i]) => i <= Needed(v, place)
         /\ Needed(v, place) # 0 =>
              Needed(v, place) \in 1..place /\ Affected(v, log[Needed(v, place)])
<1> DEFINE S == {0} \cup {i \in 1..place : Affected(v, log[i])}
<1>1. S \in SUBSET (0..place) /\ S # {}
  OBVIOUS
<1>2. Max(S) \in S /\ \A x \in S : x <= Max(S)
  <2> HIDE DEF S
  <2> QED BY <1>1, MaxOfBounded
<1>3. Needed(v, place) = Max(S)
  BY DEF Needed
<1>4. \A i \in 1..place : Affected(v, log[i]) => i \in S
  OBVIOUS
<1>5. \A x \in S : x \in Nat /\ (x # 0 => x \in 1..place /\ Affected(v, log[x]))
  OBVIOUS
<1> HIDE DEF S
<1> QED BY <1>2, <1>3, <1>4, <1>5

\* What a view will show is a place of the feed.
LEMMA ShowingType ==
  ASSUME FeedOK, ViewsOK, NEW v \in Views PROVE Showing(v) \in Nat
<1>1. view[v] \in ViewStates
  BY DEF ViewsOK
<1> QED BY <1>1, FeedNumbers DEF ViewStates, Showing

\* A view stays fresh for the rows it was fresh for.
StaysFresh(v) == \A i \in 1..Len(log) : Fresh(v, i) => Fresh(v, i)'
\* A view is fresh for every row there was.
AllFresh(v) == \A i \in 1..Len(log) : Fresh(v, i)'

\* A view that is left alone.
LEMMA LeftFresh ==
  ASSUME FeedOK, FeedGrows, ViewsOK, NEW v \in Views, view'[v] = view[v], v = page' => v = page
  PROVE  StaysFresh(v)
<1>1. \A i \in 1..Len(log) : log'[i] = log[i]
  BY DEF FeedGrows
<1>2. Len(log) \in Nat /\ Len(log') \in Nat /\ Len(log) <= Len(log')
  BY FeedNumbers DEF FeedGrows, FeedOK
<1>3. view[v] \in ViewStates /\ view[v].request \in {"none", "sent", "read"}
  BY DEF ViewsOK, ViewStates
<1>4. Showing(v) \in Nat /\ Showing(v)' \in Nat /\ Showing(v) <= Showing(v)'
  BY <1>2, <1>3, ShowingType DEF Showing, ViewStates
<1> QED BY <1>1, <1>4 DEF StaysFresh, Fresh, Affected

\* A view that reads.
LEMMA ReadsFresh ==
  ASSUME FeedOK, FeedGrows, NEW v, view'[v].request = "sent"
  PROVE  AllFresh(v)
<1>1. Len(log) \in Nat /\ Len(log') \in Nat /\ Len(log) <= Len(log')
  BY FeedNumbers DEF FeedGrows, FeedOK
<1>2. Showing(v)' = Len(log')
  BY DEF Showing
<1> QED BY <1>1, <1>2 DEF AllFresh, Fresh

\* A view that reports an error, or is hidden and knows that it has to read.
LEMMA KnowsFresh ==
  ASSUME NEW v, view'[v].failed \/ (v # page' /\ view'[v].stale)
  PROVE  AllFresh(v)
BY DEF AllFresh, Fresh

\* What is fresh now has stayed so.
LEMMA AllStaysFresh == ASSUME NEW v, AllFresh(v) PROVE StaysFresh(v)
BY DEF AllFresh, StaysFresh

\* A view that reads is a view state.
LEMMA ReadingIs ==
  ASSUME NEW state \in ViewStates
  PROVE  /\ Reading(state) \in ViewStates /\ Reading(state).request = "sent"
         /\ ~Reading(state).failed /\ ~Reading(state).stale
BY DEF Reading, ViewStates

\* A view whose read ended without an answer.
LEMMA FailedIs ==
  ASSUME NEW state \in ViewStates
  PROVE  /\ [state EXCEPT !.request = "none", !.seen = 0] \in ViewStates
         /\ [state EXCEPT !.request = "none", !.seen = 0].request = "none"
         /\ [state EXCEPT !.request = "none", !.seen = 0, !.failed = TRUE] \in ViewStates
         /\ [state EXCEPT !.request = "none", !.seen = 0, !.failed = TRUE].request = "none"
         /\ [state EXCEPT !.request = "none", !.seen = 0, !.failed = TRUE].failed
<1>1. /\ [state EXCEPT !.request = "none", !.seen = 0] \in ViewStates
      /\ [state EXCEPT !.request = "none", !.seen = 0].request = "none"
  BY DEF ViewStates
<1>2. [state EXCEPT !.request = "none", !.seen = 0, !.failed = TRUE] \in ViewStates
  BY DEF ViewStates
<1>3. /\ [state EXCEPT !.request = "none", !.seen = 0, !.failed = TRUE].request = "none"
      /\ [state EXCEPT !.request = "none", !.seen = 0, !.failed = TRUE].failed
  BY DEF ViewStates
<1> QED BY <1>1, <1>2, <1>3

\* A view without rows knows that it has to read.
LEMMA UnreadIs ==
  Unread \in ViewStates /\ Unread.request = "none" /\ Unread.stale /\ ~Unread.failed
BY DEF Unread, ViewStates

\* Views that are refreshed are fresh; the others stay so.
LEMMA RefreshedFresh ==
  ASSUME FeedOK, FeedGrows, ViewsOK, NEW vs, view' = Refreshed(vs), page' = page
  PROVE  /\ ViewsOK'
         /\ \A v \in Views : StaysFresh(v) /\ (v \in vs => AllFresh(v))
<1>1. ASSUME NEW v \in Views
      PROVE  /\ view'[v] \in ViewStates
             /\ view'[v].request # "none" => ~view'[v].failed
             /\ StaysFresh(v) /\ (v \in vs => AllFresh(v))
  <2>1. view[v] \in ViewStates /\ (view[v].request # "none" => ~view[v].failed)
    BY DEF ViewsOK
  <2>2. CASE v \notin vs
    <3>1. view'[v] = view[v]
      BY <2>2 DEF Refreshed
    <3> QED BY <2>1, <2>2, <3>1, LeftFresh
  <2>3. CASE v \in vs /\ v = page
    <3>1. view'[v] = Reading(view[v])
      BY <2>3 DEF Refreshed
    <3> QED BY <2>1, <3>1, ReadingIs, ReadsFresh, AllStaysFresh
  <2>4. CASE v \in vs /\ v # page
    <3>1. view'[v] = [view[v] EXCEPT !.stale = TRUE]
      BY <2>4 DEF Refreshed
    <3>2. view'[v] \in ViewStates /\ view'[v].stale /\ (view'[v].request # "none" => ~view'[v].failed)
      BY <2>1, <3>1 DEF ViewStates
    <3> QED BY <2>4, <3>2, KnowsFresh, AllStaysFresh
  <2> QED BY <2>2, <2>3, <2>4
<1>2. view' \in [Views -> ViewStates]
  <2>1. view' = [v \in Views |-> view'[v]]
    BY DEF Refreshed
  <2> QED BY <1>1, <2>1
<1> QED BY <1>1, <1>2 DEF ViewsOK

\* Views whose reads fail say so.
LEMMA FailingFresh ==
  ASSUME FeedOK, FeedGrows, ViewsOK, NEW vs, view' = Failing(vs), page' = page
  PROVE  ViewsOK' /\ \A v \in Views : StaysFresh(v)
<1>1. ASSUME NEW v \in Views
      PROVE  /\ view'[v] \in ViewStates
             /\ view'[v].request # "none" => ~view'[v].failed
             /\ StaysFresh(v)
  <2>1. view[v] \in ViewStates /\ (view[v].request # "none" => ~view[v].failed)
    BY DEF ViewsOK
  <2>2. CASE v \notin vs
    <3>1. view'[v] = view[v]
      BY <2>2 DEF Failing
    <3> QED BY <2>1, <3>1, LeftFresh
  <2>3. CASE v \in vs
    <3>1. view'[v] = [view[v] EXCEPT !.request = "none", !.seen = 0, !.failed = TRUE]
      BY <2>3 DEF Failing
    <3>2. view'[v] \in ViewStates /\ view'[v].request = "none" /\ view'[v].failed
      BY <2>1, <3>1, FailedIs
    <3> QED BY <3>2, KnowsFresh, AllStaysFresh
  <2> QED BY <2>2, <2>3
<1>2. view' = [v \in Views |-> view'[v]]
  BY DEF Failing
<1> QED BY <1>1, <1>2 DEF ViewsOK

\* The store answers with all that is in it.
LEMMA ServedFresh ==
  ASSUME FeedOK, FeedGrows, ViewsOK, NEW u \in Views, ServeRead(u)
  PROVE  ViewsOK' /\ \A v \in Views : StaysFresh(v)
<1>1. /\ view[u].request = "sent" /\ log' = log /\ page' = page
      /\ view' = [view EXCEPT ![u] = [view[u] EXCEPT !.request = "read", !.seen = Needed(u, Len(log))]]
  BY DEF ServeRead, feedVars, ViewsOK, ViewStates
<1>2. view \in [Views -> ViewStates] /\ view[u] \in ViewStates /\ ~view[u].failed
  BY <1>1 DEF ViewsOK
<1>3. Len(log) \in Nat
  BY FeedNumbers
<1>4. Needed(u, Len(log)) \in Nat
        /\ \A i \in 1..Len(log) : Affected(u, log[i]) => i <= Needed(u, Len(log))
  BY <1>3, NeededIs
<1>5. /\ view'[u] \in ViewStates /\ view'[u].request = "read" /\ view'[u].seen = Needed(u, Len(log))
      /\ view'[u].failed = view[u].failed
  BY <1>1, <1>2, <1>4 DEF ViewStates
<1>6. \A v \in Views \ {u} : view'[v] = view[v]
  BY <1>1, <1>2
<1>7. ViewsOK'
  <2>1. view' \in [Views -> ViewStates]
    BY <1>1, <1>2, <1>5
  <2> QED BY <1>2, <1>5, <1>6, <2>1 DEF ViewsOK
<1>8. ASSUME NEW v \in Views PROVE StaysFresh(v)
  <2>1. CASE v # u
    BY <1>1, <1>6, <2>1, LeftFresh
  <2>2. CASE v = u
    <3>1. Showing(u)' = Needed(u, Len(log))
      BY <1>5 DEF Showing
    <3> QED BY <1>1, <1>4, <2>2, <3>1 DEF StaysFresh, Fresh, Affected
  <2> QED BY <2>1, <2>2
<1> QED BY <1>7, <1>8

\* An answer is shown as it was read.
LEMMA ShownFresh ==
  ASSUME FeedOK, FeedGrows, ViewsOK, NEW u \in Views, ShowAnswer(u)
  PROVE  ViewsOK' /\ \A v \in Views : StaysFresh(v)
<1>1. /\ view[u].request = "read" /\ log' = log /\ page' = page
      /\ view' = [view EXCEPT ![u] = [view[u] EXCEPT !.request = "none", !.seen = 0,
                                         !.shown = view[u].seen, !.failed = FALSE]]
  BY DEF ShowAnswer, feedVars, ViewsOK, ViewStates
<1>2. view \in [Views -> ViewStates] /\ view[u] \in ViewStates /\ ~view[u].failed
  BY <1>1 DEF ViewsOK
<1>3. /\ view'[u] \in ViewStates /\ view'[u].request = "none" /\ view'[u].shown = view[u].seen
      /\ ~view'[u].failed /\ view'[u].stale = view[u].stale
  BY <1>1, <1>2 DEF ViewStates
<1>4. \A v \in Views \ {u} : view'[v] = view[v]
  BY <1>1, <1>2
<1>5. ViewsOK'
  <2>1. view' \in [Views -> ViewStates]
    BY <1>1, <1>2, <1>3
  <2> QED BY <1>2, <1>3, <1>4, <2>1 DEF ViewsOK
<1>6. ASSUME NEW v \in Views PROVE StaysFresh(v)
  <2>1. CASE v # u
    BY <1>1, <1>4, <2>1, LeftFresh
  <2>2. CASE v = u
    <3>1. Showing(u)' = Showing(u)
      BY <1>1, <1>3 DEF Showing
    <3> QED BY <1>1, <1>2, <1>3, <2>2, <3>1 DEF StaysFresh, Fresh, Affected
  <2> QED BY <2>1, <2>2
<1> QED BY <1>5, <1>6

\* A page that comes to the front shows what is there, or reads.
LEMMA NavigatedFresh ==
  ASSUME FeedOK, FeedGrows, ViewsOK, NEW next \in Views, Navigate(next)
  PROVE  ViewsOK' /\ \A v \in Views : StaysFresh(v)
<1> DEFINE again == {v \in {next} : view[v].stale \/ (v \in Catalogs /\ view[v].failed)}
<1>1. /\ page' = next /\ log' = log
      /\ view' = [v \in Views |-> IF v \in again THEN Reading(view[v]) ELSE view[v]]
  BY DEF Navigate, Move, feedVars
<1>2. ASSUME NEW v \in Views
      PROVE  /\ view'[v] \in ViewStates
             /\ view'[v].request # "none" => ~view'[v].failed
             /\ StaysFresh(v)
  <2>1. view[v] \in ViewStates /\ (view[v].request # "none" => ~view[v].failed)
    BY DEF ViewsOK
  <2>2. CASE v \in again
    <3>1. view'[v] = Reading(view[v])
      BY <1>1, <2>2
    <3> QED BY <2>1, <3>1, ReadingIs, ReadsFresh, AllStaysFresh
  <2>3. CASE v \notin again
    <3>1. view'[v] = view[v]
      BY <1>1, <2>3
    <3>2. CASE v # next
      BY <1>1, <2>1, <3>1, <3>2, LeftFresh
    <3>3. CASE v = next
      <4>1. ~view[v].stale
        BY <2>3, <3>3
      <4>2. Showing(v)' = Showing(v)
        BY <1>1, <3>1 DEF Showing
      <4>3. StaysFresh(v)
        BY <1>1, <3>1, <4>1, <4>2 DEF StaysFresh, Fresh, Affected
      <4> QED BY <2>1, <3>1, <4>3
    <3> QED BY <3>2, <3>3
  <2> QED BY <2>2, <2>3
<1>3. view' = [v \in Views |-> view'[v]]
  BY <1>1
<1> QED BY <1>2, <1>3 DEF ViewsOK

\* Another query: the view in front reads, and the others know they have to.
LEMMA RefilteredFresh ==
  ASSUME FeedOK, FeedGrows, ViewsOK, Refilter
  PROVE  ViewsOK' /\ \A v \in Views : StaysFresh(v)
<1>1. view' = [v \in Views |-> IF v = page THEN Reading(Unread) ELSE Unread] /\ page' = page
  BY DEF Refilter
<1>2. ASSUME NEW v \in Views
      PROVE  /\ view'[v] \in ViewStates
             /\ view'[v].request # "none" => ~view'[v].failed
             /\ StaysFresh(v)
  <2>1. CASE v = page
    <3>1. view'[v] = Reading(Unread)
      BY <1>1, <2>1
    <3> QED BY <3>1, UnreadIs, ReadingIs, ReadsFresh, AllStaysFresh
  <2>2. CASE v # page
    <3>1. view'[v] = Unread
      BY <1>1, <2>2
    <3> QED BY <1>1, <2>2, <3>1, UnreadIs, KnowsFresh, AllStaysFresh
  <2> QED BY <2>1, <2>2
<1>3. view' = [v \in Views |-> view'[v]]
  BY <1>1
<1> QED BY <1>2, <1>3 DEF ViewsOK

\* The page is taken down.
LEMMA StoppedViews ==
  ASSUME ViewsOK, Stop PROVE ViewsOK'
<1>1. view' = [v \in Views |-> [view[v] EXCEPT !.request = "none", !.seen = 0]]
  BY DEF Stop
<1>2. ASSUME NEW v \in Views PROVE view'[v] \in ViewStates /\ view'[v].request = "none"
  <2>1. view[v] \in ViewStates /\ view'[v] = [view[v] EXCEPT !.request = "none", !.seen = 0]
    BY <1>1 DEF ViewsOK
  <2> QED BY <2>1, FailedIs
<1>3. view' = [v \in Views |-> view'[v]]
  BY <1>1
<1> QED BY <1>2, <1>3 DEF ViewsOK

-----------------------------------------------------------------------------
(* What the page shows *)

\* How far the views are fresh.
FreshInv == AcknowledgedFresh /\ AppliedFresh

\* No view loses a row it was fresh for.
AllStay == \A v \in Views : StaysFresh(v)

\* Rows up to a place of the feed that were fresh are fresh.
LEMMA FreshUpTo ==
  ASSUME FeedOK, FeedGrows, AllStay, NEW place \in Nat, place <= Len(log),
         NEW u \in Views, NEW i \in 1..Len(log'), i <= place,
         \A j \in 1..Len(log) : j <= place => Fresh(u, j)
  PROVE  Fresh(u, i)'
<1>1. i \in 1..Len(log)
  BY FeedNumbers
<1> QED BY <1>1 DEF AllStay, StaysFresh

\* The window is left as it is, or waits for fewer views.
LEMMA KeepsWindowFresh ==
  ASSUME FeedOK, FeedGrows, ControllerInv, AllStay, FreshInv, KeepsWindow, started' => started
  PROVE  FreshInv'
<1>1. ControllerOK /\ acknowledged \in Nat /\ acknowledged <= Len(log) /\ acknowledged' = acknowledged
  BY DEF ControllerInv, ControllerOK, KeepsWindow
<1>2. /\ Absolute(applying.through)' = Absolute(applying.through)
      /\ Absolute(applying.through) \in Nat /\ Absolute(applying.through) <= Len(log)
  BY <1>1, PositionsStay, ControllerPlaces DEF KeepsWindow
<1>3. ~Idle' => ~Idle
  BY DEF KeepsWindow, Idle
<1>4. AcknowledgedFresh'
  BY <1>1, FreshUpTo DEF FreshInv, AcknowledgedFresh
<1>5. AppliedFresh'
  BY <1>2, <1>3, FreshUpTo DEF FreshInv, AppliedFresh
<1> QED BY <1>4, <1>5 DEF FreshInv

\* It is returned.
LEMMA ReturnsWindowFresh ==
  ASSUME FeedOK, FeedGrows, ControllerInv, AllStay, FreshInv, ReturnsWindow, started' => started
  PROVE  FreshInv'
<1>1. acknowledged \in Nat /\ acknowledged <= Len(log) /\ acknowledged' = acknowledged /\ Idle'
  BY DEF ControllerInv, ControllerOK, ReturnsWindow, Idle
<1>2. AcknowledgedFresh'
  BY <1>1, FreshUpTo DEF FreshInv, AcknowledgedFresh
<1>3. AppliedFresh'
  BY <1>1 DEF AppliedFresh
<1> QED BY <1>2, <1>3 DEF FreshInv

\* It is acknowledged: the views are fresh up to its end.
LEMMA EndsWindowFresh ==
  ASSUME FeedOK, FeedGrows, ControllerInv, AllStay, FreshInv, EndsWindow, started' => started
  PROVE  FreshInv'
<1>1. ControllerOK /\ acknowledged \in Nat /\ acknowledged <= Len(log) /\ Idle' /\ ~Idle
  BY DEF ControllerInv, ControllerOK, EndsWindow, Idle
<1>2. Absolute(applying.through) \in Nat /\ Absolute(applying.through) <= Len(log)
  BY <1>1, ControllerPlaces
<1>3. acknowledged' = IF acknowledged <= Absolute(applying.through) THEN Absolute(applying.through)
                                                                   ELSE acknowledged
  BY <1>1, <1>2, MaxOfTwo DEF EndsWindow, ResumeFrom
<1>4. AcknowledgedFresh'
  <2> SUFFICES ASSUME started, NEW v \in Views, NEW i \in 1..Len(log'), i <= acknowledged'
               PROVE  Fresh(v, i)'
    BY DEF AcknowledgedFresh
  <2>1. CASE acknowledged' = acknowledged
    BY <1>1, <2>1, FreshUpTo DEF FreshInv, AcknowledgedFresh
  <2>2. CASE acknowledged' = Absolute(applying.through)
    BY <1>1, <1>2, <2>2, FreshUpTo DEF FreshInv, AppliedFresh
  <2> QED BY <1>3, <2>1, <2>2
<1>5. AppliedFresh'
  BY <1>1 DEF AppliedFresh
<1> QED BY <1>4, <1>5 DEF FreshInv

\* The views a window is handed to.
AffectedViews == {v \in Views : resync \/ Affected(v, pending)}

\* The render timer hands everything over, or a view refuses it.
LEMMA FlushIs ==
  ASSUME ControllerOK, Flush
  PROVE  /\ view' = Refreshed(AffectedViews) /\ page' = page
         /\ KeepsWindow \/ HandsOver
<1> DEFINE window == [targets |-> pending, resync |-> resync, through |-> through,
                      waiting |-> AffectedViews \cap {page}]
           refused == \E v \in AffectedViews \ ({page} \cup Catalogs) : view[v].failed
<1>1. /\ Idle /\ view' = Refreshed(AffectedViews) /\ page' = page /\ through' = through
      /\ IF refused
           THEN UNCHANGED <<cursorVars, pending, resync, timer, applying>>
           ELSE /\ pending' = {}
                /\ resync' = FALSE
                /\ IF window.waiting = {}
                     THEN applying' = NoWindow /\ ResumeFrom(through)
                     ELSE applying' = window /\ UNCHANGED cursorVars
  BY DEF Flush, AffectedViews
<1>2. applying \in RenderWindows
  BY DEF ControllerOK
<1>3. CASE refused
  <2>1. UNCHANGED <<cursorVars, pending, resync, timer, applying>>
    BY <1>1, <1>3
  <2>2. KeepsWindow
    BY <1>1, <1>2, <2>1 DEF KeepsWindow, cursorVars, Idle
  <2> QED BY <1>1, <2>2
<1>4. CASE ~refused
  <2>1. /\ window \in RenderWindows /\ window.targets = pending
        /\ window.resync = resync /\ window.through = through
    <3>1. pending \in TargetSets /\ resync \in BOOLEAN /\ through \in Places
      BY DEF ControllerOK, Placed
    <3>2. AffectedViews \cap {page} \in SUBSET Views
      BY DEF AffectedViews
    <3> QED BY <3>1, <3>2 DEF RenderWindows
  <2> HIDE DEF window, refused
  <2>2. CASE window.waiting = {}
    <3>1. applying' = NoWindow /\ ResumeFrom(through)
      BY <1>1, <1>4, <2>2
    <3> QED BY <1>1, <1>4, <3>1 DEF HandsOver
  <2>3. CASE window.waiting # {}
    <3>1. applying' = window /\ UNCHANGED cursorVars
      BY <1>1, <1>4, <2>3
    <3> QED BY <1>1, <1>4, <2>1, <3>1 DEF HandsOver, cursorVars
  <2> QED BY <2>2, <2>3
<1> QED BY <1>3, <1>4

\* A row that a set covers affects no view that the set does not affect.
LEMMA RowAffects ==
  ASSUME FeedOK, NEW i \in 1..Len(log), NEW v \in Views, NEW set, CoversRow(set, i),
         Affected(v, log[i])
  PROVE  Affected(v, set)
<1>1. PICK u \in log[i] : Kind(u) \in Reads[v]
  BY DEF Affected
<1>2. u \in AllTargets
  BY RowTyped
<1>3. Kind(Kind(u)) = Kind(u)
  BY <1>2, KindOfKind
<1> QED BY <1>1, <1>3 DEF Affected, CoversRow, Covers

\* When everything pending is handed over, every view is fresh as far as was received.
LEMMA HandsOverFresh ==
  ASSUME FeedOK, FeedGrows, ControllerInv, AllStay, FreshInv, HandsOver, started' => started,
         \A v \in AffectedViews : AllFresh(v)
  PROVE  FreshInv'
<1>1. ControllerOK /\ acknowledged \in Nat /\ acknowledged <= Len(log) /\ Idle
  BY DEF ControllerInv, ControllerOK, HandsOver
<1>2. /\ Absolute(through) \in Nat /\ Absolute(through) <= Len(log) /\ Len(log) \in Nat
      /\ \A i \in 1..Len(log) : log'[i] = log[i]
  BY <1>1, ControllerPlaces
<1>3. applying.targets = {} /\ applying.resync = FALSE
  BY <1>1 DEF Idle, NoWindow
<1>4. ASSUME started, NEW v \in Views, NEW i \in 1..Len(log), i <= acknowledged \/ i <= Absolute(through)
      PROVE  Fresh(v, i)'
  <2>1. CASE v \in AffectedViews
    BY <2>1 DEF AllFresh
  <2>2. CASE i <= acknowledged
    BY <1>4, <2>2 DEF AllStay, StaysFresh, FreshInv, AcknowledgedFresh
  <2>3. CASE v \notin AffectedViews /\ ~(i <= acknowledged)
    <3>1. ~resync /\ ~Affected(v, pending)
      BY <2>3 DEF AffectedViews
    <3>2. resync \/ CoversRow(pending \cup {}, i)
      BY <1>1, <1>3, <1>4, <2>3 DEF ControllerInv, ReceivedHeld
    <3>3. CoversRow(pending, i)
      BY <3>1, <3>2 DEF CoversRow, Covers
    <3>4. ~Affected(v, log[i])
      BY <3>1, <3>3, RowAffects
    <3> QED BY <1>2, <3>4 DEF Fresh, Affected
  <2> QED BY <2>1, <2>2, <2>3
<1>5. CASE applying' = NoWindow /\ ResumeFrom(through)
  <2>1. acknowledged' = IF acknowledged <= Absolute(through) THEN Absolute(through) ELSE acknowledged
    BY <1>1, <1>2, <1>5, MaxOfTwo DEF ResumeFrom
  <2>2. \A i \in 1..Len(log') : i <= acknowledged' =>
          i \in 1..Len(log) /\ (i <= acknowledged \/ i <= Absolute(through))
    BY <1>1, <1>2, <2>1
  <2>3. AcknowledgedFresh'
    BY <1>4, <2>2 DEF AcknowledgedFresh
  <2>4. AppliedFresh'
    BY <1>5 DEF AppliedFresh, Idle
  <2> QED BY <2>3, <2>4 DEF FreshInv
<1>6. CASE applying'.through = through /\ UNCHANGED <<cursor, acknowledged>>
  <2>1. Absolute(applying.through)' = Absolute(through)
    BY <1>1, <1>6, PositionsStay
  <2>2. \A i \in 1..Len(log') : i <= acknowledged \/ i <= Absolute(through) => i \in 1..Len(log)
    BY <1>1, <1>2
  <2>3. AcknowledgedFresh'
    BY <1>4, <1>6, <2>2 DEF AcknowledgedFresh
  <2>4. AppliedFresh'
    BY <1>4, <2>1, <2>2 DEF AppliedFresh
  <2> QED BY <2>3, <2>4 DEF FreshInv
<1> QED BY <1>5, <1>6 DEF HandsOver

-----------------------------------------------------------------------------
(* The steps *)

\* The inductive invariant.
LiveInv ==
    /\ FeedOK
    /\ StreamInv
    /\ ControllerInv
    /\ ViewsOK
    /\ FreshInv

\* A step of the stream or the views that leaves the controller's positions
\* alone, or ends the window being applied.
LEMMA WindowStep ==
  ASSUME LiveInv, FeedGrows, KeepsWindow \/ EndsWindow \/ ReturnsWindow, AllStay, started' => started
  PROVE  ControllerInv' /\ Onward /\ FreshInv'
<1>1. FeedOK /\ ControllerInv /\ FreshInv
  BY DEF LiveInv
<1>2. CASE KeepsWindow
  BY <1>1, <1>2, KeepsWindowHolds, KeepsWindowFresh
<1>3. CASE EndsWindow
  BY <1>1, <1>3, EndsWindowHolds, EndsWindowFresh
<1>4. CASE ReturnsWindow
  BY <1>1, <1>4, ReturnsWindowHolds, ReturnsWindowFresh
<1> QED BY <1>2, <1>3, <1>4

\* A controller that does nothing keeps its window.
LEMMA IdleKeeps ==
  ASSUME ControllerOK, UNCHANGED <<cursorVars, through, pending, resync, applying>>
  PROVE  KeepsWindow
BY DEF ControllerOK, KeepsWindow, cursorVars, Idle

\* Views that nobody touches stay fresh.
LEMMA ViewsAlone ==
  ASSUME FeedOK, FeedGrows, ViewsOK, UNCHANGED <<view, page>> PROVE ViewsOK' /\ AllStay
BY LeftFresh DEF ViewsOK, AllStay

\* The feed and its handler go on by themselves.
LEMMA FeedSteps ==
  ASSUME LiveInv, UNCHANGED <<controllerVars, view, page>>,
         \/ \E targets \in Changes : Commit(targets)
         \/ Signal
         \/ HandlerStep
         \/ Connect
  PROVE  LiveInv'
<1>1. FeedOK /\ ControllerInv /\ ControllerOK /\ StreamInv /\ ViewsOK
  BY DEF LiveInv, ControllerInv
<1>2. FeedGrows
  <2>1. CASE \E targets \in Changes : Commit(targets)
    BY <1>1, <2>1, CommitGrows
  <2>2. CASE Signal
    BY <1>1, <2>2, SameFeed DEF Signal
  <2>3. CASE HandlerStep
    <3>1. UNCHANGED feedVars
      BY <2>3 DEF HandlerStep, Begin, Check, TakeChannel, CheckAgain, WakeUp, ReadWindow
    <3> QED BY <1>1, <3>1, SameFeed DEF feedVars
  <2>4. CASE Connect
    BY <1>1, <2>4, SameFeed DEF Connect, feedVars
  <2> QED BY <2>1, <2>2, <2>3, <2>4
<1>3. KeepsWindow /\ started' = started
  BY <1>1, IdleKeeps DEF controllerVars
<1>4. ViewsOK' /\ AllStay
  BY <1>1, <1>2, ViewsAlone
<1>5. ControllerInv' /\ Onward /\ FreshInv'
  BY <1>2, <1>3, <1>4, WindowStep
<1>6. StreamInv'
  <2>1. CASE \E targets \in Changes : Commit(targets)
    <3>1. UNCHANGED streamVars /\ generation' = generation
      BY <2>1 DEF Commit
    <3> QED BY <1>1, <1>2, <1>5, <3>1, StreamStays
  <2>2. CASE Signal
    BY <1>1, <1>2, <1>5, <2>2, StreamSignalled
  <2>3. CASE HandlerStep
    BY <1>1, <2>3, StreamSteps
  <2>4. CASE Connect
    BY <1>1, <1>2, <2>4, StreamConnected
  <2> QED BY <2>1, <2>2, <2>3, <2>4
<1> QED BY <1>2, <1>4, <1>5, <1>6 DEF LiveInv, FeedGrows

\* What the page does while the feed and the stream stay as they are.
LEMMA PageStep ==
  ASSUME LiveInv, UNCHANGED <<feedVars, streamVars>>, ViewsOK', AllStay, started' => started,
         KeepsWindow \/ EndsWindow \/ ReturnsWindow
  PROVE  LiveInv'
<1>1. FeedOK /\ ControllerOK /\ StreamInv
  BY DEF LiveInv, ControllerInv
<1>2. FeedGrows /\ generation' = generation
  BY <1>1, SameFeed DEF feedVars
<1>3. ControllerInv' /\ Onward /\ FreshInv'
  BY <1>2, WindowStep
<1>4. StreamInv'
  BY <1>1, <1>2, <1>3, StreamStays
<1> QED BY <1>2, <1>3, <1>4 DEF LiveInv, FeedGrows

\* The controller's own steps.
LEMMA ControllerSteps ==
  ASSUME LiveInv, Receive \/ FlushNothing \/ Flush
  PROVE  LiveInv'
<1>1. FeedOK /\ ControllerInv /\ ControllerOK /\ StreamInv /\ ViewsOK /\ FreshInv
  BY DEF LiveInv, ControllerInv
<1>2. UNCHANGED feedVars /\ started' = started
  BY DEF Receive, FlushNothing, Flush
<1>3. FeedGrows /\ FeedOK' /\ generation' = generation
  BY <1>1, <1>2, SameFeed DEF feedVars, FeedGrows
<1>4. CASE Receive
  <2>1. ControllerInv'
    BY <1>1, <1>4, ReceiveHolds DEF StreamInv
  <2>2. StreamInv'
    BY <1>1, <1>3, <1>4, StreamReceived
  <2>3. ViewsOK' /\ AllStay
    BY <1>1, <1>3, <1>4, ViewsAlone DEF Receive
  <2>4. UNCHANGED <<acknowledged, applying, log, base>>
    BY <1>4 DEF Receive, cursorVars, feedVars
  <2>5. FreshInv'
    <3>1. AcknowledgedFresh'
      BY <1>1, <1>2, <2>3, <2>4 DEF FreshInv, AcknowledgedFresh, AllStay, StaysFresh
    <3>2. AppliedFresh'
      BY <1>1, <1>2, <2>3, <2>4 DEF FreshInv, AppliedFresh, AllStay, StaysFresh, Idle, Absolute
    <3> QED BY <3>1, <3>2 DEF FreshInv
  <2> QED BY <1>3, <2>1, <2>2, <2>3, <2>5 DEF LiveInv
<1>5. CASE FlushNothing
  <2>1. KeepsWindow /\ UNCHANGED <<view, page, streamVars>>
    BY <1>1, <1>5, IdleKeeps DEF FlushNothing
  <2> QED BY <1>1, <1>2, <1>3, <2>1, ViewsAlone, PageStep
<1>6. CASE Flush
  <2>1. view' = Refreshed(AffectedViews) /\ page' = page /\ (KeepsWindow \/ HandsOver)
    BY <1>1, <1>6, FlushIs
  <2>2. ViewsOK' /\ AllStay /\ \A v \in AffectedViews : AllFresh(v)
    BY <1>1, <1>3, <2>1, RefreshedFresh DEF AllStay, AffectedViews
  <2>3. UNCHANGED streamVars
    BY <1>6 DEF Flush
  <2>4. CASE KeepsWindow
    BY <1>2, <2>2, <2>3, <2>4, PageStep
  <2>5. CASE HandsOver
    <3>1. ControllerInv' /\ Onward
      BY <1>1, <1>3, <2>5, HandsOverHolds
    <3>2. FreshInv'
      BY <1>1, <1>2, <1>3, <2>2, <2>5, HandsOverFresh
    <3>3. StreamInv'
      BY <1>1, <1>3, <2>3, <3>1, StreamStays
    <3> QED BY <1>3, <2>2, <3>1, <3>2, <3>3 DEF LiveInv
  <2> QED BY <2>1, <2>4, <2>5
<1> QED BY <1>4, <1>5, <1>6

\* The reads of the views.
LEMMA ReadSteps ==
  ASSUME LiveInv, NEW v \in Views, ServeRead(v) \/ ShowAnswer(v) \/ ReadFails(v)
  PROVE  LiveInv'
<1>1. FeedOK /\ ControllerOK /\ ViewsOK
  BY DEF LiveInv, ControllerInv
<1>2. UNCHANGED <<feedVars, streamVars>> /\ started' = started /\ through' = through
  BY DEF ServeRead, ShowAnswer, ReadFails, Mishap, controllerVars
<1>3. FeedGrows
  BY <1>1, <1>2, SameFeed DEF feedVars
<1>4. CASE ServeRead(v)
  <2>1. KeepsWindow
    BY <1>1, <1>4, IdleKeeps DEF ServeRead, controllerVars
  <2> QED BY <1>1, <1>2, <1>3, <1>4, <2>1, ServedFresh, PageStep DEF AllStay
<1>5. CASE ShowAnswer(v)
  <2>1. KeepsWindow \/ EndsWindow \/ ReturnsWindow
    BY <1>1, <1>2, <1>5, ReleaseIs DEF ShowAnswer
  <2> QED BY <1>1, <1>2, <1>3, <1>5, <2>1, ShownFresh, PageStep DEF AllStay
<1>6. CASE ReadFails(v)
  <2>1. view' = Failing({v}) /\ page' = page /\ Release({v}, {v} \ Catalogs)
    BY <1>6 DEF ReadFails, Mishap
  <2>2. KeepsWindow \/ EndsWindow \/ ReturnsWindow
    BY <1>1, <1>2, <2>1, ReleaseIs
  <2>3. ViewsOK' /\ AllStay
    BY <1>1, <1>3, <2>1, FailingFresh DEF AllStay
  <2> QED BY <1>2, <2>2, <2>3, PageStep
<1> QED BY <1>4, <1>5, <1>6

\* The user.
LEMMA UserSteps ==
  ASSUME LiveInv, UserStep
  PROVE  LiveInv'
<1>1. FeedOK /\ ControllerInv /\ ControllerOK /\ ViewsOK /\ StreamInv
  BY DEF LiveInv, ControllerInv
<1>2. UNCHANGED feedVars
  BY DEF UserStep, Navigate, Refilter, Stop, Start, Move
<1>3. FeedGrows /\ FeedOK' /\ generation' = generation
  BY <1>1, <1>2, SameFeed DEF feedVars, FeedGrows
<1>4. ASSUME NEW next \in Views, Navigate(next) PROVE LiveInv'
  <2>1. PICK again : Release(again, {}) /\ through' = through /\ UNCHANGED <<streamVars, started>>
    BY <1>4 DEF Navigate
  <2>2. KeepsWindow \/ EndsWindow \/ ReturnsWindow
    BY <1>1, <2>1, ReleaseIs
  <2>3. ViewsOK' /\ AllStay
    BY <1>1, <1>3, <1>4, NavigatedFresh DEF AllStay
  <2> QED BY <1>2, <2>1, <2>2, <2>3, PageStep
<1>5. CASE Refilter
  <2>1. Release(Views, {}) /\ through' = through /\ UNCHANGED <<streamVars, started>>
    BY <1>5 DEF Refilter
  <2>2. KeepsWindow \/ EndsWindow \/ ReturnsWindow
    BY <1>1, <2>1, ReleaseIs
  <2>3. ViewsOK' /\ AllStay
    BY <1>1, <1>3, <1>5, RefilteredFresh DEF AllStay
  <2> QED BY <1>2, <2>1, <2>2, <2>3, PageStep
<1>6. CASE Stop
  <2>1. ControllerInv'
    BY <1>1, <1>6, StopHolds
  <2>2. StreamInv'
    BY <1>1, <1>3, <1>6, StreamStopped
  <2>3. ViewsOK'
    BY <1>1, <1>6, StoppedViews
  <2>4. FreshInv'
    BY <1>6 DEF Stop, FreshInv, AcknowledgedFresh, AppliedFresh
  <2> QED BY <1>3, <2>1, <2>2, <2>3, <2>4 DEF LiveInv
<1>7. CASE Start
  <2>1. /\ view' = Refreshed(Views) /\ page' = page /\ UNCHANGED streamVars
        /\ UNCHANGED <<cursorVars, through, pending, resync, applying>>
    BY <1>7 DEF Start
  <2>2. KeepsWindow
    BY <1>1, <2>1, IdleKeeps
  <2>3. ControllerInv' /\ Onward
    BY <1>1, <1>3, <2>2, KeepsWindowHolds
  <2>4. StreamInv'
    BY <1>1, <1>3, <2>1, <2>3, StreamStays
  <2>5. ViewsOK' /\ \A v \in Views : AllFresh(v)
    BY <1>1, <1>3, <2>1, RefreshedFresh
  <2>6. log' = log
    BY <1>2 DEF feedVars
  <2>7. FreshInv'
    BY <2>5, <2>6 DEF FreshInv, AcknowledgedFresh, AppliedFresh, AllFresh
  <2> QED BY <1>3, <2>3, <2>4, <2>5, <2>7 DEF LiveInv
<1> QED BY <1>4, <1>5, <1>6, <1>7 DEF UserStep

\* What breaks.
LEMMA BreakSteps ==
  ASSUME LiveInv, StreamBreaks \/ ServiceRestarts
  PROVE  LiveInv'
<1>1. FeedOK /\ ControllerOK /\ ViewsOK /\ StreamInv
  BY DEF LiveInv, ControllerInv
<1>2. started' = started /\ through' = through /\ page' = page
  BY DEF StreamBreaks, ServiceRestarts, Mishap
<1>3. CASE StreamBreaks
  <2>1. Disconnect /\ UNCHANGED <<feedVars, cursorVars, pending, resync, timer, applying, view>>
    BY <1>3 DEF StreamBreaks
  <2>2. FeedGrows
    BY <1>1, <2>1, SameFeed DEF feedVars
  <2>3. KeepsWindow
    BY <1>1, <1>2, <2>1, IdleKeeps
  <2>4. ViewsOK' /\ AllStay
    BY <1>1, <1>2, <2>1, <2>2, ViewsAlone
  <2>5. ControllerInv' /\ Onward /\ FreshInv'
    BY <1>2, <2>2, <2>3, <2>4, WindowStep
  <2>6. StreamInv'
    BY <1>1, <2>1, <2>2, <2>5, StreamDisconnected
  <2> QED BY <2>2, <2>4, <2>5, <2>6 DEF LiveInv, FeedGrows
<1>4. CASE ServiceRestarts
  <2>1. PICK vs, refused : view' = Failing(vs) /\ Release(vs, refused)
    BY <1>4 DEF ServiceRestarts
  <2>2. PICK rebuilt \in BOOLEAN : RestartFeed(rebuilt)
    BY <1>4 DEF ServiceRestarts
  <2>3. FeedGrows
    BY <1>1, <2>2, RestartGrows
  <2>4. KeepsWindow \/ EndsWindow \/ ReturnsWindow
    BY <1>1, <1>2, <2>1, ReleaseIs
  <2>5. ViewsOK' /\ AllStay
    BY <1>1, <1>2, <2>1, <2>3, FailingFresh DEF AllStay
  <2>6. ControllerInv' /\ Onward /\ FreshInv'
    BY <1>2, <2>3, <2>4, <2>5, WindowStep
  <2>7. StreamInv'
    <3>1. CASE Disconnect
      BY <1>1, <2>3, <2>6, <3>1, StreamDisconnected
    <3>2. CASE watch.pc = "off" /\ UNCHANGED streamVars
      BY <1>1, <2>3, <2>6, <3>2, StreamStays
    <3> QED BY <1>4, <3>1, <3>2 DEF ServiceRestarts
  <2> QED BY <2>3, <2>5, <2>6, <2>7 DEF LiveInv, FeedGrows
<1> QED BY <1>3, <1>4

\* The page begins without rows.
LEMMA LiveInit == Init => LiveInv
<1> SUFFICES ASSUME Init PROVE LiveInv
  OBVIOUS
<1>1. FeedOK /\ ControllerInv
  BY InitHolds
<1>2. wire = <<>> /\ watch = Closed /\ log = <<>> /\ applying = NoWindow
  BY DEF Init, FeedInit
<1>3. StreamInv
  <2>1. watch.pc = "off" /\ watch.position = NoCursor /\ watch.closed = FALSE
    BY <1>2 DEF Closed
  <2>2. Placed(NoCursor) /\ NoCursor \in Places
    BY <1>1, SomePlaces DEF Placed
  <2>3. watch \in Handlers
    BY <1>2, <2>2 DEF Closed, Handlers, Pcs
  <2> QED BY <1>2, <2>1, <2>2, <2>3 DEF StreamInv, StreamOK, WindowOK, StreamFollows, WindowHolds
<1>4. ViewsOK
  <2>1. view = [v \in Views |-> IF v = page THEN Reading(Unread) ELSE Unread]
    BY DEF Init
  <2> QED BY <2>1, UnreadIs, ReadingIs DEF ViewsOK
<1>5. FreshInv
  <2>1. Len(log) = 0
    BY <1>2
  <2> QED BY <2>1 DEF FreshInv, AcknowledgedFresh, AppliedFresh
<1> QED BY <1>1, <1>3, <1>4, <1>5 DEF LiveInv

\* Every step keeps the invariant.
LEMMA LiveNext == LiveInv /\ [Next]_vars => LiveInv'
<1> SUFFICES ASSUME LiveInv, [Next]_vars PROVE LiveInv'
  OBVIOUS
<1>1. CASE UNCHANGED vars
  <2>1. FeedOK /\ ControllerOK /\ ViewsOK
    BY DEF LiveInv, ControllerInv
  <2>2. /\ UNCHANGED <<feedVars, streamVars>> /\ UNCHANGED <<view, page>> /\ started' = started
        /\ UNCHANGED <<cursorVars, through, pending, resync, applying>>
    BY <1>1 DEF vars, controllerVars
  <2>3. KeepsWindow /\ ViewsOK' /\ AllStay
    BY <2>1, <2>2, IdleKeeps, ViewsAlone, SameFeed DEF feedVars
  <2> QED BY <2>2, <2>3, PageStep
<1>2. CASE Next
  <2>1. CASE /\ \E targets \in Changes : Commit(targets)
             /\ UNCHANGED <<controllerVars, view, page, boundVars>>
    BY <2>1, FeedSteps
  <2>2. CASE Signal /\ UNCHANGED <<controllerVars, view, page, boundVars>>
    BY <2>2, FeedSteps
  <2>3. CASE HandlerStep /\ UNCHANGED <<controllerVars, view, page, boundVars>>
    BY <2>3, FeedSteps
  <2>4. CASE Connect
    BY <2>4, FeedSteps DEF Connect
  <2>5. CASE Receive \/ FlushNothing \/ Flush
    BY <2>5, ControllerSteps
  <2>6. CASE \E v \in Views : ServeRead(v) \/ ShowAnswer(v) \/ ReadFails(v)
    BY <2>6, ReadSteps
  <2>7. CASE UserStep
    BY <2>7, UserSteps
  <2>8. CASE StreamBreaks \/ ServiceRestarts
    BY <2>8, BreakSteps
  <2> QED BY <1>2, <2>1, <2>2, <2>3, <2>4, <2>5, <2>6, <2>7, <2>8 DEF Next
<1> QED BY <1>1, <1>2

\* A view that is fresh up to the acknowledged place shows what it needs there.
LEMMA FreshShows ==
  ASSUME LiveInv, started, NEW v \in Views, ~view[v].failed, v = page \/ ~view[v].stale
  PROVE  Showing(v) >= Needed(v, Absolute(cursor))
<1>1. FeedOK /\ ControllerOK /\ ViewsOK /\ AcknowledgedFresh
  BY DEF LiveInv, ControllerInv, FreshInv
<1>3. Absolute(cursor) \in Nat /\ Absolute(cursor) <= acknowledged /\ acknowledged <= Len(log)
      /\ Len(log) \in Nat /\ acknowledged \in Nat
  <2>1. Placed(cursor) /\ Absolute(cursor) <= acknowledged /\ acknowledged <= Len(log)
        /\ acknowledged \in Nat
    BY <1>1 DEF ControllerOK
  <2>2. cursor.generation \in 0..generation /\ cursor.sequence \in Nat
    BY <1>1, <2>1, FeedNumbers DEF Placed, Places
  <2> QED BY <1>1, <2>1, <2>2, FeedNumbers DEF Absolute
<1>4. Showing(v) \in Nat
  BY <1>1, ShowingType
<1>5. CASE Needed(v, Absolute(cursor)) = 0
  BY <1>4, <1>5
<1>6. CASE Needed(v, Absolute(cursor)) # 0
  <2>1. PICK i : i = Needed(v, Absolute(cursor))
    OBVIOUS
  <2>2. i \in 1..Absolute(cursor) /\ Affected(v, log[i])
    BY <1>3, <1>6, <2>1, NeededIs
  <2>3. i \in 1..Len(log) /\ i <= acknowledged
    BY <1>3, <2>2
  <2>4. Fresh(v, i)
    BY <1>1, <2>3 DEF AcknowledgedFresh
  <2> QED BY <2>1, <2>2, <2>4 DEF Fresh
<1> QED BY <1>5, <1>6

\* What is received and not acknowledged is held.
LEMMA ReceivedKept == LiveInv => ReceivedIsKept
<1> SUFFICES ASSUME LiveInv PROVE ReceivedIsKept
  OBVIOUS
<1>1. FeedOK /\ ControllerOK /\ ReceivedHeld /\ WindowOK
  BY DEF LiveInv, ControllerInv, StreamInv
<1>2. /\ Absolute(through) \in Nat /\ Absolute(through) <= Len(log) /\ Len(log) \in Nat
      /\ acknowledged \in Nat
  <2>1. Placed(through) /\ acknowledged \in Nat
    BY <1>1 DEF ControllerOK
  <2>2. through.generation \in 0..generation /\ through.sequence \in Nat
    BY <1>1, <2>1, FeedNumbers DEF Placed, Places
  <2> QED BY <1>1, <2>1, <2>2, FeedNumbers DEF Absolute, Placed
<1>3. ASSUME NEW i \in (acknowledged + 1)..Absolute(through)
      PROVE  \/ resync \/ applying.resync
             \/ \A target \in log[i] :
                  {target, Kind(target)} \cap (pending \cup applying.targets) # {}
  <2>1. i \in 1..Len(log) /\ acknowledged < i /\ i <= Absolute(through)
    BY <1>2
  <2> QED BY <1>1, <2>1 DEF ReceivedHeld, CoversRow, Covers
<1>4. ASSUME NEW targets \in {pending} \cup {wire[i].targets : i \in DOMAIN wire}
      PROVE  Cardinality(targets \ Kinds) <= TargetLimit
  <2>1. Within(pending)
    BY <1>1 DEF ControllerOK
  <2>2. \A i \in DOMAIN wire : Within(wire[i].targets)
    <3>1. CASE wire = <<>>
      BY <3>1
    <3>2. CASE wire # <<>>
      <4>1. PICK w : wire = <<w>> /\ w = wire[1] /\ Within(w.targets)
        BY <1>1, <3>2 DEF WindowOK
      <4>2. DOMAIN <<w>> = {1}
        OBVIOUS
      <4> QED BY <4>1, <4>2
    <3> QED BY <3>1, <3>2
  <2> QED BY <2>1, <2>2 DEF Within
<1> QED BY <1>3, <1>4 DEF ReceivedIsKept

\* The inductive invariant holds in every state.
THEOREM LiveInvariant == Spec => []LiveInv
<1> QED BY LiveInit, LiveNext, PTL DEF Spec

\* The position the stream resumes from is never ahead of what the page in front
\* shows or loads, whatever broke, restarted, expired or was superseded
\* (live-update-controller.ts:101-134, projection_feed.go:407-448).
THEOREM FrontIsCurrent == Spec => []AcknowledgedIsShown
<1>1. LiveInv => AcknowledgedIsShown
  BY FreshShows DEF AcknowledgedIsShown
<1> QED BY <1>1, LiveInvariant, PTL

\* A hidden view that takes itself for current is current at the position the
\* stream resumes from (session-list-controller.ts:36-64, trace-catalog.ts:70-100).
THEOREM HiddenKnows == Spec => []HiddenIsStaleOrCurrent
<1>1. LiveInv => HiddenIsStaleOrCurrent
  BY FreshShows DEF HiddenIsStaleOrCurrent
<1> QED BY <1>1, LiveInvariant, PTL

\* A received change is pending or being applied until its position has been
\* acknowledged once, and no set of targets outgrows the limit
\* (live-update-controller.ts:65-77, 101-134).
THEOREM NothingReceivedIsLost == Spec => []ReceivedIsKept
<1> QED BY ReceivedKept, LiveInvariant, PTL

-----------------------------------------------------------------------------
(* The sleep of the handler *)

\* The handler's state is a record with these fields.
WatchFields == {"pc", "position", "closed"}
WatchIsRecord == watch = [field \in WatchFields |-> watch[field]]

\* What is inductive about the handler's sleep.
SleepInv == WatchIsRecord /\ WaiterIsSignalled

\* A step that leaves the feed and the handler alone keeps the invariant.
LEMMA HandlerAlone ==
    SleepInv /\ UNCHANGED <<feedVars, watch>> => SleepInv'
  BY DEF SleepInv, WatchIsRecord, WaiterIsSignalled, Current, feedVars

\* A handler that does not wait satisfies it, whatever the feed does.
LEMMA HandlerAwake ==
    ASSUME WatchIsRecord', watch'.pc # "wait" PROVE SleepInv'
  BY DEF SleepInv, WaiterIsSignalled

\* A stream that is closed is off.
LEMMA HandlerClosed == watch' = Closed => SleepInv'
<1> SUFFICES ASSUME watch' = Closed PROVE SleepInv'
  OBVIOUS
<1>1. WatchIsRecord' /\ watch'.pc = "off"
  BY DEF Closed, WatchIsRecord, WatchFields
<1> QED BY <1>1, HandlerAwake

\* The handler's own steps: it goes to sleep at the newest position only.
LEMMA HandlerSteps == SleepInv /\ HandlerStep => SleepInv'
<1> SUFFICES ASSUME SleepInv, HandlerStep PROVE SleepInv'
  OBVIOUS
<1>1. CASE Begin
  <2>1. WatchIsRecord' /\ watch'.pc = "check"
    BY <1>1 DEF SleepInv, WatchIsRecord, WatchFields, Begin, Goto
  <2> QED BY <2>1, HandlerAwake
<1>2. CASE Check
  <2>1. CASE watch' = Closed
    BY <2>1, HandlerClosed
  <2>2. CASE Goto(IF watch.position = Current THEN "take" ELSE "read")
    <3>1. WatchIsRecord' /\ watch'.pc \in {"take", "read"}
      BY <2>2 DEF SleepInv, WatchIsRecord, WatchFields, Goto
    <3> QED BY <3>1, HandlerAwake
  <2> QED BY <1>2, <2>1, <2>2 DEF Check, SendResync
<1>3. CASE TakeChannel
  <2>1. WatchIsRecord' /\ watch'.pc = "second"
    BY <1>3 DEF SleepInv, WatchIsRecord, WatchFields, TakeChannel
  <2> QED BY <2>1, HandlerAwake
<1>4. CASE CheckAgain
  <2>1. CASE watch.position = Current
    <3>1. WatchIsRecord' /\ watch'.position = watch.position
      BY <1>4, <2>1 DEF SleepInv, WatchIsRecord, WatchFields, CheckAgain
    <3>2. Current' = Current
      BY <1>4 DEF CheckAgain, feedVars, Current
    <3> QED BY <2>1, <3>1, <3>2 DEF SleepInv, WaiterIsSignalled
  <2>2. CASE watch.position # Current
    <3>1. WatchIsRecord' /\ watch'.pc = "read"
      BY <1>4, <2>2 DEF SleepInv, WatchIsRecord, WatchFields, CheckAgain
    <3> QED BY <3>1, HandlerAwake
  <2> QED BY <2>1, <2>2
<1>5. CASE WakeUp
  <2>1. WatchIsRecord' /\ watch'.pc = "read"
    BY <1>5 DEF SleepInv, WatchIsRecord, WatchFields, WakeUp
  <2> QED BY <2>1, HandlerAwake
<1>6. CASE ReadWindow
  <2>1. CASE watch' = Closed
    BY <2>1, HandlerClosed
  <2>2. CASE Goto("check")
    <3>1. WatchIsRecord' /\ watch'.pc = "check"
      BY <2>2 DEF SleepInv, WatchIsRecord, WatchFields, Goto
    <3> QED BY <3>1, HandlerAwake
  <2>3. ASSUME NEW place, watch' = [watch EXCEPT !.pc = "check", !.position = place]
        PROVE SleepInv'
    <3>1. WatchIsRecord' /\ watch'.pc = "check"
      BY <2>3 DEF SleepInv, WatchIsRecord, WatchFields
    <3> QED BY <3>1, HandlerAwake
  <2> QED BY <1>6, <2>1, <2>2, <2>3 DEF ReadWindow, SendResync
<1> QED BY <1>1, <1>2, <1>3, <1>4, <1>5, <1>6 DEF HandlerStep

\* A commit leaves its signal outstanding, and the signal closes the channel.
LEMMA WriterSteps ==
    ASSUME SleepInv, Signal \/ \E targets \in Changes : Commit(targets)
    PROVE  SleepInv'
<1>1. CASE Signal
  BY <1>1 DEF SleepInv, WatchIsRecord, WatchFields, WaiterIsSignalled, Signal
<1>2. CASE \E targets \in Changes : Commit(targets)
  BY <1>2 DEF SleepInv, WatchIsRecord, WaiterIsSignalled, Commit, streamVars
<1> QED BY <1>1, <1>2

\* The page, its user and the mishaps touch the handler only to start it or to
\* end it.
LEMMA PageSteps ==
    ASSUME SleepInv,
           \/ Connect \/ Receive \/ FlushNothing \/ Flush
           \/ \E v \in Views : ServeRead(v) \/ ShowAnswer(v) \/ ReadFails(v)
           \/ UserStep
           \/ StreamBreaks
           \/ ServiceRestarts
    PROVE  SleepInv'
<1>1. CASE Connect
  <2>1. WatchIsRecord' /\ watch'.pc = "begin"
    BY <1>1 DEF Connect, WatchIsRecord, WatchFields
  <2> QED BY <2>1, HandlerAwake
<1>2. CASE Receive
  BY <1>2, HandlerAlone DEF Receive
<1>3. CASE FlushNothing
  BY <1>3, HandlerAlone DEF FlushNothing, streamVars
<1>4. CASE Flush
  BY <1>4, HandlerAlone DEF Flush, streamVars
<1>5. CASE \E v \in Views : ServeRead(v) \/ ShowAnswer(v) \/ ReadFails(v)
  BY <1>5, HandlerAlone DEF ServeRead, ShowAnswer, ReadFails, streamVars
<1>6. CASE UserStep
  <2>1. CASE \E next \in Views : Navigate(next)
    BY <2>1, HandlerAlone DEF Navigate, Move, streamVars
  <2>2. CASE Refilter
    BY <2>2, HandlerAlone DEF Refilter, Move, streamVars
  <2>3. CASE Stop
    BY <2>3, HandlerClosed DEF Stop
  <2>4. CASE Start
    BY <2>4, HandlerAlone DEF Start, streamVars
  <2> QED BY <1>6, <2>1, <2>2, <2>3, <2>4 DEF UserStep
<1>7. CASE StreamBreaks
  BY <1>7, HandlerClosed DEF StreamBreaks, Disconnect
<1>8. CASE ServiceRestarts
  <2>1. CASE Disconnect
    BY <2>1, HandlerClosed DEF Disconnect
  <2>2. CASE watch.pc = "off" /\ UNCHANGED streamVars
    <3>1. WatchIsRecord' /\ watch'.pc = "off"
      BY <2>2 DEF SleepInv, WatchIsRecord, streamVars
    <3> QED BY <3>1, HandlerAwake
  <2> QED BY <1>8, <2>1, <2>2 DEF ServiceRestarts
<1> QED BY <1>1, <1>2, <1>3, <1>4, <1>5, <1>6, <1>7, <1>8

\* A watch handler never sleeps through a change of the feed, for any number of
\* rows, any limits and any user (projection_feed.go:474-502).
THEOREM SleeperIsSignalled == Spec => []WaiterIsSignalled
<1>1. Init => SleepInv
  BY DEF Init, FeedInit, Closed, SleepInv, WatchIsRecord, WatchFields, WaiterIsSignalled
<1>2. SleepInv /\ [Next]_vars => SleepInv'
  <2> SUFFICES ASSUME SleepInv, [Next]_vars PROVE SleepInv'
    OBVIOUS
  <2>1. CASE Next
    BY <2>1, HandlerSteps, WriterSteps, PageSteps DEF Next
  <2>2. CASE UNCHANGED vars
    BY <2>2, HandlerAlone DEF vars, streamVars
  <2> QED BY <2>1, <2>2
<1>3. SleepInv => WaiterIsSignalled
  BY DEF SleepInv
<1> QED BY <1>1, <1>2, <1>3, PTL DEF Spec
=============================================================================
