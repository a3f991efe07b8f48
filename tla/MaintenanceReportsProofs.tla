------------------------ MODULE MaintenanceReportsProofs ------------------------
(***************************************************************************)
(* A theorem about MaintenanceReports, for any cycles, any number of        *)
(* operations and any failures: every report is true of its operations,     *)
(* and none that the code promises is missing.                              *)
(***************************************************************************)
EXTENDS MaintenanceReports, FiniteSetTheorems, SequenceTheorems, WellFoundedInduction, TLAPS

Statuses == Terminal \cup {"running"}
Operations == [kind : {"archive", "delete"}, status : Statuses, kept : BOOLEAN]
Rows == [status : {"none"} \cup Statuses, cohort : BOOLEAN, planned : Int, error : BOOLEAN, counts : [Statuses -> Nat]]

Begun == {"measuring", "queued"}
Resuming == {"rediscovering", "resuming", "reporting"}
Unplanning == {"new", "planning"} \cup Begun \cup Resuming
Places == Gone \cup Unplanning \cup {"working", "operating", "completing"}
Workers == [at : Places, archives : Nat, deletions : Nat, failed : BOOLEAN, about : Cycles]
Stages == {"up", "down", "rediscovering", "deletions", "reports"}

ReportTypes ==
    /\ row \in [Cycles -> Rows]
    /\ child \in [Cycles -> Seq(Operations)]
    /\ worker \in [Cycles -> Workers]
    /\ service \in Stages
    /\ mishaps \in Nat

\* A cycle has a row from its beginning, which is open while it works; it has no
\* operations before its plan.
CycleFollows(c) ==
    /\ worker[c].at = "new" => row[c].status = "none"
    /\ worker[c].at = "over" => row[c].status # "none"
    /\ worker[c].at \notin Gone => row[c].status = "running"
    /\ worker[c].at \in Unplanning => child[c] = << >> /\ row[c].planned = Unplanned /\ row[c].counts = NoCounts
    /\ worker[c].at = "operating" => Len(child[c]) > 0

\* The operations of an open row are all stored.
OpenIsKept(c) == row[c].status = "running" => \A n \in DOMAIN child[c] : child[c][n].kept

\* Only the last operation of a cycle can have failed or still run, and it has
\* not when the cycle goes on to the next.
OnlyLastIsOpen(c) ==
    \A n \in DOMAIN child[c] :
        n < Len(child[c]) \/ worker[c].at = "working" => child[c][n].status \in {"completed", "cancelled"}

\* What a written report says of its operations: ReportIsTrue in terms of one
\* row and its operations.
Counts(operations) == [status \in Statuses |-> Cardinality({n \in DOMAIN operations : operations[n].status = status})]
TrueOf(report, operations) ==
    /\ report.status \in {"completed", "cancelled"} => report.planned = Len(operations)
    /\ report.status = "completed" =>
          /\ \A n \in DOMAIN operations : operations[n].status \in {"completed", "cancelled"}
          /\ operations = << >> \/ \E n \in DOMAIN operations : operations[n].status # "cancelled"
    /\ report.status = "cancelled" =>
          operations # << >> /\ \A n \in DOMAIN operations : operations[n].status = "cancelled"
    /\ report.status = "failed" => report.error
    /\ \A n \in DOMAIN operations : operations[n].status # "running"
    /\ report.counts = Counts(operations)
WrittenIsTrue(c) == row[c].status \in Terminal => TrueOf(row[c], child[c])

\* One cycle at a time resumes, plans or works, and none without the service.
OneAtATime ==
    /\ \A c, d \in Cycles :
          worker[c].at \notin Gone \cup Begun /\ worker[d].at \notin Gone \cup Begun => c = d
    /\ service # "up" => \A c \in Cycles : worker[c].at \in Gone

\* The stages of a start end the operations that an earlier process left.
StartFollows ==
    \A c \in Cycles : \A n \in DOMAIN child[c] :
        /\ service \in {"rediscovering", "deletions", "reports"} /\ child[c][n].kind = "archive"
              => child[c][n].status # "running"
        /\ service = "reports" => child[c][n].status # "running"

\* A cycle that has to be reported by the next resumption.
IsDue(d) ==
    /\ worker[d].at = "over" /\ row[d].planned = Len(child[d])
    /\ \E n \in DOMAIN child[d] : child[d][n].kind = "delete"
    /\ \A n \in DOMAIN child[d] : child[d][n].status \in Terminal

\* After the first look for such cycles only the one whose deletion has just
\* been ended is not reported.
ResumptionFollows(c) ==
    /\ worker[c].at \in {"resuming", "reporting"} =>
          \A d \in Cycles : IsDue(d) => row[d].status \in Terminal \/ (worker[c].at = "reporting" /\ d = worker[c].about)
    /\ worker[c].at = "reporting" =>
          /\ worker[worker[c].about].at = "over"
          /\ \A n \in DOMAIN child[worker[c].about] : child[worker[c].about][n].status \in Terminal

Fits(c) == CycleFollows(c) /\ OpenIsKept(c) /\ OnlyLastIsOpen(c) /\ WrittenIsTrue(c)

ReportsInv ==
    /\ ReportTypes
    /\ \A c \in Cycles : Fits(c)
    /\ OneAtATime /\ StartFollows
    /\ \A c \in Cycles : ResumptionFollows(c)

-----------------------------------------------------------------------------
(* Operations: what a step may do to those of a cycle *)

\* The same operations, some of which have ended.
Advance(before, after) ==
    /\ after \in Seq(Operations) /\ Len(after) = Len(before)
    /\ \A n \in 1 .. Len(before) :
          /\ after[n].kind = before[n].kind
          /\ \/ after[n].status = before[n].status
             \/ before[n].status = "running" /\ after[n].status \in Terminal

\* None of them has been pruned.
Unpruned(before, after) == \A n \in DOMAIN before : after[n].kept = before[n].kept

\* The numbers of a cycle's operations, and the type of each.
LEMMA ChildType ==
  ASSUME ReportTypes, NEW c \in Cycles
  PROVE  /\ child[c] \in Seq(Operations) /\ Len(child[c]) \in Nat
         /\ DOMAIN child[c] = 1 .. Len(child[c])
         /\ \A n \in DOMAIN child[c] :
               /\ child[c][n] \in Operations
               /\ child[c][n].kind \in {"archive", "delete"} /\ child[c][n].status \in Statuses
<1>1. child[c] \in Seq(Operations)
  BY DEF ReportTypes
<1>2. \A n \in 1 .. Len(child[c]) : child[c][n] \in Operations
  BY <1>1, ElementOfSeq
<1> QED BY <1>1, <1>2, LenProperties DEF Operations

\* The operations of a cycle are finitely many.
LEMMA ChildCount ==
  ASSUME ReportTypes, NEW c \in Cycles
  PROVE  /\ Cardinality(DOMAIN child[c]) = Len(child[c])
         /\ \A S \in SUBSET DOMAIN child[c] : Cardinality(S) \in Nat
<1>1. Len(child[c]) \in Nat /\ DOMAIN child[c] = 1 .. Len(child[c])
  BY ChildType
<1>2. IsFiniteSet(1 .. Len(child[c])) /\ Cardinality(1 .. Len(child[c])) = Len(child[c])
  BY <1>1, FS_Interval
<1> QED BY <1>1, <1>2, FS_Subset, FS_CardinalityType

\* What is counted is counted with numbers.
LEMMA TallyType ==
  ASSUME ReportTypes, NEW c \in Cycles
  PROVE  Tally(c, Stored(c)) \in [Statuses -> Nat]
<1>1. \A status \in Statuses : Cardinality({n \in Stored(c) : child[c][n].status = status}) \in Nat
  BY ChildCount DEF Stored
<1> QED BY <1>1 DEF Tally, Statuses

\* All operations of an open row are stored.
LEMMA AllStored ==
  ASSUME NEW c \in Cycles, OpenIsKept(c), row[c].status = "running"
  PROVE  Stored(c) = DOMAIN child[c]
BY DEF OpenIsKept, Stored

\* A written report stays true when its operations only advance: none runs.
LEMMA TruthStays ==
  ASSUME NEW report, NEW before \in Seq(Operations), NEW after, Advance(before, after), TrueOf(report, before)
  PROVE  TrueOf(report, after)
<1>1. DOMAIN before = 1 .. Len(before) /\ DOMAIN after = DOMAIN before /\ Len(after) = Len(before)
  BY LenProperties DEF Advance
<1>2. \A n \in DOMAIN before : after[n].status = before[n].status
  BY <1>1 DEF Advance, TrueOf
<1>3. Counts(after) = Counts(before)
  <2>1. \A status \in Statuses :
           {n \in DOMAIN after : after[n].status = status} = {n \in DOMAIN before : before[n].status = status}
    BY <1>1, <1>2
  <2> QED BY <2>1 DEF Counts
<1>4. after = << >> <=> before = << >>
  BY <1>1, EmptySeq DEF Advance
<1> QED BY <1>1, <1>2, <1>3, <1>4 DEF TrueOf

\* One operation ended.
Ended(children, c, n, status) == [children EXCEPT ![c][n].status = status]
LEMMA OneEnds ==
  ASSUME ReportTypes, NEW c \in Cycles, NEW n \in DOMAIN child[c], child[c][n].status = "running",
         NEW status \in Terminal, NEW ended, ended = Ended(child, c, n, status)
  PROVE  /\ ended \in [Cycles -> Seq(Operations)]
         /\ \A d \in Cycles : Advance(child[d], ended[d])
         /\ \A d \in Cycles : \A k \in DOMAIN child[d] :
               /\ ended[d][k].kept = child[d][k].kept
               /\ ended[d][k].status = IF d = c /\ k = n THEN status ELSE child[d][k].status
<1> DEFINE e == [child[c][n] EXCEPT !.status = status]
<1>1. e \in Operations /\ e.kind = child[c][n].kind /\ e.status = status /\ e.kept = child[c][n].kept
  BY ChildType DEF Operations, Statuses
<1>2. child \in [Cycles -> Seq(Operations)] /\ ended = [child EXCEPT ![c] = [child[c] EXCEPT ![n] = e]]
  BY DEF ReportTypes, Ended
<1> HIDE DEF e
<1>3. /\ [child[c] EXCEPT ![n] = e] \in Seq(Operations)
      /\ Len([child[c] EXCEPT ![n] = e]) = Len(child[c])
      /\ \A k \in 1 .. Len(child[c]) : [child[c] EXCEPT ![n] = e][k] = IF k = n THEN e ELSE child[c][k]
  BY <1>1, ChildType, ExceptSeq
<1>4. ended[c] = [child[c] EXCEPT ![n] = e] /\ \A d \in Cycles : d # c => ended[d] = child[d]
  BY <1>2
<1>5. ended \in [Cycles -> Seq(Operations)]
  BY <1>2, <1>3
<1>6. ASSUME NEW d \in Cycles
      PROVE  /\ Advance(child[d], ended[d])
             /\ \A k \in DOMAIN child[d] :
                   /\ ended[d][k].kept = child[d][k].kept
                   /\ ended[d][k].status = IF d = c /\ k = n THEN status ELSE child[d][k].status
  <2>1. CASE d = c
    <3>1. ended[d] \in Seq(Operations) /\ Len(ended[d]) = Len(child[d]) /\ DOMAIN child[d] = 1 .. Len(child[d])
      BY <1>3, <1>4, <2>1, ChildType
    <3>2. \A k \in 1 .. Len(child[d]) : ended[d][k] = IF k = n THEN e ELSE child[d][k]
      BY <1>3, <1>4, <2>1
    <3>3. \A k \in 1 .. Len(child[d]) :
             /\ ended[d][k].kind = child[d][k].kind /\ ended[d][k].kept = child[d][k].kept
             /\ ended[d][k].status = IF k = n THEN status ELSE child[d][k].status
      BY <1>1, <2>1, <3>2
    <3> QED BY <2>1, <3>1, <3>3 DEF Advance
  <2>2. CASE d # c
    BY <1>4, <2>2, ChildType DEF Advance
  <2> QED BY <2>1, <2>2
<1> QED BY <1>5, <1>6

\* Pruning ends no operation, and takes none from the cycles whose row is open.
LEMMA PruneKeeps ==
  ASSUME NEW children \in [Cycles -> Seq(Operations)], NEW rows
  PROVE  /\ PruneTerminalOperations(children, rows) \in [Cycles -> Seq(Operations)]
         /\ \A d \in Cycles : Advance(children[d], PruneTerminalOperations(children, rows)[d])
         /\ \A d \in Cycles : \A n \in DOMAIN children[d] :
               /\ PruneTerminalOperations(children, rows)[d][n].status = children[d][n].status
               /\ rows[d].status = "running" =>
                     PruneTerminalOperations(children, rows)[d][n].kept = children[d][n].kept
<1> DEFINE P == PruneTerminalOperations(children, rows)
<1>1. ASSUME NEW d \in Cycles
      PROVE  /\ P[d] \in Seq(Operations)
             /\ Advance(children[d], P[d])
             /\ \A n \in DOMAIN children[d] :
                   /\ P[d][n].status = children[d][n].status
                   /\ rows[d].status = "running" => P[d][n].kept = children[d][n].kept
  <2>1. children[d] \in Seq(Operations) /\ Len(children[d]) \in Nat /\ DOMAIN children[d] = 1 .. Len(children[d])
    BY LenProperties
  <2>2. P[d] = [n \in 1 .. Len(children[d]) |->
                  IF children[d][n].status \in Terminal /\ rows[d].status # "running"
                  THEN [children[d][n] EXCEPT !.kept = FALSE] ELSE children[d][n]]
    BY <2>1 DEF PruneTerminalOperations
  <2>3. \A n \in 1 .. Len(children[d]) :
           /\ P[d][n] \in Operations
           /\ P[d][n].kind = children[d][n].kind /\ P[d][n].status = children[d][n].status
           /\ rows[d].status = "running" => P[d][n].kept = children[d][n].kept
    <3>1. \A n \in 1 .. Len(children[d]) : children[d][n] \in Operations
      BY <2>1, ElementOfSeq
    <3> HIDE DEF P
    <3> SUFFICES ASSUME NEW n \in 1 .. Len(children[d])
                 PROVE  /\ P[d][n] \in Operations
                        /\ P[d][n].kind = children[d][n].kind /\ P[d][n].status = children[d][n].status
                        /\ rows[d].status = "running" => P[d][n].kept = children[d][n].kept
      OBVIOUS
    <3>2. CASE children[d][n].status \in Terminal /\ rows[d].status # "running"
      <4> DEFINE o == children[d][n]
      <4>1. P[d][n] = [o EXCEPT !.kept = FALSE] /\ o \in Operations
        BY <2>2, <3>1, <3>2
      <4> HIDE DEF o
      <4>2. P[d][n] \in Operations /\ P[d][n].kind = o.kind /\ P[d][n].status = o.status
        BY <4>1 DEF Operations
      <4> QED BY <3>2, <4>2 DEF o
    <3>3. CASE ~(children[d][n].status \in Terminal /\ rows[d].status # "running")
      <4>1. P[d][n] = children[d][n]
        BY <2>2, <3>3
      <4> QED BY <3>1, <4>1
    <3> QED BY <3>2, <3>3
  <2>4. P[d] \in [1 .. Len(children[d]) -> Operations]
    <3> HIDE DEF P
    <3> QED BY <2>2, <2>3
  <2>5. P[d] \in Seq(Operations)
    <3> DEFINE m == Len(children[d])
    <3>1. m \in Nat /\ P[d] \in [1 .. m -> Operations]
      BY <2>1, <2>4
    <3> HIDE DEF P, m
    <3>2. P[d] \in UNION {[1 .. n -> Operations] : n \in Nat}
      BY <3>1
    <3> QED BY <3>2, SeqDef
  <2>6. Len(P[d]) = Len(children[d])
    <3>1. DOMAIN P[d] = 1 .. Len(children[d]) /\ DOMAIN P[d] = 1 .. Len(P[d]) /\ Len(P[d]) \in Nat
      BY <2>4, <2>5, LenProperties
    <3> QED BY <2>1, <3>1
  <2> QED BY <2>1, <2>3, <2>5, <2>6 DEF Advance
<1>2. P = [d \in Cycles |-> P[d]]
  BY DEF PruneTerminalOperations
<1> HIDE DEF P
<1>3. P \in [Cycles -> Seq(Operations)]
  BY <1>1, <1>2
<1> QED BY <1>1, <1>3 DEF P

-----------------------------------------------------------------------------
(* Reports *)

\* A set of numbers has a least one.
LEMMA LeastExists ==
  ASSUME NEW S \in SUBSET Nat, S # {}
  PROVE  \E m \in S : \A n \in S : m <= n
<1> DEFINE R == OpToRel(<, Nat)
<1>1. IsWellFoundedOn(R, Nat)
  BY NatLessThanWellFounded
<1>2. ASSUME NEW m \in Nat, NEW n \in Nat, ~ (<<n, m>> \in R) PROVE m <= n
  BY <1>2 DEF OpToRel
<1> HIDE DEF R
<1>3. PICK m \in S : \A n \in S : ~ (<<n, m>> \in R)
  <2>1. S \subseteq Nat
    OBVIOUS
  <2> QED BY <1>1, <2>1, WFMin
<1>4. ASSUME NEW n \in S PROVE m <= n
  <2>1. m \in Nat /\ n \in Nat /\ ~ (<<n, m>> \in R)
    BY <1>3
  <2> QED BY <1>2, <2>1
<1> QED BY <1>4

\* The operation that decides an aggregate is the first that failed or runs.
Decisive(c) == {n \in Stored(c) : child[c][n].status \in {"running", "failed"}}
LEMMA AggregateValue ==
  ASSUME ReportTypes, NEW c \in Cycles
  PROVE  \/ /\ AggregateCycle(c) = "cancelled"
            /\ Stored(c) # {} /\ \A n \in Stored(c) : child[c][n].status = "cancelled"
         \/ /\ AggregateCycle(c) = "completed" /\ Decisive(c) = {}
            /\ Stored(c) = {} \/ \E n \in Stored(c) : child[c][n].status # "cancelled"
         \/ \E n \in Decisive(c) : AggregateCycle(c) = child[c][n].status /\ \A m \in Decisive(c) : n <= m
<1>1. Stored(c) \in SUBSET Nat
  BY ChildType DEF Stored
<1>2. CASE Stored(c) # {} /\ \A n \in Stored(c) : child[c][n].status = "cancelled"
  BY <1>2 DEF AggregateCycle
<1>3. CASE ~(Stored(c) # {} /\ \A n \in Stored(c) : child[c][n].status = "cancelled")
  <2>1. CASE Decisive(c) = {}
    BY <1>3, <2>1 DEF AggregateCycle, Decisive
  <2>2. CASE Decisive(c) # {}
    <3>1. Decisive(c) \in SUBSET Nat
      BY <1>1 DEF Decisive
    <3>2. \E n \in Decisive(c) : \A m \in Decisive(c) : n <= m
      BY <2>2, <3>1, LeastExists
    <3>3. Min(Decisive(c)) \in Decisive(c) /\ \A m \in Decisive(c) : Min(Decisive(c)) <= m
      BY <3>2 DEF Min
    <3>4. AggregateCycle(c) = child[c][Min(Decisive(c))].status
      BY <1>3, <2>2 DEF AggregateCycle, Decisive
    <3> QED BY <3>3, <3>4
  <2> QED BY <2>1, <2>2
<1> QED BY <1>2, <1>3

\* An aggregate that is not "running" is final, since only the last operation can
\* still run or have failed.
LEMMA FinalAggregate ==
  ASSUME ReportTypes, NEW c \in Cycles, OpenIsKept(c), OnlyLastIsOpen(c), row[c].status = "running",
         AggregateCycle(c) # "running"
  PROVE  /\ AggregateCycle(c) \in Terminal
         /\ \A n \in DOMAIN child[c] : child[c][n].status # "running"
<1>1. Stored(c) = DOMAIN child[c] /\ DOMAIN child[c] = 1 .. Len(child[c]) /\ Len(child[c]) \in Nat
  BY AllStored, ChildType
<1>2. CASE \E n \in Decisive(c) : AggregateCycle(c) = child[c][n].status /\ \A m \in Decisive(c) : n <= m
  <2>1. PICK n \in Decisive(c) : AggregateCycle(c) = child[c][n].status
    BY <1>2
  <2>2. n \in 1 .. Len(child[c]) /\ child[c][n].status = "failed"
    BY <1>1, <2>1 DEF Decisive
  <2>3. n = Len(child[c])
    BY <1>1, <2>2 DEF OnlyLastIsOpen
  <2>4. \A m \in 1 .. Len(child[c]) : m < Len(child[c]) \/ m = n
    BY <1>1, <2>3
  <2> QED BY <1>1, <2>1, <2>2, <2>4 DEF OnlyLastIsOpen, Terminal
<1>3. CASE Decisive(c) = {} \/ \A n \in Stored(c) : child[c][n].status = "cancelled"
  BY <1>1, <1>3, AggregateValue DEF Decisive, Terminal
<1> QED BY <1>2, <1>3, AggregateValue

\* So is one of operations that are all over.
LEMMA AggregateOfEnded ==
  ASSUME ReportTypes, NEW c \in Cycles, \A n \in DOMAIN child[c] : child[c][n].status \in Terminal
  PROVE  AggregateCycle(c) \in Terminal
<1>1. \A n \in Stored(c) : child[c][n].status \in Terminal
  BY DEF Stored
<1>2. CASE \E n \in Decisive(c) : AggregateCycle(c) = child[c][n].status
  BY <1>1, <1>2 DEF Decisive
<1> QED BY <1>2, AggregateValue DEF Terminal

\* A report with the aggregate of operations that are over, or of a failure, is true.
MayReport(c, status, error) ==
    /\ OpenIsKept(c) /\ row[c].status = "running"
    /\ \A n \in DOMAIN child[c] : child[c][n].status # "running"
    /\ status \in Terminal /\ error \in BOOLEAN /\ (status = "failed" => error)
    /\ status # "failed" => status = AggregateCycle(c) /\ row[c].planned = Cardinality(Stored(c))
LEMMA ReportedIsTrue ==
  ASSUME ReportTypes, NEW c \in Cycles, NEW status, NEW error, MayReport(c, status, error),
         NEW rows, rows = Reported(c, status, error)
  PROVE  /\ rows \in [Cycles -> Rows]
         /\ \A d \in Cycles : d # c => rows[d] = row[d]
         /\ rows[c].status = status /\ rows[c].planned = row[c].planned
         /\ TrueOf(rows[c], child[c])
<1> USE DEF MayReport
<1> DEFINE t == Tally(c, Stored(c))
           r == [row[c] EXCEPT !.status = status, !.error = error, !.counts = t]
<1>1. row \in [Cycles -> Rows] /\ row[c] \in Rows /\ t \in [Statuses -> Nat]
  BY TallyType DEF ReportTypes
<1>2. rows = [row EXCEPT ![c] = r]
  BY DEF Reported
<1> HIDE DEF t
<1>3. /\ r \in Rows /\ r.status = status /\ r.error = error /\ r.counts = t /\ r.planned = row[c].planned
  BY <1>1 DEF Rows, Statuses
<1> HIDE DEF r
<1>4. rows \in [Cycles -> Rows] /\ rows[c] = r /\ \A d \in Cycles : d # c => rows[d] = row[d]
  BY <1>1, <1>2, <1>3
<1>5. Stored(c) = DOMAIN child[c] /\ DOMAIN child[c] = 1 .. Len(child[c]) /\ Len(child[c]) \in Nat
  BY AllStored, ChildType
<1>6. t = Counts(child[c])
  BY <1>5 DEF t, Tally, Counts, Statuses
<1>7. status # "failed" => row[c].planned = Len(child[c])
  BY <1>5, ChildCount
<1>8. child[c] = << >> <=> Stored(c) = {}
  <2>1. child[c] = << >> <=> Len(child[c]) = 0
    BY ChildType, EmptySeq
  <2> QED BY <1>5, <2>1
<1>9. status = "cancelled" => child[c] # << >> /\ \A n \in DOMAIN child[c] : child[c][n].status = "cancelled"
  BY <1>5, <1>8, AggregateValue DEF Decisive
<1>10. status = "completed" =>
         /\ \A n \in DOMAIN child[c] : child[c][n].status \in {"completed", "cancelled"}
         /\ child[c] = << >> \/ \E n \in DOMAIN child[c] : child[c][n].status # "cancelled"
  <2> SUFFICES ASSUME status = "completed"
               PROVE  /\ \A n \in DOMAIN child[c] : child[c][n].status \in {"completed", "cancelled"}
                      /\ child[c] = << >> \/ \E n \in DOMAIN child[c] : child[c][n].status # "cancelled"
    OBVIOUS
  <2>1. AggregateCycle(c) = "completed"
    OBVIOUS
  <2>2. Decisive(c) = {} /\ (Stored(c) = {} \/ \E n \in Stored(c) : child[c][n].status # "cancelled")
    BY <2>1, AggregateValue DEF Decisive
  <2> QED BY <1>5, <1>8, <2>2, ChildType DEF Decisive, Statuses, Terminal
<1> QED BY <1>3, <1>4, <1>6, <1>7, <1>9, <1>10 DEF TrueOf, Terminal

\* What a recovery reports of a cycle whose operations are over.
LEMMA RecoveredIsTrue ==
  ASSUME ReportTypes, NEW c \in Cycles, OpenIsKept(c),
         \A n \in DOMAIN child[c] : child[c][n].status \in Terminal,
         CompleteRecoveredCycle(c)
  PROVE  /\ row' \in [Cycles -> Rows]
         /\ \A d \in Cycles : d # c => row'[d] = row[d]
         /\ row'[c].planned = row[c].planned
         /\ row[c].status # "running" => row'[c] = row[c]
         /\ row[c].status = "running" => row'[c].status \in Terminal /\ TrueOf(row'[c], child[c])
<1>1. CASE row[c].status # "running"
  BY <1>1 DEF CompleteRecoveredCycle, ReportTypes
<1>2. CASE row[c].status = "running"
  <2> DEFINE s == RecoveredStatus(c)
  <2>1. AggregateCycle(c) \in Terminal
    BY AggregateOfEnded
  <2>2. s \in Terminal /\ (s # "failed" => s = AggregateCycle(c) /\ row[c].planned = Cardinality(Stored(c)))
    BY <2>1 DEF RecoveredStatus, Terminal
  <2>3. PICK e \in BOOLEAN : e <=> s = "failed"
    OBVIOUS
  <2>4. row' = Reported(c, s, s = "failed")
    BY <1>2, <2>2 DEF CompleteRecoveredCycle, Terminal
  <2>5. (s = "failed") = e
    BY <2>3, Zenon
  <2> HIDE DEF s
  <2>6. row' = Reported(c, s, e)
    BY <2>4, <2>5
  <2>7. \A n \in DOMAIN child[c] : child[c][n].status # "running"
    BY DEF Terminal
  <2>8. MayReport(c, s, e)
    BY <1>2, <2>2, <2>3, <2>7 DEF MayReport
  <2>9. /\ row' \in [Cycles -> Rows] /\ \A d \in Cycles : d # c => row'[d] = row[d]
        /\ row'[c].status = s /\ row'[c].planned = row[c].planned /\ TrueOf(row'[c], child[c])
    BY <2>6, <2>8, ReportedIsTrue
  <2> QED BY <1>2, <2>2, <2>9
<1> QED BY <1>1, <1>2

-----------------------------------------------------------------------------
(* What steps have in common *)

LEMMA ReportsAtFirst == ReportsInit => ReportsInv
<1> SUFFICES ASSUME ReportsInit PROVE ReportsInv
  OBVIOUS
<1>1. ReportTypes
  <2>1. NoCounts \in [Statuses -> Nat]
    BY DEF NoCounts, Statuses
  <2>2. NoRow \in Rows
    BY <2>1 DEF NoRow, Rows, Unplanned
  <2>3. << >> \in Seq(Operations)
    BY EmptySeq
  <2>4. \A c \in Cycles : [at |-> "new", archives |-> 0, deletions |-> 0, failed |-> FALSE, about |-> c] \in Workers
    BY DEF Workers, Places, Gone
  <2> QED BY <2>2, <2>3, <2>4, ReportsAssumption DEF ReportsInit, ReportTypes, Stages
<1>2. ASSUME NEW c \in Cycles PROVE Fits(c) /\ ResumptionFollows(c) /\ worker[c].at = "new" /\ child[c] = << >>
  <2>1. row[c].status = "none" /\ row[c].planned = Unplanned /\ row[c].counts = NoCounts /\ child[c] = << >>
      /\ worker[c].at = "new"
    BY DEF ReportsInit, NoRow
  <2>2. DOMAIN child[c] = {}
    BY <2>1
  <2> QED BY <2>1, <2>2 DEF Fits, CycleFollows, OpenIsKept, OnlyLastIsOpen, WrittenIsTrue, ResumptionFollows, Gone, Terminal
<1>3. OneAtATime /\ StartFollows
  BY <1>2 DEF OneAtATime, StartFollows, ReportsInit, Gone
<1> QED BY <1>1, <1>2, <1>3 DEF ReportsInv

\* A cycle none of whose variables change.
LEMMA OtherFits ==
  ASSUME NEW c \in Cycles, Fits(c), row'[c] = row[c], child'[c] = child[c], worker'[c].at = worker[c].at
  PROVE  Fits(c)'
BY DEF Fits, CycleFollows, OpenIsKept, OnlyLastIsOpen, WrittenIsTrue

\* A cycle that has no operations yet.
LEMMA BegunFits ==
  ASSUME NEW c \in Cycles, worker'[c].at \in Unplanning \ {"new"},
         row'[c].status = "running", row'[c].planned = Unplanned, row'[c].counts = NoCounts, child'[c] = << >>
  PROVE  Fits(c)'
<1>1. DOMAIN child'[c] = {}
  OBVIOUS
<1> QED BY <1>1 DEF Fits, CycleFollows, OpenIsKept, OnlyLastIsOpen, WrittenIsTrue, Terminal, Unplanning, Begun, Resuming, Gone

\* A cycle that goes to its end with its row as it is.
LEMMA EndingFits ==
  ASSUME NEW c \in Cycles, Fits(c), row'[c] = row[c], child'[c] = child[c],
         worker'[c].at \in {"completing", "over"}, worker[c].at # "new",
         worker[c].at = "over" => worker'[c].at = "over"
  PROVE  Fits(c)'
BY DEF Fits, CycleFollows, OpenIsKept, OnlyLastIsOpen, WrittenIsTrue, Unplanning, Begun, Resuming, Gone

\* A cycle some of whose operations end.
LEMMA AdvancedFits ==
  ASSUME ReportTypes, NEW c \in Cycles, Fits(c), row'[c] = row[c], Advance(child[c], child'[c]),
         row[c].status = "running" => Unpruned(child[c], child'[c]),
         \/ worker'[c].at = worker[c].at
         \/ worker[c].at = "operating" /\ worker'[c].at = "completing"
         \/ /\ worker[c].at = "operating" /\ worker'[c].at = "working"
            /\ child'[c][Len(child[c])].status \in {"completed", "cancelled"}
  PROVE  Fits(c)'
<1>1. /\ child[c] \in Seq(Operations) /\ DOMAIN child[c] = 1 .. Len(child[c]) /\ Len(child[c]) \in Nat
      /\ child'[c] \in Seq(Operations) /\ DOMAIN child'[c] = 1 .. Len(child[c]) /\ Len(child'[c]) = Len(child[c])
  BY ChildType, LenProperties DEF Advance
<1>2. child[c] = << >> => child'[c] = << >>
  BY <1>1, EmptySeq
<1>3. CycleFollows(c)'
  BY <1>1, <1>2 DEF Fits, CycleFollows, Unplanning, Begun, Resuming, Gone
<1>4. OpenIsKept(c)'
  BY <1>1 DEF Fits, OpenIsKept, Unpruned
<1>5. OnlyLastIsOpen(c)'
  <2> SUFFICES ASSUME NEW n \in DOMAIN child'[c], n < Len(child'[c]) \/ worker'[c].at = "working"
               PROVE  child'[c][n].status \in {"completed", "cancelled"}
    BY DEF OnlyLastIsOpen
  <2>1. child[c][n].status \in {"completed", "cancelled"} => child'[c][n].status \in {"completed", "cancelled"}
    BY <1>1 DEF Advance
  <2>2. n < Len(child[c]) => child[c][n].status \in {"completed", "cancelled"}
    BY <1>1 DEF Fits, OnlyLastIsOpen
  <2>3. n < Len(child[c]) \/ n = Len(child[c])
    BY <1>1
  <2>4. worker[c].at = "working" => child[c][n].status \in {"completed", "cancelled"}
    BY <1>1 DEF Fits, OnlyLastIsOpen
  <2> QED BY <1>1, <2>1, <2>2, <2>3, <2>4
<1>6. WrittenIsTrue(c)'
  BY <1>1, TruthStays DEF Fits, WrittenIsTrue
<1> QED BY <1>3, <1>4, <1>5, <1>6 DEF Fits

\* A cycle that is over and gets its report.
LEMMA ReportFits ==
  ASSUME ReportTypes, NEW c \in Cycles, Fits(c), worker[c].at \in Gone, worker'[c].at = worker[c].at, child'[c] = child[c],
         row'[c].planned = row[c].planned,
         row[c].status # "running" => row'[c] = row[c],
         row[c].status = "running" => row'[c].status \in Terminal /\ TrueOf(row'[c], child[c])
  PROVE  Fits(c)'
<1>1. CASE row[c].status # "running"
  BY <1>1, OtherFits
<1>2. CASE row[c].status = "running"
  <2>1. worker[c].at = "over"
    BY <1>2 DEF Fits, CycleFollows, Gone
  <2>2. CycleFollows(c)'
    BY <1>2, <2>1 DEF CycleFollows, Terminal, Unplanning, Begun, Resuming, Gone
  <2>3. OpenIsKept(c)' /\ OnlyLastIsOpen(c)' /\ WrittenIsTrue(c)'
    BY <1>2, <2>1 DEF Fits, OpenIsKept, OnlyLastIsOpen, WrittenIsTrue, Terminal
  <2> QED BY <2>2, <2>3 DEF Fits
<1> QED BY <1>1, <1>2

\* Without a resumption there is nothing to follow.
LEMMA NoneResumes ==
  ASSUME \A d \in Cycles : worker'[d].at \notin {"resuming", "reporting"}
  PROVE  \A d \in Cycles : ResumptionFollows(d)'
BY DEF ResumptionFollows

\* The cycle that resumes, plans or works is the only one.
LEMMA OthersRest ==
  ASSUME OneAtATime, NEW c \in Cycles, worker[c].at \notin Gone \cup Begun
  PROVE  \A d \in Cycles : d # c => worker[d].at \in Gone \cup Begun
BY DEF OneAtATime

\* A step of one cycle while the service is up.
LEMMA CycleKeeps ==
  ASSUME ReportsInv, NEW c \in Cycles, service = "up", service' = service,
         \A d \in Cycles : d # c => worker'[d].at = worker[d].at,
         worker[c].at \in Gone \cup Begun => worker'[c].at \in Gone \cup Begun \/ MutexIsFree,
         ReportTypes', \A d \in Cycles : Fits(d)', \A d \in Cycles : ResumptionFollows(d)'
  PROVE  ReportsInv'
<1>1. OneAtATime'
  BY DEF ReportsInv, OneAtATime, MutexIsFree, Begun
<1>2. StartFollows'
  BY DEF StartFollows
<1> QED BY <1>1, <1>2 DEF ReportsInv

\* The cycle goes on to another place.
LEMMA WorkerMoves ==
  ASSUME ReportTypes, NEW c \in Cycles, NEW at \in Places, WorkerTo(c, at)
  PROVE  /\ worker' \in [Cycles -> Workers] /\ worker'[c].at = at
         /\ worker'[c].about = worker[c].about
         /\ \A d \in Cycles : d # c => worker'[d] = worker[d]
<1> DEFINE w == [worker[c] EXCEPT !.at = at]
<1>1. worker \in [Cycles -> Workers] /\ worker[c] \in Workers
  BY DEF ReportTypes
<1>2. worker' = [worker EXCEPT ![c] = w]
  BY DEF WorkerTo
<1>3. w \in Workers /\ w.at = at /\ w.about = worker[c].about
  BY <1>1 DEF Workers
<1> HIDE DEF w
<1> QED BY <1>1, <1>2, <1>3

LEMMA WorkerErrs ==
  ASSUME ReportTypes, NEW c \in Cycles, Errs(c)
  PROVE  /\ worker' \in [Cycles -> Workers] /\ worker'[c].at = "completing"
         /\ \A d \in Cycles : d # c => worker'[d] = worker[d]
<1> DEFINE w == [worker[c] EXCEPT !.at = "completing", !.failed = TRUE]
<1>1. worker \in [Cycles -> Workers] /\ worker[c] \in Workers
  BY DEF ReportTypes
<1>2. worker' = [worker EXCEPT ![c] = w]
  BY DEF Errs
<1>3. w \in Workers /\ w.at = "completing"
  BY <1>1 DEF Workers, Places
<1> HIDE DEF w
<1> QED BY <1>1, <1>2, <1>3

LEMMA MishapsCount ==
  ASSUME ReportTypes, Trouble \/ NoTrouble
  PROVE  mishaps' \in Nat
BY DEF ReportTypes, Trouble, NoTrouble

-----------------------------------------------------------------------------
(* Steps of a cycle before its plan *)

\* A cycle begins or knows its cohort: its row is open.
LEMMA OpenRow ==
  ASSUME ReportTypes, NEW c \in Cycles, row[c].planned = Unplanned,
         \/ row' = [row EXCEPT ![c].status = "running"]
         \/ row' = [row EXCEPT ![c].cohort = TRUE] /\ row[c].status = "running"
         \/ row' = [row EXCEPT ![c].status = "failed", ![c].error = TRUE]
         \/ row' = row
  PROVE  /\ row' \in [Cycles -> Rows] /\ row'[c].planned = Unplanned /\ row'[c].counts = row[c].counts
         /\ \A d \in Cycles : d # c => row'[d] = row[d]
         /\ \/ row'[c].status \in {"running", "failed"} /\ (row'[c].status = "failed" => row'[c].error)
            \/ row' = row
<1>1. row \in [Cycles -> Rows] /\ row[c] \in Rows
  BY DEF ReportTypes
<1>2. CASE row' = [row EXCEPT ![c].status = "running"]
  <2> DEFINE r == [row[c] EXCEPT !.status = "running"]
  <2>1. r \in Rows /\ r.status = "running" /\ r.planned = Unplanned /\ r.counts = row[c].counts
    BY <1>1 DEF Rows, Statuses
  <2>2. row' = [row EXCEPT ![c] = r]
    BY <1>2
  <2> HIDE DEF r
  <2> QED BY <1>1, <2>1, <2>2
<1>3. CASE row' = [row EXCEPT ![c].cohort = TRUE] /\ row[c].status = "running"
  <2> DEFINE r == [row[c] EXCEPT !.cohort = TRUE]
  <2>1. r \in Rows /\ r.status = "running" /\ r.planned = Unplanned /\ r.counts = row[c].counts
    BY <1>1, <1>3 DEF Rows, Statuses
  <2>2. row' = [row EXCEPT ![c] = r]
    BY <1>3
  <2> HIDE DEF r
  <2> QED BY <1>1, <2>1, <2>2
<1>4. CASE row' = [row EXCEPT ![c].status = "failed", ![c].error = TRUE]
  <2> DEFINE r == [row[c] EXCEPT !.status = "failed", !.error = TRUE]
  <2>1. r \in Rows /\ r.status = "failed" /\ r.error /\ r.planned = Unplanned /\ r.counts = row[c].counts
    BY <1>1 DEF Rows, Statuses, Terminal
  <2>2. row' = [row EXCEPT ![c] = r]
    BY <1>4
  <2> HIDE DEF r
  <2> QED BY <1>1, <2>1, <2>2
<1>5. CASE row' = row
  BY <1>1, <1>5
<1> QED BY <1>2, <1>3, <1>4, <1>5

LEMMA BeginningKeeps ==
  ASSUME ReportsInv, NEW c \in Cycles, InsertCycle(c) \/ KnowCohort(c)
  PROVE  ReportsInv'
<1>1. /\ service = "up" /\ service' = service /\ child' = child /\ mishaps' = mishaps
      /\ worker[c].at \in {"new", "measuring"}
  BY DEF InsertCycle, KnowCohort, WorkerAt
<1>2. /\ ReportTypes /\ Fits(c) /\ row[c].planned = Unplanned /\ row[c].counts = NoCounts /\ child[c] = << >>
      /\ worker[c].at = "measuring" => row[c].status = "running"
  BY <1>1 DEF ReportsInv, Fits, CycleFollows, Unplanning, Begun, Gone
<1>3. /\ worker' \in [Cycles -> Workers] /\ worker'[c].at \in {"measuring", "queued"}
      /\ \A d \in Cycles : d # c => worker'[d] = worker[d]
  BY <1>2, WorkerMoves DEF InsertCycle, KnowCohort, Places, Unplanning, Begun
<1>4. /\ row' \in [Cycles -> Rows] /\ row'[c].planned = Unplanned /\ row'[c].status = "running" /\ row'[c].counts = NoCounts
      /\ \A d \in Cycles : d # c => row'[d] = row[d]
  <2>1. CASE InsertCycle(c)
    <3>1. row'[c].status = "running"
      BY <2>1 DEF InsertCycle, ReportTypes, ReportsInv, Rows
    <3> QED BY <1>2, <2>1, <3>1, OpenRow DEF InsertCycle
  <2>2. CASE KnowCohort(c)
    <3>1. row[c].status = "running"
      BY <1>2, <2>2 DEF KnowCohort, WorkerAt
    <3>2. row'[c].status = "running"
      BY <2>2, <3>1 DEF KnowCohort, ReportTypes, ReportsInv, Rows
    <3> QED BY <1>2, <2>2, <3>1, <3>2, OpenRow DEF KnowCohort
  <2> QED BY <2>1, <2>2
<1>5. ReportTypes'
  BY <1>1, <1>2, <1>3, <1>4 DEF ReportTypes
<1>6. ASSUME NEW d \in Cycles PROVE Fits(d)'
  <2>1. CASE d = c
    BY <1>1, <1>2, <1>3, <1>4, <2>1, BegunFits DEF Unplanning, Begun
  <2>2. CASE d # c
    BY <1>1, <1>3, <1>4, <2>2, OtherFits DEF ReportsInv
  <2> QED BY <2>1, <2>2
<1>7. ASSUME NEW d \in Cycles PROVE ResumptionFollows(d)'
  <2>1. CASE d = c
    BY <1>3, <2>1 DEF ResumptionFollows
  <2>2. CASE d # c
    <3>1. ResumptionFollows(d) /\ worker'[d] = worker[d]
      BY <1>3, <2>2 DEF ReportsInv
    <3>2. ASSUME NEW e \in Cycles, IsDue(e)' PROVE IsDue(e) /\ row'[e] = row[e]
      <4>1. e # c
        BY <1>3, <3>2 DEF IsDue
      <4> QED BY <1>1, <1>3, <1>4, <3>2, <4>1 DEF IsDue
    <3>3. worker[d].at = "reporting" => worker'[worker[d].about] = worker[worker[d].about]
      <4>1. worker[d].about \in Cycles
        BY <1>2 DEF ReportTypes, Workers
      <4> QED BY <1>1, <1>3, <3>1, <4>1 DEF ResumptionFollows
    <3> QED BY <1>1, <1>4, <3>1, <3>2, <3>3 DEF ResumptionFollows
  <2> QED BY <2>1, <2>2
<1> QED BY <1>1, <1>3, <1>5, <1>6, <1>7, CycleKeeps DEF Begun

\* No cycle resumes after a step of one that is over, works or ends.
LEMMA OthersDoNotResume ==
  ASSUME ReportsInv, NEW c \in Cycles, worker[c].at \notin Gone \cup Begun,
         worker'[c].at \notin {"resuming", "reporting"}, \A d \in Cycles : d # c => worker'[d].at = worker[d].at
  PROVE  \A d \in Cycles : ResumptionFollows(d)'
<1>1. \A d \in Cycles : worker'[d].at \notin {"resuming", "reporting"}
  BY OthersRest DEF ReportsInv, Gone, Begun
<1> QED BY <1>1, NoneResumes

\* The cohort cannot be measured: the cycle says that it failed, or cannot.
LEMMA CohortFailsKeeps ==
  ASSUME ReportsInv, NEW c \in Cycles, CohortFails(c)
  PROVE  ReportsInv'
<1>1. /\ service = "up" /\ service' = service /\ child' = child /\ mishaps' \in Nat /\ worker[c].at = "measuring"
  BY MishapsCount DEF CohortFails, WorkerAt, ReportsInv
<1>2. /\ ReportTypes /\ Fits(c) /\ row[c].planned = Unplanned /\ row[c].counts = NoCounts /\ child[c] = << >>
      /\ row[c].status = "running"
  BY <1>1 DEF ReportsInv, Fits, CycleFollows, Unplanning, Begun, Gone
<1>3. /\ worker' \in [Cycles -> Workers] /\ worker'[c].at = "over"
      /\ \A d \in Cycles : d # c => worker'[d] = worker[d]
  BY <1>2, WorkerMoves DEF CohortFails, Places, Gone
<1>4. /\ row' \in [Cycles -> Rows] /\ row'[c].planned = Unplanned /\ row'[c].counts = NoCounts
      /\ \A d \in Cycles : d # c => row'[d] = row[d]
      /\ \/ row'[c].status = "failed" /\ row'[c].error
         \/ row'[c].status = "running"
  <2>1. CASE row' = row
    BY <1>2, <2>1 DEF ReportTypes
  <2>2. CASE row' = [row EXCEPT ![c].status = "failed", ![c].error = TRUE]
    <3>1. row'[c].status = "failed"
      BY <1>2, <2>2 DEF ReportTypes, Rows
    <3> QED BY <1>2, <2>2, <3>1, OpenRow
  <2> QED BY <2>1, <2>2 DEF CohortFails
<1>5. ReportTypes'
  BY <1>1, <1>2, <1>3, <1>4 DEF ReportTypes
<1>6. ASSUME NEW d \in Cycles PROVE Fits(d)'
  <2>1. CASE d = c
    <3>1. child'[c] = << >> /\ DOMAIN << >> = {} /\ Len(<< >>) = 0
      BY <1>1, <1>2
    <3>2. Counts(<< >>) = NoCounts
      <4>1. \A status \in Statuses : Cardinality({n \in DOMAIN << >> : << >>[n].status = status}) = 0
        BY FS_EmptySet
      <4> QED BY <4>1 DEF Counts, NoCounts, Statuses
    <3>3. WrittenIsTrue(c)'
      BY <1>4, <3>1, <3>2 DEF WrittenIsTrue, TrueOf, Terminal
    <3> QED BY <1>3, <1>4, <2>1, <3>1, <3>3
         DEF Fits, CycleFollows, OpenIsKept, OnlyLastIsOpen, Gone, Unplanning, Begun, Resuming
  <2>2. CASE d # c
    BY <1>1, <1>3, <1>4, <2>2, OtherFits DEF ReportsInv
  <2> QED BY <2>1, <2>2
<1>7. ASSUME NEW d \in Cycles PROVE ResumptionFollows(d)'
  <2>1. CASE d = c
    BY <1>3, <2>1 DEF ResumptionFollows
  <2>2. CASE d # c
    <3>1. ResumptionFollows(d) /\ worker'[d] = worker[d]
      BY <1>3, <2>2 DEF ReportsInv
    <3>2. ASSUME NEW e \in Cycles, IsDue(e)' PROVE IsDue(e) /\ row'[e] = row[e]
      <4>1. Len(child[c]) = 0
        BY <1>2
      <4>2. e # c
        BY <1>1, <1>4, <3>2, <4>1 DEF IsDue, Unplanned
      <4> QED BY <1>1, <1>3, <1>4, <3>2, <4>2 DEF IsDue
    <3>3. worker[d].at = "reporting" => worker'[worker[d].about] = worker[worker[d].about]
      <4>1. worker[d].about \in Cycles
        BY <1>2 DEF ReportTypes, Workers
      <4> QED BY <1>1, <1>3, <3>1, <4>1 DEF ResumptionFollows
    <3> QED BY <1>1, <1>4, <3>1, <3>2, <3>3 DEF ResumptionFollows
  <2> QED BY <2>1, <2>2
<1> QED BY <1>1, <1>3, <1>5, <1>6, <1>7, CycleKeeps DEF Gone

-----------------------------------------------------------------------------
(* Steps of a resumption *)

\* The cycle begins to resume what is left of earlier ones.
LEMMA ResumeKeeps ==
  ASSUME ReportsInv, NEW c \in Cycles, Resume(c)
  PROVE  ReportsInv'
<1>1. /\ service = "up" /\ service' = service /\ child' = child /\ row' = row /\ mishaps' = mishaps
      /\ worker[c].at = "queued" /\ MutexIsFree /\ ReportTypes
  BY DEF Resume, WorkerAt, ReportsInv
<1>2. /\ worker' \in [Cycles -> Workers] /\ worker'[c].at = "rediscovering"
      /\ \A d \in Cycles : d # c => worker'[d] = worker[d]
  BY <1>1, WorkerMoves DEF Resume, Places, Unplanning, Resuming
<1>3. ReportTypes'
  BY <1>1, <1>2 DEF ReportTypes
<1>4. ASSUME NEW d \in Cycles PROVE Fits(d)'
  <2>1. CASE d = c
    <3>1. child[c] = << >> /\ row[c].planned = Unplanned /\ row[c].counts = NoCounts /\ row[c].status = "running"
      BY <1>1 DEF ReportsInv, Fits, CycleFollows, Unplanning, Begun, Gone
    <3> QED BY <1>1, <1>2, <2>1, <3>1, BegunFits DEF Unplanning, Resuming
  <2>2. CASE d # c
    BY <1>1, <1>2, <2>2, OtherFits DEF ReportsInv
  <2> QED BY <2>1, <2>2
<1>5. \A d \in Cycles : ResumptionFollows(d)'
  <2>1. \A d \in Cycles : worker'[d].at \notin {"resuming", "reporting"}
    BY <1>1, <1>2 DEF MutexIsFree, Gone
  <2> QED BY <2>1, NoneResumes
<1> QED BY <1>1, <1>2, <1>3, <1>4, <1>5, CycleKeeps

\* A step fails: the cycle goes to its end.
LEMMA ErrorKeeps ==
  ASSUME ReportsInv, NEW c \in Cycles, service = "up",
         worker[c].at \in Resuming \cup {"planning", "working", "operating", "completing"},
         Errs(c) \/ WorkerTo(c, "over"), Trouble, UNCHANGED <<row, child, service>>
  PROVE  ReportsInv'
<1>1. /\ service' = service /\ child' = child /\ row' = row /\ ReportTypes /\ mishaps' \in Nat
      /\ worker[c].at \notin Gone \cup Begun
  BY MishapsCount DEF ReportsInv, Gone, Begun, Resuming
<1>2. /\ worker' \in [Cycles -> Workers] /\ worker'[c].at \in {"completing", "over"}
      /\ \A d \in Cycles : d # c => worker'[d] = worker[d]
  BY <1>1, WorkerMoves, WorkerErrs DEF Places, Gone
<1>3. ReportTypes'
  BY <1>1, <1>2 DEF ReportTypes
<1>4. ASSUME NEW d \in Cycles PROVE Fits(d)'
  <2>1. CASE d = c
    BY <1>1, <1>2, <2>1, EndingFits DEF ReportsInv, Gone
  <2>2. CASE d # c
    BY <1>1, <1>2, <2>2, OtherFits DEF ReportsInv
  <2> QED BY <2>1, <2>2
<1>5. \A d \in Cycles : ResumptionFollows(d)'
  BY <1>1, <1>2, OthersDoNotResume
<1> QED BY <1>1, <1>2, <1>3, <1>4, <1>5, CycleKeeps

\* A cycle found with its operations over has none that is not, and its worker is gone.
LEMMA Rediscovered ==
  ASSUME ReportsInv, NEW d \in Cycles, Rediscoverable(d),
         \A e \in Cycles : worker[e].at \in Gone \cup Begun \cup Resuming
  PROVE  /\ row[d].status = "running" /\ worker[d].at = "over"
         /\ \A n \in DOMAIN child[d] : child[d][n].status \in Terminal
<1>1. row[d].status = "running" /\ Stored(d) = DOMAIN child[d]
  BY AllStored DEF Rediscoverable, ReportsInv, Fits
<1>2. worker[d].at = "over"
  <2>1. child[d] # << >>
    BY <1>1 DEF Rediscoverable
  <2> QED BY <2>1 DEF ReportsInv, Fits, CycleFollows, Gone, Begun, Resuming, Unplanning
<1> QED BY <1>1, <1>2 DEF Rediscoverable

\* Cycles whose deletions are over are reported, then the deletions are resumed.
LEMMA RediscoverKeeps ==
  ASSUME ReportsInv, NEW c \in Cycles, Rediscover(c)
  PROVE  ReportsInv'
<1>1. /\ service = "up" /\ service' = service /\ child' = child /\ mishaps' = mishaps /\ ReportTypes
      /\ worker[c].at = "rediscovering" /\ worker[c].at \notin Gone \cup Begun
  BY DEF Rediscover, WorkerAt, ReportsInv, Gone, Begun
<1>2. \A d \in Cycles : d # c => worker[d].at \in Gone \cup Begun
  BY <1>1, OthersRest DEF ReportsInv
<1>3. CASE \E d \in Cycles : Rediscoverable(d) /\ CompleteRecoveredCycle(d) /\ UNCHANGED worker
  <2>1. PICK d \in Cycles : Rediscoverable(d) /\ CompleteRecoveredCycle(d) /\ UNCHANGED worker
    BY <1>3
  <2>2. /\ row[d].status = "running" /\ worker[d].at = "over"
        /\ \A n \in DOMAIN child[d] : child[d][n].status \in Terminal
    BY <1>1, <1>2, <2>1, Rediscovered DEF Resuming
  <2>3. /\ row' \in [Cycles -> Rows] /\ \A e \in Cycles : e # d => row'[e] = row[e]
        /\ row'[d].planned = row[d].planned /\ row'[d].status \in Terminal /\ TrueOf(row'[d], child[d])
    BY <1>1, <2>1, <2>2, RecoveredIsTrue DEF ReportsInv, Fits
  <2>4. ReportTypes'
    BY <1>1, <2>1, <2>3 DEF ReportTypes
  <2>5. ASSUME NEW e \in Cycles PROVE Fits(e)'
    <3>1. CASE e = d
      BY <1>1, <2>1, <2>2, <2>3, <3>1, ReportFits DEF ReportsInv, Gone
    <3>2. CASE e # d
      BY <1>1, <2>1, <2>3, <3>2, OtherFits DEF ReportsInv
    <3> QED BY <3>1, <3>2
  <2>6. \A e \in Cycles : ResumptionFollows(e)'
    BY <1>1, <2>1, OthersDoNotResume
  <2> QED BY <1>1, <2>1, <2>4, <2>5, <2>6, CycleKeeps
<1>4. CASE (\A d \in Cycles : ~Rediscoverable(d)) /\ WorkerTo(c, "resuming") /\ UNCHANGED row
  <2>1. /\ worker' \in [Cycles -> Workers] /\ worker'[c].at = "resuming"
        /\ \A d \in Cycles : d # c => worker'[d] = worker[d]
    BY <1>1, <1>4, WorkerMoves DEF Places, Unplanning, Resuming
  <2>2. ReportTypes'
    BY <1>1, <1>4, <2>1 DEF ReportTypes
  <2>3. ASSUME NEW d \in Cycles PROVE Fits(d)'
    <3>1. CASE d = c
      <4>1. child[c] = << >> /\ row[c].planned = Unplanned /\ row[c].counts = NoCounts /\ row[c].status = "running"
        BY <1>1 DEF ReportsInv, Fits, CycleFollows, Unplanning, Resuming, Gone, Begun
      <4> QED BY <1>1, <1>4, <2>1, <3>1, <4>1, BegunFits DEF Unplanning, Resuming
    <3>2. CASE d # c
      BY <1>1, <1>4, <2>1, <3>2, OtherFits DEF ReportsInv
    <3> QED BY <3>1, <3>2
  <2>4. ASSUME NEW d \in Cycles, IsDue(d)' PROVE row'[d].status \in Terminal
    <3>1. worker[d].at = "over" /\ IsDue(d)
      BY <1>1, <1>4, <2>1, <2>4 DEF IsDue
    <3>2. row[d].status # "none" /\ row[d].status \in {"none"} \cup Statuses
      BY <1>1, <3>1 DEF ReportsInv, Fits, CycleFollows, ReportTypes, Rows
    <3>3. ASSUME row[d].status = "running" PROVE FALSE
      <4>1. Stored(d) = DOMAIN child[d]
        BY <3>3, AllStored DEF ReportsInv, Fits
      <4>2. Cardinality(Stored(d)) = Len(child[d])
        BY <1>1, <4>1, ChildCount
      <4> QED BY <1>4, <3>1, <3>3, <4>1, <4>2 DEF IsDue, Rediscoverable
    <3> QED BY <1>4, <3>2, <3>3 DEF Statuses
  <2>5. ASSUME NEW d \in Cycles PROVE ResumptionFollows(d)'
    <3>1. worker'[d].at # "reporting"
      BY <1>2, <2>1 DEF Gone, Begun
    <3> QED BY <2>4, <3>1 DEF ResumptionFollows
  <2> QED BY <1>1, <2>1, <2>2, <2>3, <2>5, CycleKeeps
<1> QED BY <1>3, <1>4 DEF Rediscover

\* A running deletion is the last operation of its cycle: when it has ended, all have.
LEMMA DeletionEnds ==
  ASSUME ReportsInv, NEW operation \in RunningDeletions, EndDeletion(operation)
  PROVE  \E c \in Cycles :
            /\ operation[1] = c /\ child[c] # << >>
            /\ child' \in [Cycles -> Seq(Operations)]
            /\ \A d \in Cycles : d # c => child'[d] = child[d]
            /\ \A d \in Cycles : Advance(child[d], child'[d])
            /\ \A d \in Cycles : \A n \in DOMAIN child[d] : child'[d][n].kept = child[d][n].kept
            /\ \A n \in DOMAIN child[c] : child'[c][n].status \in Terminal
            /\ child[c][operation[2]].kind = "delete" /\ operation[2] \in DOMAIN child[c]
            /\ child'[c][operation[2]].status \in {"cancelled", "completed"}
<1>1. PICK c \in Cycles : operation \in {c} \X {n \in DOMAIN child[c] : child[c][n].kind = "delete" /\ child[c][n].status = "running"}
  BY DEF RunningDeletions
<1>2. PICK status \in {"cancelled", "completed"} : child' = [child EXCEPT ![operation[1]][operation[2]].status = status]
  BY DEF EndDeletion
<1>3. PICK n \in DOMAIN child[c] : operation[1] = c /\ operation[2] = n /\ child[c][n].kind = "delete" /\ child[c][n].status = "running"
  BY <1>1
<1>4. ReportTypes /\ child' = Ended(child, c, n, status) /\ status \in Terminal
  BY <1>2, <1>3 DEF ReportsInv, Terminal, Ended
<1>5. /\ child' \in [Cycles -> Seq(Operations)]
      /\ \A d \in Cycles : Advance(child[d], child'[d])
      /\ \A d \in Cycles : \A k \in DOMAIN child[d] :
            /\ child'[d][k].kept = child[d][k].kept
            /\ child'[d][k].status = IF d = c /\ k = n THEN status ELSE child[d][k].status
  BY <1>3, <1>4, OneEnds
<1>6. \A d \in Cycles : d # c => child'[d] = child[d]
  BY <1>4 DEF ReportTypes, Ended
<1>7. DOMAIN child[c] = 1 .. Len(child[c]) /\ Len(child[c]) \in Nat /\ child[c] # << >>
  BY <1>3, <1>4, ChildType
<1>8. n = Len(child[c])
  BY <1>3, <1>7 DEF ReportsInv, Fits, OnlyLastIsOpen
<1>9. ASSUME NEW k \in DOMAIN child[c] PROVE child'[c][k].status \in Terminal
  <2>1. k = n \/ k < Len(child[c])
    BY <1>7, <1>8
  <2> QED BY <1>4, <1>5, <2>1 DEF ReportsInv, Fits, OnlyLastIsOpen, Terminal
<1> QED BY <1>3, <1>5, <1>6, <1>7, <1>9

\* The cycle that resumes has planned nothing.
LEMMA ResumingIsEmpty ==
  ASSUME ReportsInv, NEW c \in Cycles, worker[c].at \in Resuming \cup {"planning"}
  PROVE  /\ child[c] = << >> /\ row[c].planned = Unplanned /\ row[c].counts = NoCounts /\ row[c].status = "running"
         /\ worker[c].at \notin Gone \cup Begun
         /\ \A d \in Cycles : d # c => worker[d].at \in Gone \cup Begun
<1>1. worker[c].at \notin Gone \cup Begun /\ worker[c].at \in Unplanning
  BY DEF Resuming, Gone, Begun, Unplanning
<1> QED BY <1>1, OthersRest DEF ReportsInv, Fits, CycleFollows

\* A deletion that was left is ended, or all are and the cycle goes on to its plan.
LEMMA ResumeDeletionKeeps ==
  ASSUME ReportsInv, NEW c \in Cycles, ResumeDeletion(c)
  PROVE  ReportsInv'
<1>1. /\ service = "up" /\ service' = service /\ row' = row /\ mishaps' = mishaps /\ ReportTypes
      /\ worker[c].at = "resuming"
  BY DEF ResumeDeletion, WorkerAt, ReportsInv
<1>2. /\ child[c] = << >> /\ row[c].planned = Unplanned /\ row[c].counts = NoCounts /\ row[c].status = "running"
      /\ worker[c].at \notin Gone \cup Begun
      /\ \A d \in Cycles : d # c => worker[d].at \in Gone \cup Begun
  BY <1>1, ResumingIsEmpty DEF Resuming
<1>3. ASSUME NEW operation \in RunningDeletions, EndDeletion(operation),
             worker' = [worker EXCEPT ![c].at = "reporting", ![c].about = operation[1]]
      PROVE  ReportsInv'
  <2>1. PICK b \in Cycles :
            /\ operation[1] = b /\ child[b] # << >>
            /\ child' \in [Cycles -> Seq(Operations)]
            /\ \A d \in Cycles : d # b => child'[d] = child[d]
            /\ \A d \in Cycles : Advance(child[d], child'[d])
            /\ \A d \in Cycles : \A n \in DOMAIN child[d] : child'[d][n].kept = child[d][n].kept
            /\ \A n \in DOMAIN child[b] : child'[b][n].status \in Terminal
    BY <1>3, DeletionEnds
  <2>2. b # c
    BY <1>2, <2>1
  <2>3. worker[b].at = "over"
    BY <1>2, <2>1, <2>2 DEF ReportsInv, Fits, CycleFollows, Gone, Begun, Unplanning
  <2>4. /\ worker' \in [Cycles -> Workers] /\ worker'[c].at = "reporting" /\ worker'[c].about = b
        /\ \A d \in Cycles : d # c => worker'[d] = worker[d]
    <3> DEFINE w == [worker[c] EXCEPT !.at = "reporting", !.about = b]
    <3>1. worker \in [Cycles -> Workers] /\ worker[c] \in Workers
      BY <1>1 DEF ReportTypes
    <3>2. worker' = [worker EXCEPT ![c] = w]
      BY <1>3, <2>1
    <3>3. w \in Workers /\ w.at = "reporting" /\ w.about = b
      BY <3>1 DEF Workers, Places, Unplanning, Resuming
    <3> HIDE DEF w
    <3> QED BY <3>1, <3>2, <3>3
  <2>5. ReportTypes'
    BY <1>1, <2>1, <2>4 DEF ReportTypes
  <2>6. ASSUME NEW d \in Cycles PROVE Fits(d)'
    <3>1. CASE d = c
      <4>1. child'[c] = << >>
        BY <1>2, <2>1, <2>2
      <4> QED BY <1>1, <1>2, <2>4, <3>1, <4>1, BegunFits DEF Unplanning, Resuming
    <3>2. CASE d # c
      <4>1. Fits(d) /\ row'[d] = row[d] /\ worker'[d].at = worker[d].at /\ Advance(child[d], child'[d])
        BY <1>1, <2>1, <2>4, <3>2 DEF ReportsInv
      <4>2. Unpruned(child[d], child'[d])
        BY <2>1 DEF Unpruned
      <4>3. ReportTypes
        BY <1>1
      <4> QED BY <4>1, <4>2, <4>3, AdvancedFits
    <3> QED BY <3>1, <3>2
  <2>7. ASSUME NEW e \in Cycles PROVE ResumptionFollows(e)'
    <3>1. CASE e # c
      <4>1. worker'[e].at \notin {"resuming", "reporting"}
        BY <1>2, <2>4, <3>1 DEF Gone, Begun
      <4> QED BY <4>1 DEF ResumptionFollows
    <3>2. CASE e = c
      <4>1. ASSUME NEW d \in Cycles, IsDue(d)', d # b PROVE row'[d].status \in Terminal
        <5>1. d # c
          BY <2>4, <4>1 DEF IsDue
        <5>2. IsDue(d)
          BY <1>1, <2>1, <2>4, <4>1, <5>1 DEF IsDue
        <5> QED BY <1>1, <5>2 DEF ReportsInv, ResumptionFollows
      <4>2. DOMAIN child'[b] = DOMAIN child[b]
        BY <1>1, <2>1, ChildType, LenProperties DEF Advance
      <4> QED BY <2>1, <2>2, <2>3, <2>4, <3>2, <4>1, <4>2 DEF ResumptionFollows
    <3> QED BY <3>1, <3>2
  <2> QED BY <1>1, <1>2, <2>4, <2>5, <2>6, <2>7, CycleKeeps
<1>4. CASE RunningDeletions = {} /\ WorkerTo(c, "planning") /\ UNCHANGED child
  <2>1. /\ worker' \in [Cycles -> Workers] /\ worker'[c].at = "planning"
        /\ \A d \in Cycles : d # c => worker'[d] = worker[d]
    BY <1>1, <1>4, WorkerMoves DEF Places, Unplanning
  <2>2. ReportTypes'
    BY <1>1, <1>4, <2>1 DEF ReportTypes
  <2>3. ASSUME NEW d \in Cycles PROVE Fits(d)'
    <3>1. CASE d = c
      BY <1>1, <1>2, <1>4, <2>1, <3>1, BegunFits DEF Unplanning
    <3>2. CASE d # c
      BY <1>1, <1>4, <2>1, <3>2, OtherFits DEF ReportsInv
    <3> QED BY <3>1, <3>2
  <2>4. \A d \in Cycles : ResumptionFollows(d)'
    BY <1>2, <2>1, OthersDoNotResume
  <2> QED BY <1>1, <1>2, <2>1, <2>2, <2>3, <2>4, CycleKeeps
<1> QED BY <1>3, <1>4 DEF ResumeDeletion

\* The cycle of the deletion that was ended is reported.
LEMMA ReportResumedKeeps ==
  ASSUME ReportsInv, NEW c \in Cycles, ReportResumed(c)
  PROVE  ReportsInv'
<1>1. /\ service = "up" /\ service' = service /\ child' = child /\ mishaps' = mishaps /\ ReportTypes
      /\ worker[c].at = "reporting"
  BY DEF ReportResumed, WorkerAt, ReportsInv
<1>2. /\ child[c] = << >> /\ row[c].planned = Unplanned /\ row[c].counts = NoCounts /\ row[c].status = "running"
      /\ worker[c].at \notin Gone \cup Begun
      /\ \A d \in Cycles : d # c => worker[d].at \in Gone \cup Begun
  BY <1>1, ResumingIsEmpty DEF Resuming
<1>3. PICK b \in Cycles :
          /\ b = worker[c].about /\ worker[b].at = "over"
          /\ \A n \in DOMAIN child[b] : child[b][n].status \in Terminal
  BY <1>1 DEF ReportTypes, Workers, ReportsInv, ResumptionFollows
<1>4. b # c
  BY <1>1, <1>3
<1>5. /\ row' \in [Cycles -> Rows] /\ \A d \in Cycles : d # b => row'[d] = row[d]
      /\ row'[b].planned = row[b].planned
      /\ row[b].status # "running" => row'[b] = row[b]
      /\ row[b].status = "running" => row'[b].status \in Terminal /\ TrueOf(row'[b], child[b])
  BY <1>1, <1>3, RecoveredIsTrue DEF ReportResumed, ReportsInv, Fits
<1>6. /\ worker' \in [Cycles -> Workers] /\ worker'[c].at = "resuming"
      /\ \A d \in Cycles : d # c => worker'[d] = worker[d]
  BY <1>1, WorkerMoves DEF ReportResumed, Places, Unplanning, Resuming
<1>7. ReportTypes'
  BY <1>1, <1>5, <1>6 DEF ReportTypes
<1>8. ASSUME NEW d \in Cycles PROVE Fits(d)'
  <2>1. CASE d = c
    BY <1>1, <1>2, <1>4, <1>5, <1>6, <2>1, BegunFits DEF Unplanning, Resuming
  <2>2. CASE d = b
    BY <1>1, <1>3, <1>4, <1>5, <1>6, <2>2, ReportFits DEF ReportsInv, Gone
  <2>3. CASE d # b /\ d # c
    BY <1>1, <1>5, <1>6, <2>3, OtherFits DEF ReportsInv
  <2> QED BY <2>1, <2>2, <2>3
<1>9. ASSUME NEW d \in Cycles, IsDue(d)' PROVE row'[d].status \in Terminal
  <2>1. d # c
    BY <1>6, <1>9 DEF IsDue
  <2>2. IsDue(d)
    BY <1>1, <1>5, <1>6, <1>9, <2>1 DEF IsDue
  <2>3. CASE d # b
    BY <1>1, <1>3, <1>5, <2>2, <2>3 DEF ReportsInv, ResumptionFollows
  <2>4. CASE d = b
    <3>1. row[b].status # "none" /\ row[b].status \in {"none"} \cup Statuses
      BY <1>1, <1>3 DEF ReportsInv, Fits, CycleFollows, ReportTypes, Rows
    <3> QED BY <1>5, <2>4, <3>1 DEF Statuses
  <2> QED BY <2>3, <2>4
<1>10. ASSUME NEW d \in Cycles PROVE ResumptionFollows(d)'
  <2>1. worker'[d].at # "reporting"
    BY <1>2, <1>6 DEF Gone, Begun
  <2> QED BY <1>9, <2>1 DEF ResumptionFollows
<1> QED BY <1>1, <1>2, <1>6, <1>7, <1>8, <1>10, CycleKeeps

-----------------------------------------------------------------------------
(* Steps of a cycle that plans and works *)

\* The plan is written down before the first operation.
LEMMA PlanKeeps ==
  ASSUME ReportsInv, NEW c \in Cycles, MarkRetentionCyclePlanned(c)
  PROVE  ReportsInv'
<1>1. /\ service = "up" /\ service' = service /\ child' = child /\ mishaps' = mishaps /\ ReportTypes
      /\ worker[c].at = "planning"
  BY DEF MarkRetentionCyclePlanned, WorkerAt, ReportsInv
<1>2. /\ child[c] = << >> /\ row[c].status = "running" /\ worker[c].at \notin Gone \cup Begun
  BY <1>1, ResumingIsEmpty
<1>3. PICK archives \in 0 .. MaxChildren, deletions \in 0 .. MaxChildren :
          /\ row' = [row EXCEPT ![c].planned = archives + deletions]
          /\ worker' = [worker EXCEPT ![c].at = "working", ![c].archives = archives, ![c].deletions = deletions]
  BY DEF MarkRetentionCyclePlanned
<1>4. /\ row' \in [Cycles -> Rows] /\ row'[c].status = "running"
      /\ \A d \in Cycles : d # c => row'[d] = row[d]
  <2> DEFINE sum == archives + deletions
             r == [row[c] EXCEPT !.planned = sum]
  <2>0. sum \in Int
    BY ReportsAssumption
  <2>1. row \in [Cycles -> Rows] /\ row[c] \in Rows
    BY <1>1 DEF ReportTypes
  <2>2. r \in Rows /\ r.status = "running"
    <3> HIDE DEF sum
    <3> QED BY <1>2, <2>0, <2>1 DEF Rows
  <2>3. row' = [row EXCEPT ![c] = r]
    BY <1>3
  <2> HIDE DEF r
  <2> QED BY <2>1, <2>2, <2>3
<1>5. /\ worker' \in [Cycles -> Workers] /\ worker'[c].at = "working"
      /\ \A d \in Cycles : d # c => worker'[d] = worker[d]
  <2> DEFINE w == [worker[c] EXCEPT !.at = "working", !.archives = archives, !.deletions = deletions]
  <2>1. worker \in [Cycles -> Workers] /\ worker[c] \in Workers
    BY <1>1 DEF ReportTypes
  <2>0. archives \in Nat /\ deletions \in Nat
    BY ReportsAssumption
  <2>2. w \in Workers /\ w.at = "working"
    BY <2>0, <2>1 DEF Workers, Places
  <2>3. worker' = [worker EXCEPT ![c] = w]
    BY <1>3
  <2> HIDE DEF w
  <2> QED BY <2>1, <2>2, <2>3
<1>6. ReportTypes'
  BY <1>1, <1>4, <1>5 DEF ReportTypes
<1>7. ASSUME NEW d \in Cycles PROVE Fits(d)'
  <2>1. CASE d = c
    <3>1. DOMAIN child'[c] = {}
      BY <1>1, <1>2
    <3> QED BY <1>4, <1>5, <2>1, <3>1
         DEF Fits, CycleFollows, OpenIsKept, OnlyLastIsOpen, WrittenIsTrue, Gone, Unplanning, Begun, Resuming, Terminal
  <2>2. CASE d # c
    BY <1>1, <1>4, <1>5, <2>2, OtherFits DEF ReportsInv
  <2> QED BY <2>1, <2>2
<1>8. \A d \in Cycles : ResumptionFollows(d)'
  BY <1>2, <1>5, OthersDoNotResume
<1> QED BY <1>1, <1>2, <1>5, <1>6, <1>7, <1>8, CycleKeeps

\* The next operation is claimed.
LEMMA ClaimKeeps ==
  ASSUME ReportsInv, NEW c \in Cycles, ClaimChild(c)
  PROVE  ReportsInv'
<1>1. /\ service = "up" /\ service' = service /\ row' = row /\ ReportTypes /\ worker[c].at = "working"
      /\ worker[c].at \notin Gone \cup Begun /\ worker[c].archives + worker[c].deletions > 0
  BY DEF ClaimChild, WorkerAt, ReportsInv, Gone, Begun
<1>2. CASE Trouble /\ Errs(c) /\ UNCHANGED child
  BY <1>1, <1>2, ErrorKeeps
<1>3. ASSUME NoTrouble, NEW o, o = [kind |-> IF worker[c].archives > 0 THEN "archive" ELSE "delete", status |-> "running", kept |-> TRUE],
             child' = [child EXCEPT ![c] = Append(@, o)],
             worker' = [worker EXCEPT ![c].at = "operating",
                                      ![c].archives = IF @ > 0 THEN @ - 1 ELSE @,
                                      ![c].deletions = IF worker[c].archives > 0 THEN @ ELSE @ - 1]
      PROVE  ReportsInv'
  <2>1. o \in Operations /\ o.kept /\ o.status = "running"
    <3>1. (IF worker[c].archives > 0 THEN "archive" ELSE "delete") \in {"archive", "delete"}
      OBVIOUS
    <3> QED BY <1>3, <3>1 DEF Operations, Statuses
  <2>2. /\ child \in [Cycles -> Seq(Operations)] /\ child[c] \in Seq(Operations) /\ Len(child[c]) \in Nat
        /\ DOMAIN child[c] = 1 .. Len(child[c])
    BY <1>1, ChildType DEF ReportTypes
  <2>3. /\ child'[c] = Append(child[c], o) /\ \A d \in Cycles : d # c => child'[d] = child[d]
    BY <1>3, <2>2
  <2>4. /\ child'[c] \in Seq(Operations) /\ Len(child'[c]) = Len(child[c]) + 1
        /\ DOMAIN child'[c] = 1 .. Len(child[c]) + 1
        /\ \A n \in 1 .. Len(child[c]) : child'[c][n] = child[c][n]
        /\ child'[c][Len(child[c]) + 1] = o
    BY <2>1, <2>2, <2>3
  <2>5. child' \in [Cycles -> Seq(Operations)]
    BY <1>3, <2>2, <2>3, <2>4
  <2>6. /\ worker' \in [Cycles -> Workers] /\ worker'[c].at = "operating"
        /\ \A d \in Cycles : d # c => worker'[d] = worker[d]
    <3> DEFINE a == IF worker[c].archives > 0 THEN worker[c].archives - 1 ELSE worker[c].archives
               b == IF worker[c].archives > 0 THEN worker[c].deletions ELSE worker[c].deletions - 1
               w == [worker[c] EXCEPT !.at = "operating", !.archives = a, !.deletions = b]
    <3>1. worker \in [Cycles -> Workers] /\ worker[c] \in Workers
      BY <1>1 DEF ReportTypes
    <3>2. a \in Nat /\ b \in Nat
      BY <1>1, <3>1 DEF Workers
    <3>3. worker' = [worker EXCEPT ![c] = w]
      BY <1>3
    <3> HIDE DEF a, b
    <3>4. w \in Workers /\ w.at = "operating"
      BY <3>1, <3>2 DEF Workers, Places
    <3> HIDE DEF w
    <3> QED BY <3>1, <3>3, <3>4
  <2>7. ReportTypes'
    BY <1>1, <1>3, <2>5, <2>6 DEF ReportTypes, NoTrouble
  <2>8. ASSUME NEW d \in Cycles PROVE Fits(d)'
    <3>1. CASE d = c
      <4>1. row[c].status = "running"
        BY <1>1 DEF ReportsInv, Fits, CycleFollows
      <4>2. CycleFollows(c)'
        BY <1>1, <2>2, <2>4, <2>6, <4>1 DEF CycleFollows, Gone, Unplanning, Begun, Resuming
      <4>3. OpenIsKept(c)'
        <5>1. \A n \in 1 .. Len(child[c]) + 1 : n \in 1 .. Len(child[c]) \/ n = Len(child[c]) + 1
          BY <2>2
        <5> QED BY <2>1, <2>2, <2>4, <4>1, <5>1 DEF ReportsInv, Fits, OpenIsKept
      <4>4. OnlyLastIsOpen(c)'
        <5>1. \A n \in 1 .. Len(child[c]) : child[c][n].status \in {"completed", "cancelled"}
          BY <1>1, <2>2 DEF ReportsInv, Fits, OnlyLastIsOpen
        <5>2. \A n \in 1 .. Len(child[c]) + 1 : n < Len(child[c]) + 1 => n \in 1 .. Len(child[c])
          BY <2>2
        <5> QED BY <2>4, <2>6, <5>1, <5>2 DEF OnlyLastIsOpen
      <4>5. WrittenIsTrue(c)'
        BY <1>1, <4>1 DEF WrittenIsTrue, Terminal
      <4> QED BY <3>1, <4>2, <4>3, <4>4, <4>5 DEF Fits
    <3>2. CASE d # c
      BY <1>1, <2>3, <2>6, <3>2, OtherFits DEF ReportsInv
    <3> QED BY <3>1, <3>2
  <2>9. \A d \in Cycles : ResumptionFollows(d)'
    BY <1>1, <2>6, OthersDoNotResume
  <2> QED BY <1>1, <2>6, <2>7, <2>8, <2>9, CycleKeeps
<1> QED BY <1>2, <1>3 DEF ClaimChild

\* The operation of a cycle ends, and terminal ones are pruned.
LEMMA LastAdvances ==
  ASSUME ReportsInv, NEW c \in Cycles, worker[c].at = "operating", row' = row,
         child[c][LastChild(c)].status = "running", NEW status \in Terminal, LastEnds(c, status)
  PROVE  /\ child' \in [Cycles -> Seq(Operations)]
         /\ \A d \in Cycles : Advance(child[d], child'[d]) /\ (row[d].status = "running" => Unpruned(child[d], child'[d]))
         /\ child'[c][Len(child[c])].status = status
<1> DEFINE ended == Ended(child, c, LastChild(c), status)
<1>1. ReportTypes /\ LastChild(c) = Len(child[c]) /\ LastChild(c) \in DOMAIN child[c]
  BY ChildType DEF ReportsInv, Fits, CycleFollows, LastChild
<1>2. /\ ended \in [Cycles -> Seq(Operations)]
      /\ \A d \in Cycles : Advance(child[d], ended[d])
      /\ \A d \in Cycles : \A k \in DOMAIN child[d] :
            /\ ended[d][k].kept = child[d][k].kept
            /\ ended[d][k].status = IF d = c /\ k = LastChild(c) THEN status ELSE child[d][k].status
  BY <1>1, OneEnds
<1>3. child' = PruneTerminalOperations(ended, row)
  BY DEF LastEnds, Ended
<1> HIDE DEF ended
<1>4. /\ child' \in [Cycles -> Seq(Operations)]
      /\ \A d \in Cycles : Advance(ended[d], child'[d])
      /\ \A d \in Cycles : \A n \in DOMAIN ended[d] :
            /\ child'[d][n].status = ended[d][n].status
            /\ row[d].status = "running" => child'[d][n].kept = ended[d][n].kept
  BY <1>2, <1>3, PruneKeeps
<1>5. ASSUME NEW d \in Cycles
      PROVE  Advance(child[d], child'[d]) /\ (row[d].status = "running" => Unpruned(child[d], child'[d]))
  <2>1. /\ DOMAIN child[d] = 1 .. Len(child[d]) /\ Len(ended[d]) = Len(child[d]) /\ DOMAIN ended[d] = 1 .. Len(child[d])
        /\ Len(child'[d]) = Len(child[d])
    BY <1>1, <1>2, <1>4, ChildType, LenProperties DEF Advance
  <2>2. Advance(child[d], child'[d])
    BY <1>2, <1>4, <2>1 DEF Advance
  <2>3. row[d].status = "running" => Unpruned(child[d], child'[d])
    BY <1>2, <1>4, <2>1 DEF Unpruned
  <2> QED BY <2>2, <2>3
<1>6. child'[c][Len(child[c])].status = status
  <2>1. LastChild(c) \in DOMAIN ended[c]
    BY <1>1, <1>2, LenProperties, ChildType DEF Advance
  <2> QED BY <1>1, <1>2, <1>4, <2>1
<1> QED BY <1>4, <1>5, <1>6

\* The operation completes, or turns out to have been cancelled by a restore.
LEMMA ChildCompletesKeeps ==
  ASSUME ReportsInv, NEW c \in Cycles, ChildCompletes(c)
  PROVE  ReportsInv'
<1>1. /\ service = "up" /\ service' = service /\ row' = row /\ mishaps' = mishaps /\ ReportTypes
      /\ worker[c].at = "operating" /\ worker[c].at \notin Gone \cup Begun
  BY DEF ChildCompletes, WorkerAt, ReportsInv, Gone, Begun
<1>2. /\ worker' \in [Cycles -> Workers] /\ worker'[c].at = "working"
      /\ \A d \in Cycles : d # c => worker'[d] = worker[d]
  BY <1>1, WorkerMoves DEF ChildCompletes, Places
<1>3. /\ child' \in [Cycles -> Seq(Operations)]
      /\ \A d \in Cycles : Advance(child[d], child'[d]) /\ (row[d].status = "running" => Unpruned(child[d], child'[d]))
      /\ child'[c][Len(child[c])].status \in {"completed", "cancelled"}
  <2>1. CASE child[c][LastChild(c)].status = "running" /\ LastEnds(c, "completed")
    BY <1>1, <2>1, LastAdvances DEF Terminal
  <2>2. CASE child[c][LastChild(c)].status = "cancelled" /\ UNCHANGED child
    BY <1>1, <2>2, ChildType DEF Advance, Unpruned, LastChild, ReportTypes
  <2> QED BY <2>1, <2>2 DEF ChildCompletes
<1>4. ReportTypes'
  BY <1>1, <1>2, <1>3 DEF ReportTypes
<1>5. ASSUME NEW d \in Cycles PROVE Fits(d)'
  <2>1. CASE d = c
    BY <1>1, <1>2, <1>3, <2>1, AdvancedFits DEF ReportsInv
  <2>2. CASE d # c
    BY <1>1, <1>2, <1>3, <2>2, AdvancedFits DEF ReportsInv
  <2> QED BY <2>1, <2>2
<1>6. \A d \in Cycles : ResumptionFollows(d)'
  BY <1>1, <1>2, OthersDoNotResume
<1> QED BY <1>1, <1>2, <1>4, <1>5, <1>6, CycleKeeps

\* The operation fails: the cycle goes to its end, and the failure may be written or not.
LEMMA ChildFailsKeeps ==
  ASSUME ReportsInv, NEW c \in Cycles, ChildFails(c)
  PROVE  ReportsInv'
<1>1. /\ service = "up" /\ service' = service /\ row' = row /\ mishaps' \in Nat /\ ReportTypes
      /\ worker[c].at = "operating" /\ worker[c].at \notin Gone \cup Begun /\ Errs(c)
  BY MishapsCount DEF ChildFails, WorkerAt, ReportsInv, Gone, Begun
<1>2. CASE UNCHANGED child
  BY <1>1, <1>2, ErrorKeeps DEF ChildFails
<1>3. ASSUME NEW status \in Terminal, child[c][LastChild(c)].status = "running", LastEnds(c, status)
      PROVE  ReportsInv'
  <2>1. /\ worker' \in [Cycles -> Workers] /\ worker'[c].at = "completing"
        /\ \A d \in Cycles : d # c => worker'[d] = worker[d]
    BY <1>1, WorkerErrs
  <2>2. /\ child' \in [Cycles -> Seq(Operations)]
        /\ \A d \in Cycles : Advance(child[d], child'[d]) /\ (row[d].status = "running" => Unpruned(child[d], child'[d]))
    BY <1>1, <1>3, LastAdvances
  <2>3. ReportTypes'
    BY <1>1, <2>1, <2>2 DEF ReportTypes
  <2>4. ASSUME NEW d \in Cycles PROVE Fits(d)'
    <3>1. CASE d = c
      BY <1>1, <2>1, <2>2, <3>1, AdvancedFits DEF ReportsInv
    <3>2. CASE d # c
      BY <1>1, <2>1, <2>2, <3>2, AdvancedFits DEF ReportsInv
    <3> QED BY <3>1, <3>2
  <2>5. \A d \in Cycles : ResumptionFollows(d)'
    BY <1>1, <2>1, OthersDoNotResume
  <2> QED BY <1>1, <2>1, <2>3, <2>4, <2>5, CycleKeeps
<1> QED BY <1>2, <1>3 DEF ChildFails, Terminal

\* A restore ends a deletion that yielded to it or was left.
LEMMA RestoreKeeps ==
  ASSUME ReportsInv, RestoreEndsDeletion
  PROVE  ReportsInv'
<1>1. /\ service = "up" /\ service' = service /\ row' = row /\ worker' = worker /\ mishaps' = mishaps
      /\ ReportTypes /\ GateIsOpen
  BY DEF RestoreEndsDeletion, ReportsInv
<1>2. PICK operation \in RunningDeletions : EndDeletion(operation)
  BY DEF RestoreEndsDeletion
<1>3. PICK c \in Cycles :
          /\ child' \in [Cycles -> Seq(Operations)]
          /\ \A d \in Cycles : Advance(child[d], child'[d])
          /\ \A d \in Cycles : \A n \in DOMAIN child[d] : child'[d][n].kept = child[d][n].kept
  BY <1>2, DeletionEnds
<1>4. ReportTypes'
  BY <1>1, <1>3 DEF ReportTypes
<1>5. ASSUME NEW d \in Cycles PROVE Fits(d)'
  <2>1. Unpruned(child[d], child'[d])
    BY <1>3 DEF Unpruned
  <2> QED BY <1>1, <1>3, <2>1, AdvancedFits DEF ReportsInv
<1>6. \A d \in Cycles : ResumptionFollows(d)'
  <2>1. \A d \in Cycles : worker'[d].at \notin {"resuming", "reporting"}
    BY <1>1 DEF GateIsOpen
  <2> QED BY <2>1, NoneResumes
<1> QED BY <1>1, <1>4, <1>5, <1>6, CycleKeeps

\* The cycle writes its report, or leaves its row open when an operation still runs.
LEMMA CompletionKeeps ==
  ASSUME ReportsInv, NEW c \in Cycles, CompleteRetentionCycle(c)
  PROVE  ReportsInv'
<1> DEFINE failed == worker[c].failed \/ row[c].planned # Cardinality(Stored(c))
           aggregate == AggregateCycle(c)
           reported == IF aggregate = "running" THEN [row EXCEPT ![c].error = @ \/ failed]
                       ELSE Reported(c, IF failed THEN "failed" ELSE aggregate, failed \/ aggregate = "failed")
<1>1. /\ service = "up" /\ service' = service /\ mishaps' = mishaps /\ ReportTypes
      /\ worker[c].at \in {"completing", "working"} /\ worker[c].at \notin Gone \cup Begun
      /\ WorkerTo(c, "over") /\ row' = reported
      /\ child' = IF aggregate = "running" THEN child ELSE PruneTerminalOperations(child, reported)
  BY DEF CompleteRetentionCycle, ReportsInv, Gone, Begun
<1>2. /\ worker' \in [Cycles -> Workers] /\ worker'[c].at = "over"
      /\ \A d \in Cycles : d # c => worker'[d] = worker[d]
  BY <1>1, WorkerMoves DEF Places, Gone
<1>3. row[c].status = "running" /\ Fits(c)
  BY <1>1 DEF ReportsInv, Fits, CycleFollows, Gone
<1>4. \A d \in Cycles : ResumptionFollows(d)'
  BY <1>1, <1>2, OthersDoNotResume
<1>5. CASE aggregate = "running"
  <2>1. child' = child /\ row' = [row EXCEPT ![c].error = @ \/ failed]
    BY <1>1, <1>5
  <2>2. PICK e \in BOOLEAN : row' = [row EXCEPT ![c].error = e]
    <3>1. (row[c].error \/ failed) \in BOOLEAN
      OBVIOUS
    <3> QED BY <2>1, <3>1, Zenon
  <2>3. /\ row' \in [Cycles -> Rows] /\ row'[c].status = "running"
        /\ \A d \in Cycles : d # c => row'[d] = row[d]
    <3> DEFINE r == [row[c] EXCEPT !.error = e]
    <3>1. row \in [Cycles -> Rows] /\ row[c] \in Rows
      BY <1>1 DEF ReportTypes
    <3>2. r \in Rows /\ r.status = "running"
      BY <1>3, <3>1 DEF Rows
    <3>3. row' = [row EXCEPT ![c] = r]
      BY <2>2
    <3> HIDE DEF r
    <3> QED BY <3>1, <3>2, <3>3
  <2>4. ReportTypes'
    BY <1>1, <1>2, <2>1, <2>3 DEF ReportTypes
  <2>5. ASSUME NEW d \in Cycles PROVE Fits(d)'
    <3>1. CASE d = c
      BY <1>2, <1>3, <2>1, <2>3, <3>1
      DEF Fits, CycleFollows, OpenIsKept, OnlyLastIsOpen, WrittenIsTrue, Gone, Unplanning, Begun, Resuming, Terminal
    <3>2. CASE d # c
      BY <1>2, <2>1, <2>3, <3>2, OtherFits DEF ReportsInv
    <3> QED BY <3>1, <3>2
  <2> QED BY <1>1, <1>2, <1>4, <2>4, <2>5, CycleKeeps
<1>6. CASE aggregate # "running"
  <2>1. aggregate \in Terminal /\ \A n \in DOMAIN child[c] : child[c][n].status # "running"
    BY <1>1, <1>3, <1>6, FinalAggregate DEF Fits
  <2>2. PICK e \in BOOLEAN : e <=> (failed \/ aggregate = "failed")
    OBVIOUS
  <2>3. (failed \/ aggregate = "failed") = e
    BY <2>2, Zenon
  <2> DEFINE s == IF failed THEN "failed" ELSE aggregate
  <2>4. row' = Reported(c, s, e) /\ child' = PruneTerminalOperations(child, row')
    <3>1. reported = Reported(c, s, failed \/ aggregate = "failed")
      BY <1>6
    <3>2. reported = Reported(c, s, e)
      BY <2>3, <3>1
    <3> HIDE DEF failed, aggregate, s
    <3> QED BY <1>1, <1>6, <3>2
  <2>5. /\ s \in Terminal /\ (s = "failed" => e)
        /\ s # "failed" => s = AggregateCycle(c) /\ row[c].planned = Cardinality(Stored(c))
    BY <2>1, <2>2 DEF Terminal
  <2> HIDE DEF s, failed, aggregate
  <2>6. /\ row' \in [Cycles -> Rows] /\ \A d \in Cycles : d # c => row'[d] = row[d]
        /\ row'[c].status \in Terminal /\ TrueOf(row'[c], child[c])
    <3>1. ReportTypes /\ OpenIsKept(c) /\ row[c].status = "running" /\ row' = Reported(c, s, e)
      BY <1>1, <1>3, <2>4 DEF Fits
    <3>2. \A n \in DOMAIN child[c] : child[c][n].status # "running"
      BY <2>1
    <3>3. MayReport(c, s, e)
      BY <2>5, <3>1, <3>2 DEF MayReport
    <3> QED BY <2>5, <3>1, <3>3, ReportedIsTrue
  <2>7. /\ child' \in [Cycles -> Seq(Operations)]
        /\ \A d \in Cycles : Advance(child[d], child'[d])
        /\ \A d \in Cycles : row'[d].status = "running" => Unpruned(child[d], child'[d])
        /\ \A n \in DOMAIN child[c] : child'[c][n].status = child[c][n].status
    <3> DEFINE P == PruneTerminalOperations(child, row')
    <3>1. child \in [Cycles -> Seq(Operations)]
      BY <1>1 DEF ReportTypes
    <3>2. /\ P \in [Cycles -> Seq(Operations)]
          /\ \A d \in Cycles : Advance(child[d], P[d])
          /\ \A d \in Cycles : \A n \in DOMAIN child[d] :
                /\ P[d][n].status = child[d][n].status
                /\ row'[d].status = "running" => P[d][n].kept = child[d][n].kept
      BY <3>1, PruneKeeps
    <3>3. child' = P
      BY <2>4
    <3> HIDE DEF P
    <3> QED BY <3>2, <3>3 DEF Unpruned
  <2>8. ReportTypes'
    BY <1>1, <1>2, <2>6, <2>7 DEF ReportTypes
  <2>9. ASSUME NEW d \in Cycles PROVE Fits(d)'
    <3>1. CASE d = c
      <4>1. child[c] \in Seq(Operations) /\ DOMAIN child'[c] = DOMAIN child[c] /\ Len(child'[c]) = Len(child[c])
        BY <1>1, <2>7, ChildType, LenProperties DEF Advance
      <4>2. CycleFollows(c)'
        BY <1>2, <2>6 DEF CycleFollows, Gone, Unplanning, Begun, Resuming, Terminal
      <4>3. OnlyLastIsOpen(c)'
        BY <1>2, <1>3, <2>7, <4>1 DEF Fits, OnlyLastIsOpen
      <4>4. OpenIsKept(c)'
        BY <2>6 DEF OpenIsKept, Terminal
      <4>5. WrittenIsTrue(c)'
        BY <2>6, <2>7, <4>1, TruthStays DEF WrittenIsTrue
      <4> QED BY <3>1, <4>2, <4>3, <4>4, <4>5 DEF Fits
    <3>2. CASE d # c
      BY <1>1, <1>2, <2>6, <2>7, <3>2, AdvancedFits DEF ReportsInv
    <3> QED BY <3>1, <3>2
  <2> QED BY <1>1, <1>2, <1>4, <2>8, <2>9, CycleKeeps
<1> QED BY <1>5, <1>6

-----------------------------------------------------------------------------
(* Steps of the process *)

\* It ends: nobody works any more.
LEMMA EndKeeps ==
  ASSUME ReportsInv, EndService
  PROVE  ReportsInv'
<1>1. /\ service' = "down" /\ row' = row /\ child' = child /\ mishaps' \in Nat /\ ReportTypes
      /\ worker' = [c \in Cycles |-> IF worker[c].at = "new" THEN worker[c] ELSE [worker[c] EXCEPT !.at = "over"]]
  BY MishapsCount DEF EndService, ReportsInv
<1>2. ASSUME NEW c \in Cycles
      PROVE  worker'[c] \in Workers /\ worker'[c].at = IF worker[c].at = "new" THEN "new" ELSE "over"
  <2>1. worker[c] \in Workers
    BY <1>1 DEF ReportTypes
  <2>2. CASE worker[c].at = "new"
    BY <1>1, <2>1, <2>2
  <2>3. CASE worker[c].at # "new"
    <3>1. worker'[c] = [worker[c] EXCEPT !.at = "over"]
      BY <1>1, <2>3
    <3> QED BY <2>1, <2>3, <3>1 DEF Workers, Places, Gone
  <2> QED BY <2>2, <2>3
<1>3. ReportTypes'
  <2>1. worker' \in [Cycles -> Workers]
    BY <1>1, <1>2
  <2> QED BY <1>1, <2>1 DEF ReportTypes, Stages
<1>4. ASSUME NEW c \in Cycles PROVE Fits(c)'
  <2>1. CASE worker[c].at = "new"
    BY <1>1, <1>2, <2>1, OtherFits DEF ReportsInv
  <2>2. CASE worker[c].at # "new"
    BY <1>1, <1>2, <2>2, EndingFits DEF ReportsInv
  <2> QED BY <2>1, <2>2
<1>5. \A c \in Cycles : ResumptionFollows(c)'
  <2>1. \A c \in Cycles : worker'[c].at \notin {"resuming", "reporting"}
    BY <1>2
  <2> QED BY <2>1, NoneResumes
<1>6. OneAtATime' /\ StartFollows'
  BY <1>1, <1>2 DEF OneAtATime, StartFollows, Gone
<1> QED BY <1>3, <1>4, <1>5, <1>6 DEF ReportsInv

\* A step of a start: nobody works.
LEMMA StartKeeps ==
  ASSUME ReportsInv, service # "up", worker' = worker, ReportTypes', \A c \in Cycles : Fits(c)', StartFollows'
  PROVE  ReportsInv'
<1>1. \A c \in Cycles : worker[c].at \in Gone
  BY DEF ReportsInv, OneAtATime
<1>2. OneAtATime'
  BY <1>1 DEF OneAtATime
<1>3. \A c \in Cycles : ResumptionFollows(c)'
  <2>1. \A c \in Cycles : worker'[c].at \notin {"resuming", "reporting"}
    BY <1>1 DEF Gone
  <2> QED BY <2>1, NoneResumes
<1> QED BY <1>2, <1>3 DEF ReportsInv

\* Archives that were interrupted failed.
LEMMA ArchivesKeep ==
  ASSUME ReportsInv, RecoverInterruptedArchives
  PROVE  ReportsInv'
<1>1. /\ service = "down" /\ service' = "rediscovering" /\ row' = row /\ worker' = worker /\ mishaps' = mishaps
      /\ ReportTypes
  BY DEF RecoverInterruptedArchives, ReportsInv
<1>2. ASSUME NEW c \in Cycles
      PROVE  /\ child'[c] \in Seq(Operations) /\ Advance(child[c], child'[c]) /\ Unpruned(child[c], child'[c])
             /\ \A n \in DOMAIN child'[c] : child'[c][n].kind = "archive" => child'[c][n].status # "running"
  <2>1. child[c] \in Seq(Operations) /\ Len(child[c]) \in Nat /\ DOMAIN child[c] = 1 .. Len(child[c])
    BY <1>1, ChildType
  <2>2. child'[c] = [n \in 1 .. Len(child[c]) |->
                       IF child[c][n].kind = "archive" /\ child[c][n].status = "running"
                       THEN [child[c][n] EXCEPT !.status = "failed"] ELSE child[c][n]]
    BY <2>1 DEF RecoverInterruptedArchives
  <2>3. ASSUME NEW n \in 1 .. Len(child[c])
        PROVE  /\ child'[c][n] \in Operations
               /\ child'[c][n].kind = child[c][n].kind /\ child'[c][n].kept = child[c][n].kept
               /\ \/ child'[c][n].status = child[c][n].status
                  \/ child[c][n].status = "running" /\ child'[c][n].status \in Terminal
               /\ child'[c][n].kind = "archive" => child'[c][n].status # "running"
    <3>1. child[c][n] \in Operations
      BY <2>1, ElementOfSeq
    <3>2. CASE child[c][n].kind = "archive" /\ child[c][n].status = "running"
      <4>1. child'[c][n] = [child[c][n] EXCEPT !.status = "failed"]
        BY <2>2, <3>2
      <4> QED BY <3>1, <3>2, <4>1 DEF Operations, Statuses, Terminal
    <3>3. CASE ~(child[c][n].kind = "archive" /\ child[c][n].status = "running")
      <4>1. child'[c][n] = child[c][n]
        BY <2>2, <3>3
      <4> QED BY <3>1, <3>3, <4>1
    <3> QED BY <3>2, <3>3
  <2>4. child'[c] \in [1 .. Len(child[c]) -> Operations]
    BY <2>2, <2>3
  <2>5. child'[c] \in Seq(Operations)
    BY <2>1, <2>4, SeqDef
  <2>6. Len(child'[c]) = Len(child[c]) /\ DOMAIN child'[c] = 1 .. Len(child[c])
    <3>1. DOMAIN child'[c] = 1 .. Len(child[c]) /\ DOMAIN child'[c] = 1 .. Len(child'[c]) /\ Len(child'[c]) \in Nat
      BY <2>4, <2>5, LenProperties
    <3> QED BY <2>1, <3>1
  <2> QED BY <2>1, <2>3, <2>5, <2>6 DEF Advance, Unpruned
<1>3. ReportTypes'
  <2>1. child' = [c \in Cycles |-> child'[c]]
    BY DEF RecoverInterruptedArchives
  <2>2. child' \in [Cycles -> Seq(Operations)]
    BY <1>2, <2>1
  <2> QED BY <1>1, <2>2 DEF ReportTypes, Stages
<1>4. ASSUME NEW c \in Cycles PROVE Fits(c)'
  BY <1>1, <1>2, AdvancedFits DEF ReportsInv
<1>5. StartFollows'
  BY <1>1, <1>2 DEF StartFollows
<1> QED BY <1>1, <1>3, <1>4, <1>5, StartKeeps

\* A cycle without running operations is reported at the start.
LEMMA RecoveredKeeps ==
  ASSUME ReportsInv, service # "up", NEW c \in Cycles, \A n \in DOMAIN child[c] : child[c][n].status \in Terminal,
         CompleteRecoveredCycle(c), UNCHANGED <<child, worker, service, mishaps>>
  PROVE  ReportsInv'
<1>1. ReportTypes /\ worker[c].at \in Gone /\ Fits(c)
  BY DEF ReportsInv, OneAtATime
<1>2. /\ row' \in [Cycles -> Rows] /\ \A d \in Cycles : d # c => row'[d] = row[d]
      /\ row'[c].planned = row[c].planned
      /\ row[c].status # "running" => row'[c] = row[c]
      /\ row[c].status = "running" => row'[c].status \in Terminal /\ TrueOf(row'[c], child[c])
  BY <1>1, RecoveredIsTrue DEF Fits
<1>3. ReportTypes'
  BY <1>1, <1>2 DEF ReportTypes
<1>4. ASSUME NEW d \in Cycles PROVE Fits(d)'
  <2>1. CASE d = c
    BY <1>1, <1>2, <2>1, ReportFits
  <2>2. CASE d # c
    BY <1>2, <2>2, OtherFits DEF ReportsInv
  <2> QED BY <2>1, <2>2
<1>5. StartFollows'
  BY DEF ReportsInv, StartFollows
<1> QED BY <1>3, <1>4, <1>5, StartKeeps

\* The start goes on to its next stage, nothing else changes.
LEMMA StageKeeps ==
  ASSUME ReportsInv, service # "up", service' \in Stages, UNCHANGED <<row, child, worker, mishaps>>,
         StartFollows'
  PROVE  ReportsInv'
<1>1. ReportTypes'
  BY DEF ReportsInv, ReportTypes
<1>2. \A c \in Cycles : Fits(c)'
  BY OtherFits DEF ReportsInv
<1> QED BY <1>1, <1>2, StartKeeps

LEMMA RediscoverAtStartKeeps ==
  ASSUME ReportsInv, RediscoverAtStart
  PROVE  ReportsInv'
<1>1. service = "rediscovering" /\ \A c \in Cycles : worker[c].at \in Gone
  BY DEF RediscoverAtStart, ReportsInv, OneAtATime
<1>2. CASE \E c \in Cycles : Rediscoverable(c) /\ CompleteRecoveredCycle(c) /\ UNCHANGED service
  <2>1. PICK c \in Cycles : Rediscoverable(c) /\ CompleteRecoveredCycle(c) /\ UNCHANGED service
    BY <1>2
  <2>2. \A n \in DOMAIN child[c] : child[c][n].status \in Terminal
    BY <1>1, <2>1, Rediscovered
  <2> QED BY <1>1, <2>1, <2>2, RecoveredKeeps DEF RediscoverAtStart
<1>3. CASE service' = "deletions" /\ UNCHANGED row
  <2>1. StartFollows'
    BY <1>1, <1>3 DEF RediscoverAtStart, ReportsInv, StartFollows
  <2> QED BY <1>1, <1>3, <2>1, StageKeeps DEF RediscoverAtStart, Stages
<1> QED BY <1>2, <1>3 DEF RediscoverAtStart

LEMMA DeletionsAtStartKeep ==
  ASSUME ReportsInv, RecoverDeletionsAtStart
  PROVE  ReportsInv'
<1>1. service = "deletions" /\ row' = row /\ worker' = worker /\ mishaps' = mishaps /\ ReportTypes
  BY DEF RecoverDeletionsAtStart, ReportsInv
<1>2. CASE \E operation \in RunningDeletions : EndDeletion(operation) /\ UNCHANGED service
  <2>1. PICK operation \in RunningDeletions : EndDeletion(operation) /\ UNCHANGED service
    BY <1>2
  <2>2. /\ child' \in [Cycles -> Seq(Operations)]
        /\ \A d \in Cycles : Advance(child[d], child'[d])
        /\ \A d \in Cycles : \A n \in DOMAIN child[d] : child'[d][n].kept = child[d][n].kept
    BY <2>1, DeletionEnds
  <2>3. ReportTypes'
    BY <1>1, <2>1, <2>2 DEF ReportTypes
  <2>4. ASSUME NEW d \in Cycles PROVE Fits(d)'
    <3>1. Unpruned(child[d], child'[d])
      BY <2>2 DEF Unpruned
    <3> QED BY <1>1, <2>2, <3>1, AdvancedFits DEF ReportsInv
  <2>5. StartFollows'
    <3> SUFFICES ASSUME NEW c \in Cycles, NEW n \in DOMAIN child'[c], child'[c][n].kind = "archive"
                 PROVE  child'[c][n].status # "running"
      BY <1>1, <2>1 DEF StartFollows
    <3>1. DOMAIN child'[c] = DOMAIN child[c] /\ DOMAIN child[c] = 1 .. Len(child[c])
      BY <1>1, <2>2, ChildType, LenProperties DEF Advance
    <3>2. child[c][n].kind = "archive" /\ child[c][n].status # "running"
      BY <1>1, <2>2, <3>1 DEF Advance, ReportsInv, StartFollows
    <3> QED BY <2>2, <3>1, <3>2 DEF Advance, Terminal
  <2> QED BY <1>1, <2>3, <2>4, <2>5, StartKeeps
<1>3. CASE RunningDeletions = {} /\ service' = "reports" /\ UNCHANGED child
  <2>1. ASSUME NEW c \in Cycles, NEW n \in DOMAIN child[c] PROVE child[c][n].status # "running"
    <3>1. child[c][n].kind \in {"archive", "delete"}
      BY <1>1, ChildType
    <3>2. child[c][n].kind = "archive" => child[c][n].status # "running"
      BY <1>1 DEF ReportsInv, StartFollows
    <3>3. ~(child[c][n].kind = "delete" /\ child[c][n].status = "running")
      <4>1. child[c][n].kind = "delete" /\ child[c][n].status = "running" =>
               <<c, n>> \in {c} \X {k \in DOMAIN child[c] : child[c][k].kind = "delete" /\ child[c][k].status = "running"}
        OBVIOUS
      <4> QED BY <1>3, <4>1 DEF RunningDeletions
    <3> QED BY <3>1, <3>2, <3>3
  <2>2. StartFollows'
    BY <1>3, <2>1 DEF StartFollows
  <2> QED BY <1>1, <1>3, <2>2, StageKeeps DEF Stages
<1> QED BY <1>2, <1>3 DEF RecoverDeletionsAtStart

LEMMA ReportsAtStartKeep ==
  ASSUME ReportsInv, CompleteRecoveredCycles
  PROVE  ReportsInv'
<1>1. /\ service = "reports" /\ ReportTypes
      /\ \A c \in Cycles : \A n \in DOMAIN child[c] : child[c][n].status \in Terminal
  <2>1. \A c \in Cycles : \A n \in DOMAIN child[c] : child[c][n].status \in Statuses
    BY ChildType DEF ReportsInv
  <2> QED BY <2>1 DEF CompleteRecoveredCycles, ReportsInv, StartFollows, Statuses
<1>2. CASE \E c \in Cycles : row[c].status = "running" /\ CompleteRecoveredCycle(c) /\ UNCHANGED service
  BY <1>1, <1>2, RecoveredKeeps DEF CompleteRecoveredCycles
<1>3. CASE service' = "up" /\ UNCHANGED row
  <2>1. StartFollows'
    BY <1>3 DEF StartFollows
  <2> QED BY <1>1, <1>3, <2>1, StageKeeps DEF CompleteRecoveredCycles, Stages
<1> QED BY <1>2, <1>3 DEF CompleteRecoveredCycles

LEMMA ReportsStay == ReportsInv /\ [ReportsNext]_reportVars => ReportsInv'
<1> SUFFICES ASSUME ReportsInv, [ReportsNext]_reportVars PROVE ReportsInv'
  OBVIOUS
<1>1. ASSUME NEW c \in Cycles, CycleStep(c) PROVE ReportsInv'
  <2>1. CASE ResumeFails(c) \/ PlanFails(c) \/ CompletionFails(c)
    BY <2>1, ErrorKeeps DEF ResumeFails, PlanFails, CompletionFails, Resuming, WorkerAt
  <2>2. CASE ~(ResumeFails(c) \/ PlanFails(c) \/ CompletionFails(c))
    BY <1>1, <2>2, BeginningKeeps, CohortFailsKeeps, ResumeKeeps, RediscoverKeeps, ResumeDeletionKeeps,
       ReportResumedKeeps, PlanKeeps, ClaimKeeps, ChildCompletesKeeps, ChildFailsKeeps, CompletionKeeps DEF CycleStep
  <2> QED BY <2>1, <2>2
<1>2. ASSUME StartStep PROVE ReportsInv'
  BY <1>2, ArchivesKeep, RediscoverAtStartKeeps, DeletionsAtStartKeep, ReportsAtStartKeep DEF StartStep
<1>3. ASSUME UNCHANGED reportVars PROVE ReportsInv'
  <2>1. row' = row /\ child' = child /\ worker' = worker /\ service' = service /\ mishaps' = mishaps
    BY <1>3 DEF reportVars
  <2> QED BY <2>1 DEF ReportsInv, ReportTypes, Fits, CycleFollows, OpenIsKept, OnlyLastIsOpen, WrittenIsTrue, OneAtATime,
                      StartFollows, ResumptionFollows, IsDue
<1> QED BY <1>1, <1>2, <1>3, RestoreKeeps, EndKeeps DEF ReportsNext

-----------------------------------------------------------------------------
(* The theorem *)

\* What the invariant says of a report.
LEMMA ReportsSuffice ==
  ASSUME ReportsInv, NEW c \in Cycles
  PROVE  ReportIsTrue(c)
<1>1. ReportTypes /\ OpenIsKept(c) /\ WrittenIsTrue(c)
  BY DEF ReportsInv, Fits
<1>2. Tally(c, DOMAIN child[c]) = Counts(child[c])
  BY DEF Tally, Counts, Statuses
<1>3. row[c].status \in {"none"} \cup Statuses
  BY <1>1 DEF ReportTypes, Rows
<1>4. child[c] = << >> <=> DOMAIN child[c] = {}
  <2>1. child[c] = << >> <=> Len(child[c]) = 0
    BY <1>1, ChildType, EmptySeq
  <2> QED BY <1>1, <2>1, ChildType
<1>5. CASE row[c].status = "none"
  BY <1>5 DEF ReportIsTrue, Terminal
<1>6. CASE row[c].status = "running"
  <2>1. ReportedCounts(c) = Tally(c, DOMAIN child[c])
    BY <1>1, <1>6, AllStored DEF ReportedCounts
  <2> QED BY <1>6, <2>1 DEF ReportIsTrue, Terminal
<1>7. CASE row[c].status \in Terminal
  <2>1. TrueOf(row[c], child[c]) /\ row[c].status # "running" /\ row[c].status # "none"
    BY <1>1, <1>7 DEF WrittenIsTrue, Terminal
  <2>2. ReportedCounts(c) = Tally(c, DOMAIN child[c])
    BY <1>2, <2>1 DEF ReportedCounts, TrueOf
  <2> DEFINE all == {child[c][n].status : n \in DOMAIN child[c]}
  <2>3. row[c].status = "completed" => all \subseteq {"completed", "cancelled"} /\ all # {"cancelled"}
    BY <1>4, <2>1 DEF TrueOf
  <2>4. row[c].status = "cancelled" => all = {"cancelled"}
    BY <1>4, <2>1 DEF TrueOf
  <2>5. "running" \notin all
    BY <2>1 DEF TrueOf
  <2>6. /\ row[c].status \in {"completed", "cancelled"} => row[c].planned = Len(child[c])
        /\ row[c].status = "failed" => row[c].error
    BY <2>1 DEF TrueOf
  <2> HIDE DEF all
  <2>7. ReportIsTrue(c) <=>
          /\ row[c].status \in {"completed", "cancelled"} => row[c].planned = Len(child[c])
          /\ row[c].status = "completed" => all \subseteq {"completed", "cancelled"} /\ all # {"cancelled"}
          /\ row[c].status = "cancelled" => all = {"cancelled"}
          /\ row[c].status = "failed" => row[c].error
          /\ row[c].status \in Terminal => "running" \notin all
          /\ row[c].status # "none" => ReportedCounts(c) = Tally(c, DOMAIN child[c])
    BY DEF ReportIsTrue, all
  <2> QED BY <2>2, <2>3, <2>4, <2>5, <2>6, <2>7
<1> QED BY <1>3, <1>5, <1>6, <1>7 DEF Statuses

\* Every report is true of its operations and stays so; a cycle that goes through
\* its resumption leaves no published deletion that is over unreported, and a
\* service that comes up no open row (ResumeRetentionDeletions, completeRecoveredCycles).
THEOREM ReportsHold == ReportsSpec => ReportsAreTrue
<1>1. ReportsInv => \A c \in Cycles : ReportIsTrue(c)
  BY ReportsSuffice
<1>2. ReportsInv =>
        (\A c \in Cycles : (worker[c].at = "resuming" /\ worker'[c].at = "planning") =>
              \A d \in Cycles :
                  (/\ worker[d].at = "over" /\ row[d].planned = Len(child[d])
                   /\ \E n \in DOMAIN child[d] : child[d][n].kind = "delete"
                   /\ \A n \in DOMAIN child[d] : child[d][n].status \in Terminal) => row[d].status \in Terminal)
  BY DEF ReportsInv, ResumptionFollows, IsDue
<1>3. ReportsInv /\ [ReportsNext]_reportVars =>
        (service # "up" /\ service' = "up" => \A c \in Cycles : row[c].status # "running")
  <2> SUFFICES ASSUME ReportsInv, ReportsNext, service # "up", service' = "up"
               PROVE  \A c \in Cycles : row[c].status # "running"
    BY DEF reportVars
  <2>1. ~EndService /\ ~RestoreEndsDeletion
    BY DEF EndService, RestoreEndsDeletion
  <2>2. ASSUME NEW c \in Cycles, CycleStep(c) PROVE FALSE
    BY <2>2 DEF CycleStep, InsertCycle, KnowCohort, CohortFails, Resume, ResumeFails, Rediscover, ResumeDeletion,
                ReportResumed, MarkRetentionCyclePlanned, PlanFails, ClaimChild, ChildCompletes, ChildFails,
                CompleteRetentionCycle, CompletionFails, WorkerAt
  <2>3. ~RecoverInterruptedArchives /\ ~RediscoverAtStart /\ ~RecoverDeletionsAtStart
    BY DEF RecoverInterruptedArchives, RediscoverAtStart, RecoverDeletionsAtStart
  <2>4. CompleteRecoveredCycles
    BY <2>1, <2>2, <2>3 DEF ReportsNext, StartStep
  <2> QED BY <2>4 DEF CompleteRecoveredCycles
<1>4. ReportsSpec => []ReportsInv
  BY ReportsAtFirst, ReportsStay, PTL DEF ReportsSpec
<1> QED BY <1>1, <1>2, <1>3, <1>4, PTL DEF ReportsSpec, ReportsAreTrue

===============================================================================
