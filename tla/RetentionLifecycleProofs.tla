---------------------- MODULE RetentionLifecycleProofs ----------------------
(*************************************************************************)
(* The eight properties of the retention lifecycle, for any pools,       *)
(* policy days, group limit, scenarios, cycles and restores. The rest of *)
(* the inductive invariant of RetentionCatalogProofs is preserved: the   *)
(* cycles, the files and the stages of the recovery. Then every step is  *)
(* found to be quiet or one of five moves, from which the action         *)
(* properties and the refinement of TelemetryCustody follow.             *)
(*************************************************************************)
EXTENDS RetentionCatalogProofs

-----------------------------------------------------------------------------
(* The cycles *)

\* No export is forgotten, and none is received twice.
ExportsGoOn ==
    \A e \in Exports : export[e].state # "absent" =>
       export'[e].state # "absent" /\ export'[e].received = export[e].received

\* Exports given up go on.
LEMMA OwnersMayChange ==
  ASSUME TypeOK, UNCHANGED export \/ \E ops : export' = Released(ops)
  PROVE  ExportsGoOn
<1>1. CASE UNCHANGED export
  BY <1>1 DEF ExportsGoOn
<1>2. CASE \E ops : export' = Released(ops)
  BY <1>2, ReleasedIsTyped DEF ExportsGoOn, SameBut
<1> QED BY <1>1, <1>2

\* Exports given to an operation go on.
LEMMA OwnersMayBeGiven ==
  ASSUME TypeOK, NEW T, NEW o \in Operations,
         export' = [e \in Exports |-> IF e \in T THEN [export[e] EXCEPT !.owner = o] ELSE export[e]]
  PROVE  ExportsGoOn
BY GivenIsTyped DEF ExportsGoOn, SameBut

\* The targets of a completed deletion were received and stay so.
LEMMA DeletionGoesOn ==
  ASSUME TypeOK, NEW o \in Operations, CompleteDeletion(o)
  PROVE  ExportsGoOn
<1>1. \A e \in Exports :
         /\ export'[e].state = (IF e \in op[o].targets THEN "deleted" ELSE export[e].state)
         /\ export'[e].received = export[e].received
  BY CompletionIsTyped
<1> QED BY <1>1 DEF ExportsGoOn

\* A recovered deletion loses no export from the catalog.
LEMMA RecoveryGoesOn ==
  ASSUME TypeOK, NEW o \in Operations, RecoverDeletionOperation(o)
  PROVE  ExportsGoOn
<1>1. CASE CompleteDeletion(o)
  BY <1>1, DeletionGoesOn
<1>2. CASE ~CompleteDeletion(o)
  BY <1>2, OwnersMayChange DEF RecoverDeletionOperation, CancelDeletion
<1> QED BY <1>1, <1>2

\* No step of a cycle loses an export from the catalog.
LEMMA CyclesGoOn ==
  ASSUME Pools, TypeOK, NEW c \in Cycles, CycleFits(c), BeginRetentionCycle(c) \/ Maintenance(c)
  PROVE  ExportsGoOn
<1>0. /\ cycle[c].pc \in InArchive \union InDeletion => cycle[c].op \in Operations
      /\ cycle[c].pc = "publish" => cycle[c].segment \in Segments
  BY CycleHolds
<1>1. CASE \/ BeginRetentionCycle(c) \/ StartCycle(c) \/ LockResume(c) \/ PlanCycle(c) \/ SelectGroup(c)
           \/ BuildArchive(c) \/ FailArchive(c) \/ StageDeletion(c) \/ PublishStaged(c) \/ Cutover(c)
           \/ AbandonCutover(c) \/ WithdrawDeletion(c) \/ RemoveContent(c) \/ PublishRemoved(c)
  BY <1>1, OwnersMayChange DEF BeginRetentionCycle, StartCycle, LockResume, PlanCycle, SelectGroup,
     BuildArchive, FailArchive, StageDeletion, PublishStaged, Cutover, AbandonCutover,
     WithdrawDeletion, RemoveContent, PublishRemoved, CancelDeletion, catalog
<1>2. CASE ResumeRetentionDeletions(c)
  BY <1>2, RecoveryGoesOn, OwnersMayChange DEF ResumeRetentionDeletions, Running, catalog
<1>3. CASE ConvergeDeletion(c)
  BY <1>0, <1>3, RecoveryGoesOn, OwnersMayChange DEF ConvergeDeletion, catalog, At, InDeletion
<1>4. CASE ClaimArchive(c)
  <2>1. CASE UNCHANGED export
    BY <2>1, OwnersMayChange
  <2>2. CASE ~UNCHANGED export
    <3>1. PICK o \in FreshOperation :
             export' = [e \in Exports |->
                   IF e \in cycle[c].group THEN [export[e] EXCEPT !.owner = o] ELSE export[e]]
      BY <1>4, <2>2 DEF ClaimArchive, catalog
    <3>2. o \in Operations
      BY FreshAreTyped
    <3> QED BY <3>1, <3>2, OwnersMayBeGiven
  <2> QED BY <2>1, <2>2
<1>5. CASE PublishArchive(c)
  <2>1. CASE UNCHANGED export
    BY <2>1, OwnersMayChange
  <2>2. CASE export' = [e \in Exports |->
                IF e \in cycle[c].group
                THEN [export[e] EXCEPT !.state = "archived", !.hold = 0, !.home = cycle[c].segment, !.owner = None]
                ELSE export[e]]
    <3>1. cycle[c].segment \in Segments
      BY <1>0, <1>5 DEF PublishArchive, At
    <3>2. MovedIn(cycle[c].group, cycle[c].segment)
      BY <2>2, <3>1, ArchivingMovesExports
    <3> QED BY <3>2 DEF MovedIn, ExportsGoOn
  <2> QED BY <1>5, <2>1, <2>2 DEF PublishArchive
<1>6. CASE ClaimDeletion(c)
  <2>1. ASSUME NEW s, NEW o \in FreshOperation, ClaimsDeletion(c, s, o) PROVE ExportsGoOn
    <3>1. o \in Operations
      BY FreshAreTyped
    <3>2. export' = [e \in Exports |->
             IF e \in Members(s) THEN [export[e] EXCEPT !.owner = o] ELSE export[e]]
      BY <2>1 DEF ClaimsDeletion
    <3> QED BY <3>1, <3>2, OwnersMayBeGiven
  <2> QED BY <1>6, <2>1, ClaimDeletionParts, OwnersMayChange DEF catalog
<1>7. CASE PublishDeleted(c)
  <2>1. cycle[c].op \in Operations
    BY <1>0, <1>7 DEF PublishDeleted, At, InDeletion
  <2>2. CASE CompleteDeletion(cycle[c].op)
    BY <2>1, <2>2, DeletionGoesOn
  <2>3. CASE UNCHANGED export
    BY <2>3, OwnersMayChange
  <2> QED BY <1>7, <2>2, <2>3 DEF PublishDeleted, catalog
<1> QED BY <1>1, <1>2, <1>3, <1>4, <1>5, <1>6, <1>7 DEF Maintenance

\* No step of a restore loses an export from the catalog.
LEMMA RestoresGoOn ==
  ASSUME Pools, TypeOK, NEW r \in Restores, RestoreFits(r),
         Restoring(r) \/ \E scope \in Scopes : RequestRestore(r, scope)
  PROVE  ExportsGoOn
<1>1. CASE FinishCommittedDeletions(r)
  BY <1>1, RecoveryGoesOn DEF FinishCommittedDeletions, CommittedDeletions, Running
<1>2. CASE ClaimRestore(r)
  <2>1. PICK o \in FreshOperation : ClaimsRestore(r, o)
    BY <1>2, ClaimRestoreParts
  <2>2. o \in Operations
    BY FreshAreTyped
  <2>3. export' = [e \in Exports |->
           IF e \in Affected(restore[r].scope) THEN [export[e] EXCEPT !.owner = o] ELSE export[e]]
    BY <2>1 DEF ClaimsRestore, ClaimAffected
  <2> QED BY <2>2, <2>3, OwnersMayBeGiven
<1>3. CASE PublishRestore(r)
  <2>1. MovedOut(op[restore[r].op].targets, op[restore[r].op].selected, restore[r].fresh, now + HoldDays)
    BY <1>3, PublishRestoreParts
  <2> QED BY <2>1 DEF MovedOut, ExportsGoOn
<1>4. CASE \/ PreemptDeletion(r) \/ RefuseRestore(r) \/ StartRestore(r) \/ VerifySegment(r)
           \/ VerificationFails(r) \/ PreparationFails(r) \/ DropReplacements(r) \/ FailRestore(r)
           \/ RemovePublishedArchive(r) \/ CompleteRestore(r) \/ AbandonCleanup(r)
           \/ \E scope \in Scopes : RequestRestore(r, scope)
  BY <1>4, OwnersMayChange DEF PreemptDeletion, RefuseRestore, StartRestore, VerifySegment,
     VerificationFails, PreparationFails, DropReplacements, FailRestore, RemovePublishedArchive,
     CompleteRestore, AbandonCleanup, RequestRestore, catalog
<1> QED BY <1>1, <1>2, <1>3, <1>4 DEF Restoring

\* No step loses an export from the catalog.
LEMMA EverythingGoesOn == Invariant /\ [Next]_vars => ExportsGoOn
<1> SUFFICES ASSUME Invariant, [Next]_vars PROVE ExportsGoOn
  OBVIOUS
<1>0. /\ Pools /\ TypeOK
      /\ \A c \in Cycles : CycleFits(c)
      /\ \A r \in Restores : RestoreFits(r)
  BY Pools DEF Invariant
<1>1. ASSUME NEW e \in Exports, Receive(e) PROVE ExportsGoOn
  <2>1. export[e].state = "absent" /\ export' = [export EXCEPT ![e].state = "active", ![e].received = now]
    BY <1>1 DEF Receive
  <2>2. \A f \in Exports : f # e => export'[f] = export[f]
    BY <1>0, <2>1 DEF TypeOK
  <2> QED BY <2>1, <2>2 DEF ExportsGoOn
<1>2. CASE \/ Tick \/ (\E enabled \in BOOLEAN : UpdateRetentionPolicy(enabled))
           \/ (\E s \in Segments : Damage(s)) \/ Close \/ Exit \/ Crash
           \/ UNCHANGED vars \/ RecoveryFails
  BY <1>2 DEF Tick, UpdateRetentionPolicy, Damage, Close, Exit, Crash, Vanish, vars, RecoveryFails,
     catalog, ExportsGoOn
<1>3. CASE Recovery
  <2>1. CASE RecoverDeletions
    BY <1>0, <2>1, RecoveryGoesOn DEF RecoverDeletions, Running
  <2>2. CASE ~RecoverDeletions
    BY <1>0, <1>3, <2>2, OwnersMayChange DEF Recovery, Restart, RecoverArchives, RecoverRestores,
       DeletionsRecovered, RemoveUnreferencedArchiveFiles, FilesRecovered, RecoverRestoreCleanup,
       RecoverUnpublished, catalog
  <2> QED BY <2>1, <2>2
<1> QED BY <1>0, <1>1, <1>2, <1>3, CyclesGoOn, RestoresGoOn DEF Next

\* The exports that are active stay as they are, and no other becomes active
\* but a new one.
ActivesStay ==
    \A e \in Exports :
       /\ export[e].state = "active" => SameBut(e, export[e].owner)
       /\ export'[e].state = "active" => export[e].state \in {"active", "absent"}

\* A cycle that does not move, and what it relies on.
LeftAlone(c) ==
    LET o == cycle[c].op
        s == cycle[c].segment
    IN
    /\ cycle'[c] = cycle[c]
    /\ now <= now'
    /\ ExportsGoOn
    /\ o # None => op'[o] = op[o] \/ (cycle[c].pc = "cutover" /\ op'[o].status = "cancelled")
    /\ cycle[c].pc = "publish" =>
          segment'[s].state = segment[s].state /\ segment'[s].file = segment[s].file
    /\ cycle[c].pc \in Gated => \A t \in Segments : segment'[t].file = segment[t].file
    /\ cycle[c].pc \in {"select", "claim", "build", "publish"} => ActivesStay

\* A cycle that does not move keeps what it relies on.
LEMMA CycleStays ==
  ASSUME Pools, TypeOK, TypeOK', NEW c \in Cycles, CycleFits(c), LeftAlone(c)
  PROVE  CycleFits(c)'
<1> DEFINE k == cycle[c]
           o == cycle[c].op
           s == cycle[c].segment
<1>0. cycle'[c] = k /\ k.evaluatedAt \in Nat /\ now \in Nat /\ now' \in Nat /\ now <= now'
  BY DEF LeftAlone, TypeOK, CycleRecord
<1>1. o # None => op'[o] = op[o] \/ (k.pc = "cutover" /\ op'[o].status = "cancelled")
  BY DEF LeftAlone
<1>2. /\ k.pc = "publish" => segment'[s].state = segment[s].state /\ segment'[s].file = segment[s].file
      /\ k.pc \in Gated => \A t \in Segments : segment'[t].file = segment[t].file
  BY DEF LeftAlone
<1>3. /\ k.pc # "idle" => k.evaluatedAt <= now
      /\ k.pc \in {"claim", "build", "publish"} => k.groups > 0
      /\ k.pc \in InArchive \union InDeletion <=> o # None
      /\ k.pc \in InArchive => op[o].status = "running" /\ op[o].kind = "archive" /\ op[o].targets = k.group
      /\ k.pc = "publish" => s # None /\ segment[s].state = "unused" /\ segment[s].file = "installed"
      /\ k.pc \in InDeletion => s # None
  BY DEF CycleFits
<1>4. /\ k.pc = "stage" => RunningDeletion(o, s, {"staging"}) /\ segment[s].file = "installed"
      /\ k.pc = "staged" => RunningDeletion(o, s, {"staging"})
      /\ k.pc = "cutover" => op[o].status = "cancelled" \/ RunningDeletion(o, s, {"staged"})
      /\ k.pc = "withdraw" => RunningDeletion(o, s, {"staged"})
      /\ k.pc = "remove" => RunningDeletion(o, s, {"delete_committing"})
      /\ k.pc = "removed" => RunningDeletion(o, s, {"delete_committing"}) /\ segment[s].file = "absent"
      /\ k.pc = "terminal" => RunningDeletion(o, s, {"content_removed"}) /\ segment[s].file = "absent"
      /\ k.pc = "converge" /\ op[o].status = "running" => RunningDeletion(o, s, BeforeCutover \union AfterCutover)
      /\ k.pc \in InDeletion /\ op[o].status = "running" => op[o].decided = k.revision
  BY DEF CycleFits
<1>5. k.pc \in InDeletion => s \in Segments
  BY CycleHolds
<1>6. k.pc # "idle" => k.evaluatedAt <= now'
  BY <1>0, <1>3
<1>7. k.pc \in InArchive => op'[o].status = "running" /\ op'[o].kind = "archive" /\ op'[o].targets = k.group
  BY <1>1, <1>3 DEF InArchive
<1>8. k.pc = "publish" => s # None /\ segment'[s].state = "unused" /\ segment'[s].file = "installed"
  BY <1>2, <1>3
<1>9. /\ k.pc = "stage" => RunningDeletion(o, s, {"staging"})' /\ segment'[s].file = "installed"
      /\ k.pc = "staged" => RunningDeletion(o, s, {"staging"})'
      /\ k.pc = "withdraw" => RunningDeletion(o, s, {"staged"})'
      /\ k.pc = "remove" => RunningDeletion(o, s, {"delete_committing"})'
      /\ k.pc = "removed" => RunningDeletion(o, s, {"delete_committing"})' /\ segment'[s].file = "absent"
      /\ k.pc = "terminal" => RunningDeletion(o, s, {"content_removed"})' /\ segment'[s].file = "absent"
      /\ k.pc = "converge" /\ op'[o].status = "running" => RunningDeletion(o, s, BeforeCutover \union AfterCutover)'
  <2>1. k.pc \in InDeletion \ {"cutover"} => op'[o] = op[o]
    BY <1>1, <1>3
  <2>2. k.pc \in {"stage", "removed", "terminal"} => segment'[s].file = segment[s].file
    BY <1>2, <1>5 DEF Gated, InDeletion
  <2>3. o' = o /\ s' = s
    BY <1>0
  <2> HIDE DEF k, o, s
  <2> QED BY <1>4, <2>1, <2>2, <2>3 DEF RunningDeletion, InDeletion
<1>10. k.pc = "cutover" => op'[o].status = "cancelled" \/ RunningDeletion(o, s, {"staged"})'
  <2>1. k.pc = "cutover" => op'[o] = op[o] \/ op'[o].status = "cancelled"
    BY <1>1, <1>3 DEF InDeletion
  <2>2. o' = o /\ s' = s
    BY <1>0
  <2> HIDE DEF k, o, s
  <2> QED BY <1>4, <2>1, <2>2 DEF RunningDeletion
<1>11. k.pc \in InDeletion /\ op'[o].status = "running" => op'[o].decided = k.revision
  <2>1. k.pc \in InDeletion => op'[o] = op[o] \/ op'[o].status = "cancelled"
    BY <1>1, <1>3
  <2> HIDE DEF k, o, s
  <2> QED BY <1>4, <2>1
<1> QED BY <1>0, <1>3, <1>6, <1>7, <1>8, <1>9, <1>10, <1>11 DEF CycleFits

\* The groups of a set of exports depend on the days they were received only.
LEMMA GroupsStay ==
  ASSUME NEW c \in Cycles, LET A == Archivable(c)
                           IN  A' = A /\ \A e \in A : export'[e].received = export[e].received
  PROVE  LET A == Archivable(c)
         IN  CountGroups(A)' = CountGroups(A) /\ NextGroup(A)' = NextGroup(A)
<1> DEFINE A == Archivable(c)
<1>0. A' = A /\ \A e \in A : export'[e].received = export[e].received
  OBVIOUS
<1> HIDE DEF A
<1>1. ASSUME NEW e \in A PROVE Place(e, A)' = Place(e, A)
  <2>1. {f \in A' : f <= e /\ export'[f].received = export'[e].received}
          = {f \in A : f <= e /\ export[f].received = export[e].received}
    BY <1>0
  <2> QED BY <2>1 DEF Place
<1>2. CountGroups(A)' = CountGroups(A)
  <2>1. {e \in A' : (Place(e, A)' - 1) % GroupLimit = 0} = {e \in A : (Place(e, A) - 1) % GroupLimit = 0}
    BY <1>0, <1>1
  <2> QED BY <2>1 DEF CountGroups
<1>3. NextGroup(A)' = NextGroup(A)
  <2>1. {e \in A' : (\A f \in A' : export'[e].received <= export'[f].received) /\ Place(e, A)' <= GroupLimit}
          = {e \in A : (\A f \in A : export[e].received <= export[f].received) /\ Place(e, A) <= GroupLimit}
    BY <1>0, <1>1
  <2> QED BY <2>1 DEF NextGroup
<1> QED BY <1>2, <1>3 DEF A

\* The groups of a cycle stay, its own group included.
LEMMA AllGroupsStay ==
  ASSUME NEW c \in Cycles, LET A == Archivable(c) \union cycle[c].group
                           IN  A' = A /\ \A e \in A : export'[e].received = export[e].received
  PROVE  LET A == Archivable(c) \union cycle[c].group
         IN  CountGroups(A)' = CountGroups(A) /\ NextGroup(A)' = NextGroup(A)
<1> DEFINE A == Archivable(c) \union cycle[c].group
<1>0. A' = A /\ \A e \in A : export'[e].received = export[e].received
  OBVIOUS
<1> HIDE DEF A
<1>1. ASSUME NEW e \in A PROVE Place(e, A)' = Place(e, A)
  <2>1. {f \in A' : f <= e /\ export'[f].received = export'[e].received}
          = {f \in A : f <= e /\ export[f].received = export[e].received}
    BY <1>0
  <2> QED BY <2>1 DEF Place
<1>2. CountGroups(A)' = CountGroups(A)
  <2>1. {e \in A' : (Place(e, A)' - 1) % GroupLimit = 0} = {e \in A : (Place(e, A) - 1) % GroupLimit = 0}
    BY <1>0, <1>1
  <2> QED BY <2>1 DEF CountGroups
<1>3. NextGroup(A)' = NextGroup(A)
  <2>1. {e \in A' : (\A f \in A' : export'[e].received <= export'[f].received) /\ Place(e, A)' <= GroupLimit}
          = {e \in A : (\A f \in A : export[e].received <= export[f].received) /\ Place(e, A) <= GroupLimit}
    BY <1>0, <1>1
  <2> QED BY <2>1 DEF NextGroup
<1> QED BY <1>2, <1>3 DEF A

\* What a cycle may archive stays while the active exports do.
LEMMA ArchivableStay ==
  ASSUME NEW c \in Cycles, cycle[c].exports \in SUBSET Exports,
         cycle'[c].exports = cycle[c].exports, cycle'[c].evaluatedAt = cycle[c].evaluatedAt,
         \A e \in cycle[c].exports : export[e].state # "absent", ActivesStay
  PROVE  Archivable(c)' = Archivable(c)
<1>1. ASSUME NEW e \in cycle[c].exports
      PROVE  (/\ export'[e].state = "active"
              /\ export'[e].received + ArchiveDays <= cycle[c].evaluatedAt
              /\ export'[e].hold <= cycle[c].evaluatedAt
              /\ export'[e].owner = None)
             <=>
             (/\ export[e].state = "active"
              /\ export[e].received + ArchiveDays <= cycle[c].evaluatedAt
              /\ export[e].hold <= cycle[c].evaluatedAt
              /\ export[e].owner = None)
  BY DEF ActivesStay, SameBut
<1> QED BY <1>1 DEF Archivable

\* The group a cycle has claimed waits in the database.
LEMMA GroupIsActive ==
  ASSUME Pools, TypeOK, CatalogInv, NEW c \in Cycles, CycleFits(c), cycle[c].pc \in InArchive
  PROVE  /\ cycle[c].op \in Operations /\ op[cycle[c].op].status = "running"
         /\ op[cycle[c].op].kind = "archive" /\ op[cycle[c].op].targets = cycle[c].group
         /\ \A e \in cycle[c].group :
               e \in Exports /\ export[e].state = "active" /\ export[e].owner = cycle[c].op
<1> DEFINE o == cycle[c].op
<1>1. /\ o \in Operations /\ op[o].status = "running" /\ op[o].kind = "archive"
      /\ op[o].targets = cycle[c].group
  BY CycleHolds DEF CycleFits
<1>2. OperationFits(o) /\ op[o].targets \in SUBSET Exports
  BY <1>1 DEF CatalogInv, OperationsFit, TypeOK, OperationRecord
<1>3. \A e \in op[o].targets : export[e].state = "active" /\ export[e].owner = o
  BY <1>1, <1>2 DEF OperationFits, Archives
<1> QED BY <1>1, <1>2, <1>3

\* A cycle that does not move keeps the groups it has counted.
LEMMA PlanStays ==
  ASSUME Pools, TypeOK, CatalogInv, NEW c \in Cycles, CycleFits(c), PlanFits(c), LeftAlone(c)
  PROVE  PlanFits(c)'
<1> DEFINE k == cycle[c]
           A == Archivable(c)
           B == Archivable(c) \union cycle[c].group
<1>0. k.exports \in SUBSET Exports /\ cycle'[c] = k /\ k.group \in SUBSET Exports
  BY DEF TypeOK, CycleRecord, LeftAlone
<1>1. \A e \in k.exports : export[e].state # "absent"
  BY DEF PlanFits
<1>2. \A e \in k.exports : export'[e].state # "absent" /\ export'[e].received = export[e].received
  BY <1>0, <1>1 DEF LeftAlone, ExportsGoOn
<1>3. CASE k.pc \in {"select", "claim", "build", "publish"}
  <2>1. A' = A /\ ActivesStay
    BY <1>0, <1>1, <1>3, ArchivableStay DEF LeftAlone
  <2>2. A \in SUBSET k.exports
    BY DEF Archivable
  <2>3. CountGroups(A)' = CountGroups(A) /\ NextGroup(A)' = NextGroup(A)
    <3>1. \A e \in A : export'[e].received = export[e].received
      BY <1>2, <2>2
    <3> QED BY <2>1, <3>1, GroupsStay
  <2>4. CASE k.pc \in {"select", "claim"}
    <3>1. CountGroups(A) = k.groups /\ (k.pc = "claim" => k.group = NextGroup(A))
      BY <2>4 DEF PlanFits
    <3>2. CountGroups(A)' = k.groups /\ (k.pc = "claim" => k.group = NextGroup(A)')
      BY <2>3, <3>1
    <3> QED BY <1>0, <1>2, <2>4, <3>2 DEF PlanFits
  <2>5. CASE k.pc \in {"build", "publish"}
    <3>1. /\ CountGroups(B) = k.groups /\ k.group = NextGroup(B)
          /\ A \intersect k.group = {}
      BY <2>5 DEF PlanFits
    <3>2. B' = B
      BY <1>0, <2>1
    <3>3. \A e \in k.group : export'[e].received = export[e].received
      BY <1>0, <2>5, GroupIsActive DEF LeftAlone, ExportsGoOn, InArchive
    <3>4. \A e \in B : export'[e].received = export[e].received
      BY <1>2, <2>2, <3>3
    <3>5. CountGroups(B)' = CountGroups(B) /\ NextGroup(B)' = NextGroup(B)
      BY <3>2, <3>4, AllGroupsStay
    <3>6. /\ CountGroups(B)' = k.groups /\ k.group = NextGroup(B)'
          /\ A' \intersect k.group = {}
      BY <2>1, <3>1, <3>5
    <3> QED BY <1>0, <1>2, <2>5, <3>6 DEF PlanFits
  <2> QED BY <1>3, <2>4, <2>5
<1>4. CASE k.pc \notin {"select", "claim", "build", "publish"}
  BY <1>0, <1>2, <1>4 DEF PlanFits
<1> QED BY <1>3, <1>4

\* A cycle writes no record but its own.
LEMMA CyclesMoveAlone ==
  ASSUME Pools, TypeOK, NEW c \in Cycles, BeginRetentionCycle(c) \/ Maintenance(c)
  PROVE  \A d \in Cycles : d # c => cycle'[d] = cycle[d]
BY DEF Maintenance, BeginRetentionCycle, StartCycle, LockResume, ResumeRetentionDeletions, PlanCycle,
   SelectGroup, ClaimArchive, BuildArchive, PublishArchive, FailArchive, ClaimDeletion,
   StageDeletion, PublishStaged, Cutover, AbandonCutover, WithdrawDeletion, RemoveContent,
   PublishRemoved, PublishDeleted, ConvergeDeletion, To, EndCycle, Converge, TypeOK

\* No step of a cycle takes time.
LEMMA CyclesKeepTheDay ==
  ASSUME NEW c \in Cycles, BeginRetentionCycle(c) \/ Maintenance(c)
  PROVE  UNCHANGED world
BY DEF Maintenance, BeginRetentionCycle, StartCycle, LockResume, ResumeRetentionDeletions, PlanCycle,
   SelectGroup, ClaimArchive, BuildArchive, PublishArchive, FailArchive, ClaimDeletion,
   StageDeletion, PublishStaged, Cutover, AbandonCutover, WithdrawDeletion, RemoveContent,
   PublishRemoved, PublishDeleted, ConvergeDeletion

\* No step of a restore takes time.
LEMMA RestoresKeepTheDay ==
  ASSUME NEW r \in Restores, Restoring(r) \/ \E scope \in Scopes : RequestRestore(r, scope)
  PROVE  UNCHANGED world
BY DEF Restoring, FinishCommittedDeletions, PreemptDeletion,
   ClaimRestore, RefuseRestore, StartRestore, VerifySegment, VerificationFails, PublishRestore,
   PreparationFails, DropReplacements, FailRestore, RemovePublishedArchive, CompleteRestore,
   AbandonCleanup, RequestRestore

\* A cycle that has claimed and counted nothing relies on nothing.
LEMMA SleepersAreLeftAlone ==
  ASSUME NEW c \in Cycles, CycleFits(c), cycle[c].pc \in Sleeping, cycle'[c] = cycle[c],
         now <= now', ExportsGoOn
  PROVE  LeftAlone(c)
BY DEF CycleFits, LeftAlone, Sleeping, Gated, InArchive, InDeletion

\* A catalog left alone disturbs no cycle.
LEMMA NothingDisturbs ==
  ASSUME NEW c \in Cycles, cycle'[c] = cycle[c], now <= now', UNCHANGED catalog
  PROVE  LeftAlone(c)
BY DEF catalog, LeftAlone, ExportsGoOn, ActivesStay, SameBut

\* Only archived exports are deleted.
LEMMA RecoveryLeavesActives ==
  ASSUME Pools, TypeOK, CatalogInv, NEW o \in Running("delete"), RecoverDeletionOperation(o)
  PROVE  ActivesStay
<1>0. o \in Operations /\ op[o].status = "running" /\ op[o].kind = "delete"
  BY DEF Running
<1>1. /\ op[o].segment \in Segments
      /\ \A e \in Exports : export[e].home = op[o].segment <=> e \in op[o].targets
      /\ \A e \in Exports : export[e].owner = o <=> e \in op[o].targets
  BY <1>0, DeletionsAreApart
<1>2. \A e \in Exports : e \in op[o].targets => export[e].state = "archived"
  BY <1>1, Pools DEF CatalogInv, ExportsFit, ExportFits, None
<1>3. CASE CompleteDeletion(o)
  <2>1. \A e \in Exports :
            /\ export'[e].state = (IF e \in op[o].targets THEN "deleted" ELSE export[e].state)
            /\ export'[e].received = export[e].received
            /\ export'[e].hold = (IF e \in op[o].targets THEN 0 ELSE export[e].hold)
            /\ export'[e].home = (IF export[e].home = op[o].segment THEN None ELSE export[e].home)
            /\ export'[e].owner = (IF export[e].owner = o THEN None ELSE export[e].owner)
    BY <1>0, <1>3, CompletionIsTyped
  <2>2. ASSUME NEW e \in Exports, e \notin op[o].targets PROVE SameBut(e, export[e].owner)
    BY <1>1, <2>1, <2>2 DEF SameBut
  <2>3. ASSUME NEW e \in Exports, export[e].state = "active" PROVE SameBut(e, export[e].owner)
    BY <1>2, <2>2, <2>3
  <2>4. ASSUME NEW e \in Exports, export'[e].state = "active" PROVE export[e].state = "active"
    BY <2>1, <2>4
  <2> QED BY <2>3, <2>4 DEF ActivesStay
<1>4. CASE CancelDeletion(o)
  <2>1. \A e \in Exports : SameBut(e, IF export[e].owner \in {o} THEN None ELSE export[e].owner)
    BY <1>4, ReleasedIsTyped DEF CancelDeletion
  <2>2. ASSUME NEW e \in Exports, export[e].state = "active" PROVE SameBut(e, export[e].owner)
    BY <1>1, <1>2, <2>1, <2>2
  <2> QED BY <2>1, <2>2 DEF ActivesStay, SameBut
<1>5. CASE UNCHANGED export
  BY <1>5 DEF ActivesStay, SameBut
<1> QED BY <1>3, <1>4, <1>5 DEF RecoverDeletionOperation

\* A restore that claims leaves the cycles alone that are outside the gate.
LEMMA ClaimsLeaveCycles ==
  ASSUME Pools, TypeOK, CatalogInv, NEW c \in Cycles, CycleFits(c), cycle[c].pc \notin Gated,
         ExportsGoOn, NEW r \in Restores,
         \/ FinishCommittedDeletions(r) \/ PreemptDeletion(r) \/ ClaimRestore(r) \/ RefuseRestore(r)
         \/ \E scope \in Scopes : RequestRestore(r, scope)
  PROVE  LeftAlone(c)
<1> USE DEF world
<1> DEFINE o == cycle[c].op
           s == cycle[c].segment
<1>1. cycle'[c] = cycle[c] /\ now' = now /\ now \in Nat
  BY DEF FinishCommittedDeletions, PreemptDeletion, ClaimRestore, RefuseRestore, RequestRestore, TypeOK
<1>2. cycle[c].pc = "publish" => segment'[s].state = segment[s].state /\ segment'[s].file = segment[s].file
  <2>1. cycle[c].pc = "publish" => s \in Segments /\ segment[s].state = "unused"
    BY CycleHolds DEF CycleFits
  <2> QED BY <2>1, ClaimsKeepHistory DEF HistoryStays
<1>3. /\ o # None => o \in Operations /\ cycle[c].pc \in InArchive \union {"cutover"}
      /\ cycle[c].pc \in InArchive => op[o].status = "running" /\ op[o].kind = "archive"
      /\ cycle[c].pc = "cutover" => op[o].status = "cancelled" \/ RunningDeletion(o, s, {"staged"})
  BY CycleHolds DEF CycleFits, InDeletion, Gated
<1>4. ASSUME o # None => op'[o] = op[o] \/ (cycle[c].pc = "cutover" /\ op'[o].status = "cancelled"),
             ActivesStay
      PROVE  LeftAlone(c)
  BY <1>1, <1>2, <1>4 DEF LeftAlone
<1>5. CASE FinishCommittedDeletions(r)
  <2>1. PICK q \in CommittedDeletions(restore[r].scope) : RecoverDeletionOperation(q)
    BY <1>5 DEF FinishCommittedDeletions
  <2>2. /\ q \in Running("delete") /\ op[q].phase \in AfterCutover
        /\ op[q].status = "running" /\ op[q].kind = "delete"
    BY DEF CommittedDeletions, Running
  <2>3. DeletionWork(q) /\ ActivesStay
    BY <2>1, <2>2, RecoveryWorks, RecoveryLeavesActives
  <2>4. o # None => o # q
    BY <1>3, <2>2 DEF RunningDeletion, AfterCutover, InArchive
  <2>5. o # None => op'[o] = op[o]
    BY <1>3, <2>3, <2>4 DEF DeletionWork
  <2> QED BY <1>4, <2>3, <2>5
<1>6. CASE PreemptDeletion(r) \/ RefuseRestore(r) \/ \E scope \in Scopes : RequestRestore(r, scope)
  <2>1. UNCHANGED <<export, op>>
    BY <1>6 DEF PreemptDeletion, RefuseRestore, RequestRestore, catalog
  <2> QED BY <1>4, <2>1 DEF ActivesStay, SameBut
<1>7. CASE ClaimRestore(r)
  <2>1. PICK q \in FreshOperation : ClaimsRestore(r, q)
    BY <1>7, ClaimRestoreParts
  <2>2. q \in Operations /\ q \notin InHand /\ ~Unclaimable(restore[r].scope)
    BY <1>7, FreshAreTyped, ClaimRestoreParts
  <2>3. /\ \A p \in Operations : p # q /\ p \in Competing(restore[r].scope) => op'[p].status = "cancelled"
        /\ \A p \in Operations : p # q /\ p \notin Competing(restore[r].scope) => op'[p] = op[p]
        /\ \A e \in Exports : SameBut(e, IF e \in Affected(restore[r].scope) THEN q ELSE export[e].owner)
    <3>1. Preempts(q, Competing(restore[r].scope), Affected(restore[r].scope))
      BY <2>1, <2>2, RestoreClaimPreempts
    <3> QED BY <3>1 DEF Preempts
  <2>4. \A p \in Competing(restore[r].scope) : op[p].kind = "delete"
    BY <2>2, CompetitorsAreDeletions
  <2>5. \A e \in Affected(restore[r].scope) : export[e].state = "archived"
    BY ScopesAreCurrent
  <2>6. o # q
    BY <2>2 DEF InHand
  <2>7. ActivesStay
    BY <2>3, <2>5 DEF ActivesStay, SameBut
  <2>8. o # None => op'[o] = op[o] \/ (cycle[c].pc = "cutover" /\ op'[o].status = "cancelled")
    BY <1>3, <2>3, <2>4, <2>6
  <2> QED BY <1>4, <2>7, <2>8
<1> QED BY <1>5, <1>6, <1>7

\* The other goroutines leave a cycle what it relies on.
LEMMA OthersLeaveCycle ==
  ASSUME Invariant, ExportsGoOn, NEW c \in Cycles,
         \/ \E d \in Cycles : d # c /\ (BeginRetentionCycle(d) \/ Maintenance(d))
         \/ \E r \in Restores : Restoring(r) \/ \E scope \in Scopes : RequestRestore(r, scope)
  PROVE  LeftAlone(c)
<1>0. /\ Pools /\ TypeOK /\ CatalogInv /\ LocksFit /\ CycleFits(c)
      /\ \A r \in Restores : RestoreFits(r)
  BY Pools DEF Invariant
<1>1. now' = now /\ now \in Nat
  BY <1>0, CyclesKeepTheDay, RestoresKeepTheDay DEF world, TypeOK
<1>2. ASSUME NEW d \in Cycles, d # c, BeginRetentionCycle(d) \/ Maintenance(d) PROVE LeftAlone(c)
  <2>1. cycle'[c] = cycle[c]
    BY <1>0, <1>2, CyclesMoveAlone
  <2>2. CASE cycle[c].pc \in Sleeping
    BY <1>0, <1>1, <2>1, <2>2, SleepersAreLeftAlone
  <2>3. CASE cycle[c].pc \notin Sleeping
    <3>1. mu = c /\ c # Nobody /\ cycle[d].pc \in Sleeping
      BY <1>0, <1>2, <2>3 DEF LocksFit, Pools
    <3>2. BeginRetentionCycle(d)
      BY <1>2, <3>1 DEF Maintenance, StartCycle, LockResume, ResumeRetentionDeletions, PlanCycle,
         SelectGroup, ClaimArchive, BuildArchive, PublishArchive, FailArchive, ClaimDeletion,
         StageDeletion, PublishStaged, Cutover, AbandonCutover, WithdrawDeletion, RemoveContent,
         PublishRemoved, PublishDeleted, ConvergeDeletion, At, Sleeping
    <3>3. UNCHANGED catalog
      BY <3>2 DEF BeginRetentionCycle
    <3> QED BY <1>1, <2>1, <3>3, NothingDisturbs
  <2> QED BY <2>2, <2>3
<1>3. ASSUME NEW r \in Restores, Restoring(r) \/ \E scope \in Scopes : RequestRestore(r, scope)
      PROVE  LeftAlone(c)
  <2>1. cycle'[c] = cycle[c]
    BY <1>0, <1>3, RestoreMovesAlone
  <2>2. CASE cycle[c].pc \in Sleeping
    BY <1>0, <1>1, <2>1, <2>2, SleepersAreLeftAlone
  <2>3. CASE cycle[c].pc \notin Sleeping
    <3>1. mu = c /\ c # Nobody /\ r # c
      BY <1>0, <1>3, <2>3 DEF LocksFit, Pools
    <3>2. restore[r].pc \notin Working
      BY <1>0, <3>1 DEF LocksFit
    <3>3. \/ FinishCommittedDeletions(r) \/ PreemptDeletion(r) \/ ClaimRestore(r) \/ RefuseRestore(r)
          \/ \E scope \in Scopes : RequestRestore(r, scope)
      BY <1>3, <3>1, <3>2 DEF Restoring, StartRestore, VerifySegment, VerificationFails, PublishRestore,
         PreparationFails, DropReplacements, FailRestore, RemovePublishedArchive, CompleteRestore,
         AbandonCleanup, RestoreAt, Working
    <3>4. gate # c
      BY <1>0, <3>1, <3>3 DEF FinishCommittedDeletions, PreemptDeletion, ClaimRestore, RefuseRestore,
         RequestRestore, RestoreAt, GateFree, LocksFit
    <3>5. cycle[c].pc \notin Gated
      BY <1>0, <3>4 DEF LocksFit
    <3> QED BY <1>0, <3>3, <3>5, ClaimsLeaveCycles
  <2> QED BY <2>2, <2>3
<1> QED BY <1>2, <1>3

\* The next step of a cycle, by what it holds then.
LEMMA IdleCycleFits ==
  ASSUME NEW c \in Cycles, cycle'[c] = NoCycle
  PROVE  CycleFits(c)' /\ PlanFits(c)'
BY DEF CycleFits, PlanFits, NoCycle, InArchive, InDeletion

\* A cycle before or after its work needs its cohort only.
LEMMA FreeCycleFits ==
  ASSUME NEW c \in Cycles, cycle'[c].pc \in {"queued", "locking", "resume", "plan", "delete"},
         cycle'[c].op = None, cycle'[c].evaluatedAt <= now',
         \A e \in cycle'[c].exports : export'[e].state # "absent"
  PROVE  CycleFits(c)' /\ PlanFits(c)'
<1>1. CycleFits(c)'
  BY DEF CycleFits, InArchive, InDeletion
<1>2. PlanFits(c)'
  BY DEF PlanFits
<1> QED BY <1>1, <1>2

\* A cycle that selects needs the groups it has counted.
LEMMA SelectingFits ==
  ASSUME NEW c \in Cycles, cycle'[c].pc \in {"select", "claim"},
         cycle'[c].op = None, cycle'[c].evaluatedAt <= now',
         \A e \in cycle'[c].exports : export'[e].state # "absent",
         LET A == Archivable(c) IN
            /\ CountGroups(A)' = cycle'[c].groups
            /\ cycle'[c].pc = "claim" => cycle'[c].groups > 0 /\ cycle'[c].group = NextGroup(A)'
  PROVE  CycleFits(c)' /\ PlanFits(c)'
<1>1. CycleFits(c)'
  BY DEF CycleFits, InArchive, InDeletion
<1>2. PlanFits(c)'
  BY DEF PlanFits
<1> QED BY <1>1, <1>2

\* A cycle that archives needs its running operation and its group.
LEMMA ArchivingFits ==
  ASSUME NEW c \in Cycles, cycle'[c].pc \in InArchive,
         cycle'[c].op # None, cycle'[c].evaluatedAt <= now', cycle'[c].groups > 0 \/ cycle'[c].pc = "fail",
         \A e \in cycle'[c].exports : export'[e].state # "absent",
         op'[cycle'[c].op].status = "running", op'[cycle'[c].op].kind = "archive",
         op'[cycle'[c].op].targets = cycle'[c].group,
         cycle'[c].pc = "publish" =>
            /\ cycle'[c].segment # None /\ segment'[cycle'[c].segment].state = "unused"
            /\ segment'[cycle'[c].segment].file = "installed",
         LET A == Archivable(c)
             B == Archivable(c) \union cycle[c].group
         IN  cycle'[c].pc \in {"build", "publish"} =>
                /\ CountGroups(B)' = cycle'[c].groups
                /\ cycle'[c].group = NextGroup(B)'
                /\ A' \intersect cycle'[c].group = {}
  PROVE  CycleFits(c)' /\ PlanFits(c)'
<1>1. CycleFits(c)'
  BY DEF CycleFits, InArchive, InDeletion
<1>2. PlanFits(c)'
  BY DEF PlanFits, InArchive
<1> QED BY <1>1, <1>2

\* What a deletion needs of its operation and its segment.
DeletionStands(c) ==
    LET k == cycle[c]
        o == cycle[c].op
        s == cycle[c].segment
    IN
    /\ k.pc = "stage" => RunningDeletion(o, s, {"staging"}) /\ segment[s].file = "installed"
    /\ k.pc = "staged" => RunningDeletion(o, s, {"staging"})
    /\ k.pc = "cutover" => op[o].status = "cancelled" \/ RunningDeletion(o, s, {"staged"})
    /\ k.pc = "withdraw" => RunningDeletion(o, s, {"staged"})
    /\ k.pc = "remove" => RunningDeletion(o, s, {"delete_committing"})
    /\ k.pc = "removed" => RunningDeletion(o, s, {"delete_committing"}) /\ segment[s].file = "absent"
    /\ k.pc = "terminal" => RunningDeletion(o, s, {"content_removed"}) /\ segment[s].file = "absent"
    /\ k.pc = "converge" /\ op[o].status = "running" => RunningDeletion(o, s, BeforeCutover \union AfterCutover)
    /\ op[o].status = "running" => op[o].decided = k.revision

\* A cycle that deletes needs its operation and its segment.
LEMMA DeletingFits ==
  ASSUME NEW c \in Cycles, cycle'[c].pc \in InDeletion, DeletionStands(c)',
         cycle'[c].op # None, cycle'[c].segment # None, cycle'[c].evaluatedAt <= now',
         \A e \in cycle'[c].exports : export'[e].state # "absent"
  PROVE  CycleFits(c)' /\ PlanFits(c)'
<1>1. CycleFits(c)'
  <2>1. cycle'[c].pc \notin InArchive \union {"claim", "build", "publish"} /\ cycle'[c].pc # "idle"
    BY DEF InArchive, InDeletion
  <2> QED BY <2>1 DEF CycleFits, DeletionStands
<1>2. PlanFits(c)'
  BY DEF PlanFits, InDeletion
<1> QED BY <1>1, <1>2

\* The cohort of a cycle stays received.
LEMMA CohortStays ==
  ASSUME TypeOK, NEW c \in Cycles, CycleFits(c), PlanFits(c), ExportsGoOn, UNCHANGED now, SamePlan(c),
         cycle[c].pc # "idle"
  PROVE  /\ cycle'[c].evaluatedAt <= now'
         /\ \A e \in cycle'[c].exports : export'[e].state # "absent"
<1>1. cycle[c].exports \in SUBSET Exports
  BY DEF TypeOK, CycleRecord
<1>2. \A e \in cycle[c].exports : export[e].state # "absent"
  BY DEF PlanFits
<1>3. cycle[c].evaluatedAt <= now
  BY DEF CycleFits
<1> QED BY <1>1, <1>2, <1>3 DEF SamePlan, ExportsGoOn

\* The planning of a cycle leaves it what its next step needs.
LEMMA PlanningFits ==
  ASSUME Pools, TypeOK, NEW c \in Cycles, CycleFits(c), PlanFits(c), ExportsGoOn,
         \/ BeginRetentionCycle(c) \/ StartCycle(c) \/ LockResume(c) \/ ResumeRetentionDeletions(c)
         \/ PlanCycle(c) \/ SelectGroup(c)
  PROVE  CycleFits(c)' /\ PlanFits(c)'
<1> USE DEF world
<1>0. /\ cycle[c].pc \notin InArchive \union InDeletion => cycle[c].op = None
      /\ now \in Nat
  BY DEF CycleFits, TypeOK
<1>s. {"queued", "locking", "resume", "plan", "select", "claim", "delete"} \subseteq CycleSteps
  BY DEF CycleSteps
<1>1. CASE BeginRetentionCycle(c)
  <2>1. /\ cycle'[c].pc = "queued" /\ cycle'[c].evaluatedAt = now /\ cycle'[c].op = None
        /\ cycle'[c].exports = {e \in Exports : export[e].state # "absent"}
    BY <1>1, CycleBegins
  <2>2. UNCHANGED <<now, export>>
    BY <1>1 DEF BeginRetentionCycle, catalog
  <2> QED BY <1>0, <2>1, <2>2, FreeCycleFits
<1>2. ASSUME NEW pc \in {"locking", "resume", "plan", "delete"}, To(c, pc), UNCHANGED now,
             cycle[c].pc \in {"queued", "locking", "resume", "select"}
      PROVE  CycleFits(c)' /\ PlanFits(c)'
  <2>1. cycle'[c].pc = pc /\ SamePlan(c) /\ SameHand(c)
    BY <1>s, <1>2, CycleTurns
  <2>2. cycle'[c].op = None
    BY <1>0, <1>2, <2>1 DEF SameHand, InArchive, InDeletion
  <2> QED BY <1>2, <2>1, <2>2, CohortStays, FreeCycleFits
<1>3. CASE StartCycle(c)
  BY <1>2, <1>3 DEF StartCycle, At
<1>4. CASE LockResume(c)
  BY <1>2, <1>4, CycleEnds, IdleCycleFits DEF LockResume, At
<1>5. CASE ResumeRetentionDeletions(c)
  <2>1. CASE UNCHANGED cycle
    <3>1. cycle'[c].pc = "resume" /\ cycle'[c].op = None /\ SamePlan(c) /\ UNCHANGED now
      BY <1>0, <1>5, <2>1 DEF ResumeRetentionDeletions, At, InArchive, InDeletion, SamePlan
    <3> QED BY <2>1, <3>1, CohortStays, FreeCycleFits
  <2> QED BY <1>2, <1>5, <2>1, CycleEnds, IdleCycleFits DEF ResumeRetentionDeletions, At
<1>6. CASE PlanCycle(c)
  <2>1. CASE EndCycle(c)
    BY <2>1, CycleEnds, IdleCycleFits
  <2>2. CASE ~EndCycle(c)
    <3> DEFINE A == Archivable(c)
               n == CountGroups(Archivable(c))
               w == Deletable(c)
    <3>1. /\ cycle' = [cycle EXCEPT ![c].pc = "select", ![c].revision = revision, ![c].todo = w, ![c].groups = n]
          /\ cycle[c].pc = "plan" /\ UNCHANGED <<now, export>>
      BY <1>6, <2>2 DEF PlanCycle, At, catalog
    <3>2. revision \in Nat /\ n \in Nat /\ w \in SUBSET Segments
      BY SetsAreTyped DEF TypeOK
    <3>n. n = CountGroups(A)
      OBVIOUS
    <3>c. cycle' = [cycle EXCEPT ![c].pc = "select", ![c].revision = revision, ![c].todo = w, ![c].groups = n]
      BY <3>1
    <3> HIDE DEF n, w, A
    <3>3. /\ cycle'[c].pc = "select" /\ cycle'[c].op = cycle[c].op /\ cycle'[c].groups = n
          /\ cycle'[c].exports = cycle[c].exports /\ cycle'[c].evaluatedAt = cycle[c].evaluatedAt
      <4> DEFINE k == [cycle[c] EXCEPT !.pc = "select", !.revision = revision, !.todo = w, !.groups = n]
      <4>1. cycle' = [cycle EXCEPT ![c] = k]
        BY <3>c
      <4>2. cycle[c] \in CycleRecord
        BY DEF TypeOK
      <4>3. /\ k.pc = "select" /\ k.op = cycle[c].op /\ k.groups = n
            /\ k.exports = cycle[c].exports /\ k.evaluatedAt = cycle[c].evaluatedAt
        BY <4>2 DEF CycleRecord
      <4> HIDE DEF k
      <4>4. cycle'[c] = k
        BY <4>1 DEF TypeOK
      <4> QED BY <4>3, <4>4
    <3>4. cycle'[c].op = None /\ cycle[c].evaluatedAt <= now
      BY <1>0, <3>1, <3>3 DEF InArchive, InDeletion, CycleFits
    <3>5. \A e \in cycle[c].exports : export[e].state # "absent"
      BY DEF PlanFits
    <3>6. cycle[c].exports \in SUBSET Exports /\ ActivesStay
      BY <3>1 DEF TypeOK, CycleRecord, ActivesStay, SameBut
    <3>7. A' = A
      BY <3>3, <3>5, <3>6, ArchivableStay DEF A
    <3>8. \A e \in A : export'[e].received = export[e].received
      BY <3>1 DEF A
    <3>9. CountGroups(A)' = CountGroups(A)
      BY <3>7, <3>8, GroupsStay DEF A
    <3>10. CountGroups(A)' = cycle'[c].groups
      BY <3>n, <3>3, <3>9
    <3> QED BY <3>1, <3>3, <3>4, <3>5, <3>10, SelectingFits DEF A
  <2> QED BY <2>1, <2>2
<1>7. CASE SelectGroup(c)
  <2>1. cycle[c].pc = "select" /\ UNCHANGED <<now, export>>
    BY <1>7 DEF SelectGroup, At, catalog
  <2>2. CASE To(c, "delete")
    BY <1>2, <2>1, <2>2
  <2>3. CASE ~To(c, "delete")
    <3> DEFINE A == Archivable(c)
               g == NextGroup(Archivable(c))
    <3>1. cycle[c].groups > 0 /\ cycle' = [cycle EXCEPT ![c].pc = "claim", ![c].group = g]
      BY <1>7, <2>3 DEF SelectGroup
    <3>2. g \in SUBSET Exports /\ g = NextGroup(A)
      BY SetsAreTyped
    <3> HIDE DEF g
    <3>3. /\ cycle'[c].pc = "claim" /\ SamePlan(c) /\ cycle'[c].group = g
          /\ cycle'[c].groups = cycle[c].groups /\ cycle'[c].op = cycle[c].op
      BY <3>1, <3>2, CycleSelects
    <3>4. /\ cycle'[c].op = None /\ cycle'[c].evaluatedAt <= now'
          /\ \A e \in cycle'[c].exports : export'[e].state # "absent"
      BY <1>0, <2>1, <3>3, CohortStays DEF InArchive, InDeletion
    <3>5. \A e \in cycle[c].exports : export[e].state # "absent"
      BY DEF PlanFits
    <3>6. /\ cycle[c].exports \in SUBSET Exports /\ ActivesStay
          /\ cycle'[c].exports = cycle[c].exports /\ cycle'[c].evaluatedAt = cycle[c].evaluatedAt
      BY <2>1, <3>3 DEF TypeOK, CycleRecord, ActivesStay, SameBut, SamePlan
    <3>7. A' = A
      BY <3>5, <3>6, ArchivableStay
    <3>8. \A e \in A : export'[e].received = export[e].received
      BY <2>1
    <3>9. CountGroups(A)' = CountGroups(A) /\ NextGroup(A)' = NextGroup(A)
      BY <3>7, <3>8, GroupsStay
    <3>10. CountGroups(A) = cycle[c].groups
      BY <2>1 DEF PlanFits
    <3>11. CountGroups(A)' = cycle'[c].groups /\ cycle'[c].group = NextGroup(A)' /\ cycle'[c].groups > 0
      BY <3>1, <3>2, <3>3, <3>9, <3>10
    <3> HIDE DEF A
    <3> QED BY <3>3, <3>4, <3>11, SelectingFits DEF A
  <2> QED BY <2>2, <2>3
<1> QED BY <1>1, <1>3, <1>4, <1>5, <1>6, <1>7

\* The group a cycle claims is one of those it counted.
LEMMA ClaimedGroupsStay ==
  ASSUME NEW c \in Cycles, LET A == Archivable(c)
                               B == Archivable(c) \union cycle[c].group
                           IN  B' = A /\ \A e \in A : export'[e].received = export[e].received
  PROVE  LET A == Archivable(c)
             B == Archivable(c) \union cycle[c].group
         IN  CountGroups(B)' = CountGroups(A) /\ NextGroup(B)' = NextGroup(A)
<1> DEFINE A == Archivable(c)
           B == Archivable(c) \union cycle[c].group
<1>0. B' = A /\ \A e \in A : export'[e].received = export[e].received
  OBVIOUS
<1> HIDE DEF A, B
<1>1. ASSUME NEW e \in A PROVE Place(e, B)' = Place(e, A)
  <2>1. {f \in B' : f <= e /\ export'[f].received = export'[e].received}
          = {f \in A : f <= e /\ export[f].received = export[e].received}
    BY <1>0
  <2> QED BY <2>1 DEF Place
<1>2. CountGroups(B)' = CountGroups(A)
  <2>1. {e \in B' : (Place(e, B)' - 1) % GroupLimit = 0} = {e \in A : (Place(e, A) - 1) % GroupLimit = 0}
    BY <1>0, <1>1
  <2> QED BY <2>1 DEF CountGroups
<1>3. NextGroup(B)' = NextGroup(A)
  <2>1. {e \in B' : (\A f \in B' : export'[e].received <= export'[f].received) /\ Place(e, B)' <= GroupLimit}
          = {e \in A : (\A f \in A : export[e].received <= export[f].received) /\ Place(e, A) <= GroupLimit}
    BY <1>0, <1>1
  <2> QED BY <2>1 DEF NextGroup
<1> QED BY <1>2, <1>3 DEF A, B

\* Who is claimed is not archivable any more.
LEMMA ClaimedAreOut ==
  ASSUME TypeOK, NEW c \in Cycles, NEW o \in Operations, o # None, SamePlan(c),
         \A e \in Exports : SameBut(e, IF e \in cycle[c].group THEN o ELSE export[e].owner)
  PROVE  Archivable(c)' = Archivable(c) \ cycle[c].group
<1>0. cycle[c].exports \in SUBSET Exports
  BY DEF TypeOK, CycleRecord
<1>1. ASSUME NEW e \in cycle[c].exports
      PROVE  (/\ export'[e].state = "active"
              /\ export'[e].received + ArchiveDays <= cycle[c].evaluatedAt
              /\ export'[e].hold <= cycle[c].evaluatedAt
              /\ export'[e].owner = None)
             <=>
             (/\ export[e].state = "active"
              /\ export[e].received + ArchiveDays <= cycle[c].evaluatedAt
              /\ export[e].hold <= cycle[c].evaluatedAt
              /\ export[e].owner = None) /\ e \notin cycle[c].group
  BY <1>0 DEF SameBut
<1>2. cycle'[c].exports = cycle[c].exports /\ cycle'[c].evaluatedAt = cycle[c].evaluatedAt
  BY DEF SamePlan
<1> QED BY <1>1, <1>2 DEF Archivable

\* The claim of a group leaves the cycle what its next step needs.
LEMMA ArchiveClaimFits ==
  ASSUME Pools, TypeOK, NEW c \in Cycles, CycleFits(c), PlanFits(c), ExportsGoOn, ClaimArchive(c)
  PROVE  CycleFits(c)' /\ PlanFits(c)'
<1> USE DEF world
<1> DEFINE g == cycle[c].group
           new == [NoOperation EXCEPT
                     !.kind = "archive", !.status = "running", !.phase = "planned",
                     !.targets = cycle[c].group]
           A == Archivable(c)
           B == Archivable(c) \union cycle[c].group
<1>0. /\ cycle[c].pc = "claim" /\ UNCHANGED now /\ None \notin Operations
      /\ cycle[c].exports \in SUBSET Exports /\ g \in SUBSET Exports
  BY DEF ClaimArchive, At, Pools, None, TypeOK, CycleRecord
<1>1. CASE EndCycle(c)
  BY <1>1, CycleEnds, IdleCycleFits
<1>2. CASE ~EndCycle(c)
  <2>1. PICK o \in FreshOperation :
           /\ op' = [op EXCEPT ![o] = new]
           /\ export' = [e \in Exports |-> IF e \in g THEN [export[e] EXCEPT !.owner = o] ELSE export[e]]
           /\ cycle' = [cycle EXCEPT ![c].pc = "build", ![c].op = o]
    BY <1>2 DEF ClaimArchive
  <2>2. o \in Operations /\ o # None
    BY <1>0, FreshAreTyped
  <2>3. /\ cycle'[c].pc = "build" /\ SamePlan(c) /\ cycle'[c].group = cycle[c].group
        /\ cycle'[c].groups = cycle[c].groups /\ cycle'[c].op = o
    BY <2>1, <2>2, CycleClaims
  <2>4. new.status = "running" /\ new.kind = "archive" /\ new.targets = g
    BY DEF NoOperation
  <2> HIDE DEF new
  <2>5. op'[o].status = "running" /\ op'[o].kind = "archive" /\ op'[o].targets = g
    BY <2>1, <2>2, <2>4 DEF TypeOK
  <2>6. \A e \in Exports : SameBut(e, IF e \in g THEN o ELSE export[e].owner)
    BY <2>1, <2>2, GivenIsTyped
  <2>7. A' = A \ g
    BY <2>2, <2>3, <2>6, ClaimedAreOut
  <2>8. CountGroups(A) = cycle[c].groups /\ g = NextGroup(A) /\ cycle[c].groups > 0
    BY <1>0 DEF PlanFits, CycleFits
  <2>9. g \subseteq A /\ A \subseteq Exports
    BY <1>0, <2>8 DEF NextGroup, Archivable
  <2>10. B' = A /\ g' = g
    BY <2>3, <2>7, <2>9
  <2>11. \A e \in A : export'[e].received = export[e].received
    BY <2>6, <2>9 DEF SameBut
  <2>12. CountGroups(B)' = CountGroups(A) /\ NextGroup(B)' = NextGroup(A)
    BY <2>10, <2>11, ClaimedGroupsStay
  <2>13. /\ cycle'[c].evaluatedAt <= now'
         /\ \A e \in cycle'[c].exports : export'[e].state # "absent"
    BY <1>0, <2>3, CohortStays
  <2>14. /\ CountGroups(B)' = cycle'[c].groups /\ cycle'[c].group = NextGroup(B)'
         /\ A' \intersect cycle'[c].group = {}
    BY <2>3, <2>7, <2>8, <2>12
  <2>15. cycle'[c].op # None /\ cycle'[c].groups > 0 /\ cycle'[c].pc \in InArchive /\ cycle'[c].pc # "publish"
    BY <2>2, <2>3, <2>8 DEF InArchive
  <2>16. /\ op'[cycle'[c].op].status = "running" /\ op'[cycle'[c].op].kind = "archive"
         /\ op'[cycle'[c].op].targets = cycle'[c].group
    BY <2>3, <2>5
  <2> HIDE DEF A, B
  <2> QED BY <2>13, <2>14, <2>15, <2>16, ArchivingFits DEF A, B
<1> QED BY <1>1, <1>2

\* A built segment is the one the cycle publishes.
LEMMA BuildingFits ==
  ASSUME Pools, TypeOK, NEW c \in Cycles, CycleFits(c), PlanFits(c), ExportsGoOn, BuildArchive(c)
  PROVE  CycleFits(c)' /\ PlanFits(c)'
<1> USE DEF world
<1> DEFINE A == Archivable(c)
           B == Archivable(c) \union cycle[c].group
           o == cycle[c].op
<1>0. /\ cycle[c].pc = "build" /\ UNCHANGED <<now, export, op>>
      /\ cycle[c].exports \in SUBSET Exports /\ cycle[c].group \in SUBSET Exports
  BY DEF BuildArchive, At, TypeOK, CycleRecord
<1>1. /\ o # None /\ cycle[c].groups > 0
      /\ op[o].status = "running" /\ op[o].kind = "archive" /\ op[o].targets = cycle[c].group
  BY <1>0 DEF CycleFits, InArchive
<1>2. /\ CountGroups(B) = cycle[c].groups /\ cycle[c].group = NextGroup(B)
      /\ A \intersect cycle[c].group = {}
      /\ \A e \in cycle[c].exports : export[e].state # "absent"
  BY <1>0 DEF PlanFits
<1>3. CASE To(c, "fail")
  <2>1. cycle'[c].pc = "fail" /\ SamePlan(c) /\ SameHand(c)
    BY <1>3, CycleTurns DEF CycleSteps
  <2>2. cycle'[c].op = o /\ cycle'[c].group = cycle[c].group
    BY <2>1 DEF SameHand
  <2>3. /\ cycle'[c].evaluatedAt <= now'
        /\ \A e \in cycle'[c].exports : export'[e].state # "absent"
    BY <1>0, <2>1, CohortStays
  <2>4. /\ op'[cycle'[c].op].status = "running" /\ op'[cycle'[c].op].kind = "archive"
        /\ op'[cycle'[c].op].targets = cycle'[c].group /\ cycle'[c].op # None
    BY <1>0, <1>1, <2>2
  <2>5. cycle'[c].pc \in InArchive
    BY <2>1 DEF InArchive
  <2> HIDE DEF A, B, o
  <2> QED BY <2>1, <2>3, <2>4, <2>5, ArchivingFits
<1>4. CASE ~To(c, "fail")
  <2>1. PICK s \in FreshSegment :
           segment' = MoveFile(s, "installed") /\ cycle' = [cycle EXCEPT ![c].pc = "publish", ![c].segment = s]
    BY <1>4 DEF BuildArchive, BuildWithIncarnation
  <2>2. s \in Segments /\ segment[s].state = "unused" /\ s # None
    BY FreshAreTyped DEF Pools, None
  <2>3. /\ cycle'[c].pc = "publish" /\ SamePlan(c) /\ cycle'[c].group = cycle[c].group
        /\ cycle'[c].groups = cycle[c].groups /\ cycle'[c].op = o /\ cycle'[c].segment = s
    BY <2>1, <2>2, CycleBuilds
  <2>4. segment'[s].state = "unused" /\ segment'[s].file = "installed"
    BY <2>1, <2>2, PlacesAre, MovedIsTyped DEF SameRow
  <2>5. /\ cycle'[c].evaluatedAt <= now'
        /\ \A e \in cycle'[c].exports : export'[e].state # "absent"
    BY <1>0, <2>3, CohortStays
  <2>6. A' = A
    <3>1. ActivesStay /\ cycle'[c].exports = cycle[c].exports /\ cycle'[c].evaluatedAt = cycle[c].evaluatedAt
      BY <1>0, <2>3 DEF ActivesStay, SameBut, SamePlan
    <3> QED BY <1>0, <1>2, <3>1, ArchivableStay
  <2>7. B' = B /\ \A e \in B : export'[e].received = export[e].received
    BY <1>0, <2>3, <2>6
  <2>8. CountGroups(B)' = CountGroups(B) /\ NextGroup(B)' = NextGroup(B)
    BY <2>7, AllGroupsStay
  <2>9. /\ CountGroups(B)' = cycle'[c].groups /\ cycle'[c].group = NextGroup(B)'
        /\ A' \intersect cycle'[c].group = {}
    BY <1>2, <2>3, <2>6, <2>8
  <2>10. /\ op'[cycle'[c].op].status = "running" /\ op'[cycle'[c].op].kind = "archive"
         /\ op'[cycle'[c].op].targets = cycle'[c].group /\ cycle'[c].op # None
         /\ cycle'[c].groups > 0 /\ cycle'[c].pc \in InArchive
         /\ cycle'[c].segment # None /\ segment'[cycle'[c].segment].state = "unused"
         /\ segment'[cycle'[c].segment].file = "installed"
    BY <1>0, <1>1, <2>2, <2>3, <2>4 DEF InArchive
  <2> HIDE DEF A, B, o
  <2> QED BY <2>5, <2>9, <2>10, ArchivingFits DEF A, B
<1> QED BY <1>3, <1>4

\* A published group leaves the candidates.
LEMMA PublishedAreOut ==
  ASSUME Pools, TypeOK, NEW c \in Cycles, NEW s \in Segments, SamePlan(c), MovedIn(cycle[c].group, s),
         Archivable(c) \intersect cycle[c].group = {}
  PROVE  Archivable(c)' = Archivable(c)
<1>0. cycle[c].exports \in SUBSET Exports
  BY DEF TypeOK, CycleRecord
<1>1. ASSUME NEW e \in cycle[c].exports, e \notin cycle[c].group
      PROVE  (/\ export'[e].state = "active"
              /\ export'[e].received + ArchiveDays <= cycle[c].evaluatedAt
              /\ export'[e].hold <= cycle[c].evaluatedAt
              /\ export'[e].owner = None)
             <=>
             (/\ export[e].state = "active"
              /\ export[e].received + ArchiveDays <= cycle[c].evaluatedAt
              /\ export[e].hold <= cycle[c].evaluatedAt
              /\ export[e].owner = None)
  BY <1>0, <1>1 DEF MovedIn
<1>2. ASSUME NEW e \in cycle[c].exports, e \in cycle[c].group PROVE export'[e].state # "active"
  BY <1>0, <1>2 DEF MovedIn
<1>3. cycle'[c].exports = cycle[c].exports /\ cycle'[c].evaluatedAt = cycle[c].evaluatedAt
  BY DEF SamePlan
<1>4. ASSUME NEW e \in cycle[c].exports PROVE e \in Archivable(c)' <=> e \in Archivable(c)
  <2>1. CASE e \in cycle[c].group
    <3>1. e \notin Archivable(c)
      BY <2>1
    <3>2. e \notin Archivable(c)'
      BY <1>2, <2>1 DEF Archivable
    <3> QED BY <3>1, <3>2
  <2>2. CASE e \notin cycle[c].group
    BY <1>1, <1>3, <2>2 DEF Archivable
  <2> QED BY <2>1, <2>2
<1>5. Archivable(c) \subseteq cycle[c].exports /\ Archivable(c)' \subseteq cycle[c].exports
  BY <1>3 DEF Archivable
<1> QED BY <1>4, <1>5

\* A published group leaves the cycle one group less, of those it counted.
LEMMA ArchivePublishingFits ==
  ASSUME Pools, TypeOK, CatalogInv, NEW c \in Cycles, CycleFits(c), PlanFits(c), ExportsGoOn, PublishArchive(c)
  PROVE  CycleFits(c)' /\ PlanFits(c)'
<1> USE DEF world
<1> DEFINE A == Archivable(c)
           B == Archivable(c) \union cycle[c].group
           o == cycle[c].op
           s == cycle[c].segment
           g == cycle[c].group
<1>0. /\ cycle[c].pc = "publish" /\ UNCHANGED now
      /\ cycle[c].exports \in SUBSET Exports /\ g \in SUBSET Exports
  BY DEF PublishArchive, At, TypeOK, CycleRecord
<1>1. /\ o # None /\ cycle[c].groups > 0 /\ s \in Segments
      /\ op[o].status = "running" /\ op[o].kind = "archive" /\ op[o].targets = g
  BY <1>0, CycleHolds DEF CycleFits, InArchive
<1>2. /\ CountGroups(B) = cycle[c].groups /\ g = NextGroup(B)
      /\ A \intersect g = {}
      /\ \A e \in cycle[c].exports : export[e].state # "absent"
  BY <1>0 DEF PlanFits
<1>3. CASE To(c, "fail") /\ UNCHANGED op
  <2>1. cycle'[c].pc = "fail" /\ SamePlan(c) /\ SameHand(c)
    BY <1>3, CycleTurns DEF CycleSteps
  <2>2. cycle'[c].op = o /\ cycle'[c].group = cycle[c].group
    BY <2>1 DEF SameHand
  <2>3. /\ cycle'[c].evaluatedAt <= now'
        /\ \A e \in cycle'[c].exports : export'[e].state # "absent"
    BY <1>0, <2>1, CohortStays
  <2>4. /\ op'[cycle'[c].op].status = "running" /\ op'[cycle'[c].op].kind = "archive"
        /\ op'[cycle'[c].op].targets = cycle'[c].group /\ cycle'[c].op # None
    BY <1>1, <1>3, <2>2
  <2>5. cycle'[c].pc \in InArchive
    BY <2>1 DEF InArchive
  <2> HIDE DEF A, B, o, s, g
  <2> QED BY <2>1, <2>3, <2>4, <2>5, ArchivingFits
<1>4. CASE ~(To(c, "fail") /\ UNCHANGED op)
  <2>1. /\ export' = [e \in Exports |->
              IF e \in g
              THEN [export[e] EXCEPT !.state = "archived", !.hold = 0, !.home = s, !.owner = None]
              ELSE export[e]]
        /\ cycle' = [cycle EXCEPT ![c].pc = "select", ![c].groups = @ - 1, ![c].group = {},
                                  ![c].op = None, ![c].segment = None]
    BY <1>4 DEF PublishArchive
  <2>2. /\ cycle'[c].pc = "select" /\ SamePlan(c)
        /\ cycle'[c].groups = cycle[c].groups - 1 /\ cycle'[c].op = None
    BY <1>1, <2>1, CyclePublishes
  <2>3. MovedIn(g, s)
    BY <1>1, <2>1, ArchivingMovesExports
  <2>4. A' = A
    BY <1>1, <1>2, <2>2, <2>3, PublishedAreOut
  <2>5. \A e \in A : export'[e].received = export[e].received
    BY <1>0, <2>3 DEF MovedIn, Archivable
  <2>6. CountGroups(A)' = CountGroups(A)
    BY <2>4, <2>5, GroupsStay
  <2>7. CountGroups(B \ NextGroup(B)) = CountGroups(B) - 1
    <3>1. B \in SUBSET Exports
      BY <1>0 DEF Archivable
    <3>2. B # {}
      <4>1. B = {} => CountGroups(B) = 0
        BY NoGroups
      <4>2. cycle[c].groups \in Nat
        BY DEF TypeOK, CycleRecord
      <4> QED BY <1>1, <1>2, <4>1, <4>2
    <3>3. Typed
      BY DEF TypeOK, Typed
    <3> HIDE DEF B
    <3> QED BY <3>1, <3>2, <3>3, OneGroupLess
  <2>8. B \ NextGroup(B) = A
    BY <1>2
  <2>9. CountGroups(A)' = cycle'[c].groups
    BY <1>2, <2>2, <2>6, <2>7, <2>8
  <2>10. /\ cycle'[c].evaluatedAt <= now'
         /\ \A e \in cycle'[c].exports : export'[e].state # "absent"
    BY <1>0, <2>2, CohortStays
  <2> HIDE DEF A, B, o, s, g
  <2> QED BY <2>2, <2>9, <2>10, SelectingFits DEF A
<1> QED BY <1>3, <1>4

\* The archive of a group leaves the cycle what its next step needs.
LEMMA ArchivesFit ==
  ASSUME Pools, TypeOK, CatalogInv, NEW c \in Cycles, CycleFits(c), PlanFits(c), ExportsGoOn,
         ClaimArchive(c) \/ BuildArchive(c) \/ PublishArchive(c) \/ FailArchive(c)
  PROVE  CycleFits(c)' /\ PlanFits(c)'
<1>1. CASE FailArchive(c)
  BY <1>1, CycleEnds, IdleCycleFits DEF FailArchive
<1> QED BY <1>1, ArchiveClaimFits, BuildingFits, ArchivePublishingFits

\* The intent to delete a segment, and what the claim found.
LEMMA DeletionIsClaimed ==
  ASSUME Pools, TypeOK, CatalogInv, FilesFit, NEW c \in Cycles, NEW s \in Segments, NEW o \in FreshOperation,
         DeletionClaimable(c, s), ClaimsDeletion(c, s, o)
  PROVE  /\ o \in Operations /\ op[o].status # "running" /\ o \notin InHand
         /\ op'[o].kind = "delete" /\ op'[o].status = "running" /\ op'[o].phase = "staging"
         /\ op'[o].segment = s /\ op'[o].decided = cycle[c].revision
         /\ \A p \in Operations : p # o => op'[p] = op[p]
         /\ \A e \in Exports : SameBut(e, IF export[e].home = s THEN o ELSE export[e].owner)
         /\ segment[s].file = "installed"
         /\ \A p \in Operations : ~RunningDeletion(p, s, BeforeCutover \union AfterCutover)
<1> DEFINE k == [NoOperation EXCEPT
                   !.kind = "delete", !.status = "running", !.phase = "staging",
                   !.targets = Members(s), !.segment = s, !.decided = cycle[c].revision]
<1>0. o \in Operations /\ op[o].status # "running" /\ o \notin InHand
  BY FreshAreTyped
<1>1. /\ op' = [op EXCEPT ![o] = k]
      /\ export' = [e \in Exports |-> IF e \in Members(s) THEN [export[e] EXCEPT !.owner = o] ELSE export[e]]
  BY DEF ClaimsDeletion
<1>2. /\ k.kind = "delete" /\ k.status = "running" /\ k.phase = "staging"
      /\ k.segment = s /\ k.decided = cycle[c].revision
  BY DEF NoOperation
<1> HIDE DEF k
<1>3. op'[o] = k /\ \A p \in Operations : p # o => op'[p] = op[p]
  BY <1>0, <1>1 DEF TypeOK
<1>4. \A e \in Exports : SameBut(e, IF e \in Members(s) THEN o ELSE export[e].owner)
  BY <1>0, <1>1, GivenIsTyped
<1>5. \A e \in Exports : SameBut(e, IF export[e].home = s THEN o ELSE export[e].owner)
  BY <1>4 DEF Members
<1>6. /\ segment[s].state = "current"
      /\ \A e \in Exports : export[e].home = s => export[e].owner = None
  BY DEF DeletionClaimable, Current, Members
<1>7. PICK e \in Exports : export[e].home = s
  BY <1>6 DEF CatalogInv, SegmentsFit
<1>8. ASSUME NEW p \in Operations, RunningDeletion(p, s, BeforeCutover \union AfterCutover) PROVE FALSE
  <2>1. op[p].status = "running" /\ op[p].kind = "delete" /\ op[p].segment = s
    BY <1>8 DEF RunningDeletion
  <2>2. export[e].owner = p
    <3>1. /\ \A f \in Exports : export[f].home = op[p].segment <=> f \in op[p].targets
          /\ \A f \in Exports : export[f].owner = p <=> f \in op[p].targets
      BY <2>1, DeletionsAreApart
    <3> QED BY <1>7, <2>1, <3>1
  <2>3. p # None
    BY HomesAreCurrent
  <2> QED BY <1>6, <1>7, <2>2, <2>3
<1>9. segment[s].file = "installed"
  BY <1>6, <1>8 DEF FilesFit
<1> QED BY <1>0, <1>2, <1>3, <1>5, <1>8, <1>9

\* The claim of a deletion leaves the cycle what its next step needs.
LEMMA DeletionClaimFits ==
  ASSUME Pools, TypeOK, CatalogInv, FilesFit, NEW c \in Cycles, CycleFits(c), PlanFits(c), ExportsGoOn,
         ClaimDeletion(c)
  PROVE  CycleFits(c)' /\ PlanFits(c)'
<1>1. CASE EndCycle(c)
  BY <1>1, CycleEnds, IdleCycleFits
<1>2. CASE ~EndCycle(c)
  <2>0. cycle[c].pc # "idle" /\ UNCHANGED now
    BY ClaimDeletionParts DEF At, world
  <2>1. /\ UNCHANGED segment
        /\ \E s \in cycle[c].todo, o \in FreshOperation : DeletionClaimable(c, s) /\ ClaimsDeletion(c, s, o)
    BY <1>2, ClaimDeletionParts
  <2>2. PICK s \in cycle[c].todo, o \in FreshOperation : DeletionClaimable(c, s) /\ ClaimsDeletion(c, s, o)
    BY <2>1
  <2>3. s \in Segments /\ s # None /\ None \notin Operations
    BY HomesAreCurrent DEF TypeOK, CycleRecord
  <2>4. /\ o \in Operations
        /\ op'[o].kind = "delete" /\ op'[o].status = "running" /\ op'[o].phase = "staging"
        /\ op'[o].segment = s /\ op'[o].decided = cycle[c].revision
        /\ segment[s].file = "installed"
    BY <2>2, <2>3, DeletionIsClaimed
  <2>5. cycle'[c].pc = "stage" /\ SamePlan(c) /\ cycle'[c].op = o /\ cycle'[c].segment = s
    BY <2>2, <2>3, <2>4, CycleDeletes
  <2>6. DeletionStands(c)'
    <3>1. segment'[s].file = "installed" /\ cycle'[c].revision = cycle[c].revision
      BY <2>1, <2>4, <2>5 DEF SamePlan
    <3> QED BY <2>4, <2>5, <3>1 DEF DeletionStands, RunningDeletion
  <2>7. /\ cycle'[c].evaluatedAt <= now'
        /\ \A e \in cycle'[c].exports : export'[e].state # "absent"
    BY <2>0, <2>5, CohortStays
  <2>8. cycle'[c].pc \in InDeletion /\ cycle'[c].op # None /\ cycle'[c].segment # None
    BY <2>3, <2>4, <2>5 DEF InDeletion
  <2> QED BY <2>6, <2>7, <2>8, DeletingFits
<1> QED BY <1>1, <1>2

\* A deletion that goes on with the same operation and segment.
LEMMA DeletionGoesOnFitting ==
  ASSUME Pools, TypeOK, NEW c \in Cycles, CycleFits(c), PlanFits(c), ExportsGoOn, UNCHANGED now,
         cycle[c].pc \in InDeletion, cycle'[c].pc \in InDeletion, SamePlan(c), SameHand(c),
         DeletionStands(c)'
  PROVE  CycleFits(c)' /\ PlanFits(c)'
<1>1. cycle[c].pc # "idle" /\ cycle[c].op # None /\ cycle[c].segment # None
  BY DEF CycleFits, InDeletion
<1>2. /\ cycle'[c].evaluatedAt <= now'
      /\ \A e \in cycle'[c].exports : export'[e].state # "absent"
  BY <1>1, CohortStays
<1>3. cycle'[c].op # None /\ cycle'[c].segment # None
  BY <1>1 DEF SameHand
<1> QED BY <1>2, <1>3, DeletingFits

\* A cycle done with a deletion is ready for the next one.
LEMMA NextDeletionFits ==
  ASSUME Pools, TypeOK, NEW c \in Cycles, CycleFits(c), PlanFits(c), ExportsGoOn, UNCHANGED now,
         cycle[c].pc \in InDeletion,
         cycle' = [cycle EXCEPT ![c].pc = "delete", ![c].op = None, ![c].segment = None]
  PROVE  CycleFits(c)' /\ PlanFits(c)'
<1>1. cycle'[c].pc = "delete" /\ SamePlan(c) /\ cycle'[c].op = None
  BY CycleForgets
<1>2. cycle[c].pc # "idle"
  BY DEF InDeletion
<1> QED BY <1>1, <1>2, CohortStays, FreeCycleFits

\* The deferred recovery takes over what the cycle held.
LEMMA ConvergingFits ==
  ASSUME Pools, TypeOK, NEW c \in Cycles, CycleFits(c), PlanFits(c), ExportsGoOn, UNCHANGED <<now, op>>,
         cycle[c].pc \in InDeletion \ {"cutover", "converge"} \/ cycle[c].pc = "cutover", To(c, "converge")
  PROVE  CycleFits(c)' /\ PlanFits(c)'
<1> DEFINE o == cycle[c].op
           s == cycle[c].segment
<1>1. cycle'[c].pc = "converge" /\ SamePlan(c) /\ SameHand(c)
  BY CycleTurns DEF CycleSteps
<1>2. cycle'[c].op = o /\ cycle'[c].segment = s /\ cycle'[c].revision = cycle[c].revision
  BY <1>1 DEF SamePlan, SameHand
<1>3. op[o].status = "running" => RunningDeletion(o, s, BeforeCutover \union AfterCutover)
  BY DEF CycleFits, RunningDeletion, InDeletion, BeforeCutover, AfterCutover
<1>4. op[o].status = "running" => op[o].decided = cycle[c].revision
  BY DEF CycleFits, InDeletion
<1> HIDE DEF o, s
<1>5. DeletionStands(c)'
  BY <1>1, <1>2, <1>3, <1>4 DEF DeletionStands, RunningDeletion
<1>6. cycle'[c].pc \in InDeletion /\ cycle[c].pc \in InDeletion
  BY <1>1 DEF InDeletion
<1> QED BY <1>1, <1>5, <1>6, DeletionGoesOnFitting

\* A staged deletion goes on with the operation and the segment it had.
LEMMA StagingFits ==
  ASSUME Pools, TypeOK, NEW c \in Cycles, CycleFits(c), PlanFits(c), ExportsGoOn,
         StageDeletion(c) \/ PublishStaged(c)
  PROVE  CycleFits(c)' /\ PlanFits(c)'
<1> USE DEF world
<1> DEFINE o == cycle[c].op
           s == cycle[c].segment
<1>0. /\ cycle[c].pc \in {"stage", "staged"} /\ UNCHANGED now
      /\ o \in Operations /\ s \in Segments
  BY CycleHolds DEF StageDeletion, PublishStaged, At, InDeletion
<1>1. RunningDeletion(o, s, {"staging"}) /\ op[o].decided = cycle[c].revision
  BY <1>0 DEF CycleFits, InDeletion, RunningDeletion
<1>2. CASE EndCycle(c)
  BY <1>2, CycleEnds, IdleCycleFits
<1>3. CASE To(c, "converge") /\ UNCHANGED op
  BY <1>0, <1>3, ConvergingFits DEF InDeletion
<1>4. CASE To(c, "staged") /\ UNCHANGED op
  <2>1. cycle'[c].pc = "staged" /\ SamePlan(c) /\ SameHand(c)
    BY <1>4, CycleTurns DEF CycleSteps
  <2>2. cycle'[c].op = o /\ cycle'[c].segment = s /\ cycle'[c].revision = cycle[c].revision
    BY <2>1 DEF SamePlan, SameHand
  <2> HIDE DEF o, s
  <2>3. DeletionStands(c)'
    BY <1>1, <1>4, <2>1, <2>2 DEF DeletionStands, RunningDeletion
  <2>4. cycle[c].pc \in InDeletion /\ cycle'[c].pc \in InDeletion
    BY <1>0, <2>1 DEF InDeletion
  <2> QED BY <1>0, <2>1, <2>3, <2>4, DeletionGoesOnFitting
<1>5. CASE To(c, "cutover") /\ op' = [op EXCEPT ![o].phase = "staged"]
  <2>1. cycle'[c].pc = "cutover" /\ SamePlan(c) /\ SameHand(c)
    BY <1>5, CycleTurns DEF CycleSteps
  <2>2. cycle'[c].op = o /\ cycle'[c].segment = s /\ cycle'[c].revision = cycle[c].revision
    BY <2>1 DEF SamePlan, SameHand
  <2>3. op'[o] = [op[o] EXCEPT !.phase = "staged"] /\ op[o] \in OperationRecord
    BY <1>0, <1>5, PhaseIsTyped DEF Phases, BeforeCutover, TypeOK
  <2>4. /\ op'[o].phase = "staged" /\ op'[o].status = op[o].status /\ op'[o].kind = op[o].kind
        /\ op'[o].segment = op[o].segment /\ op'[o].decided = op[o].decided
    BY <2>3 DEF OperationRecord
  <2> HIDE DEF o, s
  <2>5. DeletionStands(c)'
    BY <1>1, <2>1, <2>2, <2>4 DEF DeletionStands, RunningDeletion
  <2>6. cycle[c].pc \in InDeletion /\ cycle'[c].pc \in InDeletion
    BY <1>0, <2>1 DEF InDeletion
  <2> QED BY <1>0, <2>1, <2>5, <2>6, DeletionGoesOnFitting
<1> QED BY <1>2, <1>3, <1>4, <1>5 DEF StageDeletion, PublishStaged, Converge

\* A deletion that cuts over, or gives up, has what its next step needs.
LEMMA CuttingOverFits ==
  ASSUME Pools, TypeOK, NEW c \in Cycles, CycleFits(c), PlanFits(c), ExportsGoOn,
         Cutover(c) \/ AbandonCutover(c)
  PROVE  CycleFits(c)' /\ PlanFits(c)'
<1> USE DEF world
<1> DEFINE o == cycle[c].op
           s == cycle[c].segment
<1>0. /\ cycle[c].pc = "cutover" /\ UNCHANGED now
      /\ o \in Operations /\ s \in Segments
  BY CycleHolds DEF Cutover, AbandonCutover, At, InDeletion
<1>1. op[o].status = "running" => RunningDeletion(o, s, {"staged"}) /\ op[o].decided = cycle[c].revision
  BY <1>0 DEF CycleFits, InDeletion, RunningDeletion
<1>2. CASE EndCycle(c)
  BY <1>2, CycleEnds, IdleCycleFits
<1>3. CASE To(c, "converge") /\ UNCHANGED op
  BY <1>0, <1>3, ConvergingFits
<1>4. CASE cycle' = [cycle EXCEPT ![c].pc = "delete", ![c].op = None, ![c].segment = None]
  BY <1>0, <1>4, NextDeletionFits DEF InDeletion
<1>5. CASE To(c, "withdraw") /\ UNCHANGED op /\ op[o].status = "running"
  <2>1. cycle'[c].pc = "withdraw" /\ SamePlan(c) /\ SameHand(c)
    BY <1>5, CycleTurns DEF CycleSteps
  <2>2. cycle'[c].op = o /\ cycle'[c].segment = s /\ cycle'[c].revision = cycle[c].revision
    BY <2>1 DEF SamePlan, SameHand
  <2> HIDE DEF o, s
  <2>3. DeletionStands(c)'
    BY <1>1, <1>5, <2>1, <2>2 DEF DeletionStands, RunningDeletion
  <2>4. cycle[c].pc \in InDeletion /\ cycle'[c].pc \in InDeletion
    BY <1>0, <2>1 DEF InDeletion
  <2> QED BY <1>0, <2>1, <2>3, <2>4, DeletionGoesOnFitting
<1>6. CASE To(c, "remove") /\ op' = [op EXCEPT ![o].phase = "delete_committing"] /\ op[o].status = "running"
  <2>1. cycle'[c].pc = "remove" /\ SamePlan(c) /\ SameHand(c)
    BY <1>6, CycleTurns DEF CycleSteps
  <2>2. cycle'[c].op = o /\ cycle'[c].segment = s /\ cycle'[c].revision = cycle[c].revision
    BY <2>1 DEF SamePlan, SameHand
  <2>3. op'[o] = [op[o] EXCEPT !.phase = "delete_committing"] /\ op[o] \in OperationRecord
    BY <1>0, <1>6, PhaseIsTyped DEF Phases, AfterCutover, TypeOK
  <2>4. /\ op'[o].phase = "delete_committing" /\ op'[o].status = op[o].status /\ op'[o].kind = op[o].kind
        /\ op'[o].segment = op[o].segment /\ op'[o].decided = op[o].decided
    BY <2>3 DEF OperationRecord
  <2> HIDE DEF o, s
  <2>5. DeletionStands(c)'
    BY <1>1, <1>6, <2>1, <2>2, <2>4 DEF DeletionStands, RunningDeletion
  <2>6. cycle[c].pc \in InDeletion /\ cycle'[c].pc \in InDeletion
    BY <1>0, <2>1 DEF InDeletion
  <2> QED BY <1>0, <2>1, <2>5, <2>6, DeletionGoesOnFitting
<1> QED BY <1>2, <1>3, <1>4, <1>5, <1>6 DEF Cutover, AbandonCutover

\* A withdrawn deletion has what its next step needs.
LEMMA WithdrawingFits ==
  ASSUME Pools, TypeOK, NEW c \in Cycles, CycleFits(c), PlanFits(c), ExportsGoOn, WithdrawDeletion(c)
  PROVE  CycleFits(c)' /\ PlanFits(c)'
<1> USE DEF world
<1> DEFINE o == cycle[c].op
           s == cycle[c].segment
<1>0. cycle[c].pc = "withdraw" /\ UNCHANGED now
  BY DEF WithdrawDeletion, At
<1>1. RunningDeletion(o, s, {"staged"}) /\ op[o].decided = cycle[c].revision
  BY <1>0 DEF CycleFits, InDeletion, RunningDeletion
<1>2. CASE UNCHANGED <<cycle, op>>
  <2>1. SamePlan(c) /\ SameHand(c) /\ cycle'[c] = cycle[c]
    BY <1>2 DEF SamePlan, SameHand
  <2> HIDE DEF o, s
  <2>2. DeletionStands(c)'
    BY <1>0, <1>1, <1>2, <2>1 DEF DeletionStands, RunningDeletion, o, s
  <2> QED BY <1>0, <2>1, <2>2, DeletionGoesOnFitting DEF InDeletion
<1>3. CASE To(c, "converge") /\ UNCHANGED op
  BY <1>0, <1>3, ConvergingFits DEF InDeletion
<1>4. CASE cycle' = [cycle EXCEPT ![c].pc = "delete", ![c].op = None, ![c].segment = None]
  BY <1>0, <1>4, NextDeletionFits DEF InDeletion
<1> QED BY <1>2, <1>3, <1>4 DEF WithdrawDeletion, Converge, catalog

\* A deletion past its cutover has what its next step needs.
LEMMA DeletingGoesOnFitting ==
  ASSUME Pools, TypeOK, NEW c \in Cycles, CycleFits(c), PlanFits(c), ExportsGoOn,
         RemoveContent(c) \/ PublishRemoved(c) \/ PublishDeleted(c)
  PROVE  CycleFits(c)' /\ PlanFits(c)'
<1> USE DEF world
<1> DEFINE o == cycle[c].op
           s == cycle[c].segment
<1>0. /\ cycle[c].pc \in {"remove", "removed", "terminal"} /\ UNCHANGED now
      /\ o \in Operations /\ s \in Segments
  BY CycleHolds DEF RemoveContent, PublishRemoved, PublishDeleted, At, InDeletion
<1>1. /\ op[o].decided = cycle[c].revision
      /\ cycle[c].pc \in {"remove", "removed"} => RunningDeletion(o, s, {"delete_committing"})
      /\ cycle[c].pc = "removed" => segment[s].file = "absent"
  BY <1>0 DEF CycleFits, InDeletion, RunningDeletion
<1>3. CASE To(c, "converge") /\ UNCHANGED op
  BY <1>0, <1>3, ConvergingFits DEF InDeletion
<1>4. CASE cycle' = [cycle EXCEPT ![c].pc = "delete", ![c].op = None, ![c].segment = None]
  BY <1>0, <1>4, NextDeletionFits DEF InDeletion
<1>5. CASE cycle[c].pc = "remove" /\ To(c, "removed") /\ UNCHANGED op /\ segment' = Erased({s})
  <2>1. cycle'[c].pc = "removed" /\ SamePlan(c) /\ SameHand(c)
    BY <1>5, CycleTurns DEF CycleSteps
  <2>2. cycle'[c].op = o /\ cycle'[c].segment = s /\ cycle'[c].revision = cycle[c].revision
    BY <2>1 DEF SamePlan, SameHand
  <2>3. segment'[s].file = "absent"
    BY <1>0, <1>5, ErasedIsTyped, ZenonT(40)
  <2> HIDE DEF o, s
  <2>4. DeletionStands(c)'
    BY <1>1, <1>5, <2>1, <2>2, <2>3 DEF DeletionStands, RunningDeletion
  <2>5. cycle[c].pc \in InDeletion /\ cycle'[c].pc \in InDeletion
    BY <1>0, <2>1 DEF InDeletion
  <2> QED BY <1>0, <2>1, <2>4, <2>5, DeletionGoesOnFitting
<1>6. CASE /\ cycle[c].pc = "removed" /\ To(c, "terminal") /\ UNCHANGED segment
           /\ op' = [op EXCEPT ![o].phase = "content_removed"]
  <2>1. cycle'[c].pc = "terminal" /\ SamePlan(c) /\ SameHand(c)
    BY <1>6, CycleTurns DEF CycleSteps
  <2>2. cycle'[c].op = o /\ cycle'[c].segment = s /\ cycle'[c].revision = cycle[c].revision
    BY <2>1 DEF SamePlan, SameHand
  <2>3. op'[o] = [op[o] EXCEPT !.phase = "content_removed"] /\ op[o] \in OperationRecord
    BY <1>0, <1>6, PhaseIsTyped DEF Phases, AfterCutover, TypeOK
  <2>4. /\ op'[o].phase = "content_removed" /\ op'[o].status = op[o].status /\ op'[o].kind = op[o].kind
        /\ op'[o].segment = op[o].segment /\ op'[o].decided = op[o].decided
    BY <2>3 DEF OperationRecord
  <2> HIDE DEF o, s
  <2>5. DeletionStands(c)'
    BY <1>1, <1>6, <2>1, <2>2, <2>4 DEF DeletionStands, RunningDeletion
  <2>6. cycle[c].pc \in InDeletion /\ cycle'[c].pc \in InDeletion
    BY <1>0, <2>1 DEF InDeletion
  <2> QED BY <1>0, <2>1, <2>5, <2>6, DeletionGoesOnFitting
<1> QED BY <1>3, <1>4, <1>5, <1>6 DEF RemoveContent, PublishRemoved, PublishDeleted, At, Converge, catalog

\* The deferred recovery of a deletion leaves the cycle what it needs.
LEMMA ConvergenceFits ==
  ASSUME Pools, TypeOK, CatalogInv, NEW c \in Cycles, CycleFits(c), PlanFits(c), ExportsGoOn,
         ConvergeDeletion(c)
  PROVE  CycleFits(c)' /\ PlanFits(c)'
<1> USE DEF world
<1> DEFINE o == cycle[c].op
           s == cycle[c].segment
<1>0. cycle[c].pc = "converge" /\ UNCHANGED now /\ o \in Operations
  BY CycleHolds DEF ConvergeDeletion, At, InDeletion
<1>1. op[o].status = "running" =>
         RunningDeletion(o, s, BeforeCutover \union AfterCutover) /\ op[o].decided = cycle[c].revision
  BY <1>0 DEF CycleFits, InDeletion
<1>2. CASE EndCycle(c)
  BY <1>2, CycleEnds, IdleCycleFits
<1>3. CASE op[o].status = "running" /\ RecoverDeletionOperation(o) /\ UNCHANGED cycle
  <2>1. o \in Running("delete")
    BY <1>0, <1>1, <1>3 DEF Running, RunningDeletion
  <2>2. op'[o] = op[o] \/ op'[o].status \in {"cancelled", "completed"}
    BY <1>3, <2>1, RecoveryWorks DEF DeletionWork
  <2>3. SamePlan(c) /\ SameHand(c) /\ cycle'[c] = cycle[c]
    BY <1>3 DEF SamePlan, SameHand
  <2>4. cycle'[c].op = o /\ cycle'[c].segment = s /\ cycle'[c].revision = cycle[c].revision
    BY <2>3
  <2> HIDE DEF o, s
  <2>5. DeletionStands(c)'
    <3>1. op'[o].status = "running" => op'[o] = op[o]
      BY <2>2
    <3>2. op'[o].status = "running" => RunningDeletion(o, s, BeforeCutover \union AfterCutover)'
      BY <1>1, <2>4, <3>1 DEF RunningDeletion, o, s
    <3> QED BY <1>0, <1>1, <2>3, <2>4, <3>1, <3>2 DEF DeletionStands, RunningDeletion
  <2> QED BY <1>0, <2>3, <2>5, DeletionGoesOnFitting DEF InDeletion
<1> QED BY <1>2, <1>3 DEF ConvergeDeletion

\* The cycle that moves has what its next step needs.
LEMMA OwnCycleFits ==
  ASSUME Pools, TypeOK, CatalogInv, FilesFit, NEW c \in Cycles, CycleFits(c), PlanFits(c), ExportsGoOn,
         BeginRetentionCycle(c) \/ Maintenance(c)
  PROVE  CycleFits(c)' /\ PlanFits(c)'
BY PlanningFits, ArchivesFit, DeletionClaimFits, StagingFits, CuttingOverFits, WithdrawingFits,
   DeletingGoesOnFitting, ConvergenceFits DEF Maintenance

\* The world goes on.
LEMMA WorldLeavesCycle ==
  ASSUME Pools, TypeOK, ExportsGoOn, NEW c \in Cycles, CycleFits(c),
         \/ Tick \/ (\E e \in Exports : Receive(e))
         \/ (\E enabled \in BOOLEAN : UpdateRetentionPolicy(enabled))
         \/ (\E s \in Segments : Damage(s)) \/ Close \/ UNCHANGED vars
  PROVE  LeftAlone(c)
<1>0. UNCHANGED cycle /\ now \in Nat
  BY DEF Tick, Receive, UpdateRetentionPolicy, Damage, Close, vars, TypeOK
<1>1. now <= now'
  <2>1. now' = now \/ now' = now + 1
    BY DEF Tick, Receive, UpdateRetentionPolicy, Damage, Close, vars, world
  <2> QED BY <1>0, <2>1
<1>2. CASE UNCHANGED catalog
  BY <1>0, <1>1, <1>2, NothingDisturbs
<1>3. ASSUME NEW e \in Exports, Receive(e) PROVE LeftAlone(c)
  <2>1. /\ UNCHANGED <<segment, op>> /\ export[e].state = "absent"
        /\ export' = [export EXCEPT ![e].state = "active", ![e].received = now]
    BY <1>3 DEF Receive
  <2>2. \A f \in Exports : f # e => export'[f] = export[f]
    BY <2>1 DEF TypeOK
  <2>3. ActivesStay
    BY <2>1, <2>2 DEF ActivesStay, SameBut
  <2> QED BY <1>0, <1>1, <2>1, <2>3 DEF LeftAlone
<1>4. ASSUME NEW s \in Segments, Damage(s) PROVE LeftAlone(c)
  <2>1. UNCHANGED <<export, op>> /\ \E part \in {"payload", "metadata"} : segment' = [segment EXCEPT ![s].damage = part]
    BY <1>4 DEF Damage
  <2>2. \A t \in Segments : segment'[t].state = segment[t].state /\ segment'[t].file = segment[t].file
    BY <2>1 DEF TypeOK, SegmentRecord
  <2>3. cycle[c].pc = "publish" => cycle[c].segment \in Segments
    BY CycleHolds
  <2>4. ActivesStay
    BY <2>1 DEF ActivesStay, SameBut
  <2> QED BY <1>0, <1>1, <2>1, <2>2, <2>3, <2>4 DEF LeftAlone
<1> QED BY <1>2, <1>3, <1>4 DEF Tick, UpdateRetentionPolicy, Close, vars

\* After every step each cycle has what its next step needs.
LEMMA CyclesKept == Invariant /\ [Next]_vars => \A c \in Cycles : CycleFits(c)' /\ PlanFits(c)'
<1> SUFFICES ASSUME Invariant, [Next]_vars, NEW c \in Cycles PROVE CycleFits(c)' /\ PlanFits(c)'
  OBVIOUS
<1>0. /\ Pools /\ TypeOK /\ TypeOK' /\ CatalogInv /\ LocksFit /\ FilesFit /\ CycleFits(c) /\ PlanFits(c)
      /\ ExportsGoOn
  BY Pools, TypesStay, EverythingGoesOn DEF Invariant
<1>1. LeftAlone(c) => CycleFits(c)' /\ PlanFits(c)'
  BY <1>0, CycleStays, PlanStays
<1>2. ASSUME NEW d \in Cycles, BeginRetentionCycle(d) \/ Maintenance(d) PROVE CycleFits(c)' /\ PlanFits(c)'
  <2>1. CASE d = c
    BY <1>0, <1>2, <2>1, OwnCycleFits
  <2>2. CASE d # c
    BY <1>0, <1>1, <1>2, <2>2, OthersLeaveCycle
  <2> QED BY <2>1, <2>2
<1>3. ASSUME NEW r \in Restores, Restoring(r) \/ \E scope \in Scopes : RequestRestore(r, scope)
      PROVE  CycleFits(c)' /\ PlanFits(c)'
  BY <1>0, <1>1, <1>3, OthersLeaveCycle
<1>4. CASE Exit \/ Crash
  BY <1>4, IdleCycleFits DEF Exit, Crash, Vanish
<1>5. CASE Recovery \/ RecoveryFails
  BY <1>0, <1>5, RecoveryIsAlone, IdleCycleFits
<1>6. CASE \/ Tick \/ (\E e \in Exports : Receive(e))
           \/ (\E enabled \in BOOLEAN : UpdateRetentionPolicy(enabled))
           \/ (\E s \in Segments : Damage(s)) \/ Close \/ UNCHANGED vars
  BY <1>0, <1>1, <1>6, WorldLeavesCycle
<1> QED BY <1>2, <1>3, <1>4, <1>5, <1>6 DEF Next

-----------------------------------------------------------------------------
(* The files *)

AllPhases == BeforeCutover \union AfterCutover
FileFits(s) ==
    /\ segment[s].state = "current" =>
          \/ segment[s].file = "installed"
          \/ \E o \in Operations :
                /\ RunningDeletion(o, s, AllPhases)
                /\ segment[s].file = "staged" \/ op[o].phase \in AfterCutover
    /\ segment[s].file = "staged" => \E o \in Operations : RunningDeletion(o, s, AllPhases)
    /\ segment[s].metadata = "unverifiable" =>
          segment[s].damage = "metadata" \/ segment[s].file = "absent"
    /\ segment[s].state = "unused" => segment[s].metadata = "verifiable"
    /\ \A o \in Operations : RunningDeletion(o, s, {"content_removed"}) => segment[s].file = "absent"

\* The files fit when each of them does.
LEMMA EachFileFits == FilesFit <=> \A s \in Segments : FileFits(s)
BY DEF FilesFit, FileFits, AllPhases

\* The same of the next state.
LEMMA EachFileWillFit == (\A s \in Segments : FileFits(s)') => FilesFit'
BY DEF FilesFit, FileFits, AllPhases

SameFile(s) ==
    /\ segment'[s].state = segment[s].state /\ segment'[s].file = segment[s].file
    /\ segment'[s].damage = segment[s].damage /\ segment'[s].metadata = segment[s].metadata

\* The deletions that run on a segment are the same before and after.
DeletionsStay(s) ==
    \A o \in Operations :
       \/ op'[o] = op[o]
       \/ ~RunningDeletion(o, s, AllPhases) /\ ~RunningDeletion(o, s, AllPhases)'

\* A file that stays, with the deletions that run on it, fits.
LEMMA FileStays ==
  ASSUME NEW s \in Segments, FileFits(s), SameFile(s), DeletionsStay(s)
  PROVE  FileFits(s)'
<1>1. ASSUME NEW o \in Operations
      PROVE  /\ RunningDeletion(o, s, AllPhases) => RunningDeletion(o, s, AllPhases)' /\ op'[o] = op[o]
             /\ RunningDeletion(o, s, {"content_removed"})' => RunningDeletion(o, s, {"content_removed"})
  BY DEF DeletionsStay, RunningDeletion, AllPhases, AfterCutover
<1>2. segment'[s].state = "current" =>
          \/ segment'[s].file = "installed"
          \/ \E o \in Operations :
                /\ RunningDeletion(o, s, AllPhases)'
                /\ segment'[s].file = "staged" \/ op'[o].phase \in AfterCutover
  BY <1>1 DEF FileFits, SameFile
<1>3. segment'[s].file = "staged" => \E o \in Operations : RunningDeletion(o, s, AllPhases)'
  BY <1>1 DEF FileFits, SameFile
<1>4. /\ segment'[s].metadata = "unverifiable" =>
          segment'[s].damage = "metadata" \/ segment'[s].file = "absent"
      /\ segment'[s].state = "unused" => segment'[s].metadata = "verifiable"
      /\ \A o \in Operations : RunningDeletion(o, s, {"content_removed"})' => segment'[s].file = "absent"
  BY <1>1 DEF FileFits, SameFile
<1> QED BY <1>2, <1>3, <1>4 DEF FileFits

\* Nobody deletes what is not current.
LEMMA OnlyCurrentAreDeleted ==
  ASSUME Pools, TypeOK, CatalogInv, NEW s \in Segments, segment[s].state # "current", NEW o \in Operations
  PROVE  ~RunningDeletion(o, s, AllPhases)
BY DeletionsAreApart DEF RunningDeletion

\* An operation that is no deletion does not matter to the files.
NoDeletion(o) == ~(op[o].status = "running" /\ op[o].kind = "delete")
\* Operations that are no deletions do not matter to the files.
LEMMA OthersDoNotMatter ==
  ASSUME FilesFit, \A s \in Segments : SameFile(s),
         \A o \in Operations : op'[o] = op[o] \/ (NoDeletion(o) /\ NoDeletion(o)')
  PROVE  FilesFit'
<1>1. ASSUME NEW s \in Segments PROVE FileFits(s)'
  <2>1. FileFits(s)
    BY EachFileFits
  <2>2. DeletionsStay(s)
    BY DEF DeletionsStay, NoDeletion, RunningDeletion
  <2> QED BY <2>1, <2>2, FileStays
<1> QED BY <1>1, EachFileWillFit

\* A catalog left alone leaves the files where the rows say.
LEMMA NothingMoves ==
  ASSUME FilesFit, UNCHANGED <<segment, op>>
  PROVE  FilesFit'
BY OthersDoNotMatter DEF SameFile

\* A deletion that is given up leaves its file installed.
LEMMA GivingUpFits ==
  ASSUME Pools, TypeOK, CatalogInv, FilesFit, UNCHANGED segment,
         NEW C, \A o \in C : /\ o \in Operations /\ op[o].status = "running" /\ op[o].kind = "delete"
                             /\ segment[op[o].segment].file = "installed",
         \A o \in Operations : IF o \in C THEN op'[o].status # "running"
                                          ELSE op'[o] = op[o] \/ (NoDeletion(o) /\ NoDeletion(o)')
  PROVE  FilesFit'
<1>1. ASSUME NEW s \in Segments PROVE FileFits(s)'
  <2>1. FileFits(s) /\ SameFile(s)
    BY EachFileFits DEF SameFile
  <2>2. CASE \A o \in C : op[o].segment # s
    <3>1. DeletionsStay(s)
      BY <2>2 DEF DeletionsStay, NoDeletion, RunningDeletion
    <3> QED BY <2>1, <3>1, FileStays
  <2>3. ASSUME NEW o \in C, op[o].segment = s PROVE FileFits(s)'
    <3>1. segment[s].file = "installed"
      BY <2>3
    <3>2. ASSUME NEW p \in Operations PROVE ~RunningDeletion(p, s, {"content_removed"})'
      <4>1. CASE p \in C
        BY <4>1 DEF RunningDeletion
      <4>2. CASE p \notin C
        <5>1. ~RunningDeletion(p, s, {"content_removed"})
          BY <2>1, <3>1 DEF FileFits
        <5> QED BY <4>2, <5>1 DEF RunningDeletion, NoDeletion
      <4> QED BY <4>1, <4>2
    <3> QED BY <2>1, <3>1, <3>2 DEF FileFits, SameFile
  <2> QED BY <2>2, <2>3
<1> QED BY <1>1, EachFileWillFit

\* The phase of a deletion goes on.
LEMMA PhaseFits ==
  ASSUME Pools, TypeOK, CatalogInv, FilesFit, UNCHANGED segment, NEW o \in Operations,
         op[o].status = "running", op[o].kind = "delete", NEW phase \in AllPhases,
         op[o].phase \in AfterCutover => phase \in AfterCutover,
         phase = "content_removed" => segment[op[o].segment].file = "absent",
         op' = [op EXCEPT ![o].phase = phase]
  PROVE  FilesFit'
<1>1. phase \in Phases /\ op[o] \in OperationRecord
  BY DEF AllPhases, Phases, TypeOK
<1>2. op'[o] = [op[o] EXCEPT !.phase = phase] /\ \A p \in Operations : p # o => op'[p] = op[p]
  BY <1>1, PhaseIsTyped
<1>3. /\ op'[o].phase = phase /\ op'[o].status = "running" /\ op'[o].kind = "delete"
      /\ op'[o].segment = op[o].segment
  BY <1>1, <1>2 DEF OperationRecord
<1>4. ASSUME NEW s \in Segments PROVE FileFits(s)'
  <2>1. FileFits(s) /\ SameFile(s)
    BY EachFileFits DEF SameFile
  <2>2. CASE op[o].segment # s
    <3>1. DeletionsStay(s)
      BY <1>2, <1>3, <2>2 DEF DeletionsStay, RunningDeletion
    <3> QED BY <2>1, <3>1, FileStays
  <2>3. CASE op[o].segment = s
    <3>1. RunningDeletion(o, s, AllPhases)'
      BY <1>3, <2>3 DEF RunningDeletion, AllPhases
    <3>2. \A p \in Operations : RunningDeletion(p, s, AllPhases) => p = o
      BY <2>3, DeletionsAreApart DEF RunningDeletion
    <3>3. op[o].phase \in AfterCutover => op'[o].phase \in AfterCutover
      BY <1>3
    <3>4. \A p \in Operations : RunningDeletion(p, s, {"content_removed"})' => segment[s].file = "absent"
      BY <1>2, <1>3, <2>1, <2>3 DEF RunningDeletion, FileFits
    <3> QED BY <2>1, <3>1, <3>2, <3>3, <3>4 DEF FileFits, SameFile
  <2> QED BY <2>2, <2>3
<1> QED BY <1>4, EachFileWillFit


\* The file of a segment nobody deletes.
LEMMA FreeFileFits ==
  ASSUME NEW s \in Segments, \A o \in Operations : ~RunningDeletion(o, s, {"content_removed"})',
         segment'[s].state = "current" => segment'[s].file = "installed",
         segment'[s].file # "staged",
         segment'[s].metadata = "unverifiable" =>
            segment'[s].damage = "metadata" \/ segment'[s].file = "absent",
         segment'[s].state = "unused" => segment'[s].metadata = "verifiable"
  PROVE  FileFits(s)'
BY DEF FileFits

\* The file of a segment a running deletion works on.
LEMMA HeldFileFits ==
  ASSUME NEW s \in Segments, FileFits(s), NEW o \in Operations, RunningDeletion(o, s, AllPhases)',
         segment'[s].state = segment[s].state, segment'[s].metadata = segment[s].metadata,
         segment'[s].file \in Places,
         \/ segment'[s].file = "absent" /\ op'[o].phase \in AfterCutover
         \/ /\ segment'[s].file # "absent" /\ segment[s].file # "absent"
            /\ segment'[s].damage = segment[s].damage
            /\ \A p \in Operations : ~RunningDeletion(p, s, {"content_removed"})'
  PROVE  FileFits(s)'
<1>1. segment'[s].state = "current" =>
          \/ segment'[s].file = "installed"
          \/ \E p \in Operations :
                /\ RunningDeletion(p, s, AllPhases)'
                /\ segment'[s].file = "staged" \/ op'[p].phase \in AfterCutover
  BY DEF Places
<1>2. segment'[s].file = "staged" => \E p \in Operations : RunningDeletion(p, s, AllPhases)'
  OBVIOUS
<1>3. /\ segment'[s].metadata = "unverifiable" =>
          segment'[s].damage = "metadata" \/ segment'[s].file = "absent"
      /\ segment'[s].state = "unused" => segment'[s].metadata = "verifiable"
      /\ \A p \in Operations : RunningDeletion(p, s, {"content_removed"})' => segment'[s].file = "absent"
  BY DEF FileFits
<1> QED BY <1>1, <1>2, <1>3 DEF FileFits

\* A running deletion works on one segment, and no other deletion does.
LEMMA DeletionIsHeld ==
  ASSUME Pools, TypeOK, CatalogInv, NEW o \in Operations, op[o].status = "running", op[o].kind = "delete"
  PROVE  op[o].segment \in Segments /\ RunningDeletion(o, op[o].segment, AllPhases)
<1>1. Deletes(o)
  BY DEF CatalogInv, OperationsFit, OperationFits
<1> QED BY <1>1 DEF Deletes, RunningDeletion, AllPhases

\* The file of a running deletion is staged or put back.
LEMMA MovingFits ==
  ASSUME Pools, TypeOK, CatalogInv, FilesFit, UNCHANGED op,
         NEW o \in Operations, op[o].status = "running", op[o].kind = "delete",
         segment[op[o].segment].file # "absent", NEW place \in {"installed", "staged"},
         segment' = MoveFile(op[o].segment, place)
  PROVE  FilesFit'
<1> DEFINE t == op[o].segment
<1>1. t \in Segments /\ RunningDeletion(o, t, AllPhases) /\ place \in Places
  BY DeletionIsHeld DEF Places
<1>2. segment[t].file # "absent" /\ segment' = MoveFile(t, place)
  OBVIOUS
<1> HIDE DEF t
<1>3. /\ segment'[t].file = place /\ segment'[t].damage = segment[t].damage /\ SameRow(t)
      /\ \A s \in Segments : s # t => segment'[s] = segment[s]
  BY <1>1, <1>2, MovedIsTyped
<1>4. ASSUME NEW s \in Segments PROVE FileFits(s)'
  <2>1. FileFits(s)
    BY EachFileFits
  <2>2. CASE s # t
    <3>1. SameFile(s) /\ DeletionsStay(s)
      BY <1>3, <2>2 DEF SameFile, DeletionsStay
    <3> QED BY <2>1, <3>1, FileStays
  <2>3. CASE s = t
    <3>1. RunningDeletion(o, s, AllPhases)'
      BY <1>1, <2>3 DEF RunningDeletion
    <3>2. \A p \in Operations : ~RunningDeletion(p, s, {"content_removed"})'
      BY <1>2, <2>1, <2>3 DEF FileFits, RunningDeletion
    <3>3. /\ segment'[s].state = segment[s].state /\ segment'[s].metadata = segment[s].metadata
          /\ segment'[s].damage = segment[s].damage /\ segment'[s].file = place
          /\ segment[s].file # "absent"
      BY <1>2, <1>3, <2>3 DEF SameRow
    <3> QED BY <1>1, <2>1, <3>1, <3>2, <3>3, HeldFileFits
  <2> QED BY <2>2, <2>3
<1> QED BY <1>4, EachFileWillFit

\* The file of a deletion past its point of no return is removed.
LEMMA RemovalFits ==
  ASSUME Pools, TypeOK, CatalogInv, FilesFit, UNCHANGED op,
         NEW o \in Operations, op[o].status = "running", op[o].kind = "delete",
         op[o].phase \in AfterCutover, segment' = Erased({op[o].segment})
  PROVE  FilesFit'
<1> DEFINE t == op[o].segment
<1>1. t \in Segments /\ RunningDeletion(o, t, AllPhases) /\ segment' = Erased({t})
  BY DeletionIsHeld
<1> HIDE DEF t
<1>2. segment'[t].file = "absent" /\ SameRow(t) /\ \A s \in Segments : s # t => segment'[s] = segment[s]
  <2>1. /\ \A s \in Segments : s \in {t} => segment'[s].file = "absent" /\ SameRow(s)
        /\ \A s \in Segments : s \notin {t} => segment'[s] = segment[s]
    BY <1>1, ErasedIsTyped
  <2> QED BY <1>1, <2>1
<1>3. ASSUME NEW s \in Segments PROVE FileFits(s)'
  <2>1. FileFits(s)
    BY EachFileFits
  <2>2. CASE s # t
    <3>1. SameFile(s) /\ DeletionsStay(s)
      BY <1>2, <2>2 DEF SameFile, DeletionsStay
    <3> QED BY <2>1, <3>1, FileStays
  <2>3. CASE s = t
    <3>1. RunningDeletion(o, s, AllPhases)' /\ op'[o].phase \in AfterCutover
      BY <1>1, <2>3 DEF RunningDeletion
    <3>2. /\ segment'[s].state = segment[s].state /\ segment'[s].metadata = segment[s].metadata
          /\ segment'[s].file = "absent"
      BY <1>2, <2>3 DEF SameRow
    <3> QED BY <2>1, <3>1, <3>2, HeldFileFits DEF Places
  <2> QED BY <2>2, <2>3
<1> QED BY <1>3, EachFileWillFit

\* Files of segments that are not current come and go.
LEMMA ErasureFits ==
  ASSUME Pools, TypeOK, CatalogInv, FilesFit,
         \A o \in Operations : op'[o] = op[o] \/ (NoDeletion(o) /\ NoDeletion(o)'),
         NEW S, \A s \in Segments : s \in S => segment[s].state # "current", segment' = Erased(S)
  PROVE  FilesFit'
<1>1. /\ \A s \in Segments : s \in S => segment'[s].file = "absent" /\ SameRow(s)
      /\ \A s \in Segments : s \notin S => segment'[s] = segment[s]
  BY ErasedIsTyped
<1>2. ASSUME NEW s \in Segments PROVE FileFits(s)'
  <2>1. FileFits(s) /\ DeletionsStay(s)
    BY EachFileFits DEF DeletionsStay, NoDeletion, RunningDeletion
  <2>2. CASE s \notin S
    <3>1. SameFile(s)
      BY <1>1, <2>2 DEF SameFile
    <3> QED BY <2>1, <3>1, FileStays
  <2>3. CASE s \in S
    <3>1. segment'[s].file = "absent" /\ segment'[s].state = segment[s].state
          /\ segment'[s].metadata = segment[s].metadata /\ segment[s].state # "current"
      BY <1>1, <2>3 DEF SameRow
    <3> QED BY <2>1, <3>1 DEF FileFits
  <2> QED BY <2>2, <2>3
<1> QED BY <1>2, EachFileWillFit

\* A file built for an unused segment disturbs no deletion.
LEMMA BuildFits ==
  ASSUME Pools, TypeOK, CatalogInv, FilesFit, UNCHANGED op,
         NEW t \in Segments, segment[t].state = "unused", segment' = BuildWithIncarnation(t)
  PROVE  FilesFit'
<1>1. /\ segment'[t].file = "installed" /\ segment'[t].damage = segment[t].damage /\ SameRow(t)
      /\ \A s \in Segments : s # t => segment'[s] = segment[s]
  BY PlacesAre, MovedIsTyped DEF BuildWithIncarnation
<1>2. ASSUME NEW s \in Segments PROVE FileFits(s)'
  <2>1. FileFits(s)
    BY EachFileFits
  <2>2. CASE s # t
    <3>1. SameFile(s) /\ DeletionsStay(s)
      BY <1>1, <2>2 DEF SameFile, DeletionsStay
    <3> QED BY <2>1, <3>1, FileStays
  <2>3. CASE s = t
    <3>1. \A o \in Operations : ~RunningDeletion(o, s, {"content_removed"})'
      <4>1. \A o \in Operations : ~RunningDeletion(o, s, AllPhases)
        BY <2>3, OnlyCurrentAreDeleted
      <4> QED BY <4>1 DEF RunningDeletion, AllPhases, AfterCutover
    <3>2. /\ segment'[s].state = "unused" /\ segment'[s].file = "installed"
          /\ segment'[s].metadata = "verifiable"
      BY <1>1, <2>1, <2>3 DEF SameRow, FileFits
    <3> QED BY <3>1, <3>2, FreeFileFits
  <2> QED BY <2>2, <2>3
<1> QED BY <1>2, EachFileWillFit

\* A segment that was not current becomes current with its file in place.
LEMMA PublicationFits ==
  ASSUME Pools, TypeOK, CatalogInv, FilesFit,
         \A o \in Operations : op'[o] = op[o] \/ (NoDeletion(o) /\ NoDeletion(o)'),
         \A s \in Segments : SameFile(s) \/
            /\ segment'[s].file = segment[s].file /\ segment'[s].damage = segment[s].damage
            /\ segment'[s].metadata = segment[s].metadata
            /\ \/ segment'[s].state = "current" /\ segment[s].state = "unused" /\ segment[s].file = "installed"
               \/ /\ segment'[s].state \in {"superseded", "restored"}
                  /\ \A o \in Operations : ~RunningDeletion(o, s, AllPhases)
  PROVE  FilesFit'
<1>1. ASSUME NEW s \in Segments PROVE FileFits(s)'
  <2>1. FileFits(s) /\ DeletionsStay(s)
    BY EachFileFits DEF DeletionsStay, NoDeletion, RunningDeletion
  <2>2. CASE SameFile(s)
    BY <2>1, <2>2, FileStays
  <2>3. CASE ~SameFile(s)
    <3>1. \A o \in Operations : ~RunningDeletion(o, s, AllPhases)
      BY <2>3, OnlyCurrentAreDeleted
    <3>2. \A o \in Operations : ~RunningDeletion(o, s, {"content_removed"})'
      BY <2>1, <3>1 DEF DeletionsStay, RunningDeletion, AllPhases, AfterCutover
    <3>3. segment[s].file # "staged"
      BY <2>1, <3>1 DEF FileFits
    <3>4. segment'[s].state \in {"current", "superseded", "restored"}
      BY <2>3
    <3>5. /\ segment'[s].file = segment[s].file /\ segment'[s].damage = segment[s].damage
          /\ segment'[s].metadata = segment[s].metadata
      BY <2>3
    <3>6. segment'[s].state = "current" => segment'[s].file = "installed"
      BY <2>3
    <3>7. segment'[s].metadata = "unverifiable" =>
            segment'[s].damage = "metadata" \/ segment'[s].file = "absent"
      BY <2>1, <3>5 DEF FileFits
    <3> QED BY <3>2, <3>3, <3>4, <3>5, <3>6, <3>7, FreeFileFits
  <2> QED BY <2>2, <2>3
<1> QED BY <1>1, EachFileWillFit


\* The operations of a set are closed and were no deletions, or every one of
\* them was a deletion of an installed file.
LEMMA ClosingFits ==
  ASSUME Pools, TypeOK, CatalogInv, FilesFit, UNCHANGED segment,
         NEW ops, NEW status \in Statuses, status # "running", op' = Closed(ops, status),
         \/ \A o \in Operations : o \in ops => NoDeletion(o)
         \/ \A o \in ops : /\ o \in Operations /\ op[o].status = "running" /\ op[o].kind = "delete"
                           /\ segment[op[o].segment].file = "installed"
  PROVE  FilesFit'
<1>1. \A o \in Operations : IF o \in ops THEN op'[o].status = status ELSE op'[o] = op[o]
  BY ClosedIsTyped
<1>2. CASE \A o \in Operations : o \in ops => NoDeletion(o)
  <2>1. \A o \in Operations : op'[o] = op[o] \/ (NoDeletion(o) /\ NoDeletion(o)')
    BY <1>1, <1>2 DEF NoDeletion
  <2> QED BY <2>1, OthersDoNotMatter DEF SameFile
<1>3. CASE \A o \in ops : /\ o \in Operations /\ op[o].status = "running" /\ op[o].kind = "delete"
                          /\ segment[op[o].segment].file = "installed"
  <2>1. \A o \in Operations : IF o \in ops THEN op'[o].status # "running"
                                           ELSE op'[o] = op[o] \/ (NoDeletion(o) /\ NoDeletion(o)')
    BY <1>1
  <2> QED BY <1>3, <2>1, GivingUpFits
<1> QED BY <1>2, <1>3

\* A deletion is completed when its file is gone.
LEMMA CompletionFits ==
  ASSUME Pools, TypeOK, CatalogInv, FilesFit, NEW o \in Operations,
         op[o].status = "running", op[o].kind = "delete", segment[op[o].segment].file = "absent",
         CompleteDeletion(o)
  PROVE  FilesFit'
<1> DEFINE t == op[o].segment
<1>1. t \in Segments /\ \A p \in Operations : RunningDeletion(p, t, AllPhases) => p = o
  BY DeletionsAreApart DEF RunningDeletion
<1>2. /\ \A s \in Segments : s # t => segment'[s] = segment[s]
      /\ segment'[t].state = "deleted" /\ segment'[t].file = "absent"
      /\ op'[o].status = "completed" /\ \A p \in Operations : p # o => op'[p] = op[p]
  BY <1>1, CompletionIsTyped
<1>3. \A s \in Segments : RunningDeletion(o, s, AllPhases) => s = t
  BY DEF RunningDeletion
<1> HIDE DEF t
<1>4. ASSUME NEW s \in Segments PROVE FileFits(s)'
  <2>1. FileFits(s)
    BY EachFileFits
  <2>2. CASE s # t
    <3>1. SameFile(s)
      BY <1>2, <2>2 DEF SameFile
    <3>2. ~RunningDeletion(o, s, AllPhases) /\ ~RunningDeletion(o, s, AllPhases)'
      BY <1>2, <1>3, <2>2 DEF RunningDeletion
    <3>3. DeletionsStay(s)
      BY <1>2, <3>2 DEF DeletionsStay
    <3> QED BY <2>1, <3>1, <3>3, FileStays
  <2>3. CASE s = t
    BY <1>2, <2>3 DEF FileFits
  <2> QED BY <2>2, <2>3
<1> QED BY <1>4, EachFileWillFit

\* A deletion is cancelled when its file is back in place.
LEMMA CancellationFits ==
  ASSUME Pools, TypeOK, CatalogInv, FilesFit, NEW o \in Operations,
         op[o].status = "running", op[o].kind = "delete", segment[op[o].segment].file = "installed",
         CancelDeletion(o)
  PROVE  FilesFit'
<1>1. op' = Closed({o}, "cancelled") /\ UNCHANGED segment /\ "cancelled" \in Statuses
  BY DEF CancelDeletion, Statuses
<1> QED BY <1>1, ClosingFits

\* The recovery of a deletion leaves its file where the rows say.
LEMMA RecoveryOfFileFits ==
  ASSUME Pools, TypeOK, CatalogInv, FilesFit, NEW o \in Running("delete"), RecoverDeletionOperation(o)
  PROVE  FilesFit'
<1>1. o \in Operations /\ op[o].status = "running" /\ op[o].kind = "delete"
  BY DEF Running
<1> DEFINE s == op[o].segment
<1>2. CASE segment[s].file = "staged" /\ segment' = MoveFile(s, "installed") /\ UNCHANGED op
  BY <1>1, <1>2, MovingFits
<1>3. CASE segment[s].file = "installed" /\ CancelDeletion(o)
  BY <1>1, <1>3, CancellationFits
<1>4. CASE segment[s].file = "installed" /\ segment' = MoveFile(s, "staged") /\ UNCHANGED op
  BY <1>1, <1>4, MovingFits
<1>5. CASE op[o].phase \in AfterCutover /\ segment' = Erased({s}) /\ UNCHANGED op
  BY <1>1, <1>5, RemovalFits
<1>6. CASE segment[s].file = "absent" /\ CompleteDeletion(o)
  BY <1>1, <1>6, CompletionFits
<1> QED BY <1>2, <1>3, <1>4, <1>5, <1>6 DEF RecoverDeletionOperation

\* The planning of a cycle leaves the files where the rows say.
LEMMA PlanningKeepsFiles ==
  ASSUME Pools, TypeOK, CatalogInv, FilesFit, NEW c \in Cycles,
         \/ BeginRetentionCycle(c) \/ StartCycle(c) \/ LockResume(c) \/ ResumeRetentionDeletions(c)
         \/ PlanCycle(c) \/ SelectGroup(c)
  PROVE  FilesFit'
<1>1. CASE UNCHANGED catalog
  BY <1>1, NothingMoves DEF catalog
<1>2. ASSUME NEW o \in Running("delete"), RecoverDeletionOperation(o) PROVE FilesFit'
  BY <1>2, RecoveryOfFileFits
<1> QED BY <1>1, <1>2 DEF BeginRetentionCycle, StartCycle, LockResume, ResumeRetentionDeletions,
        PlanCycle, SelectGroup

\* The archive of a group leaves the files where the rows say.
LEMMA ArchivingKeepsFiles ==
  ASSUME Pools, TypeOK, CatalogInv, FilesFit, NEW c \in Cycles, CycleFits(c),
         ClaimArchive(c) \/ BuildArchive(c) \/ PublishArchive(c) \/ FailArchive(c)
  PROVE  FilesFit'
<1> DEFINE x == cycle[c].op
           s == cycle[c].segment
<1>1. CASE ClaimArchive(c)
  <2>1. CASE UNCHANGED catalog
    BY <2>1, NothingMoves DEF catalog
  <2>2. CASE /\ UNCHANGED segment
             /\ \E o \in FreshOperation : op' = [op EXCEPT ![o] = [NoOperation EXCEPT
                        !.kind = "archive", !.status = "running", !.phase = "planned",
                        !.targets = cycle[c].group]]
    <3>1. PICK o \in FreshOperation : op' = [op EXCEPT ![o] = [NoOperation EXCEPT
                        !.kind = "archive", !.status = "running", !.phase = "planned",
                        !.targets = cycle[c].group]]
      BY <2>2
    <3>2. o \in Operations /\ op[o].status # "running"
      BY FreshAreTyped
    <3>3. op'[o].kind = "archive" /\ \A p \in Operations : p # o => op'[p] = op[p]
      BY <3>1, <3>2 DEF TypeOK, NoOperation
    <3>4. \A p \in Operations : op'[p] = op[p] \/ (NoDeletion(p) /\ NoDeletion(p)')
      BY <3>2, <3>3 DEF NoDeletion
    <3> QED BY <2>2, <3>4, OthersDoNotMatter DEF SameFile
  <2> QED BY <1>1, <2>1, <2>2 DEF ClaimArchive
<1>2. CASE BuildArchive(c)
  <2>1. CASE UNCHANGED segment
    BY <1>2, <2>1, NothingMoves DEF BuildArchive
  <2>2. ASSUME NEW t \in FreshSegment, segment' = BuildWithIncarnation(t) PROVE FilesFit'
    BY <1>2, <2>2, FreshAreTyped, BuildFits DEF BuildArchive
  <2> QED BY <1>2, <2>1, <2>2 DEF BuildArchive
<1>3. CASE PublishArchive(c)
  <2>0. /\ x \in Operations /\ s \in Segments /\ segment[s].state = "unused" /\ segment[s].file = "installed"
        /\ op[x].status = "running" /\ op[x].kind = "archive"
    BY <1>3, CycleHolds DEF PublishArchive, At, CycleFits, InArchive
  <2>1. CASE UNCHANGED op /\ segment' = Erased({s})
    <3>1. \A t \in Segments : t \in {s} => segment[t].state # "current"
      BY <2>0
    <3> HIDE DEF s
    <3> QED BY <2>1, <3>1, ErasureFits
  <2>2. CASE op' = Closed({x}, "completed") /\ segment' = [segment EXCEPT ![s].state = "current"]
    <3>1. "completed" \in Statuses
      BY DEF Statuses
    <3> HIDE DEF x
    <3>2. \A o \in Operations : IF o \in {x} THEN op'[o].status = "completed" ELSE op'[o] = op[o]
      BY <2>2, <3>1, ClosedIsTyped
    <3>3. \A o \in Operations : op'[o] = op[o] \/ (NoDeletion(o) /\ NoDeletion(o)')
      BY <2>0, <3>2 DEF NoDeletion
    <3>4. /\ segment'[s].state = "current" /\ segment'[s].file = segment[s].file
          /\ segment'[s].damage = segment[s].damage /\ segment'[s].metadata = segment[s].metadata
          /\ \A t \in Segments : t # s => segment'[t] = segment[t]
      BY <2>0, <2>2 DEF TypeOK, SegmentRecord
    <3> HIDE DEF s
    <3>5. \A t \in Segments : SameFile(t) \/
            /\ segment'[t].file = segment[t].file /\ segment'[t].damage = segment[t].damage
            /\ segment'[t].metadata = segment[t].metadata
            /\ segment'[t].state = "current" /\ segment[t].state = "unused" /\ segment[t].file = "installed"
      BY <2>0, <3>4 DEF SameFile
    <3> QED BY <3>3, <3>5, PublicationFits
  <2> QED BY <1>3, <2>1, <2>2 DEF PublishArchive
<1>4. CASE FailArchive(c)
  <2>0. op[x].kind = "archive" /\ UNCHANGED segment
    BY <1>4 DEF FailArchive, At, CycleFits, InArchive
  <2>1. CASE UNCHANGED op
    BY <2>0, <2>1, NothingMoves
  <2>2. CASE op' = Closed({x}, "failed")
    <3>1. "failed" \in Statuses /\ \A o \in Operations : o \in {x} => NoDeletion(o)
      BY <2>0 DEF Statuses, NoDeletion
    <3> HIDE DEF x
    <3> QED BY <2>0, <2>2, <3>1, ClosingFits
  <2> QED BY <1>4, <2>1, <2>2 DEF FailArchive
<1> QED BY <1>1, <1>2, <1>3, <1>4


\* A new deletion begins on an installed file.
LEMMA NewDeletionFits ==
  ASSUME Pools, TypeOK, CatalogInv, FilesFit, UNCHANGED segment, NEW c \in Cycles, NEW s \in Segments,
         NEW o \in FreshOperation, DeletionClaimable(c, s), ClaimsDeletion(c, s, o)
  PROVE  FilesFit'
<1>1. /\ o \in Operations /\ op[o].status # "running"
      /\ op'[o].phase = "staging" /\ op'[o].segment = s
      /\ \A p \in Operations : p # o => op'[p] = op[p]
      /\ segment[s].file = "installed"
  BY DeletionIsClaimed
<1>3. \A p \in Operations : ~RunningDeletion(p, s, BeforeCutover \union AfterCutover)
  BY DeletionIsClaimed
<1>2. ASSUME NEW t \in Segments PROVE FileFits(t)'
  <2>1. FileFits(t) /\ SameFile(t)
    BY EachFileFits DEF SameFile
  <2>2. CASE t # s
    <3>1. DeletionsStay(t)
      BY <1>1, <2>2 DEF DeletionsStay, RunningDeletion
    <3> QED BY <2>1, <3>1, FileStays
  <2>3. CASE t = s
    <3>1. \A p \in Operations : ~RunningDeletion(p, t, {"content_removed"})'
      <4>1. ASSUME NEW p \in Operations, p # o PROVE ~RunningDeletion(p, t, {"content_removed"})'
        BY <1>1, <1>3, <2>3, <4>1 DEF RunningDeletion, AfterCutover
      <4>2. ~RunningDeletion(o, t, {"content_removed"})'
        BY <1>1 DEF RunningDeletion
      <4> QED BY <4>1, <4>2
    <3> QED BY <1>1, <2>1, <2>3, <3>1 DEF FileFits, SameFile
  <2> QED BY <2>2, <2>3
<1> QED BY <1>2, EachFileWillFit

\* The deletion a cycle holds is a running one, and on its segment.
LEMMA CycleDeletion ==
  ASSUME Pools, TypeOK, NEW c \in Cycles, CycleFits(c), cycle[c].pc \in InDeletion
  PROVE  LET o == cycle[c].op
             s == cycle[c].segment
         IN
         /\ o \in Operations /\ s \in Segments
         /\ cycle[c].pc \notin {"cutover", "converge"} =>
               op[o].status = "running"
         /\ op[o].status = "running" => op[o].kind = "delete" /\ op[o].segment = s
<1>1. cycle[c].op \in Operations /\ cycle[c].segment \in Segments
  BY CycleHolds
<1> QED BY <1>1 DEF CycleFits, RunningDeletion, InDeletion

\* A deletion leaves the files where the rows say.
LEMMA DeletionKeepsFiles ==
  ASSUME Pools, TypeOK, CatalogInv, FilesFit, NEW c \in Cycles, CycleFits(c),
         \/ ClaimDeletion(c) \/ StageDeletion(c) \/ PublishStaged(c) \/ Cutover(c)
         \/ AbandonCutover(c) \/ WithdrawDeletion(c) \/ RemoveContent(c) \/ PublishRemoved(c)
         \/ PublishDeleted(c) \/ ConvergeDeletion(c)
  PROVE  FilesFit'
<1> DEFINE o == cycle[c].op
           s == cycle[c].segment
<1>0. UNCHANGED <<segment, op>> => FilesFit'
  BY NothingMoves
<1>1. CASE ClaimDeletion(c)
  <2>1. ASSUME NEW t \in cycle[c].todo, NEW p \in FreshOperation, UNCHANGED segment,
               DeletionClaimable(c, t), ClaimsDeletion(c, t, p)
        PROVE  FilesFit'
    <3>1. t \in Segments
      BY <2>1 DEF DeletionClaimable, Current
    <3> QED BY <2>1, <3>1, NewDeletionFits
  <2> QED BY <1>0, <1>1, <2>1, ClaimDeletionParts DEF catalog
<1>2. CASE StageDeletion(c)
  <2>1. /\ o \in Operations /\ s \in Segments /\ op[o].status = "running" /\ op[o].kind = "delete"
        /\ op[o].segment = s /\ segment[s].file = "installed"
    BY <1>2, CycleDeletion DEF StageDeletion, At, InDeletion, CycleFits
  <2>2. CASE segment' = MoveFile(s, "staged") /\ UNCHANGED op
    BY <2>1, <2>2, MovingFits
  <2>3. CASE op' = Closed({o}, "failed") /\ UNCHANGED segment
    <3>1. "failed" \in Statuses
      BY DEF Statuses
    <3> HIDE DEF o, s
    <3>2. \A p \in {o} : /\ p \in Operations /\ op[p].status = "running" /\ op[p].kind = "delete"
                         /\ segment[op[p].segment].file = "installed"
      BY <2>1
    <3> QED BY <2>3, <3>1, <3>2, ClosingFits
  <2> QED BY <1>0, <1>2, <2>2, <2>3 DEF StageDeletion
<1>3. CASE PublishStaged(c)
  <2>1. /\ o \in Operations /\ op[o].status = "running" /\ op[o].kind = "delete"
        /\ op[o].phase = "staging" /\ UNCHANGED segment
    BY <1>3, CycleDeletion DEF PublishStaged, At, InDeletion, CycleFits, RunningDeletion
  <2>2. CASE op' = [op EXCEPT ![o].phase = "staged"]
    BY <2>1, <2>2, PhaseFits DEF AllPhases, BeforeCutover, AfterCutover
  <2> QED BY <1>0, <1>3, <2>1, <2>2 DEF PublishStaged
<1>4. CASE Cutover(c)
  <2>1. CASE op[o].status = "running" /\ op' = [op EXCEPT ![o].phase = "delete_committing"]
    <3>1. o \in Operations /\ op[o].kind = "delete" /\ UNCHANGED segment
      BY <1>4, <2>1, CycleDeletion DEF Cutover, At, InDeletion
    <3> QED BY <2>1, <3>1, PhaseFits DEF AllPhases, BeforeCutover, AfterCutover
  <2> QED BY <1>0, <1>4, <2>1 DEF Cutover
<1>5. CASE AbandonCutover(c)
  BY <1>0, <1>5 DEF AbandonCutover, catalog
<1>6. CASE WithdrawDeletion(c)
  <2>1. /\ o \in Operations /\ s \in Segments /\ op[o].status = "running" /\ op[o].kind = "delete"
        /\ op[o].segment = s
    BY <1>6, CycleDeletion DEF WithdrawDeletion, At, InDeletion
  <2>2. CASE segment[s].file = "staged" /\ segment' = MoveFile(s, "installed") /\ UNCHANGED op
    BY <2>1, <2>2, MovingFits
  <2>3. CASE segment[s].file = "installed" /\ CancelDeletion(o)
    BY <2>1, <2>3, CancellationFits
  <2> QED BY <1>0, <1>6, <2>2, <2>3 DEF WithdrawDeletion, catalog
<1>7. CASE RemoveContent(c)
  <2>1. /\ o \in Operations /\ op[o].status = "running" /\ op[o].kind = "delete"
        /\ op[o].segment = s /\ op[o].phase \in AfterCutover /\ UNCHANGED op
    BY <1>7, CycleDeletion DEF RemoveContent, At, InDeletion, CycleFits, RunningDeletion, AfterCutover
  <2>2. CASE segment' = Erased({s})
    BY <2>1, <2>2, RemovalFits
  <2> QED BY <1>0, <1>7, <2>1, <2>2 DEF RemoveContent
<1>8. CASE PublishRemoved(c)
  <2>1. /\ o \in Operations /\ op[o].status = "running" /\ op[o].kind = "delete"
        /\ op[o].segment = s /\ segment[s].file = "absent" /\ UNCHANGED segment
    BY <1>8, CycleDeletion DEF PublishRemoved, At, InDeletion, CycleFits
  <2>2. CASE op' = [op EXCEPT ![o].phase = "content_removed"]
    BY <2>1, <2>2, PhaseFits DEF AllPhases, BeforeCutover, AfterCutover
  <2> QED BY <1>0, <1>8, <2>1, <2>2 DEF PublishRemoved
<1>9. CASE PublishDeleted(c)
  <2>1. /\ o \in Operations /\ op[o].status = "running" /\ op[o].kind = "delete"
        /\ op[o].segment = s /\ segment[s].file = "absent"
    BY <1>9, CycleDeletion DEF PublishDeleted, At, InDeletion, CycleFits
  <2>2. CASE CompleteDeletion(o)
    BY <2>1, <2>2, CompletionFits
  <2> QED BY <1>0, <1>9, <2>2 DEF PublishDeleted, catalog
<1>10. CASE ConvergeDeletion(c)
  <2>1. CASE op[o].status = "running" /\ RecoverDeletionOperation(o)
    <3>1. o \in Running("delete")
      BY <1>10, <2>1, CycleDeletion DEF ConvergeDeletion, At, InDeletion, Running
    <3> QED BY <2>1, <3>1, RecoveryOfFileFits
  <2> QED BY <1>0, <1>10, <2>1 DEF ConvergeDeletion, catalog
<1> QED BY <1>1, <1>2, <1>3, <1>4, <1>5, <1>6, <1>7, <1>8, <1>9, <1>10


\* A restore that preempts deletions has seen all their files installed.
LEMMA RestoreClaimFits ==
  ASSUME Pools, TypeOK, CatalogInv, FilesFit, NEW r \in Restores, ClaimRestore(r)
  PROVE  FilesFit'
<1> DEFINE C == Competing(restore[r].scope)
<1>1. /\ ~Unclaimable(restore[r].scope) /\ FilesBack(restore[r].scope) /\ UNCHANGED segment
      /\ \E o \in FreshOperation : ClaimsRestore(r, o)
  BY ClaimRestoreParts
<1>2. PICK o \in FreshOperation : ClaimsRestore(r, o)
  BY <1>1
<1>3. o \in Operations /\ op[o].status # "running"
  BY FreshAreTyped
<1>4. /\ op'[o].kind = "restore"
      /\ \A p \in Operations : p # o /\ p \in C => op'[p].status = "cancelled"
      /\ \A p \in Operations : p # o /\ p \notin C => op'[p] = op[p]
  BY <1>1, <1>2, <1>3, RestoreClaimParts
<1>5. \A p \in C : p \in Operations /\ op[p].status = "running" /\ op[p].kind = "delete"
  BY <1>1, CompetitorsAreDeletions
<1>6. \A p \in C : segment[op[p].segment].file = "installed"
  BY <1>1, <1>5 DEF FilesBack, Running
<1> HIDE DEF C
<1>7. \A p \in Operations : IF p \in C THEN op'[p].status # "running"
                                        ELSE op'[p] = op[p] \/ (NoDeletion(p) /\ NoDeletion(p)')
  BY <1>3, <1>4, <1>5 DEF NoDeletion
<1> QED BY <1>1, <1>5, <1>6, <1>7, GivingUpFits

\* The terminal transaction of a restore leaves the files where the rows say.
LEMMA RestorePublicationFits ==
  ASSUME Pools, TypeOK, CatalogInv, FilesFit, NEW r \in Restores, RestoreFits(r), PublishRestore(r)
  PROVE  FilesFit'
<1> DEFINE o == restore[r].op
           S == restore[r].segments
           f == restore[r].fresh
<1>1. /\ o \in Operations
      /\ Replaced(restore[r].segments, restore[r].fresh)
      /\ op'[o] = [op[o] EXCEPT !.phase = "content_removed"]
      /\ \A p \in Operations : p # o => op'[p] = op[p]
  BY PublishRestoreParts
<1>2. /\ restore[r].pc = "verify" /\ op[o].kind = "restore" /\ op[o].status = "running"
      /\ op[o].phase = "planned"
  BY DEF PublishRestore, RestoreAt, RestoreFits, Preparing
<1>3. \A s \in S : /\ s \in Segments /\ segment[s].state = "current"
                   /\ \E e \in op[o].targets : export[e].home = s
  <2>1. /\ S \in SUBSET Segments /\ \A s \in S : segment[s].state = "current"
        /\ \A e \in Exports : e \in op[o].targets <=> export[e].home \in S
    BY <1>2 DEF RestoreFits, Preparing, TypeOK, RestoreRecord
  <2> QED BY <2>1 DEF CatalogInv, SegmentsFit
<1>4. \A s \in S : f[s] # None => segment[f[s]].state = "unused" /\ segment[f[s]].file = "installed"
  BY <1>2, <1>3 DEF RestoreFits
<1>5. op'[o].kind = "restore"
  BY <1>1, <1>2 DEF TypeOK, OperationRecord
<1>6. \A p \in Operations : op'[p] = op[p] \/ (NoDeletion(p) /\ NoDeletion(p)')
  BY <1>1, <1>2, <1>5 DEF NoDeletion
<1>7. ASSUME NEW s \in S, NEW p \in Operations PROVE ~RunningDeletion(p, s, AllPhases)
  <2>1. SUFFICES ASSUME op[p].status = "running", op[p].kind = "delete", op[p].segment = s PROVE FALSE
    BY DEF RunningDeletion
  <2>2. PICK e \in op[o].targets : export[e].home = s
    BY <1>3
  <2>3. e \in Exports /\ export[e].owner = o
    BY <1>1, <1>2, OwnersRun, SMTT(30) DEF TypeOK, OperationRecord, CatalogInv, OperationsFit, OperationFits
  <2>4. export[e].owner = p
    BY <2>1, <2>2, <2>3, DeletionsAreApart
  <2> QED BY <1>2, <2>1, <2>3, <2>4
<1>8. None \notin Segments
  BY HomesAreCurrent
<1> HIDE DEF S, f
<1>9. Replaced(S, f)
  BY <1>1 DEF S, f
<1>10. \A s \in Segments : SameFile(s) \/
            /\ segment'[s].file = segment[s].file /\ segment'[s].damage = segment[s].damage
            /\ segment'[s].metadata = segment[s].metadata
            /\ \/ segment'[s].state = "current" /\ segment[s].state = "unused" /\ segment[s].file = "installed"
               \/ /\ segment'[s].state \in {"superseded", "restored"}
                  /\ \A p \in Operations : ~RunningDeletion(p, s, AllPhases)
  <2> SUFFICES ASSUME NEW s \in Segments
               PROVE  SameFile(s) \/
            /\ segment'[s].file = segment[s].file /\ segment'[s].damage = segment[s].damage
            /\ segment'[s].metadata = segment[s].metadata
            /\ \/ segment'[s].state = "current" /\ segment[s].state = "unused" /\ segment[s].file = "installed"
               \/ /\ segment'[s].state \in {"superseded", "restored"}
                  /\ \A p \in Operations : ~RunningDeletion(p, s, AllPhases)
    OBVIOUS
  <2>1. /\ segment'[s].file = segment[s].file /\ segment'[s].damage = segment[s].damage
        /\ segment'[s].metadata = segment[s].metadata
    BY <1>9 DEF Replaced
  <2>2. CASE s \in S
    BY <1>7, <1>9, <2>1, <2>2 DEF Replaced
  <2>3. ASSUME s \notin S, NEW t \in S, f[t] = s PROVE segment'[s].state = "current" /\ segment[s].state = "unused" /\ segment[s].file = "installed"
    BY <1>4, <1>8, <1>9, <2>3 DEF Replaced
  <2>4. CASE s \notin S /\ ~\E t \in S : f[t] = s
    BY <1>9, <2>1, <2>4 DEF Replaced, SameFile
  <2> QED BY <2>1, <2>2, <2>3, <2>4
<1> QED BY <1>6, <1>10, PublicationFits

\* A mark of damage is no change of place.
LEMMA MarksFit ==
  ASSUME Pools, TypeOK, CatalogInv, FilesFit, NEW r \in Restores, VerificationFails(r)
  PROVE  FilesFit'
<1>1. UNCHANGED op
  BY DEF VerificationFails
<1>2. ASSUME NEW s \in Segments PROVE FileFits(s)'
  <2>1. FileFits(s)
    BY EachFileFits
  <2>2. /\ segment'[s].state = segment[s].state /\ segment'[s].file = segment[s].file
        /\ segment'[s].damage = segment[s].damage
        /\ segment'[s].metadata # segment[s].metadata =>
              /\ segment[s].state = "current" /\ segment[s].damage = "metadata"
    BY MarksAreTyped
  <2>3. CASE segment'[s].metadata = segment[s].metadata
    <3>1. SameFile(s) /\ DeletionsStay(s)
      BY <1>1, <2>2, <2>3 DEF SameFile, DeletionsStay
    <3> QED BY <2>1, <3>1, FileStays
  <2>4. CASE segment'[s].metadata # segment[s].metadata
    BY <1>1, <2>1, <2>2, <2>4 DEF FileFits, RunningDeletion
  <2> QED BY <2>3, <2>4
<1> QED BY <1>2, EachFileWillFit

\* A restore leaves the files where the rows say.
LEMMA RestoringKeepsFiles ==
  ASSUME Pools, TypeOK, CatalogInv, FilesFit, NEW r \in Restores, RestoreFits(r),
         Restoring(r) \/ \E scope \in Scopes : RequestRestore(r, scope)
  PROVE  FilesFit'
<1> DEFINE x == restore[r].op
<1>0. UNCHANGED <<segment, op>> => FilesFit'
  BY NothingMoves
<1>1. CASE \/ \E scope \in Scopes : RequestRestore(r, scope)
           \/ RefuseRestore(r) \/ StartRestore(r) \/ PreparationFails(r) \/ AbandonCleanup(r)
  BY <1>0, <1>1 DEF RequestRestore, RefuseRestore, StartRestore, PreparationFails, AbandonCleanup, catalog
<1>2. CASE FinishCommittedDeletions(r)
  BY <1>2, RecoveryOfFileFits DEF FinishCommittedDeletions, CommittedDeletions
<1>3. CASE PreemptDeletion(r)
  <2>1. PICK o \in Running("delete") : /\ segment[op[o].segment].file = "staged"
                                       /\ segment' = MoveFile(op[o].segment, "installed")
    BY <1>3 DEF PreemptDeletion
  <2>2. o \in Operations /\ op[o].status = "running" /\ op[o].kind = "delete" /\ UNCHANGED op
    BY <1>3 DEF Running, PreemptDeletion
  <2> QED BY <2>1, <2>2, MovingFits
<1>4. CASE ClaimRestore(r)
  BY <1>4, RestoreClaimFits
<1>5. CASE VerifySegment(r)
  <2>1. ASSUME NEW n \in FreshSegment, segment' = BuildWithIncarnation(n), UNCHANGED op PROVE FilesFit'
    BY <2>1, FreshAreTyped, BuildFits
  <2> QED BY <1>0, <1>5, <2>1 DEF VerifySegment
<1>6. CASE VerificationFails(r)
  BY <1>6, MarksFit
<1>7. CASE PublishRestore(r)
  BY <1>7, RestorePublicationFits
<1>8. CASE DropReplacements(r)
  <2> DEFINE S == {restore[r].fresh[s] : s \in restore[r].segments}
  <2>1. UNCHANGED op /\ (UNCHANGED segment \/ segment' = Erased(S))
    BY <1>8 DEF DropReplacements
  <2>2. ASSUME NEW s \in Segments, s \in S PROVE segment[s].state # "current"
    <3>1. PICK t \in restore[r].segments : restore[r].fresh[t] = s
      BY <2>2
    <3>2. restore[r].segments \in SUBSET Segments /\ s # None /\ restore[r].pc = "drop"
      BY <1>8, HomesAreCurrent DEF TypeOK, RestoreRecord, DropReplacements, RestoreAt
    <3>3. segment[restore[r].fresh[t]].state = "unused"
      BY <3>1, <3>2 DEF RestoreFits
    <3> QED BY <3>1, <3>3
  <2> HIDE DEF S
  <2> QED BY <1>0, <2>1, <2>2, ErasureFits
<1>9. CASE FailRestore(r) \/ CompleteRestore(r)
  <2>0. op[x].kind = "restore" /\ UNCHANGED segment
    BY <1>9 DEF FailRestore, CompleteRestore, RestoreAt, RestoreFits, Preparing
  <2>1. PICK status \in {"failed", "completed"} : UNCHANGED op \/ op' = Closed({x}, status)
    BY <1>9 DEF FailRestore, CompleteRestore
  <2>2. status \in Statuses /\ \A o \in Operations : o \in {x} => NoDeletion(o)
    BY <2>0 DEF Statuses, NoDeletion
  <2> HIDE DEF x
  <2> QED BY <1>0, <2>0, <2>1, <2>2, ClosingFits
<1>10. CASE RemovePublishedArchive(r)
  <2>1. PICK s \in restore[r].todo : segment' = Erased({s})
    BY <1>10 DEF RemovePublishedArchive
  <2>2. UNCHANGED op /\ \A t \in Segments : t \in {s} => segment[t].state # "current"
    BY <1>10 DEF RemovePublishedArchive, RestoreAt, RestoreFits
  <2> QED BY <2>1, <2>2, ErasureFits
<1> QED BY <1>1, <1>2, <1>3, <1>4, <1>5, <1>6, <1>7, <1>8, <1>9, <1>10 DEF Restoring

\* The recovery leaves the files where the rows say.
LEMMA RecoveringKeepsFiles ==
  ASSUME Pools, TypeOK, CatalogInv, FilesFit, Recovery \/ RecoveryFails
  PROVE  FilesFit'
<1>0. UNCHANGED <<segment, op>> => FilesFit'
  BY NothingMoves
<1>1. CASE Restart \/ DeletionsRecovered \/ FilesRecovered \/ RecoveryFails
  BY <1>0, <1>1 DEF Restart, DeletionsRecovered, FilesRecovered, RecoveryFails, catalog
<1>2. ASSUME NEW ops, NEW kind \in {"archive", "restore"}, NEW status \in {"failed", "completed"},
             ops \subseteq Running(kind), op' = Closed(ops, status), UNCHANGED segment
      PROVE  FilesFit'
  <2>1. status \in Statuses /\ \A o \in Operations : o \in ops => NoDeletion(o)
    BY <1>2 DEF Statuses, NoDeletion, Running
  <2> QED BY <1>2, <2>1, ClosingFits
<1>3. CASE RecoverArchives
  BY <1>2, <1>3 DEF RecoverArchives, RecoverUnpublished
<1>4. CASE RecoverRestores
  BY <1>2, <1>4 DEF RecoverRestores, RecoverUnpublished
<1>5. CASE RecoverRestoreCleanup
  BY <1>2, <1>5 DEF RecoverRestoreCleanup
<1>6. CASE RecoverDeletions
  BY <1>6, RecoveryOfFileFits DEF RecoverDeletions
<1>7. CASE RemoveUnreferencedArchiveFiles
  <2>1. PICK s \in Unreferenced : segment' = Erased({s})
    BY <1>7 DEF RemoveUnreferencedArchiveFiles
  <2>2. UNCHANGED op /\ \A t \in Segments : t \in {s} => segment[t].state # "current"
    BY <1>7 DEF RemoveUnreferencedArchiveFiles, Unreferenced
  <2> QED BY <2>1, <2>2, ErasureFits
<1> QED BY <1>1, <1>3, <1>4, <1>5, <1>6, <1>7 DEF Recovery

\* A damaged file is where it was.
LEMMA DamageFits ==
  ASSUME Pools, TypeOK, CatalogInv, FilesFit, NEW t \in Segments, Damage(t)
  PROVE  FilesFit'
<1>1. PICK part \in {"payload", "metadata"} : segment' = [segment EXCEPT ![t].damage = part]
  BY DEF Damage
<1>2. /\ UNCHANGED op /\ segment[t].file = "installed" /\ segment[t].damage = "none"
      /\ segment[t].state = "current"
  BY DEF Damage
<1>3. /\ segment'[t].file = "installed" /\ segment'[t].state = "current"
      /\ segment'[t].metadata = segment[t].metadata
      /\ \A s \in Segments : s # t => segment'[s] = segment[s]
  BY <1>1, <1>2 DEF TypeOK, SegmentRecord
<1>4. ASSUME NEW s \in Segments PROVE FileFits(s)'
  <2>1. FileFits(s)
    BY EachFileFits
  <2>2. CASE s # t
    <3>1. SameFile(s) /\ DeletionsStay(s)
      BY <1>2, <1>3, <2>2 DEF SameFile, DeletionsStay
    <3> QED BY <2>1, <3>1, FileStays
  <2>3. CASE s = t
    <3>1. \A o \in Operations : ~RunningDeletion(o, s, {"content_removed"})'
      BY <1>2, <2>1, <2>3 DEF FileFits, RunningDeletion
    <3>2. segment'[s].metadata # "unverifiable"
      BY <1>2, <1>3, <2>1, <2>3 DEF FileFits
    <3> QED BY <1>3, <2>3, <3>1, <3>2, FreeFileFits
  <2> QED BY <2>2, <2>3
<1> QED BY <1>4, EachFileWillFit

\* Every step leaves the files where the rows say.
LEMMA FilesKept == Invariant /\ [Next]_vars => FilesFit'
<1> SUFFICES ASSUME Invariant, [Next]_vars PROVE FilesFit'
  OBVIOUS
<1>0. Pools /\ TypeOK /\ CatalogInv /\ FilesFit
  BY Pools DEF Invariant
<1>1. ASSUME NEW c \in Cycles, BeginRetentionCycle(c) \/ Maintenance(c) PROVE FilesFit'
  <2>1. CycleFits(c)
    BY DEF Invariant
  <2> QED BY <1>0, <1>1, <2>1, PlanningKeepsFiles, ArchivingKeepsFiles, DeletionKeepsFiles DEF Maintenance
<1>2. ASSUME NEW r \in Restores, Restoring(r) \/ \E scope \in Scopes : RequestRestore(r, scope)
      PROVE  FilesFit'
  <2>1. RestoreFits(r)
    BY DEF Invariant
  <2> QED BY <1>0, <1>2, <2>1, RestoringKeepsFiles
<1>3. ASSUME NEW s \in Segments, Damage(s) PROVE FilesFit'
  BY <1>0, <1>3, DamageFits
<1>4. CASE Recovery \/ RecoveryFails
  BY <1>0, <1>4, RecoveringKeepsFiles
<1>5. CASE \/ Tick \/ (\E e \in Exports : Receive(e))
           \/ (\E enabled \in BOOLEAN : UpdateRetentionPolicy(enabled))
           \/ Close \/ Exit \/ Crash \/ UNCHANGED vars
  <2>1. UNCHANGED <<segment, op>>
    BY <1>5 DEF Tick, Receive, UpdateRetentionPolicy, Close, Exit, Crash, Vanish, vars, catalog
  <2> QED BY <1>0, <2>1, NothingMoves
<1> QED BY <1>1, <1>2, <1>3, <1>4, <1>5 DEF Next

-----------------------------------------------------------------------------
(* The stages of a recovery *)

\* A running operation is an archive, a deletion or a restore.
LEMMA RunningHaveKinds ==
  ASSUME CatalogInv, NEW o \in Operations, op[o].status = "running"
  PROVE  o \in Running("archive") \union Running("delete") \union Running("restore")
BY DEF CatalogInv, OperationsFit, OperationFits, Running

\* Operations are only closed.
LEMMA ClosingLeavesFewer ==
  ASSUME TypeOK, NEW ops, NEW status \in {"completed", "failed"}, op' = Closed(ops, status)
  PROVE  \A o \in Operations : op'[o].status = "running" => op'[o] = op[o] /\ o \notin ops
<1>1. status \in Statuses
  BY DEF Statuses
<1> QED BY <1>1, ClosedIsTyped

\* Each stage of the recovery leaves the next ones what they expect.
LEMMA RecoveringKeepsStages ==
  ASSUME Pools, TypeOK, CatalogInv, StagesFit, Recovery \/ RecoveryFails
  PROVE  StagesFit'
<1>1. CASE Restart \/ RecoveryFails
  BY <1>1 DEF Restart, RecoveryFails, Stage, StagesFit
<1>2. CASE RecoverArchives
  <2>1. PICK ops : op' = Closed(ops, "failed") /\ ops = {o \in Running("archive") : op[o].phase = "planned"}
    BY <1>2 DEF RecoverArchives, RecoverUnpublished
  <2>2. \A o \in Running("archive") : o \in ops
    BY <2>1 DEF CatalogInv, OperationsFit, OperationFits, Archives, Running
  <2>3. \A o \in Operations : op'[o].status = "running" => op'[o] = op[o] /\ o \notin ops
    BY <2>1, ClosingLeavesFewer
  <2>4. Running("archive")' = {}
    BY <2>2, <2>3 DEF Running
  <2> QED BY <1>2, <2>4 DEF RecoverArchives, RecoverUnpublished, Stage, StagesFit
<1>3. CASE RecoverRestores
  <2>1. PICK ops : op' = Closed(ops, "failed") /\ ops = {o \in Running("restore") : op[o].phase = "planned"}
    BY <1>3 DEF RecoverRestores, RecoverUnpublished
  <2>2. \A o \in Running("restore") : o \in ops \/ op[o].phase = "content_removed"
    BY <2>1 DEF CatalogInv, OperationsFit, OperationFits, Reinstates, Running
  <2>3. \A o \in Operations : op'[o].status = "running" => op'[o] = op[o] /\ o \notin ops
    BY <2>1, ClosingLeavesFewer
  <2>4. process = "restores" /\ process' = "deletions"
    BY <1>3 DEF RecoverRestores, RecoverUnpublished, Stage
  <2>5. Running("archive")' = {}
    BY <2>3, <2>4 DEF Running, StagesFit
  <2>6. \A o \in Running("restore")' : op'[o].phase = "content_removed"
    BY <2>2, <2>3 DEF Running
  <2> QED BY <2>4, <2>5, <2>6 DEF StagesFit
<1>4. CASE RecoverDeletions
  <2>1. PICK o \in Running("delete") : RecoverDeletionOperation(o)
    BY <1>4 DEF RecoverDeletions
  <2>2. DeletionWork(o)
    BY <2>1, RecoveryWorks
  <2>3. \A p \in Operations : op'[p].status = "running" => op'[p] = op[p]
    BY <2>2 DEF DeletionWork
  <2>4. process = "deletions" /\ process' = "deletions"
    BY <1>4 DEF RecoverDeletions, world
  <2>5. Running("archive")' = {} /\ \A p \in Running("restore")' : op'[p].phase = "content_removed"
    BY <2>3, <2>4 DEF Running, StagesFit
  <2> QED BY <2>4, <2>5 DEF StagesFit
<1>5. CASE DeletionsRecovered \/ FilesRecovered
  BY <1>5 DEF DeletionsRecovered, FilesRecovered, Stage, StagesFit, catalog, Running, Unreferenced
<1>6. CASE RemoveUnreferencedArchiveFiles
  BY <1>6 DEF RemoveUnreferencedArchiveFiles, StagesFit, Running, world
<1>7. CASE RecoverRestoreCleanup
  BY <1>7 DEF RecoverRestoreCleanup, Stage, StagesFit
<1> QED BY <1>1, <1>2, <1>3, <1>4, <1>5, <1>6, <1>7 DEF Recovery

\* The goroutines work only while the service is up.
LEMMA WorkersAreUp ==
  /\ \A c \in Cycles : BeginRetentionCycle(c) \/ Maintenance(c) => process = "up" /\ process' = "up"
  /\ \A r \in Restores : Restoring(r) \/ (\E scope \in Scopes : RequestRestore(r, scope))
        => process = "up" /\ process' = "up"
<1>1. ASSUME NEW c \in Cycles, BeginRetentionCycle(c) \/ Maintenance(c) PROVE process = "up" /\ process' = "up"
  <2>1. UNCHANGED process
    BY <1>1, CyclesKeepTheDay DEF world
  <2>2. process = "up"
    BY <1>1 DEF BeginRetentionCycle, GateFree, Maintenance, At, StartCycle, LockResume,
       ResumeRetentionDeletions, PlanCycle, SelectGroup, ClaimArchive, BuildArchive, PublishArchive,
       FailArchive, ClaimDeletion, StageDeletion, PublishStaged, Cutover, AbandonCutover,
       WithdrawDeletion, RemoveContent, PublishRemoved, PublishDeleted, ConvergeDeletion
  <2> QED BY <2>1, <2>2
<1>2. ASSUME NEW r \in Restores, Restoring(r) \/ (\E scope \in Scopes : RequestRestore(r, scope))
      PROVE  process = "up" /\ process' = "up"
  <2>1. UNCHANGED process
    BY <1>2, RestoresKeepTheDay DEF world
  <2>2. process = "up"
    BY <1>2 DEF RequestRestore, GateFree, Restoring, RestoreAt, FinishCommittedDeletions, PreemptDeletion,
       ClaimRestore, RefuseRestore, StartRestore, VerifySegment, VerificationFails, PublishRestore,
       PreparationFails, DropReplacements, FailRestore, RemovePublishedArchive, CompleteRestore,
       AbandonCleanup
  <2> QED BY <2>1, <2>2
<1> QED BY <1>1, <1>2

\* No operation is left running behind a finished stage of the recovery.
LEMMA StagesKept == Invariant /\ [Next]_vars => StagesFit'
<1> SUFFICES ASSUME Invariant, [Next]_vars PROVE StagesFit'
  OBVIOUS
<1>0. Pools /\ TypeOK /\ CatalogInv /\ StagesFit
  BY Pools DEF Invariant
<1>1. process' \in {"up", "down"} => StagesFit'
  BY DEF StagesFit
<1>2. ASSUME NEW s \in Segments, Damage(s) PROVE StagesFit'
  <2>1. PICK part \in {"payload", "metadata"} : segment' = [segment EXCEPT ![s].damage = part]
    BY <1>2 DEF Damage
  <2>2. \A t \in Segments : segment'[t].state = segment[t].state /\ segment'[t].file = segment[t].file
    BY <1>0, <2>1 DEF TypeOK, SegmentRecord
  <2>3. UNCHANGED <<op, process>>
    BY <1>2 DEF Damage
  <2> QED BY <1>0, <2>2, <2>3 DEF StagesFit, Running, Unreferenced
<1>3. CASE Recovery \/ RecoveryFails
  BY <1>0, <1>3, RecoveringKeepsStages
<1>4. CASE Tick \/ UNCHANGED vars
  <2>1. UNCHANGED <<segment, op, process>>
    BY <1>4 DEF Tick, vars, world, catalog
  <2> QED BY <1>0, <2>1 DEF StagesFit, Running, Unreferenced
<1>5. CASE (\E e \in Exports : Receive(e)) \/ (\E enabled \in BOOLEAN : UpdateRetentionPolicy(enabled)) \/ Close
  BY <1>1, <1>5 DEF Receive, UpdateRetentionPolicy, Close, GateFree
<1>6. CASE Exit \/ Crash
  BY <1>1, <1>6 DEF Exit, Crash, Vanish
<1> QED BY <1>1, <1>2, <1>3, <1>4, <1>5, <1>6, WorkersAreUp DEF Next

\* The invariant holds at first.
LEMMA InvariantStarts == Init => Invariant
<1> SUFFICES ASSUME Init PROVE Invariant
  OBVIOUS
<1>0. Pools /\ \A o \in Operations : op[o].status # "running" /\ op[o] = NoOperation
  BY Pools DEF Init, NoOperation
<1>1. TypeOK
  <2>1. /\ [state |-> "absent", received |-> 0, hold |-> 0, home |-> None, owner |-> None] \in ExportRecord
        /\ [state |-> "unused", file |-> "absent", damage |-> "none",
            payload |-> "intact", metadata |-> "verifiable"] \in SegmentRecord
    BY DEF ExportRecord, SegmentRecord, Places, None
  <2>2. /\ export \in [Exports -> ExportRecord] /\ segment \in [Segments -> SegmentRecord]
        /\ op \in [Operations -> OperationRecord]
        /\ cycle \in [Cycles -> CycleRecord] /\ restore \in [Restores -> RestoreRecord]
    BY <2>1, NothingIsTyped DEF Init
  <2>3. PICK s \in Scenarios : scenario = [actors |-> s.actors, exports |-> s.exports, revisions |-> s.revisions,
                      mishaps |-> s.mishaps, most |-> s.most, happened |-> <<>>]
    BY DEF Init
  <2>4. /\ s.actors \subseteq Cycles \union Restores /\ s.exports \subseteq Exports
        /\ s.mishaps \subseteq MishapKinds /\ s.most \in Nat /\ s.revisions \in Nat
    BY <1>0 DEF Pools
  <2>5. <<>> \in Seq(MishapKinds) /\ Len(<<>>) = 0
    OBVIOUS
  <2>6. scenario \in ScenarioRecord /\ Len(scenario.happened) <= scenario.most
    BY <2>3, <2>4, <2>5 DEF ScenarioRecord
  <2> QED BY <2>2, <2>6 DEF Init, TypeOK
<1>2. CatalogInv
  BY <1>0 DEF Init, CatalogInv, ExportsFit, ExportFits, SegmentsFit, OwnedTogether, OperationsFit, None
<1>3. /\ \A c \in Cycles : cycle[c] = NoCycle
      /\ \A r \in Restores : restore[r] = NoRestore
      /\ mu = Nobody /\ gate = Nobody /\ process = "up"
  BY DEF Init
<1>4. LocksFit
  BY <1>0, <1>3 DEF LocksFit, NoCycle, NoRestore, Sleeping, Working, Gated, Pools
<1>5. ASSUME NEW c \in Cycles PROVE CycleFits(c) /\ PlanFits(c)
  BY <1>3 DEF CycleFits, PlanFits, NoCycle, InArchive, InDeletion, None
<1>6. ASSUME NEW r \in Restores PROVE RestoreFits(r)
  BY <1>3 DEF RestoreFits, NoRestore, Preparing, None
<1>7. HandsApart
  BY <1>3 DEF HandsApart, NoRestore
<1>8. FilesFit
  BY <1>0 DEF Init, FilesFit, RunningDeletion
<1>9. StagesFit
  BY <1>3 DEF StagesFit
<1> QED BY <1>1, <1>2, <1>4, <1>5, <1>6, <1>7, <1>8, <1>9 DEF Invariant

\* Every step keeps the invariant.
LEMMA InvariantStays == Invariant /\ [Next]_vars => Invariant'
<1> SUFFICES ASSUME Invariant, [Next]_vars PROVE Invariant'
  OBVIOUS
<1>1. /\ TypeOK' /\ CatalogInv' /\ LocksFit' /\ FilesFit' /\ StagesFit' /\ HandsApart'
      /\ \A c \in Cycles : CycleFits(c)' /\ PlanFits(c)'
      /\ \A r \in Restores : RestoreFits(r)'
  BY TypesStay, CatalogKept, LocksKept, FilesKept, StagesKept, RestoresKept, CyclesKept
<1> QED BY <1>1 DEF Invariant

\* Every record keeps its shape, and what the catalog, the files and the
\* goroutines say of each other holds in every reachable state.
THEOREM LifecycleHolds == Spec => []Invariant
<1>1. Invariant /\ [Next]_vars => Invariant'
  BY InvariantStays
<1> QED BY <1>1, InvariantStarts, PTL DEF Spec

-----------------------------------------------------------------------------
(* Why a file is on disk *)

KeepsFile(r, s) ==
    \/ restore[r].pc \in {"verify", "drop"} /\ \E t \in Segments : restore[r].fresh[t] = s
    \/ restore[r].pc = "clean" /\ s \in restore[r].todo
LeftToStart == closing /\ \E o \in Running("restore") : op[o].phase = "content_removed"
Reason(s) ==
    \/ segment[s].state = "current"
    \/ \E c \in Cycles : cycle[c].pc = "publish" /\ cycle[c].segment = s
    \/ \E r \in Restores : KeepsFile(r, s)
    \/ LeftToStart
FilesHaveReasons ==
    NoFault /\ process = "up" => \A s \in Segments : segment[s].file = "installed" => Reason(s)

\* A file that comes belongs to a current segment.
Calm(s) ==
    segment'[s].file = "installed" =>
       \/ segment'[s].state = "current"
       \/ segment'[s].state = segment[s].state /\ segment'[s].file = segment[s].file

\* A step that brings no file and takes no reason keeps the reasons.
LEMMA CalmStep ==
  ASSUME NEW s \in Segments, segment'[s].file = "installed",
         segment[s].file = "installed" => Reason(s), Calm(s),
         \A c \in Cycles : cycle[c].pc = "publish" /\ cycle[c].segment = s => cycle'[c] = cycle[c],
         \A r \in Restores : KeepsFile(r, s) => KeepsFile(r, s)' \/ Reason(s)',
         LeftToStart => LeftToStart'
  PROVE  Reason(s)'
<1>1. CASE segment'[s].state = "current"
  BY <1>1 DEF Reason
<1>2. CASE segment'[s].state = segment[s].state /\ segment'[s].file = segment[s].file
  <2>1. Reason(s)
    BY <1>2
  <2>2. ASSUME NEW r \in Restores, KeepsFile(r, s) PROVE Reason(s)'
    BY <2>2 DEF Reason
  <2> QED BY <1>2, <2>1, <2>2 DEF Reason
<1> QED BY <1>1, <1>2 DEF Calm

\* Files that only move, or go, are calm.
LEMMA SegmentsAreCalm ==
  /\ UNCHANGED segment => \A s \in Segments : Calm(s)
  /\ TypeOK => \A t \in Segments : segment[t].state = "current" =>
        \A place \in Places : segment' = MoveFile(t, place) => \A s \in Segments : Calm(s)
  /\ TypeOK => \A S : segment' = Erased(S) => \A s \in Segments : Calm(s)
<1>1. ASSUME TypeOK, NEW t \in Segments, segment[t].state = "current", NEW place \in Places,
             segment' = MoveFile(t, place), NEW s \in Segments
      PROVE  Calm(s)
  <2>1. SameRow(t) /\ \A u \in Segments : u # t => segment'[u] = segment[u]
    BY <1>1, MovedIsTyped
  <2> QED BY <1>1, <2>1 DEF Calm, SameRow
<1>2. ASSUME TypeOK, NEW S, segment' = Erased(S), NEW s \in Segments PROVE Calm(s)
  <2>1. s \in S => segment'[s].file = "absent"
    BY <1>2, ErasedIsTyped
  <2>2. s \notin S => segment'[s] = segment[s]
    BY <1>2, ErasedIsTyped
  <2> QED BY <2>1, <2>2 DEF Calm
<1>3. UNCHANGED segment => \A s \in Segments : Calm(s)
  BY DEF Calm
<1> QED BY <1>1, <1>2, <1>3

\* The recovery of a deletion takes no reason.
LEMMA RecoveryIsCalm ==
  ASSUME Pools, TypeOK, CatalogInv, NEW o \in Running("delete"), RecoverDeletionOperation(o),
         NEW s \in Segments
  PROVE  Calm(s)
<1>1. /\ o \in Operations /\ op[o].segment \in Segments /\ segment[op[o].segment].state = "current"
  BY DeletionsAreApart DEF Running
<1>2. CASE CompleteDeletion(o) /\ segment[op[o].segment].file = "absent"
  BY <1>1, <1>2, CompletionIsTyped DEF Calm
<1>3. CASE CancelDeletion(o)
  BY <1>3, SegmentsAreCalm DEF CancelDeletion
<1>4. CASE \E place \in {"staged", "installed"} : segment' = MoveFile(op[o].segment, place)
  BY <1>1, <1>4, SegmentsAreCalm, PlacesAre
<1>5. CASE segment' = Erased({op[o].segment})
  BY <1>5, SegmentsAreCalm
<1> QED BY <1>2, <1>3, <1>4, <1>5 DEF RecoverDeletionOperation

\* The planning of a cycle takes no reason.
LEMMA PlanningIsCalm ==
  ASSUME Pools, TypeOK, CatalogInv, NEW c \in Cycles,
         \/ BeginRetentionCycle(c) \/ StartCycle(c) \/ LockResume(c) \/ ResumeRetentionDeletions(c)
         \/ PlanCycle(c) \/ SelectGroup(c)
  PROVE  \A s \in Segments : Calm(s)
<1>1. CASE UNCHANGED segment
  BY <1>1, SegmentsAreCalm
<1>2. ASSUME NEW o \in Running("delete"), RecoverDeletionOperation(o) PROVE \A s \in Segments : Calm(s)
  BY <1>2, RecoveryIsCalm
<1> QED BY <1>1, <1>2 DEF BeginRetentionCycle, StartCycle, LockResume, ResumeRetentionDeletions,
        PlanCycle, SelectGroup, catalog

\* A deletion takes no reason of a file it leaves installed.
LEMMA DeletionIsCalm ==
  ASSUME Pools, TypeOK, CatalogInv, NEW c \in Cycles, CycleFits(c),
         \/ ClaimDeletion(c) \/ StageDeletion(c) \/ PublishStaged(c) \/ Cutover(c)
         \/ AbandonCutover(c) \/ WithdrawDeletion(c) \/ RemoveContent(c) \/ PublishRemoved(c)
         \/ PublishDeleted(c) \/ ConvergeDeletion(c)
  PROVE  \A s \in Segments : Calm(s)
<1> DEFINE o == cycle[c].op
           t == cycle[c].segment
<1>0. UNCHANGED segment => \A s \in Segments : Calm(s)
  BY SegmentsAreCalm
<1>1. cycle[c].pc \in InDeletion /\ op[o].status = "running" =>
         o \in Running("delete") /\ t \in Segments /\ segment[t].state = "current" /\ op[o].segment = t
  BY CycleDeletion, DeletionsAreApart DEF Running
<1>2. CASE ClaimDeletion(c)
  BY <1>0, <1>2, ClaimDeletionParts DEF catalog
<1>3. CASE StageDeletion(c)
  <2>1. segment[t].state = "current" /\ t \in Segments
    BY <1>1, <1>3 DEF StageDeletion, At, InDeletion, CycleFits, RunningDeletion
  <2> QED BY <1>0, <1>3, <2>1, SegmentsAreCalm, PlacesAre DEF StageDeletion
<1>4. CASE PublishStaged(c) \/ Cutover(c) \/ AbandonCutover(c) \/ PublishRemoved(c)
  BY <1>0, <1>4 DEF PublishStaged, Cutover, AbandonCutover, PublishRemoved, catalog
<1>5. CASE WithdrawDeletion(c)
  <2>1. segment[t].state = "current" /\ t \in Segments
    BY <1>1, <1>5 DEF WithdrawDeletion, At, InDeletion, CycleFits, RunningDeletion
  <2> QED BY <1>0, <1>5, <2>1, SegmentsAreCalm, PlacesAre DEF WithdrawDeletion, CancelDeletion, catalog
<1>6. CASE RemoveContent(c)
  BY <1>0, <1>6, SegmentsAreCalm DEF RemoveContent
<1>7. CASE PublishDeleted(c)
  <2>1. segment[t].file = "absent" /\ op[o].segment = t /\ o \in Operations /\ t \in Segments
    BY <1>1, <1>7, CycleDeletion DEF PublishDeleted, At, InDeletion, CycleFits, RunningDeletion
  <2>2. CASE CompleteDeletion(o)
    <3> HIDE DEF o, t
    <3>1. \A s \in Segments : s # t => segment'[s] = segment[s]
      BY <2>1, <2>2, CompletionIsTyped
    <3>2. segment'[t].file = "absent"
      BY <2>1, <2>2, CompletionIsTyped
    <3> QED BY <3>1, <3>2 DEF Calm
  <2> QED BY <1>0, <1>7, <2>2 DEF PublishDeleted, catalog
<1>8. CASE ConvergeDeletion(c)
  <2>1. CASE op[o].status = "running" /\ RecoverDeletionOperation(o)
    <3>1. o \in Running("delete")
      BY <1>1, <1>8, <2>1 DEF ConvergeDeletion, At, InDeletion
    <3> QED BY <2>1, <3>1, RecoveryIsCalm
  <2> QED BY <1>0, <1>8, <2>1 DEF ConvergeDeletion, catalog
<1> QED BY <1>2, <1>3, <1>4, <1>5, <1>6, <1>7, <1>8


\* What happened stays known.
LEMMA CyclesMeetMishaps ==
  ASSUME NEW c \in Cycles, BeginRetentionCycle(c) \/ Maintenance(c)
  PROVE  UNCHANGED scenario \/ Mishap("fault")
<1>1. CASE \/ BeginRetentionCycle(c) \/ StartCycle(c) \/ LockResume(c) \/ ResumeRetentionDeletions(c)
           \/ PlanCycle(c) \/ SelectGroup(c)
  BY <1>1 DEF BeginRetentionCycle, StartCycle, LockResume, ResumeRetentionDeletions, PlanCycle, SelectGroup, Fails
<1>2. CASE ClaimArchive(c) \/ BuildArchive(c) \/ PublishArchive(c) \/ FailArchive(c)
  BY <1>2 DEF ClaimArchive, BuildArchive, PublishArchive, FailArchive, Fails
<1>3. CASE ClaimDeletion(c)
  BY <1>3 DEF ClaimDeletion, Fails
<1>4. CASE StageDeletion(c) \/ PublishStaged(c) \/ Cutover(c) \/ AbandonCutover(c)
  BY <1>4 DEF StageDeletion, PublishStaged, Cutover, AbandonCutover, Fails
<1>5. CASE \/ WithdrawDeletion(c) \/ RemoveContent(c) \/ PublishRemoved(c) \/ PublishDeleted(c)
           \/ ConvergeDeletion(c)
  BY <1>5 DEF WithdrawDeletion, RemoveContent, PublishRemoved, PublishDeleted, ConvergeDeletion, Fails
<1> QED BY <1>1, <1>2, <1>3, <1>4, <1>5 DEF Maintenance

\* A restore meets no mishap but a fault.
LEMMA RestoresMeetMishaps ==
  ASSUME NEW r \in Restores, Restoring(r) \/ \E scope \in Scopes : RequestRestore(r, scope)
  PROVE  UNCHANGED scenario \/ Mishap("fault")
BY DEF RequestRestore, Restoring, FinishCommittedDeletions, PreemptDeletion, ClaimRestore, RefuseRestore,
   StartRestore, VerifySegment, VerificationFails, PublishRestore, PreparationFails, DropReplacements,
   FailRestore, RemovePublishedArchive, CompleteRestore, AbandonCleanup, Fails

\* The recovery meets no mishap but a fault.
LEMMA RecoveryMeetsMishaps ==
  ASSUME Recovery \/ RecoveryFails
  PROVE  UNCHANGED scenario \/ Mishap("fault")
BY DEF Recovery, RecoveryFails, Restart, RecoverArchives, RecoverRestores, RecoverUnpublished,
   RecoverDeletions, DeletionsRecovered, RemoveUnreferencedArchiveFiles, FilesRecovered,
   RecoverRestoreCleanup

\* A fault is remembered.
LEMMA FaultsAreRemembered == TypeOK /\ [Next]_vars /\ NoFault' => NoFault
<1> SUFFICES ASSUME TypeOK, [Next]_vars PROVE NoFault' => NoFault
  OBVIOUS
<1>1. UNCHANGED scenario => (NoFault' => NoFault)
  BY DEF NoFault
<1>2. \A kind \in MishapKinds : Mishap(kind) => (NoFault' => NoFault)
  BY MishapHappens
<1>3. "fault" \in MishapKinds /\ "crash" \in MishapKinds /\ "close" \in MishapKinds /\ "damage" \in MishapKinds
  BY DEF MishapKinds
<1>4. CASE \/ Tick \/ (\E e \in Exports : Receive(e))
           \/ (\E enabled \in BOOLEAN : UpdateRetentionPolicy(enabled)) \/ Exit \/ UNCHANGED vars
  BY <1>1, <1>4 DEF Tick, Receive, UpdateRetentionPolicy, Exit, vars
<1>5. CASE (\E s \in Segments : Damage(s)) \/ Close \/ Crash
  BY <1>2, <1>3, <1>5 DEF Damage, Close, Crash
<1> QED BY <1>1, <1>2, <1>3, <1>4, <1>5, CyclesMeetMishaps, RestoresMeetMishaps, RecoveryMeetsMishaps DEF Next

\* A published restore that is left to the next start stays so under a cycle.
LEMMA CyclesLeaveRestoring ==
  ASSUME Pools, TypeOK, CatalogInv, NEW c \in Cycles, CycleFits(c), BeginRetentionCycle(c) \/ Maintenance(c)
  PROVE  \A o \in Running("restore") : op'[o] = op[o]
<1>1. \A p : Elsewhere(p) => \A o \in Running("restore") : o # p => op'[o] = op[o]
  BY DEF Elsewhere
<1>2. CASE \/ BeginRetentionCycle(c) \/ StartCycle(c) \/ LockResume(c) \/ ResumeRetentionDeletions(c)
           \/ PlanCycle(c) \/ SelectGroup(c)
  <2>1. Elsewhere(None)
    BY <1>2, PlanningIsElsewhere
  <2>2. \A o \in Running("restore") : o # None
    BY HomesAreCurrent DEF Running
  <2> QED BY <1>1, <2>1, <2>2
<1>3. CASE \/ ClaimArchive(c) \/ BuildArchive(c) \/ PublishArchive(c) \/ FailArchive(c)
           \/ ClaimDeletion(c) \/ StageDeletion(c) \/ PublishStaged(c) \/ Cutover(c)
           \/ AbandonCutover(c) \/ WithdrawDeletion(c) \/ RemoveContent(c) \/ PublishRemoved(c)
           \/ PublishDeleted(c) \/ ConvergeDeletion(c)
  <2>1. Elsewhere(cycle[c].op)
    BY <1>3, ArchiveIsElsewhere, DeletionIsElsewhere
  <2>2. cycle[c].op \notin Running("restore")
    <3>1. cycle[c].op = None \/ cycle[c].pc \in InArchive \/ cycle[c].pc \in InDeletion
      BY DEF CycleFits
    <3>2. CASE cycle[c].op = None
      BY <3>2, HomesAreCurrent DEF Running
    <3>3. CASE cycle[c].pc \in InArchive
      BY <3>3 DEF CycleFits, Running
    <3>4. CASE cycle[c].pc \in InDeletion
      BY <3>4, CycleDeletion DEF Running
    <3> QED BY <3>1, <3>2, <3>3, <3>4
  <2> QED BY <1>1, <2>1, <2>2
<1> QED BY <1>2, <1>3 DEF Maintenance

\* What is left to the next start stays so while no operation of a restore moves.
LEMMA LeftStays ==
  ASSUME UNCHANGED closing, \A o \in Running("restore") : op'[o] = op[o]
  PROVE  LeftToStart => LeftToStart'
BY DEF LeftToStart, Running

\* A file on disk keeps its reason while a cycle moves.
LEMMA CyclesKeepReasons ==
  ASSUME Invariant, FilesHaveReasons, NoFault, NoFault', NEW c \in Cycles,
         BeginRetentionCycle(c) \/ Maintenance(c), NEW s \in Segments, segment'[s].file = "installed"
  PROVE  Reason(s)'
<1>0. /\ Pools /\ TypeOK /\ CatalogInv /\ CycleFits(c) /\ UNCHANGED <<restore, closing>>
      /\ (segment[s].file = "installed" => Reason(s))
      /\ \A d \in Cycles : d # c => cycle'[d] = cycle[d]
  <2>1. UNCHANGED closing /\ process = "up"
    BY CyclesKeepTheDay, WorkersAreUp DEF world
  <2> QED BY <2>1, Pools, CyclesLeaveRestores, CyclesMoveAlone DEF Invariant, FilesHaveReasons
<1>1. LeftToStart => LeftToStart'
  BY <1>0, CyclesLeaveRestoring, LeftStays
<1>2. \A r \in Restores : KeepsFile(r, s) => KeepsFile(r, s)'
  BY <1>0 DEF KeepsFile
<1>3. Calm(s) /\ cycle[c].pc # "publish" => Reason(s)'
  BY <1>0, <1>1, <1>2, CalmStep
<1>4. CASE \/ BeginRetentionCycle(c) \/ StartCycle(c) \/ LockResume(c) \/ ResumeRetentionDeletions(c)
           \/ PlanCycle(c) \/ SelectGroup(c)
  <2>1. cycle[c].pc # "publish"
    BY <1>4 DEF BeginRetentionCycle, StartCycle, LockResume, ResumeRetentionDeletions, PlanCycle, SelectGroup, At
  <2> QED BY <1>0, <1>3, <1>4, <2>1, PlanningIsCalm
<1>5. CASE \/ ClaimDeletion(c) \/ StageDeletion(c) \/ PublishStaged(c) \/ Cutover(c)
           \/ AbandonCutover(c) \/ WithdrawDeletion(c) \/ RemoveContent(c) \/ PublishRemoved(c)
           \/ PublishDeleted(c) \/ ConvergeDeletion(c)
  <2>1. cycle[c].pc # "publish"
    BY <1>5 DEF ClaimDeletion, StageDeletion, PublishStaged, Cutover, AbandonCutover, WithdrawDeletion,
       RemoveContent, PublishRemoved, PublishDeleted, ConvergeDeletion, At
  <2> QED BY <1>0, <1>3, <1>5, <2>1, DeletionIsCalm
<1>6. CASE ClaimArchive(c) \/ FailArchive(c)
  <2>1. cycle[c].pc # "publish" /\ UNCHANGED segment
    BY <1>6 DEF ClaimArchive, FailArchive, At, catalog
  <2> QED BY <1>3, <2>1, SegmentsAreCalm
<1>7. CASE BuildArchive(c)
  <2>1. cycle[c].pc # "publish"
    BY <1>7 DEF BuildArchive, At
  <2>2. CASE UNCHANGED segment
    BY <1>3, <2>1, <2>2, SegmentsAreCalm
  <2>3. ASSUME NEW t \in FreshSegment, segment' = BuildWithIncarnation(t),
               cycle' = [cycle EXCEPT ![c].pc = "publish", ![c].segment = t]
        PROVE  Reason(s)'
    <3>1. t \in Segments
      BY FreshAreTyped
    <3>2. cycle'[c].pc = "publish" /\ cycle'[c].segment = t
      BY <1>0, <2>3, <3>1, CycleBuilds
    <3>3. CASE s = t
      BY <3>2, <3>3 DEF Reason
    <3>4. CASE s # t
      <4>1. segment'[s] = segment[s]
        BY <1>0, <2>3, <3>1, <3>4, PlacesAre, MovedIsTyped DEF BuildWithIncarnation
      <4> QED BY <1>3, <2>1, <4>1 DEF Calm
    <3> QED BY <3>3, <3>4
  <2>4. ~Mishap("fault")
    BY <1>0, MishapHappens DEF MishapKinds
  <2> QED BY <1>7, <2>2, <2>3, <2>4 DEF BuildArchive
<1>8. CASE PublishArchive(c)
  <2> DEFINE t == cycle[c].segment
  <2>1. t \in Segments
    BY <1>0, <1>8, CycleHolds DEF PublishArchive, At
  <2>2. CASE segment' = [segment EXCEPT ![t].state = "current"]
    <3>1. segment'[t].state = "current" /\ \A u \in Segments : u # t => segment'[u] = segment[u]
      BY <1>0, <2>1, <2>2 DEF TypeOK, SegmentRecord
    <3>2. CASE s = t
      BY <3>1, <3>2 DEF Reason
    <3>3. CASE s # t
      <4>1. \A d \in Cycles : cycle[d].pc = "publish" /\ cycle[d].segment = s => cycle'[d] = cycle[d]
        BY <1>0, <3>3
      <4> QED BY <1>0, <1>1, <1>2, <3>1, <3>3, <4>1, CalmStep DEF Calm
    <3> QED BY <3>2, <3>3
  <2>3. CASE segment' = Erased({t})
    <3> HIDE DEF t
    <3>1. /\ \A u \in Segments : u \in {t} => segment'[u].file = "absent"
          /\ \A u \in Segments : u \notin {t} => segment'[u] = segment[u]
      BY <1>0, <2>3, ErasedIsTyped
    <3>2. s # t /\ Calm(s)
      BY <3>1 DEF Calm
    <3>3. \A d \in Cycles : cycle[d].pc = "publish" /\ cycle[d].segment = s => cycle'[d] = cycle[d]
      BY <1>0, <3>2 DEF t
    <3> QED BY <1>0, <1>1, <1>2, <3>2, <3>3, CalmStep
  <2> QED BY <1>8, <2>2, <2>3 DEF PublishArchive
<1> QED BY <1>4, <1>5, <1>6, <1>7, <1>8 DEF Maintenance


\* A restore ends no other one that is left to the next start.
LEMMA RestoresLeaveRestoring ==
  ASSUME Pools, TypeOK, CatalogInv, NEW r \in Restores, RestoreFits(r),
         Restoring(r) \/ \E scope \in Scopes : RequestRestore(r, scope)
  PROVE  LeftToStart => LeftToStart'
<1> SUFFICES ASSUME closing, NEW o \in Running("restore"), op[o].phase = "content_removed"
             PROVE  LeftToStart'
  BY DEF LeftToStart
<1>1. closing'
  BY RestoresKeepTheDay DEF world
<1>2. op'[o] = op[o]
  <2>1. CASE o # restore[r].op
    BY <2>1, RestoreIsElsewhere DEF Elsewhere
  <2>2. CASE o = restore[r].op
    <3>1. o # None
      BY HomesAreCurrent DEF Running
    <3>2. restore[r].pc = "clean"
      BY <2>2, <3>1 DEF RestoreFits, Preparing
    <3>3. UNCHANGED op
      BY <3>2 DEF RequestRestore, Restoring, FinishCommittedDeletions, PreemptDeletion, ClaimRestore, RefuseRestore,
         StartRestore, VerifySegment, VerificationFails, PublishRestore, PreparationFails, DropReplacements,
         FailRestore, RemovePublishedArchive, CompleteRestore, AbandonCleanup, RestoreAt, catalog
    <3> QED BY <3>3
  <2> QED BY <2>1, <2>2
<1> QED BY <1>1, <1>2 DEF LeftToStart, Running

\* The claim of a restore takes no reason.
LEMMA ClaimsAreCalm ==
  ASSUME Pools, TypeOK, CatalogInv, NEW r \in Restores,
         \/ FinishCommittedDeletions(r) \/ PreemptDeletion(r) \/ ClaimRestore(r) \/ RefuseRestore(r)
         \/ \E scope \in Scopes : RequestRestore(r, scope)
  PROVE  restore[r].pc \in {"idle", "claim"} /\ \A s \in Segments : Calm(s)
<1>1. CASE FinishCommittedDeletions(r)
  BY <1>1, RecoveryIsCalm DEF FinishCommittedDeletions, CommittedDeletions, RestoreAt
<1>2. CASE PreemptDeletion(r)
  <2>1. PICK o \in Running("delete") : segment' = MoveFile(op[o].segment, "installed")
    BY <1>2 DEF PreemptDeletion
  <2>2. op[o].segment \in Segments /\ segment[op[o].segment].state = "current"
    BY DeletionsAreApart DEF Running
  <2> QED BY <1>2, <2>1, <2>2, SegmentsAreCalm, PlacesAre DEF PreemptDeletion, RestoreAt
<1>3. CASE ClaimRestore(r) \/ RefuseRestore(r) \/ \E scope \in Scopes : RequestRestore(r, scope)
  BY <1>3, SegmentsAreCalm DEF ClaimRestore, RefuseRestore, RequestRestore, RestoreAt, catalog
<1> QED BY <1>1, <1>2, <1>3

\* A file on disk keeps its reason while a restore moves.
LEMMA RestoresKeepReasons ==
  ASSUME Invariant, FilesHaveReasons, NoFault, NoFault', NEW r \in Restores,
         Restoring(r) \/ (\E scope \in Scopes : RequestRestore(r, scope)),
         NEW s \in Segments, segment'[s].file = "installed"
  PROVE  Reason(s)'
<1> DEFINE k == restore[r]
<1>0. /\ Pools /\ TypeOK /\ CatalogInv /\ RestoreFits(r) /\ UNCHANGED cycle
      /\ (segment[s].file = "installed" => Reason(s))
      /\ \A q \in Restores : q # r => restore'[q] = restore[q]
  <2>1. Pools /\ TypeOK /\ process = "up"
    BY Pools, WorkersAreUp DEF Invariant
  <2> QED BY <2>1, RestoreMovesAlone DEF Invariant, FilesHaveReasons
<1>1. LeftToStart => LeftToStart'
  BY <1>0, RestoresLeaveRestoring
<1>2. \A q \in Restores : q # r /\ KeepsFile(q, s) => KeepsFile(q, s)'
  BY <1>0 DEF KeepsFile
<1>3. Calm(s) /\ (KeepsFile(r, s) => KeepsFile(r, s)' \/ Reason(s)') => Reason(s)'
  <2> SUFFICES ASSUME Calm(s), KeepsFile(r, s) => KeepsFile(r, s)' \/ Reason(s)' PROVE Reason(s)'
    OBVIOUS
  <2>1. \A q \in Restores : KeepsFile(q, s) => KeepsFile(q, s)' \/ Reason(s)'
    BY <1>2
  <2>2. \A c \in Cycles : cycle[c].pc = "publish" /\ cycle[c].segment = s => cycle'[c] = cycle[c]
    BY <1>0
  <2> QED BY <1>0, <1>1, <2>1, <2>2, CalmStep
<1>4. s # None /\ k.segments \in SUBSET Segments
  BY <1>0, HomesAreCurrent DEF TypeOK, RestoreRecord
<1>5. k.pc \notin {"verify", "drop", "clean"} => ~KeepsFile(r, s)
  BY DEF KeepsFile
<1>6. KeepsFile(r, s) /\ k.pc \in {"verify", "drop"} =>
         \E t \in k.segments \ k.todo : t \in Segments /\ k.fresh[t] = s
  BY <1>0, <1>4 DEF KeepsFile, RestoreFits
<1>7. CASE \/ FinishCommittedDeletions(r) \/ PreemptDeletion(r) \/ ClaimRestore(r) \/ RefuseRestore(r)
           \/ \E scope \in Scopes : RequestRestore(r, scope)
  <2>1. k.pc \in {"idle", "claim"} /\ Calm(s)
    BY <1>0, <1>7, ClaimsAreCalm
  <2> QED BY <1>3, <1>5, <2>1
<1>8. CASE StartRestore(r) \/ FailRestore(r)
  <2>1. k.pc \in {"queued", "fail"} /\ UNCHANGED segment
    BY <1>8 DEF StartRestore, FailRestore, RestoreAt, catalog
  <2> QED BY <1>3, <1>5, <2>1, SegmentsAreCalm
<1>9. CASE VerifySegment(r)
  <2>0. k.pc = "verify"
    BY <1>9 DEF VerifySegment, RestoreAt
  <2>1. ASSUME NEW t \in k.todo, UNCHANGED segment, restore' = [restore EXCEPT ![r].todo = @ \ {t}]
        PROVE  Reason(s)'
    <3>1. restore'[r].pc = k.pc /\ restore'[r].fresh = k.fresh
      BY <1>0, <2>1, OneLess
    <3>2. KeepsFile(r, s) => KeepsFile(r, s)'
      BY <2>0, <3>1 DEF KeepsFile
    <3> QED BY <1>3, <2>1, <3>2, SegmentsAreCalm
  <2>2. ASSUME NEW t \in k.todo, NEW n \in FreshSegment, Replaces(r, t, n), segment' = BuildWithIncarnation(n)
        PROVE  Reason(s)'
    <3>1. n \in Segments /\ t \in Segments
      BY <1>0, FreshAreTyped DEF TypeOK, RestoreRecord
    <3>a. restore'[r].pc = "verify"
      BY <1>0, <2>0, <2>2, <3>1, OneReplaced
    <3>2. \A u \in Segments : restore'[r].fresh[u] = IF u = t THEN n ELSE restore[r].fresh[u]
      BY <1>0, <2>2, <3>1, OneReplaced
    <3>3. CASE s = n
      BY <3>a, <3>1, <3>2, <3>3 DEF Reason, KeepsFile
    <3>4. CASE s # n
      <4>1. segment'[s] = segment[s]
        BY <1>0, <2>2, <3>1, <3>4, PlacesAre, MovedIsTyped DEF BuildWithIncarnation
      <4>2. KeepsFile(r, s) => KeepsFile(r, s)'
        <5> SUFFICES ASSUME KeepsFile(r, s) PROVE KeepsFile(r, s)'
          OBVIOUS
        <5>1. PICK u \in k.segments \ k.todo : u \in Segments /\ k.fresh[u] = s
          BY <1>6, <2>0
        <5> QED BY <3>a, <3>2, <5>1 DEF KeepsFile
      <4> QED BY <1>3, <4>1, <4>2 DEF Calm
    <3> QED BY <3>3, <3>4
  <2> QED BY <1>9, <2>1, <2>2 DEF VerifySegment, Replaces
<1>10. CASE VerificationFails(r) \/ PreparationFails(r)
  <2>1. k.pc = "verify" /\ RestoreTo(r, "drop") /\ "drop" \in RestoreSteps
    BY <1>10 DEF VerificationFails, PreparationFails, RestoreAt, RestoreSteps
  <2>2. restore'[r].pc = "drop" /\ restore'[r].fresh = k.fresh
    BY <1>0, <2>1, RestoreTurns
  <2>3. KeepsFile(r, s) => KeepsFile(r, s)'
    BY <2>1, <2>2 DEF KeepsFile
  <2>4. Calm(s)
    BY <1>0, <1>10, MarksAreTyped, SegmentsAreCalm DEF PreparationFails, Calm, catalog
  <2> QED BY <1>3, <2>3, <2>4
<1>11. CASE PublishRestore(r)
  <2> DEFINE S == restore[r].segments
             f == restore[r].fresh
  <2>1. k.pc = "verify" /\ restore' = [restore EXCEPT ![r].pc = "clean", ![r].todo = restore[r].segments]
    BY <1>11 DEF PublishRestore, RestoreAt
  <2>2. restore'[r].pc = "clean" /\ restore'[r].todo = S
    BY <1>0, <2>1, RestoreCleans
  <2>3. Replaced(restore[r].segments, restore[r].fresh)
    BY <1>0, <1>11, PublishRestoreParts
  <2>4. KeepsFile(r, s) => \E t \in S : f[t] = s
    BY <1>6, <2>1
  <2> HIDE DEF S, f
  <2>5. Replaced(S, f)
    BY <2>3 DEF S, f
  <2>6. CASE s \in S
    BY <2>2, <2>6 DEF Reason, KeepsFile
  <2>7. CASE s \notin S /\ \E t \in S : f[t] = s
    BY <2>5, <2>7 DEF Replaced, Reason
  <2>8. CASE s \notin S /\ ~\E t \in S : f[t] = s
    BY <1>3, <2>4, <2>5, <2>8 DEF Replaced, Calm
  <2> QED BY <2>6, <2>7, <2>8
<1>12. CASE DropReplacements(r)
  <2> DEFINE F == {restore[r].fresh[t] : t \in restore[r].segments}
  <2>1. k.pc = "drop" /\ segment' = Erased(F)
    <3>1. ~Mishap("fault")
      BY <1>0, MishapHappens DEF MishapKinds
    <3> QED BY <1>12, <3>1 DEF DropReplacements, RestoreAt
  <2>2. KeepsFile(r, s) => s \in F
    BY <1>6, <2>1
  <2> HIDE DEF F
  <2>3. s \notin F
    BY <1>0, <2>1, ErasedIsTyped
  <2> QED BY <1>0, <1>3, <2>1, <2>2, <2>3, SegmentsAreCalm
<1>13. CASE RemovePublishedArchive(r)
  <2>1. PICK t \in k.todo : segment' = Erased({t}) /\ restore' = [restore EXCEPT ![r].todo = @ \ {t}]
    BY <1>13 DEF RemovePublishedArchive
  <2>2. restore'[r].pc = k.pc /\ restore'[r].todo = k.todo \ {t} /\ k.pc = "clean"
    BY <1>0, <1>13, <2>1, OneLess DEF RemovePublishedArchive, RestoreAt
  <2>3. s # t
    <3>1. \A u \in Segments : u \in {t} => segment'[u].file = "absent"
      BY <1>0, <2>1, ErasedIsTyped
    <3> QED BY <3>1
  <2>4. KeepsFile(r, s) => KeepsFile(r, s)'
    BY <2>2, <2>3 DEF KeepsFile
  <2>5. Calm(s)
    BY <1>0, <2>1, SegmentsAreCalm
  <2> QED BY <1>3, <2>4, <2>5
<1>14. CASE CompleteRestore(r)
  <2>1. k.pc = "clean" /\ k.todo = {} /\ UNCHANGED segment
    BY <1>14 DEF CompleteRestore, RestoreAt
  <2>2. ~KeepsFile(r, s)
    BY <2>1 DEF KeepsFile
  <2> QED BY <1>3, <2>1, <2>2, SegmentsAreCalm
<1>15. CASE AbandonCleanup(r)
  <2>1. k.pc = "clean" /\ closing /\ UNCHANGED segment
    BY <1>15 DEF AbandonCleanup, RestoreAt, catalog
  <2>2. k.op \in Operations
    BY <1>0, <2>1 DEF RestoreFits, TypeOK, RestoreRecord
  <2>3. LeftToStart
    BY <1>0, <2>1, <2>2 DEF LeftToStart, Running, RestoreFits
  <2> QED BY <1>1, <2>3 DEF Reason
<1> QED BY <1>7, <1>8, <1>9, <1>10, <1>11, <1>12, <1>13, <1>14, <1>15 DEF Restoring

\* Without a fault every file on disk keeps a reason.
LEMMA ReasonsKept == Invariant /\ FilesHaveReasons /\ [Next]_vars => FilesHaveReasons'
<1> SUFFICES ASSUME Invariant, FilesHaveReasons, [Next]_vars, NoFault', process' = "up",
                    NEW s \in Segments, segment'[s].file = "installed"
             PROVE  Reason(s)'
  BY DEF FilesHaveReasons
<1>0. Pools /\ TypeOK /\ NoFault
  BY Pools, FaultsAreRemembered DEF Invariant
<1>1. ASSUME NEW c \in Cycles, BeginRetentionCycle(c) \/ Maintenance(c) PROVE Reason(s)'
  BY <1>0, <1>1, CyclesKeepReasons
<1>2. ASSUME NEW r \in Restores, Restoring(r) \/ (\E scope \in Scopes : RequestRestore(r, scope)) PROVE Reason(s)'
  BY <1>0, <1>2, RestoresKeepReasons
<1>3. CASE Recovery \/ RecoveryFails
  <2>1. RecoverRestoreCleanup
    BY <1>3 DEF Recovery, RecoveryFails, Restart, RecoverArchives, RecoverRestores, RecoverUnpublished,
       RecoverDeletions, DeletionsRecovered, RemoveUnreferencedArchiveFiles, FilesRecovered, Stage, world
  <2>2. process = "cleanup" /\ UNCHANGED segment
    BY <2>1 DEF RecoverRestoreCleanup, Stage
  <2>3. segment[s].state = "current"
    BY <2>2 DEF Invariant, StagesFit, Unreferenced
  <2> QED BY <2>2, <2>3 DEF Reason
<1>4. CASE Exit \/ Crash
  BY <1>4 DEF Exit, Crash, Vanish
<1>5. CASE \/ Tick \/ (\E e \in Exports : Receive(e))
           \/ (\E enabled \in BOOLEAN : UpdateRetentionPolicy(enabled))
           \/ (\E t \in Segments : Damage(t)) \/ Close \/ UNCHANGED vars
  <2>1. UNCHANGED <<op, cycle, restore>> /\ (closing => closing') /\ process = "up"
    <3>1. CASE Tick \/ UNCHANGED vars
      BY <3>1 DEF Tick, vars, world, catalog
    <3>2. CASE \E e \in Exports : Receive(e)
      BY <3>2 DEF Receive, GateFree
    <3>4. CASE Close
      <4>1. closing' /\ process = "up"
        BY <3>4 DEF Close
      <4> QED BY <3>4, <4>1 DEF Close, catalog
    <3>3. CASE (\E enabled \in BOOLEAN : UpdateRetentionPolicy(enabled)) \/ (\E t \in Segments : Damage(t))
      BY <3>3 DEF UpdateRetentionPolicy, Damage, catalog, GateFree
    <3> QED BY <1>5, <3>1, <3>2, <3>3, <3>4
  <2>2. segment'[s].state = segment[s].state /\ segment'[s].file = segment[s].file
    <3>1. CASE UNCHANGED segment
      BY <3>1
    <3>2. ASSUME NEW t \in Segments, Damage(t)
          PROVE  segment'[s].state = segment[s].state /\ segment'[s].file = segment[s].file
      <4>1. PICK part \in {"payload", "metadata"} : segment' = [segment EXCEPT ![t].damage = part]
        BY <3>2 DEF Damage
      <4> QED BY <1>0, <4>1 DEF TypeOK, SegmentRecord
    <3> QED BY <1>5, <3>1, <3>2 DEF Tick, Receive, UpdateRetentionPolicy, Close, vars, catalog
  <2>3. Reason(s)
    BY <1>0, <2>1, <2>2 DEF FilesHaveReasons
  <2> QED BY <2>1, <2>2, <2>3 DEF Reason, KeepsFile, LeftToStart, Running
<1> QED BY <1>1, <1>2, <1>3, <1>4, <1>5 DEF Next

-----------------------------------------------------------------------------
(* What a step does to the custody of the exports, and how operations end *)

\* A deletion past its point of no return.
Committed(o) == op[o].status = "running" /\ op[o].kind = "delete" /\ op[o].phase \in AfterCutover

\* No deletion passes its point of no return, and none that has is over.
Harmless ==
    \A o \in Operations :
       \/ op'[o] = op[o]
       \/ Committed(o) /\ Committed(o)' /\ op'[o].targets = op[o].targets
       \/ /\ ~Committed(o) /\ ~Committed(o)'
          /\ op[o].status = "running" /\ op[o].kind = "delete" => op'[o].phase \notin AfterCutover
SameExports ==
    \A e \in Exports :
       /\ export'[e].state = export[e].state
       /\ export'[e].received = export[e].received
       /\ export'[e].hold = export[e].hold
Ends(o) == op[o].status = "running" /\ op'[o].status # "running"
Truthful == \A o \in Operations : Ends(o) => OutcomeIsTrue(o)
Quiet == Harmless /\ SameExports /\ Truthful

\* Owners may change without any export moving.
LEMMA OwnersAreQuiet ==
  ASSUME TypeOK, UNCHANGED export \/ \E ops : export' = Released(ops)
  PROVE  SameExports
BY ReleasedIsTyped DEF SameExports, SameBut

\* A step that touches no export and no operation is quiet.
LEMMA NothingIsQuiet == UNCHANGED <<export, op>> => Quiet
BY DEF Quiet, Harmless, SameExports, Truthful, Ends

\* Closing operations before their point of no return harms nothing.
LEMMA ClosingIsHarmless ==
  ASSUME TypeOK, NEW ops, NEW status, status # "running", op' = Closed(ops, status),
         \A o \in Operations : o \in ops => ~Committed(o)
  PROVE  Harmless
<1>1. ASSUME NEW o \in Operations, o \in ops PROVE op'[o] = [NoOperation EXCEPT !.status = status]
  BY <1>1 DEF Closed
<1>2. [NoOperation EXCEPT !.status = status].phase = "none" /\ [NoOperation EXCEPT !.status = status].status = status
  BY DEF NoOperation
<1>3. ASSUME NEW o \in Operations, o \notin ops PROVE op'[o] = op[o]
  BY <1>3 DEF Closed
<1> QED BY <1>1, <1>2, <1>3 DEF Harmless, Committed, AfterCutover

\* The running deletions of the next state were there before.
NoNewDeletion ==
    \A q \in Operations : op'[q].status = "running" /\ op'[q].kind = "delete" => op'[q] = op[q]

\* An archived export whose operation has ended is in an installed file.
LEMMA EndedIsInPlace ==
  ASSUME Pools, TypeOK, CatalogInv, CatalogInv', FilesFit', NoNewDeletion, TypeOK',
         NEW o \in Operations, Ends(o), NEW e \in Exports, e \in op[o].targets,
         export'[e].state = "archived", export'[e].home = export[e].home
  PROVE  segment'[export'[e].home].file = "installed"
<1>0. export'[e].home # None /\ segment'[export'[e].home].state = "current"
  BY DEF CatalogInv, ExportsFit, ExportFits
<1>1. PICK s \in Segments : s = export'[e].home /\ segment'[s].state = "current"
  BY <1>0 DEF TypeOK, ExportRecord
<1>3. OperationFits(o) /\ export[e].owner = o
  BY DEF Ends, CatalogInv, OperationsFit, OperationFits
<1>4. ASSUME NEW q \in Operations, RunningDeletion(q, s, BeforeCutover \union AfterCutover)' PROVE FALSE
  <2>1. op'[q] = op[q]
    BY <1>4 DEF RunningDeletion, NoNewDeletion
  <2>2. op[q].status = "running" /\ op[q].kind = "delete" /\ op[q].segment = s
    BY <1>4, <2>1 DEF RunningDeletion
  <2>3. OperationFits(q)
    BY <2>2 DEF CatalogInv, OperationsFit
  <2>4. e \in op[q].targets
    BY <1>1, <2>2, <2>3 DEF OperationFits, Deletes
  <2>5. q = o
    BY <1>3, <2>3, <2>4 DEF OperationFits
  <2> QED BY <1>4, <2>5 DEF Ends, RunningDeletion
<1>5. \/ segment'[s].file = "installed"
      \/ \E q \in Operations : RunningDeletion(q, s, BeforeCutover \union AfterCutover)'
  BY <1>1 DEF FilesFit
<1> QED BY <1>1, <1>4, <1>5

\* What a running operation has done when it ends without moving anything.
RightEnd(o, status) ==
    status = "completed" <=> op[o].kind = "restore" /\ op[o].phase = "content_removed"

\* An operation that ends with the right status tells the truth.
LEMMA EndIsTrue ==
  ASSUME Pools, TypeOK, CatalogInv, CatalogInv', FilesFit', TypeOK', NoNewDeletion, SameExports,
         \A e \in Exports : export'[e].home = export[e].home,
         NEW o \in Operations, Ends(o), RightEnd(o, op'[o].status)
  PROVE  OutcomeIsTrue(o)
<1>1. OperationFits(o) /\ op[o].targets \subseteq Exports
  BY DEF Ends, CatalogInv, OperationsFit, TypeOK, OperationRecord
<1>2. \A e \in op[o].targets : export[e].state = "archived" =>
         export'[e].state = "archived" /\ segment'[export'[e].home].file = "installed"
  BY <1>1, EndedIsInPlace DEF SameExports
<1>3. CASE op[o].kind = "archive"
  <2>1. op'[o].status # "completed"
    BY <1>3 DEF RightEnd
  <2>2. \A e \in op[o].targets : export'[e].state = "active"
    BY <1>1, <1>3 DEF OperationFits, Archives, SameExports
  <2> QED BY <1>3, <2>1, <2>2 DEF OutcomeIsTrue
<1>4. CASE op[o].kind = "delete"
  <2>1. op'[o].status # "completed"
    BY <1>4 DEF RightEnd
  <2>2. \A e \in op[o].targets : export[e].state = "archived"
    <3>1. Deletes(o)
      BY <1>1, <1>4 DEF OperationFits
    <3>2. op[o].segment # None /\ \A e \in op[o].targets : export[e].home = op[o].segment
      BY <1>1, <3>1, Pools DEF Deletes, None
    <3>3. ASSUME NEW e \in op[o].targets PROVE export[e].state = "archived"
      <4>1. ExportFits(e) /\ export[e].home # None
        BY <1>1, <3>2 DEF CatalogInv, ExportsFit
      <4> QED BY <4>1 DEF ExportFits
    <3> QED BY <3>3
  <2>3. StillArchived(op[o].targets)
    BY <1>2, <2>2 DEF StillArchived
  <2> QED BY <1>4, <2>1, <2>3 DEF OutcomeIsTrue
<1>5. CASE op[o].kind = "restore" /\ op[o].phase = "content_removed"
  <2>1. op'[o].status = "completed" /\ op[o].selected \subseteq op[o].targets
    BY <1>1, <1>5 DEF RightEnd, OperationFits, Reinstates
  <2>2. \A e \in op[o].targets : export[e].state = IF e \in op[o].selected THEN "active" ELSE "archived"
    BY <1>1, <1>5 DEF OperationFits, Reinstates
  <2>3. \A e \in op[o].selected : export'[e].state = "active"
    BY <1>1, <2>1, <2>2 DEF SameExports
  <2>4. StillArchived(op[o].targets \ op[o].selected)
    BY <1>2, <2>2 DEF StillArchived
  <2> QED BY <1>5, <2>1, <2>3, <2>4 DEF OutcomeIsTrue
<1>6. CASE op[o].kind = "restore" /\ op[o].phase # "content_removed"
  <2>1. op'[o].status # "completed"
    BY <1>6 DEF RightEnd
  <2>2. \A e \in op[o].targets : export[e].state = "archived"
    BY <1>1, <1>6 DEF OperationFits, Reinstates
  <2>3. StillArchived(op[o].targets)
    BY <1>2, <2>2 DEF StillArchived
  <2> QED BY <1>6, <2>1, <2>3 DEF OutcomeIsTrue
<1> QED BY <1>1, <1>3, <1>4, <1>5, <1>6 DEF OperationFits

\* So does the transaction that ends it, and it moves no export.
LEMMA EndIsQuiet ==
  ASSUME Pools, TypeOK, CatalogInv, CatalogInv', FilesFit', TypeOK',
         NEW ops, NEW status \in {"completed", "failed", "cancelled"},
         op' = Closed(ops, status), export' = Released(ops),
         \A o \in Operations : o \in ops => ~Committed(o) /\ RightEnd(o, status)
  PROVE  Quiet
<1>1. Harmless
  BY ClosingIsHarmless
<1>2. SameExports /\ \A e \in Exports : export'[e].home = export[e].home
  BY OwnersAreQuiet, ReleasedIsTyped DEF SameBut
<1>3. status \in Statuses
  BY DEF Statuses
<1>4. \A o \in Operations : IF o \in ops THEN op'[o].status = status ELSE op'[o] = op[o]
  BY <1>3, ClosedIsTyped
<1>5. NoNewDeletion
  BY <1>4 DEF NoNewDeletion
<1>6. ASSUME NEW o \in Operations, Ends(o) PROVE OutcomeIsTrue(o)
  <2>1. o \in ops /\ op'[o].status = status
    BY <1>4, <1>6 DEF Ends
  <2> QED BY <1>2, <1>5, <1>6, <2>1, EndIsTrue
<1> QED BY <1>1, <1>2, <1>6 DEF Quiet, Truthful

\* A new operation harms nothing.
LEMMA NewIsHarmless ==
  ASSUME NEW o \in Operations, op[o].status # "running", op'[o].phase \notin AfterCutover,
         \A p \in Operations : p # o => op'[p] = op[p]
  PROVE  Harmless /\ Truthful
BY DEF Harmless, Committed, Truthful, Ends

\* What the recovery of a deletion does: nothing yet, or the end.
Finishes(o) == Committed(o) /\ segment[op[o].segment].file = "absent" /\ CompleteDeletion(o)

\* The recovery of a deletion does nothing to the exports, or finishes it.
LEMMA RecoveryFinishes ==
  ASSUME Pools, TypeOK, CatalogInv, CatalogInv', FilesFit', TypeOK',
         NEW o \in Running("delete"), RecoverDeletionOperation(o)
  PROVE  Quiet \/ Finishes(o)
<1>1. o \in Operations /\ op[o].status = "running" /\ op[o].kind = "delete"
  BY DEF Running
<1>2. CASE UNCHANGED <<export, op>>
  BY <1>2, NothingIsQuiet
<1>3. CASE op[o].phase \in BeforeCutover /\ CancelDeletion(o)
  <2>1. op' = Closed({o}, "cancelled") /\ export' = Released({o})
    BY <1>3 DEF CancelDeletion
  <2>2. \A p \in Operations : p \in {o} => ~Committed(p) /\ RightEnd(p, "cancelled")
    BY <1>1, <1>3 DEF Committed, BeforeCutover, AfterCutover, RightEnd
  <2> QED BY <2>1, <2>2, EndIsQuiet
<1>4. CASE /\ op[o].phase \in AfterCutover /\ segment[op[o].segment].file = "absent"
           /\ CompleteDeletion(o)
  BY <1>1, <1>4 DEF Finishes, Committed
<1> QED BY <1>2, <1>3, <1>4 DEF RecoverDeletionOperation

\* The group of a cycle moves into its segment.
Archiving(c) == PublishArchive(c) /\ ~UNCHANGED op
Restoration(r) == PublishRestore(r)
\* A deletion passes its point of no return.
CuttingOver(c) ==
    /\ cycle[c].pc = "cutover" /\ op[cycle[c].op].status = "running" /\ MayCutOver(c)
    /\ op' = [op EXCEPT ![cycle[c].op].phase = "delete_committing"]
    /\ UNCHANGED <<export, segment>>

\* A cycle is quiet, finishes a deletion, archives a group or cuts over.
LEMMA CycleFates ==
  ASSUME Pools, TypeOK, CatalogInv, FilesFit, TypeOK', CatalogInv', FilesFit', NEW c \in Cycles, CycleFits(c),
         BeginRetentionCycle(c) \/ Maintenance(c)
  PROVE  \/ Quiet
         \/ \E o \in Operations : Finishes(o)
         \/ Archiving(c) \/ CuttingOver(c)
<1> DEFINE x == cycle[c].op
<1>0. UNCHANGED <<export, op>> => Quiet
  BY NothingIsQuiet
<1>1. CASE \/ BeginRetentionCycle(c) \/ StartCycle(c) \/ LockResume(c) \/ PlanCycle(c) \/ SelectGroup(c)
           \/ BuildArchive(c) \/ AbandonCutover(c) \/ RemoveContent(c)
  BY <1>0, <1>1 DEF BeginRetentionCycle, StartCycle, LockResume, PlanCycle, SelectGroup, BuildArchive,
     AbandonCutover, RemoveContent, catalog
<1>2. CASE ResumeRetentionDeletions(c)
  <2>1. ASSUME NEW o \in Running("delete"), RecoverDeletionOperation(o) PROVE Quiet \/ Finishes(o)
    BY <2>1, RecoveryFinishes
  <2>2. Running("delete") \subseteq Operations
    BY DEF Running
  <2> QED BY <1>0, <1>2, <2>1, <2>2 DEF ResumeRetentionDeletions, catalog
<1>3. CASE ClaimArchive(c)
  <2>1. CASE \E o \in FreshOperation :
                /\ op' = [op EXCEPT ![o] = [NoOperation EXCEPT
                        !.kind = "archive", !.status = "running", !.phase = "planned",
                        !.targets = cycle[c].group]]
                /\ export' = [e \in Exports |->
                        IF e \in cycle[c].group THEN [export[e] EXCEPT !.owner = o] ELSE export[e]]
    <3>1. PICK o \in FreshOperation :
                /\ op' = [op EXCEPT ![o] = [NoOperation EXCEPT
                        !.kind = "archive", !.status = "running", !.phase = "planned",
                        !.targets = cycle[c].group]]
                /\ export' = [e \in Exports |->
                        IF e \in cycle[c].group THEN [export[e] EXCEPT !.owner = o] ELSE export[e]]
      BY <2>1
    <3>2. o \in Operations /\ op[o].status # "running"
      BY FreshAreTyped
    <3>3. op'[o].phase = "planned" /\ \A p \in Operations : p # o => op'[p] = op[p]
      BY <3>1, <3>2 DEF TypeOK, NoOperation
    <3>4. Harmless /\ Truthful
      BY <3>2, <3>3, NewIsHarmless DEF AfterCutover
    <3>5. SameExports
      BY <3>1, <3>2, GivenIsTyped DEF SameExports, SameBut
    <3> QED BY <3>4, <3>5 DEF Quiet
  <2> QED BY <1>0, <1>3, <2>1 DEF ClaimArchive, catalog
<1>4. CASE PublishArchive(c)
  <2>1. CASE UNCHANGED op
    <3>1. UNCHANGED export
      <4>1. op' # Closed({x}, "completed")
        <5>1. op[x].status = "running" /\ x \in Operations
          BY <1>4, CycleHolds DEF PublishArchive, At, CycleFits, InArchive
        <5>2. Closed({x}, "completed")[x].status = "completed"
          BY <5>1 DEF Closed, NoOperation
        <5> QED BY <2>1, <5>1, <5>2
      <4> QED BY <1>4, <4>1 DEF PublishArchive
    <3> QED BY <1>0, <2>1, <3>1
  <2>2. CASE ~UNCHANGED op
    BY <1>4, <2>2 DEF Archiving
  <2> QED BY <2>1, <2>2
<1>5. CASE FailArchive(c)
  <2>1. \A o \in Operations : o \in {x} => ~Committed(o) /\ RightEnd(o, "failed")
    BY <1>5 DEF FailArchive, At, CycleFits, InArchive, Committed, RightEnd
  <2>2. op' = Closed({x}, "failed") /\ export' = Released({x}) => Quiet
    BY <2>1, EndIsQuiet
  <2> QED BY <1>0, <1>5, <2>2 DEF FailArchive
<1>6. CASE ClaimDeletion(c)
  <2>1. ASSUME NEW t \in cycle[c].todo, NEW p \in FreshOperation,
               DeletionClaimable(c, t), ClaimsDeletion(c, t, p)
        PROVE  Quiet
    <3>1. t \in Segments
      BY <2>1 DEF DeletionClaimable, Current
    <3>2. /\ p \in Operations /\ op[p].status # "running" /\ op'[p].phase = "staging"
          /\ \A q \in Operations : q # p => op'[q] = op[q]
          /\ \A e \in Exports : SameBut(e, IF export[e].home = t THEN p ELSE export[e].owner)
      BY <2>1, <3>1, DeletionIsClaimed
    <3>3. SameExports
      BY <3>2 DEF SameExports, SameBut
    <3>4. op'[p].phase \notin AfterCutover
      BY <3>2 DEF AfterCutover
    <3> QED BY <3>2, <3>3, <3>4, NewIsHarmless DEF Quiet
  <2> QED BY <1>0, <1>6, <2>1, ClaimDeletionParts DEF catalog
<1>7. CASE StageDeletion(c)
  <2>1. \A o \in Operations : o \in {x} => ~Committed(o) /\ RightEnd(o, "failed")
    BY <1>7 DEF StageDeletion, At, CycleFits, RunningDeletion, Committed, AfterCutover, RightEnd
  <2>2. op' = Closed({x}, "failed") /\ export' = Released({x}) => Quiet
    BY <2>1, EndIsQuiet
  <2> QED BY <1>0, <1>7, <2>2 DEF StageDeletion
<1>8. CASE PublishStaged(c)
  <2>1. op[x].phase = "staging" /\ x \in Operations
    BY <1>8, CycleDeletion DEF PublishStaged, At, CycleFits, RunningDeletion, InDeletion
  <2>2. CASE op' = [op EXCEPT ![x].phase = "staged"]
    <3>1. "staged" \in Phases
      BY DEF Phases, BeforeCutover
    <3>2. op'[x] = [op[x] EXCEPT !.phase = "staged"] /\ \A p \in Operations : p # x => op'[p] = op[p]
      BY <2>1, <2>2, <3>1, PhaseIsTyped
    <3>3. op'[x].phase = "staged" /\ op'[x].status = op[x].status
      BY <2>1, <3>2 DEF TypeOK, OperationRecord
    <3>4. Harmless /\ Truthful
      BY <2>1, <3>2, <3>3 DEF Harmless, Committed, AfterCutover, Truthful, Ends
    <3> QED BY <1>8, <3>4, OwnersAreQuiet DEF PublishStaged, Quiet
  <2> QED BY <1>0, <1>8, <2>2 DEF PublishStaged
<1>9. CASE Cutover(c)
  BY <1>0, <1>9 DEF Cutover, CuttingOver, At
<1>10. CASE WithdrawDeletion(c)
  <2>1. \A o \in Operations : o \in {x} => ~Committed(o) /\ RightEnd(o, "cancelled")
    BY <1>10 DEF WithdrawDeletion, At, CycleFits, RunningDeletion, Committed, AfterCutover, RightEnd
  <2>2. CancelDeletion(x) => Quiet
    BY <2>1, EndIsQuiet DEF CancelDeletion
  <2> QED BY <1>0, <1>10, <2>2 DEF WithdrawDeletion, catalog
<1>11. CASE PublishRemoved(c)
  <2>1. /\ op[x].phase = "delete_committing" /\ op[x].status = "running" /\ op[x].kind = "delete"
        /\ x \in Operations
    BY <1>11, CycleDeletion DEF PublishRemoved, At, CycleFits, RunningDeletion, InDeletion
  <2>2. CASE op' = [op EXCEPT ![x].phase = "content_removed"]
    <3>1. "content_removed" \in Phases
      BY DEF Phases, AfterCutover
    <3>2. op'[x] = [op[x] EXCEPT !.phase = "content_removed"] /\ \A p \in Operations : p # x => op'[p] = op[p]
      BY <2>1, <2>2, <3>1, PhaseIsTyped
    <3>3. /\ op'[x].phase = "content_removed" /\ op'[x].status = op[x].status
          /\ op'[x].kind = op[x].kind /\ op'[x].targets = op[x].targets
      BY <2>1, <3>2 DEF TypeOK, OperationRecord
    <3>4. Harmless /\ Truthful
      BY <2>1, <3>2, <3>3 DEF Harmless, Committed, AfterCutover, Truthful, Ends
    <3> QED BY <1>11, <3>4, OwnersAreQuiet DEF PublishRemoved, Quiet
  <2> QED BY <1>0, <1>11, <2>2 DEF PublishRemoved
<1>12. CASE PublishDeleted(c)
  <2>1. /\ Committed(x) /\ x \in Operations /\ segment[op[x].segment].file = "absent"
    BY <1>12, CycleDeletion DEF PublishDeleted, At, CycleFits, RunningDeletion, InDeletion, Committed, AfterCutover
  <2>2. CompleteDeletion(x) => Finishes(x)
    BY <2>1 DEF Finishes
  <2> QED BY <1>0, <1>12, <2>1, <2>2 DEF PublishDeleted, catalog
<1>13. CASE ConvergeDeletion(c)
  <2>1. CASE op[x].status = "running" /\ RecoverDeletionOperation(x)
    <3>1. x \in Running("delete") /\ x \in Operations
      BY <1>13, <2>1, CycleDeletion DEF ConvergeDeletion, At, InDeletion, Running
    <3> QED BY <2>1, <3>1, RecoveryFinishes
  <2> QED BY <1>0, <1>13, <2>1 DEF ConvergeDeletion, catalog
<1> QED BY <1>1, <1>2, <1>3, <1>4, <1>5, <1>6, <1>7, <1>8, <1>9, <1>10, <1>11, <1>12, <1>13 DEF Maintenance

\* The claim of a restore moves no export.
LEMMA RestoreClaimIsQuiet ==
  ASSUME Pools, TypeOK, CatalogInv, TypeOK', CatalogInv', FilesFit', NEW r \in Restores, ClaimRestore(r)
  PROVE  Quiet
<1> DEFINE C == Competing(restore[r].scope)
<1>1. /\ ~Unclaimable(restore[r].scope)
      /\ \E o \in FreshOperation : ClaimsRestore(r, o)
  BY ClaimRestoreParts
<1>2. PICK o \in FreshOperation : ClaimsRestore(r, o)
  BY <1>1
<1>3. o \in Operations /\ op[o].status # "running"
  BY FreshAreTyped
<1>4. /\ op'[o].kind = "restore" /\ op'[o].phase = "planned" /\ op'[o].status = "running"
      /\ \A p \in Operations : p # o /\ p \in C => op'[p].status = "cancelled"
      /\ \A p \in Operations : p # o /\ p \notin C => op'[p] = op[p]
  BY <1>1, <1>2, <1>3, RestoreClaimParts
<1>5. \A e \in Exports : SameBut(e, IF e \in Affected(restore[r].scope) THEN o ELSE export[e].owner)
  BY <1>1, <1>2, <1>3, RestoreClaimParts
<1>6. \A p \in C : p \in Operations /\ op[p].status = "running" /\ op[p].kind = "delete"
  BY <1>1, CompetitorsAreDeletions
<1>7. \A p \in C : op[p].phase \in BeforeCutover
  BY <1>1 DEF Unclaimable, Preemptible
<1>8. \A p \in Operations : p # o /\ p \in C => op'[p].phase = "none"
  <2>1. \A p \in Operations : p # o /\ p \in C => op'[p] = [NoOperation EXCEPT !.status = "cancelled"]
    BY <1>2 DEF ClaimsRestore, Closed
  <2> QED BY <2>1 DEF NoOperation
<1> HIDE DEF C
<1>9. SameExports /\ \A e \in Exports : export'[e].home = export[e].home
  BY <1>5 DEF SameExports, SameBut
<1>10. NoNewDeletion
  BY <1>3, <1>4 DEF NoNewDeletion
<1>11. ASSUME NEW p \in Operations, Ends(p) PROVE OutcomeIsTrue(p)
  <2>1. p # o /\ p \in C
    BY <1>3, <1>4, <1>11 DEF Ends
  <2>2. RightEnd(p, op'[p].status)
    BY <1>4, <1>6, <2>1 DEF RightEnd
  <2> QED BY <1>9, <1>10, <1>11, <2>2, EndIsTrue
<1>12. Harmless
  <2>1. ~Committed(o) /\ ~Committed(o)'
    BY <1>3, <1>4 DEF Committed
  <2>2. \A p \in Operations : p # o /\ p \in C => ~Committed(p) /\ ~Committed(p)'
    BY <1>4, <1>7 DEF Committed, BeforeCutover, AfterCutover
  <2> QED BY <1>3, <1>4, <1>8, <2>1, <2>2 DEF Harmless, AfterCutover
<1> QED BY <1>9, <1>11, <1>12 DEF Quiet, Truthful

\* A restore is quiet, finishes a deletion or brings its exports back.
LEMMA RestoreFates ==
  ASSUME Pools, TypeOK, CatalogInv, TypeOK', CatalogInv', FilesFit', NEW r \in Restores, RestoreFits(r),
         Restoring(r) \/ \E scope \in Scopes : RequestRestore(r, scope)
  PROVE  \/ Quiet
         \/ \E o \in Operations : Finishes(o)
         \/ Restoration(r)
<1> DEFINE x == restore[r].op
<1>0. UNCHANGED <<export, op>> => Quiet
  BY NothingIsQuiet
<1>1. CASE \E scope \in Scopes : RequestRestore(r, scope)
  BY <1>0, <1>1 DEF RequestRestore, catalog
<1>2. CASE \/ PreemptDeletion(r) \/ RefuseRestore(r) \/ StartRestore(r) \/ VerifySegment(r)
           \/ VerificationFails(r) \/ PreparationFails(r) \/ DropReplacements(r)
           \/ RemovePublishedArchive(r) \/ AbandonCleanup(r)
  BY <1>0, <1>2 DEF PreemptDeletion, RefuseRestore, StartRestore, VerifySegment, VerificationFails,
     PreparationFails, DropReplacements, RemovePublishedArchive, AbandonCleanup, catalog
<1>3. CASE FinishCommittedDeletions(r)
  <2>1. PICK o \in CommittedDeletions(restore[r].scope) : RecoverDeletionOperation(o)
    BY <1>3 DEF FinishCommittedDeletions
  <2>2. o \in Running("delete") /\ o \in Operations
    BY DEF CommittedDeletions, Running
  <2> QED BY <2>1, <2>2, RecoveryFinishes
<1>4. CASE ClaimRestore(r)
  BY <1>4, RestoreClaimIsQuiet
<1>5. CASE PublishRestore(r)
  BY <1>5 DEF Restoration
<1>6. CASE FailRestore(r)
  <2>1. \A o \in Operations : o \in {x} => ~Committed(o) /\ RightEnd(o, "failed")
    BY <1>6 DEF FailRestore, RestoreAt, RestoreFits, Preparing, Committed, RightEnd
  <2>2. op' = Closed({x}, "failed") /\ export' = Released({x}) => Quiet
    BY <2>1, EndIsQuiet
  <2> QED BY <1>0, <1>6, <2>2 DEF FailRestore
<1>7. CASE CompleteRestore(r)
  <2>1. \A o \in Operations : o \in {x} => ~Committed(o) /\ RightEnd(o, "completed")
    BY <1>7 DEF CompleteRestore, RestoreAt, RestoreFits, Preparing, Committed, RightEnd
  <2>2. op' = Closed({x}, "completed") /\ export' = Released({x}) => Quiet
    BY <2>1, EndIsQuiet
  <2> QED BY <1>7, <2>2 DEF CompleteRestore
<1> QED BY <1>1, <1>2, <1>3, <1>4, <1>5, <1>6, <1>7 DEF Restoring

\* The recovery is quiet or finishes deletions.
LEMMA RecoveringFates ==
  ASSUME Pools, TypeOK, CatalogInv, TypeOK', CatalogInv', FilesFit', Recovery \/ RecoveryFails
  PROVE  Quiet \/ \E o \in Operations : Finishes(o)
<1>0. UNCHANGED <<export, op>> => Quiet
  BY NothingIsQuiet
<1>1. CASE \/ Restart \/ DeletionsRecovered \/ RemoveUnreferencedArchiveFiles \/ FilesRecovered \/ RecoveryFails
  BY <1>0, <1>1 DEF Restart, DeletionsRecovered, RemoveUnreferencedArchiveFiles, FilesRecovered,
     RecoveryFails, catalog
<1>2. CASE RecoverDeletions
  <2>1. PICK o \in Running("delete") : RecoverDeletionOperation(o)
    BY <1>2 DEF RecoverDeletions
  <2>2. o \in Operations
    BY DEF Running
  <2> QED BY <2>1, <2>2, RecoveryFinishes
<1>3. ASSUME NEW kind \in {"archive", "restore"}, NEW ops, ops = {o \in Running(kind) : op[o].phase = "planned"},
             export' = Released(ops), op' = Closed(ops, "failed")
      PROVE  Quiet
  <2>1. \A o \in Operations : o \in ops => ~Committed(o) /\ RightEnd(o, "failed")
    BY <1>3 DEF Running, Committed, RightEnd
  <2> QED BY <1>3, <2>1, EndIsQuiet
<1>4. CASE RecoverArchives \/ RecoverRestores
  BY <1>3, <1>4 DEF RecoverArchives, RecoverRestores, RecoverUnpublished
<1>5. CASE RecoverRestoreCleanup
  <2> DEFINE ops == {o \in Running("restore") : op[o].phase = "content_removed"}
  <2>1. \A o \in Operations : o \in ops => ~Committed(o) /\ RightEnd(o, "completed")
    BY DEF Running, Committed, RightEnd
  <2>2. export' = Released(ops) /\ op' = Closed(ops, "completed")
    BY <1>5 DEF RecoverRestoreCleanup
  <2> HIDE DEF ops
  <2> QED BY <2>1, <2>2, EndIsQuiet
<1> QED BY <1>1, <1>2, <1>4, <1>5 DEF Recovery

\* Time passes, the policy changes or neither does.
ClockMoves ==
    \/ UNCHANGED <<now, policy>>
    \/ now' = now + 1 /\ UNCHANGED policy
    \/ now' = now /\ policyOn' \in BOOLEAN

\* Time and policy change by themselves.
LEMMA ClockStands ==
  ASSUME \/ \E c \in Cycles : BeginRetentionCycle(c) \/ Maintenance(c)
         \/ \E r \in Restores : Restoring(r) \/ \E scope \in Scopes : RequestRestore(r, scope)
         \/ Recovery \/ RecoveryFails
         \/ \E e \in Exports : Receive(e)
  PROVE  UNCHANGED <<now, policy>>
<1> USE DEF world, policy
<1>1. ASSUME NEW c \in Cycles, BeginRetentionCycle(c) \/ Maintenance(c) PROVE UNCHANGED <<now, policy>>
  BY <1>1 DEF BeginRetentionCycle, Maintenance, StartCycle, LockResume, ResumeRetentionDeletions,
     PlanCycle, SelectGroup, ClaimArchive, BuildArchive, PublishArchive, FailArchive, ClaimDeletion,
     StageDeletion, PublishStaged, Cutover, AbandonCutover, WithdrawDeletion, RemoveContent,
     PublishRemoved, PublishDeleted, ConvergeDeletion
<1>2. ASSUME NEW r \in Restores, NEW scope \in Scopes, RequestRestore(r, scope) PROVE UNCHANGED <<now, policy>>
  BY <1>2 DEF RequestRestore
<1>3. ASSUME NEW r \in Restores, Restoring(r) PROVE UNCHANGED <<now, policy>>
  BY <1>3 DEF Restoring, FinishCommittedDeletions, PreemptDeletion, ClaimRestore, RefuseRestore,
     StartRestore, VerifySegment, VerificationFails, PublishRestore, PreparationFails,
     DropReplacements, FailRestore, RemovePublishedArchive, CompleteRestore, AbandonCleanup
<1>4. CASE Recovery \/ RecoveryFails
  BY <1>4 DEF Recovery, RecoveryFails, Restart, RecoverArchives, RecoverRestores, RecoverDeletions,
     DeletionsRecovered, RemoveUnreferencedArchiveFiles, FilesRecovered, RecoverRestoreCleanup,
     RecoverUnpublished
<1>5. ASSUME NEW e \in Exports, Receive(e) PROVE UNCHANGED <<now, policy>>
  BY <1>5 DEF Receive
<1> QED BY <1>1, <1>2, <1>3, <1>4, <1>5

\* What a step can do to the exports, and to the operations past no return.
Moves ==
    /\ UNCHANGED <<now, policy>>
    /\ \/ \E o \in Operations : Finishes(o)
       \/ \E c \in Cycles : Archiving(c) \/ CuttingOver(c)
       \/ \E r \in Restores : Restoration(r)
       \/ \E e \in Exports : Receive(e)

\* Every step is quiet, or one of the moves.
LEMMA StepFates == Invariant /\ Invariant' /\ [Next]_vars => (Quiet /\ ClockMoves) \/ Moves
<1> SUFFICES ASSUME Invariant, Invariant', [Next]_vars PROVE (Quiet /\ ClockMoves) \/ Moves
  OBVIOUS
<1>0. /\ Pools /\ TypeOK /\ CatalogInv /\ FilesFit /\ TypeOK' /\ CatalogInv' /\ FilesFit'
      /\ \A c \in Cycles : CycleFits(c)
      /\ \A r \in Restores : RestoreFits(r)
  BY Pools DEF Invariant
<1>1. CASE Tick \/ (\E enabled \in BOOLEAN : UpdateRetentionPolicy(enabled)) \/ (\E s \in Segments : Damage(s))
           \/ Close \/ Exit \/ Crash \/ UNCHANGED vars
  <2>1. UNCHANGED <<export, op>>
    BY <1>1 DEF Tick, UpdateRetentionPolicy, Damage, Close, Exit, Crash, Vanish, vars, catalog
  <2>2. ClockMoves
    BY <1>0, <1>1 DEF Tick, UpdateRetentionPolicy, Damage, Close, Exit, Crash, Vanish, vars, world, policy,
       ClockMoves
  <2> QED BY <2>1, <2>2, NothingIsQuiet
<1>2. ASSUME NEW e \in Exports, Receive(e) PROVE Moves
  BY <1>2, ClockStands DEF Moves
<1>3. ASSUME NEW c \in Cycles, BeginRetentionCycle(c) \/ Maintenance(c) PROVE (Quiet /\ ClockMoves) \/ Moves
  <2>1. UNCHANGED <<now, policy>>
    BY <1>3, ClockStands
  <2>2. Quiet \/ (\E o \in Operations : Finishes(o)) \/ Archiving(c) \/ CuttingOver(c)
    BY <1>0, <1>3, CycleFates
  <2> QED BY <2>1, <2>2 DEF Moves, ClockMoves
<1>4. ASSUME NEW r \in Restores, Restoring(r) \/ \E scope \in Scopes : RequestRestore(r, scope)
      PROVE  (Quiet /\ ClockMoves) \/ Moves
  <2>1. UNCHANGED <<now, policy>>
    BY <1>4, ClockStands
  <2>2. Quiet \/ (\E o \in Operations : Finishes(o)) \/ Restoration(r)
    BY <1>0, <1>4, RestoreFates
  <2> QED BY <2>1, <2>2 DEF Moves, ClockMoves
<1>5. CASE Recovery \/ RecoveryFails
  <2>1. UNCHANGED <<now, policy>>
    BY <1>5, ClockStands
  <2>2. Quiet \/ \E o \in Operations : Finishes(o)
    BY <1>0, <1>5, RecoveringFates
  <2> QED BY <2>1, <2>2 DEF Moves, ClockMoves
<1> QED BY <1>1, <1>2, <1>3, <1>4, <1>5 DEF Next

-----------------------------------------------------------------------------
(* The moves that change the custody of exports *)

ArchivedGroup(T, s) ==
    \A e \in Exports :
       /\ export'[e].received = export[e].received
       /\ e \in T => /\ export'[e].state = "archived" /\ export'[e].hold = 0
                     /\ export'[e].home = s
       /\ e \notin T => /\ export'[e].state = export[e].state /\ export'[e].hold = export[e].hold

\* What the publication of an archive reads and writes.
LEMMA ArchivingParts ==
  ASSUME Pools, TypeOK, NEW c \in Cycles, CycleFits(c), Archiving(c)
  PROVE  LET o == cycle[c].op
             s == cycle[c].segment
         IN  /\ o \in Operations /\ op[o].status = "running" /\ op[o].kind = "archive"
             /\ op[o].targets = cycle[c].group
             /\ Publishable(c) /\ process = "up" /\ cycle[c].pc = "publish"
             /\ ArchivedGroup(cycle[c].group, s)
             /\ segment'[s].file = "installed"
             /\ op'[o].status = "completed" /\ op'[o].phase = "none"
             /\ \A p \in Operations : p # o => op'[p] = op[p]
<1> DEFINE o == cycle[c].op
           s == cycle[c].segment
           k == [segment[s] EXCEPT !.state = "current"]
           A(e) == [export[e] EXCEPT !.state = "archived", !.hold = 0, !.home = s, !.owner = None]
<1>1. /\ At(c, "publish") /\ Publishable(c)
      /\ segment' = [segment EXCEPT ![s].state = "current"]
      /\ export' = [e \in Exports |-> IF e \in cycle[c].group THEN A(e) ELSE export[e]]
      /\ op' = Closed({o}, "completed")
  BY DEF Archiving, PublishArchive
<1>2. cycle[c].pc = "publish" /\ process = "up"
  BY <1>1 DEF At
<1>3. o \in Operations /\ s \in Segments
  BY <1>2, CycleHolds DEF InArchive
<1>4. /\ op[o].status = "running" /\ op[o].kind = "archive" /\ op[o].targets = cycle[c].group
      /\ segment[s].file = "installed"
  BY <1>2 DEF CycleFits, InArchive
<1>5. op'[o] = [NoOperation EXCEPT !.status = "completed"] /\ \A p \in Operations : p # o => op'[p] = op[p]
  BY <1>1, <1>3 DEF Closed
<1>6. op'[o].status = "completed" /\ op'[o].phase = "none"
  BY <1>5 DEF NoOperation
<1>7. segment'[s].file = "installed"
  <2>1. segment[s] \in SegmentRecord
    BY <1>3 DEF TypeOK
  <2>2. k.file = segment[s].file
    BY <2>1 DEF SegmentRecord
  <2>3. segment'[s] = k
    BY <1>1, <1>3 DEF TypeOK
  <2> QED BY <1>4, <2>2, <2>3
<1>8. ArchivedGroup(cycle[c].group, s)
  <2>1. \A e \in Exports : export[e] \in ExportRecord
    BY DEF TypeOK
  <2>2. \A e \in Exports : /\ A(e).received = export[e].received
                           /\ A(e).state = "archived" /\ A(e).hold = 0 /\ A(e).home = s
    BY <2>1 DEF ExportRecord
  <2> HIDE DEF A, s
  <2> QED BY <1>1, <2>2 DEF ArchivedGroup
<1> QED BY <1>1, <1>2, <1>3, <1>4, <1>5, <1>6, <1>7, <1>8

\* What the completion of a deletion reads and writes.
LEMMA FinishingParts ==
  ASSUME Pools, TypeOK, CatalogInv, NEW o \in Operations, Finishes(o)
  PROVE  /\ Committed(o) /\ OperationFits(o) /\ Deletes(o)
         /\ \A e \in Exports :
               /\ export'[e].received = export[e].received
               /\ export'[e].hold = export[e].hold
               /\ export'[e].state = IF e \in op[o].targets THEN "deleted" ELSE export[e].state
         /\ segment'[op[o].segment].file = "absent"
         /\ op'[o].status = "completed" /\ op'[o].phase = "none"
         /\ \A p \in Operations : p # o => op'[p] = op[p]
<1>1. Committed(o) /\ segment[op[o].segment].file = "absent" /\ CompleteDeletion(o)
  BY DEF Finishes
<1>2. OperationFits(o) /\ Deletes(o)
  BY <1>1 DEF Committed, CatalogInv, OperationsFit, OperationFits
<1>3. \A e \in Exports :
         /\ export'[e].state = IF e \in op[o].targets THEN "deleted" ELSE export[e].state
         /\ export'[e].received = export[e].received
         /\ export'[e].hold = IF e \in op[o].targets THEN 0 ELSE export[e].hold
  <2>1. \A e \in Exports :
               /\ export'[e].state = IF e \in op[o].targets THEN "deleted" ELSE export[e].state
               /\ export'[e].received = export[e].received
               /\ export'[e].hold = IF e \in op[o].targets THEN 0 ELSE export[e].hold
               /\ export'[e].home =
                     IF export[e].home = op[o].segment THEN None ELSE export[e].home
               /\ export'[e].owner = IF export[e].owner = o THEN None ELSE export[e].owner
    BY <1>1, CompletionIsTyped
  <2> QED BY <2>1
<1>4. \A e \in op[o].targets : e \in Exports /\ export[e].hold = 0
  <2>1. op[o].targets \subseteq Exports /\ op[o].segment \in Segments
    BY <1>2 DEF TypeOK, OperationRecord, Deletes
  <2>2. ASSUME NEW e \in op[o].targets PROVE export[e].hold = 0
    <3>1. ExportFits(e) /\ export[e].home = op[o].segment /\ op[o].segment # None
      BY <1>2, <2>1, Pools DEF CatalogInv, ExportsFit, Deletes, None
    <3> QED BY <3>1 DEF ExportFits
  <2> QED BY <2>1, <2>2
<1>5. segment'[op[o].segment].file = "absent"
  <2>1. segment[op[o].segment] \in SegmentRecord /\ op[o].segment \in Segments
    BY <1>2 DEF TypeOK, Deletes
  <2>2. segment'[op[o].segment] = [segment[op[o].segment] EXCEPT !.state = "deleted"]
    BY <1>1, <2>1 DEF CompleteDeletion, TypeOK
  <2> QED BY <1>1, <2>1, <2>2 DEF SegmentRecord
<1>6. op'[o] = [NoOperation EXCEPT !.status = "completed"] /\ \A p \in Operations : p # o => op'[p] = op[p]
  BY <1>1 DEF CompleteDeletion, Closed
<1>7. op'[o].status = "completed" /\ op'[o].phase = "none"
  BY <1>6 DEF NoOperation
<1> QED BY <1>1, <1>2, <1>3, <1>4, <1>5, <1>6, <1>7

\* What the cutover of a deletion reads and writes.
LEMMA CuttingParts ==
  ASSUME Pools, TypeOK, CatalogInv, NEW c \in Cycles, CycleFits(c), CuttingOver(c)
  PROVE  LET o == cycle[c].op IN
         /\ o \in Operations /\ op[o].status = "running" /\ op[o].kind = "delete" /\ op[o].phase = "staged"
         /\ OperationFits(o) /\ Deletes(o)
         /\ policyOn /\ revision = op[o].decided
         /\ op'[o] = [op[o] EXCEPT !.phase = "delete_committing"]
         /\ \A p \in Operations : p # o => op'[p] = op[p]
         /\ UNCHANGED <<export, segment>>
<1> DEFINE o == cycle[c].op
<1>1. /\ cycle[c].pc = "cutover" /\ op[o].status = "running" /\ MayCutOver(c)
      /\ op' = [op EXCEPT ![o].phase = "delete_committing"]
      /\ UNCHANGED <<export, segment>>
  BY DEF CuttingOver
<1>2. o \in Operations
  BY <1>1, CycleHolds DEF InDeletion
<1>3. op[o].kind = "delete" /\ op[o].phase = "staged" /\ op[o].decided = cycle[c].revision
  BY <1>1 DEF CycleFits, RunningDeletion, InDeletion
<1>4. OperationFits(o) /\ Deletes(o)
  BY <1>1, <1>2, <1>3 DEF CatalogInv, OperationsFit, OperationFits
<1>5. "delete_committing" \in Phases
  BY DEF Phases, AfterCutover
<1>6. op'[o] = [op[o] EXCEPT !.phase = "delete_committing"] /\ \A p \in Operations : p # o => op'[p] = op[p]
  BY <1>1, <1>2, <1>5, PhaseIsTyped
<1> QED BY <1>1, <1>2, <1>3, <1>4, <1>6 DEF MayCutOver, SamePolicy

\* What the terminal transaction of a restore reads and writes.
LEMMA RestorationParts ==
  ASSUME Pools, TypeOK, CatalogInv, NEW r \in Restores, RestoreFits(r), Restoration(r)
  PROVE  LET o == restore[r].op IN
         /\ o \in Operations /\ op[o].status = "running" /\ op[o].kind = "restore" /\ op[o].phase = "planned"
         /\ OperationFits(o) /\ op[o].selected \subseteq op[o].targets
         /\ \A e \in op[o].targets : export[e].state = "archived"
         /\ \A e \in Exports :
               /\ export'[e].received = export[e].received
               /\ e \in op[o].selected => export'[e].state = "active" /\ export'[e].hold = now + HoldDays
               /\ e \notin op[o].selected =>
                     export'[e].state = export[e].state /\ export'[e].hold = export[e].hold
         /\ op'[o].status = "running" /\ op'[o].kind = "restore"
         /\ \A p \in Operations : p # o => op'[p] = op[p]
<1> DEFINE o == restore[r].op
<1>1. PublishRestore(r) /\ restore[r].pc = "verify"
  BY DEF Restoration, PublishRestore, RestoreAt
<1>2. /\ o \in Operations
      /\ MovedOut(op[o].targets, op[o].selected, restore[r].fresh, now + HoldDays)
      /\ op'[o] = [op[o] EXCEPT !.phase = "content_removed"]
      /\ \A p \in Operations : p # o => op'[p] = op[p]
  BY <1>1, PublishRestoreParts
<1>3. op[o].status = "running" /\ op[o].kind = "restore" /\ op[o].phase = "planned"
  BY <1>1 DEF RestoreFits, Preparing
<1>4. OperationFits(o) /\ Reinstates(o)
  BY <1>2, <1>3 DEF CatalogInv, OperationsFit, OperationFits
<1>5. op[o].selected \subseteq op[o].targets /\ \A e \in op[o].targets : export[e].state = "archived"
  BY <1>3, <1>4 DEF Reinstates
<1>6. op'[o].status = "running" /\ op'[o].kind = "restore"
  BY <1>2, <1>3 DEF TypeOK, OperationRecord
<1> HIDE DEF o
<1>7. \A e \in Exports :
         /\ export'[e].received = export[e].received
         /\ e \in op[o].selected => export'[e].state = "active" /\ export'[e].hold = now + HoldDays
         /\ e \notin op[o].selected =>
               export'[e].state = export[e].state /\ export'[e].hold = export[e].hold
  BY <1>2, <1>5 DEF MovedOut
<1> QED BY <1>2, <1>3, <1>4, <1>5, <1>6, <1>7 DEF o

\* No deletion passes its cutover on a decision that was withdrawn.
LEMMA DecisionsStand ==
  Invariant /\ Invariant' /\ [Next]_vars =>
      \A o \in Running("delete") :
          op[o].phase \in BeforeCutover /\ op'[o].phase \in AfterCutover =>
              policyOn /\ revision = op[o].decided
<1> SUFFICES ASSUME Invariant, Invariant', [Next]_vars,
                    NEW o \in Running("delete"), op[o].phase \in BeforeCutover, op'[o].phase \in AfterCutover
             PROVE  policyOn /\ revision = op[o].decided
  OBVIOUS
<1>0. /\ Pools /\ TypeOK /\ CatalogInv
      /\ \A c \in Cycles : CycleFits(c)
      /\ \A r \in Restores : RestoreFits(r)
  BY Pools DEF Invariant
<1>1. o \in Operations /\ op[o].status = "running" /\ op[o].kind = "delete" /\ op[o].phase \notin AfterCutover
  BY DEF Running, BeforeCutover, AfterCutover
<1>2. op'[o] # op[o]
  BY <1>1
<1>3. ~Quiet
  BY <1>1, <1>2 DEF Quiet, Harmless, Committed
<1>4. ASSUME NEW p \in Operations, Finishes(p) PROVE FALSE
  <2>1. /\ op'[p].phase = "none" /\ \A q \in Operations : q # p => op'[q] = op[q]
    BY <1>0, <1>4, FinishingParts
  <2> QED BY <1>1, <1>2, <2>1 DEF AfterCutover
<1>5. ASSUME NEW c \in Cycles, Archiving(c) PROVE FALSE
  <2>1. /\ op'[cycle[c].op].phase = "none"
        /\ \A q \in Operations : q # cycle[c].op => op'[q] = op[q]
    BY <1>0, <1>5, ArchivingParts
  <2> QED BY <1>1, <1>2, <2>1 DEF AfterCutover
<1>6. ASSUME NEW c \in Cycles, CuttingOver(c) PROVE policyOn /\ revision = op[o].decided
  <2>1. /\ policyOn /\ revision = op[cycle[c].op].decided
        /\ \A q \in Operations : q # cycle[c].op => op'[q] = op[q]
    BY <1>0, <1>6, CuttingParts
  <2> QED BY <1>1, <1>2, <2>1
<1>7. ASSUME NEW r \in Restores, Restoration(r) PROVE FALSE
  <2>1. op[restore[r].op].kind = "restore" /\ \A p \in Operations : p # restore[r].op => op'[p] = op[p]
    BY <1>0, <1>7, RestorationParts
  <2> QED BY <1>1, <1>2, <2>1
<1>8. ASSUME NEW e \in Exports, Receive(e) PROVE FALSE
  BY <1>2, <1>8 DEF Receive
<1> QED BY <1>3, <1>4, <1>5, <1>6, <1>7, <1>8, StepFates DEF Moves

\* Every operation that ends tells what it did.
LEMMA OutcomesTrue ==
  Invariant /\ Invariant' /\ [Next]_vars =>
      \A o \in Operations : op[o].status = "running" /\ op'[o].status # "running" => OutcomeIsTrue(o)
<1> SUFFICES ASSUME Invariant, Invariant', [Next]_vars, NEW o \in Operations, Ends(o)
             PROVE  OutcomeIsTrue(o)
  BY DEF Ends
<1>0. /\ Pools /\ TypeOK /\ CatalogInv
      /\ \A c \in Cycles : CycleFits(c)
      /\ \A r \in Restores : RestoreFits(r)
  BY Pools DEF Invariant
<1>1. op'[o] # op[o] /\ op[o].targets \subseteq Exports
  BY <1>0 DEF Ends, TypeOK, OperationRecord
<1>2. CASE Quiet
  BY <1>2 DEF Quiet, Truthful
<1>3. ASSUME NEW p \in Operations, Finishes(p) PROVE OutcomeIsTrue(o)
  <2>1. /\ p = o /\ op'[o].status = "completed" /\ segment'[op[o].segment].file = "absent"
        /\ Committed(o)
    BY <1>0, <1>1, <1>3, FinishingParts
  <2>2. \A e \in Exports : export'[e].state = IF e \in op[p].targets THEN "deleted" ELSE export[e].state
    <3>1. \A e \in Exports :
               /\ export'[e].received = export[e].received
               /\ export'[e].hold = export[e].hold
               /\ export'[e].state = IF e \in op[p].targets THEN "deleted" ELSE export[e].state
      BY <1>0, <1>3, FinishingParts
    <3> QED BY <3>1
  <2>3. op[o].kind = "delete"
    BY <2>1 DEF Committed
  <2> QED BY <1>1, <2>1, <2>2, <2>3 DEF OutcomeIsTrue
<1>4. ASSUME NEW c \in Cycles, Archiving(c) PROVE OutcomeIsTrue(o)
  <2> DEFINE s == cycle[c].segment
  <2>1. /\ cycle[c].op = o /\ op[o].kind = "archive" /\ op[o].targets = cycle[c].group
        /\ op'[o].status = "completed"
    BY <1>0, <1>1, <1>4, ArchivingParts
  <2>2. ArchivedGroup(cycle[c].group, s) /\ segment'[s].file = "installed"
    BY <1>0, <1>4, ArchivingParts
  <2> HIDE DEF s
  <2>3. StillArchived(op[o].targets)
    BY <1>1, <2>1, <2>2 DEF ArchivedGroup, StillArchived
  <2> QED BY <2>1, <2>3 DEF OutcomeIsTrue
<1>5. ASSUME NEW c \in Cycles, CuttingOver(c) PROVE FALSE
  <2>1. /\ cycle[c].op = o /\ op'[o] = [op[o] EXCEPT !.phase = "delete_committing"]
    BY <1>0, <1>1, <1>5, CuttingParts
  <2> QED BY <1>0, <2>1 DEF Ends, TypeOK, OperationRecord
<1>6. ASSUME NEW r \in Restores, Restoration(r) PROVE FALSE
  BY <1>0, <1>1, <1>6, RestorationParts DEF Ends
<1>7. ASSUME NEW e \in Exports, Receive(e) PROVE FALSE
  BY <1>1, <1>7 DEF Receive
<1> QED BY <1>2, <1>3, <1>4, <1>5, <1>6, <1>7, StepFates DEF Moves

-----------------------------------------------------------------------------
(* The custody of the exports *)

Fate(e) == IF Condemned(e) THEN "condemned" ELSE export[e].state

\* An export is condemned by a deletion past its cutover that targets it.
LEMMA CondemnedByDeletion ==
  ASSUME Pools, TypeOK, CatalogInv, NEW e \in Exports
  PROVE  Condemned(e) <=> \E o \in Operations : Committed(o) /\ e \in op[o].targets
<1>1. ASSUME Condemned(e) PROVE \E o \in Operations : Committed(o) /\ e \in op[o].targets
  <2>1. export[e].owner \in Operations /\ Committed(export[e].owner)
    BY <1>1 DEF Condemned, Running, Committed
  <2>2. export[e].owner # None
    BY <2>1, HomesAreCurrent
  <2> QED BY <2>1, <2>2 DEF CatalogInv, ExportsFit, ExportFits
<1>2. ASSUME NEW o \in Operations, Committed(o), e \in op[o].targets PROVE Condemned(e)
  <2>1. OperationFits(o) /\ Deletes(o)
    BY <1>2 DEF Committed, CatalogInv, OperationsFit, OperationFits
  <2>2. export[e].owner = o /\ export[e].home = op[o].segment /\ op[o].segment # None
    BY <1>2, <2>1, HomesAreCurrent DEF OperationFits, Deletes
  <2>3. export[e].state = "archived"
    BY <2>2, HomesAreCurrent
  <2> QED BY <1>2, <2>2, <2>3 DEF Condemned, Running, Committed
<1> QED BY <1>1, <1>2

\* The same of the next state.
LEMMA WillBeCondemned ==
  ASSUME Pools, TypeOK', CatalogInv', NEW e \in Exports
  PROVE  Condemned(e)' <=> \E o \in Operations : Committed(o)' /\ e \in op'[o].targets
<1>0. None \notin Segments /\ None \notin Operations
  BY Pools DEF None
<1>1. ASSUME Condemned(e)' PROVE \E o \in Operations : Committed(o)' /\ e \in op'[o].targets
  <2>1. PICK o \in Operations : o = export'[e].owner /\ Committed(o)'
    BY <1>1 DEF Condemned, Running, Committed
  <2> QED BY <1>0, <2>1 DEF CatalogInv, ExportsFit, ExportFits
<1>2. ASSUME NEW o \in Operations, Committed(o)', e \in op'[o].targets PROVE Condemned(e)'
  <2>1. OperationFits(o)' /\ Deletes(o)'
    BY <1>2 DEF Committed, CatalogInv, OperationsFit, OperationFits
  <2>2. export'[e].owner = o /\ export'[e].home = op'[o].segment /\ op'[o].segment # None
    BY <1>0, <1>2, <2>1 DEF OperationFits, Deletes
  <2>3. export'[e].state = "archived"
    BY <2>2 DEF CatalogInv, ExportsFit, ExportFits
  <2> QED BY <1>2, <2>2, <2>3 DEF Condemned, Running, Committed
<1> QED BY <1>1, <1>2

SameDeletions(e) ==
    \A p \in Operations : (Committed(p)' /\ e \in op'[p].targets) <=> (Committed(p) /\ e \in op[p].targets)

\* The fate of an export stays with its state and its deletions.
LEMMA FateStays ==
  ASSUME Pools, TypeOK, CatalogInv, TypeOK', CatalogInv', NEW e \in Exports,
         export'[e].state = export[e].state, SameDeletions(e)
  PROVE  Fate(e)' = Fate(e)
<1>1. Condemned(e)' <=> Condemned(e)
  BY CondemnedByDeletion, WillBeCondemned DEF SameDeletions
<1> QED BY <1>1 DEF Fate

\* Quiet steps change no fate.
LEMMA QuietFates ==
  ASSUME Pools, TypeOK, CatalogInv, TypeOK', CatalogInv', Quiet
  PROVE  \A e \in Exports : Fate(e)' = Fate(e)
<1>1. ASSUME NEW e \in Exports PROVE Fate(e)' = Fate(e)
  <2>1. SameDeletions(e)
    BY DEF Quiet, Harmless, SameDeletions, Committed
  <2> QED BY <2>1, FateStays DEF Quiet, SameExports
<1> QED BY <1>1

\* An archive changes the fates of its group only: from active to archived.
LEMMA ArchivingFates ==
  ASSUME Pools, TypeOK, CatalogInv, TypeOK', CatalogInv', NEW c \in Cycles, CycleFits(c), Archiving(c),
         NEW e \in Exports
  PROVE  /\ e \in cycle[c].group => Fate(e) = "active" /\ Fate(e)' = "archived"
         /\ e \notin cycle[c].group => Fate(e)' = Fate(e)
<1> DEFINE o == cycle[c].op
<1>1. /\ o \in Operations /\ op[o].kind = "archive" /\ op'[o].status = "completed"
      /\ \A p \in Operations : p # o => op'[p] = op[p]
      /\ Publishable(c) /\ ArchivedGroup(cycle[c].group, cycle[c].segment)
  BY ArchivingParts
<1> HIDE DEF o
<1>2. SameDeletions(e)
  BY <1>1 DEF SameDeletions, Committed
<1>3. CASE e \notin cycle[c].group
  BY <1>1, <1>2, <1>3, FateStays DEF ArchivedGroup
<1>4. CASE e \in cycle[c].group
  <2>1. export[e].state = "active" /\ export'[e].state = "archived"
    BY <1>1, <1>4 DEF Publishable, ArchivedGroup
  <2>2. ~Condemned(e)
    BY <2>1 DEF Condemned
  <2>3. ~Condemned(e)'
    BY <1>2, <2>2, CondemnedByDeletion, WillBeCondemned DEF SameDeletions
  <2> QED BY <1>4, <2>1, <2>2, <2>3 DEF Fate
<1> QED BY <1>3, <1>4

\* A finished deletion changes the fates of its targets only.
LEMMA FinishingFates ==
  ASSUME Pools, TypeOK, CatalogInv, TypeOK', CatalogInv', NEW o \in Operations, Finishes(o), NEW e \in Exports
  PROVE  /\ e \in op[o].targets => Fate(e) = "condemned" /\ Fate(e)' = "deleted"
         /\ e \notin op[o].targets => Fate(e)' = Fate(e)
<1>1. /\ Committed(o) /\ op'[o].status = "completed"
      /\ \A p \in Operations : p # o => op'[p] = op[p]
  BY FinishingParts
<1>2. /\ e \in op[o].targets => export'[e].state = "deleted"
      /\ e \notin op[o].targets => export'[e].state = export[e].state
  BY FinishingParts
<1>3. CASE e \notin op[o].targets
  <2>1. SameDeletions(e)
    BY <1>1, <1>3 DEF SameDeletions, Committed
  <2> QED BY <1>2, <1>3, <2>1, FateStays
<1>4. CASE e \in op[o].targets
  <2>1. Condemned(e)
    BY <1>1, <1>4, CondemnedByDeletion
  <2>2. ~Condemned(e)'
    BY <1>2, <1>4 DEF Condemned
  <2> QED BY <1>2, <1>4, <2>1, <2>2 DEF Fate
<1> QED BY <1>3, <1>4

\* A cutover condemns the targets of its deletion and nobody else.
LEMMA CuttingFates ==
  ASSUME Pools, TypeOK, CatalogInv, TypeOK', CatalogInv', NEW c \in Cycles, CycleFits(c), CuttingOver(c),
         NEW e \in Exports
  PROVE  /\ e \in op[cycle[c].op].targets => Fate(e) = "archived" /\ Fate(e)' = "condemned"
         /\ e \notin op[cycle[c].op].targets => Fate(e)' = Fate(e)
<1>0. PICK o \in Operations : o = cycle[c].op
  BY CuttingParts
<1>1. /\ op[o].status = "running" /\ op[o].kind = "delete" /\ op[o].phase = "staged"
      /\ OperationFits(o) /\ Deletes(o)
      /\ op'[o] = [op[o] EXCEPT !.phase = "delete_committing"]
      /\ \A p \in Operations : p # o => op'[p] = op[p]
      /\ UNCHANGED <<export, segment>>
  BY <1>0, CuttingParts
<1>2. /\ op'[o].targets = op[o].targets /\ op'[o].phase = "delete_committing"
      /\ op'[o].status = "running" /\ op'[o].kind = "delete"
  BY <1>1 DEF TypeOK, OperationRecord
<1>3. CASE e \notin op[o].targets
  <2>1. SameDeletions(e)
    BY <1>1, <1>2, <1>3 DEF SameDeletions, Committed
  <2> QED BY <1>0, <1>1, <1>3, <2>1, FateStays
<1>4. CASE e \in op[o].targets
  <2>1. Committed(o)'
    BY <1>2 DEF Committed, AfterCutover
  <2>2. Condemned(e)'
    BY <1>1, <1>2, <1>4, <2>1, WillBeCondemned
  <2>3. export[e].owner = o /\ export[e].state = "archived"
    BY <1>1, <1>4, HomesAreCurrent DEF OperationFits, Deletes
  <2>4. ~Condemned(e)
    BY <1>1, <2>3 DEF Condemned, AfterCutover
  <2> QED BY <1>0, <1>4, <2>2, <2>3, <2>4 DEF Fate
<1> QED BY <1>0, <1>3, <1>4

\* A restore brings back what was selected and nothing else.
LEMMA RestorationFates ==
  ASSUME Pools, TypeOK, CatalogInv, TypeOK', CatalogInv', NEW r \in Restores, RestoreFits(r), Restoration(r),
         NEW e \in Exports
  PROVE  /\ e \in op[restore[r].op].selected => Fate(e) = "archived" /\ Fate(e)' = "active"
         /\ e \notin op[restore[r].op].selected => Fate(e)' = Fate(e)
<1> DEFINE o == restore[r].op
<1>1. /\ o \in Operations /\ op[o].kind = "restore"
      /\ OperationFits(o) /\ op[o].selected \subseteq op[o].targets
      /\ \A f \in op[o].targets : export[f].state = "archived"
      /\ op'[o].kind = "restore"
      /\ \A p \in Operations : p # o => op'[p] = op[p]
  BY RestorationParts
<1>2. /\ e \in op[o].selected => export'[e].state = "active"
      /\ e \notin op[o].selected => export'[e].state = export[e].state
  BY RestorationParts
<1> HIDE DEF o
<1>3. CASE e \notin op[o].selected
  <2>1. SameDeletions(e)
    BY <1>1 DEF SameDeletions, Committed
  <2> QED BY <1>2, <1>3, <2>1, FateStays DEF o
<1>4. CASE e \in op[o].selected
  <2>1. export[e].state = "archived" /\ export[e].owner = o
    BY <1>1, <1>4 DEF OperationFits
  <2>2. ~Condemned(e) /\ ~Condemned(e)'
    BY <1>1, <1>2, <1>4, <2>1 DEF Condemned, Running
  <2> QED BY <1>2, <1>4, <2>1, <2>2 DEF Fate, o
<1> QED BY <1>3, <1>4 DEF o

\* Every step is a step of the custody, or changes nothing of it.
LEMMA CustodyGoesOn == Invariant /\ Invariant' /\ [Next]_vars => [Custody!CustodyNext]_(Custody!custodyVars)
<1> SUFFICES ASSUME Invariant, Invariant', [Next]_vars
             PROVE  Custody!CustodyNext \/ UNCHANGED Custody!custodyVars
  OBVIOUS
<1>0. /\ Pools /\ TypeOK /\ CatalogInv /\ TypeOK' /\ CatalogInv'
      /\ \A c \in Cycles : CycleFits(c)
      /\ \A r \in Restores : RestoreFits(r)
  BY Pools DEF Invariant
<1> DEFINE kept    == [e \in Exports |-> IF Condemned(e) THEN "condemned" ELSE export[e].state]
           arrived == [e \in Exports |-> export[e].received]
           held    == [e \in Exports |-> export[e].hold]
<1>K. /\ \A e \in Exports : kept[e] = Fate(e) /\ kept'[e] = Fate(e)'
      /\ \A e \in Exports : arrived[e] = export[e].received /\ held[e] = export[e].hold
  BY DEF Fate
<1>1. CASE Quiet /\ ClockMoves
  <2>1. \A e \in Exports : Fate(e)' = Fate(e)
    BY <1>0, <1>1, QuietFates
  <2>2. kept' = kept
    BY <2>1 DEF Fate
  <2>3. arrived' = arrived /\ held' = held
    BY <1>1 DEF Quiet, SameExports
  <2>4. \/ UNCHANGED <<now, policyOn>>
        \/ now' = now + 1 /\ policyOn' = policyOn
        \/ now' = now /\ policyOn' \in BOOLEAN
    BY <1>1 DEF ClockMoves, policy
  <2> QED BY <2>2, <2>3, <2>4 DEF Custody!CustodyNext, Custody!Pass, Custody!Decide, Custody!custodyVars
<1>2. ASSUME Moves, NEW o \in Operations, Finishes(o) PROVE Custody!CustodyNext
  <2>0. PICK T \in SUBSET Exports : T = op[o].targets
    BY <1>0 DEF TypeOK, OperationRecord
  <2>1. T \in SUBSET Exports /\ T # {}
    BY <1>0, <1>2, <2>0, FinishingParts DEF OperationFits
  <2>2. \A e \in Exports : /\ e \in T => Fate(e) = "condemned" /\ Fate(e)' = "deleted"
                           /\ e \notin T => Fate(e)' = Fate(e)
    BY <1>0, <1>2, <2>0, FinishingFates
  <2>3. \A e \in Exports : export'[e].received = export[e].received /\ export'[e].hold = export[e].hold
    BY <1>0, <1>2, FinishingParts
  <2>4. arrived' = arrived /\ held' = held
    BY <2>3
  <2>5. \A e \in T : kept[e] = "condemned"
    BY <2>1, <2>2 DEF Fate
  <2>6. kept' = [e \in Exports |-> IF e \in T THEN "deleted" ELSE kept[e]]
    BY <2>2 DEF Fate
  <2>7. Custody!Delete(T)
    <3>1. Custody!Transfer(T, "condemned", "deleted")
      BY <2>1, <2>5, <2>6 DEF Custody!Transfer
    <3>2. UNCHANGED <<now, policyOn>>
      BY <1>2 DEF Moves, policy
    <3> QED BY <2>4, <3>1, <3>2 DEF Custody!Delete
  <2> QED BY <2>7 DEF Custody!CustodyNext
<1>3. ASSUME Moves, NEW c \in Cycles, Archiving(c) PROVE Custody!CustodyNext
  <2>0. PICK T \in SUBSET Exports : T = cycle[c].group
    BY <1>0 DEF TypeOK, CycleRecord
  <2>1. /\ T \in SUBSET Exports /\ T # {}
        /\ \A e \in Exports : export'[e].received = export[e].received
        /\ \A e \in Exports : export'[e].hold = IF e \in T THEN 0 ELSE export[e].hold
    <3>1. /\ op[cycle[c].op].targets = T /\ cycle[c].op \in Operations /\ op[cycle[c].op].status = "running"
          /\ ArchivedGroup(T, cycle[c].segment)
      BY <1>0, <1>3, <2>0, ArchivingParts
    <3> QED BY <1>0, <3>1 DEF TypeOK, OperationRecord, CatalogInv, OperationsFit, OperationFits, ArchivedGroup
  <2>2. policyOn /\ \A e \in T : export[e].received + ArchiveDays <= now /\ export[e].hold <= now
    <3>1. Publishable(c) /\ cycle[c].pc = "publish"
      BY <1>0, <1>3, ArchivingParts
    <3>2. cycle[c].evaluatedAt <= now /\ cycle[c].evaluatedAt \in Nat /\ now \in Nat
      BY <1>0, <3>1 DEF CycleFits, TypeOK, CycleRecord
    <3>3. \A e \in T : export[e].received \in Nat /\ export[e].hold \in Nat
      BY <1>0, <2>1 DEF TypeOK, ExportRecord
    <3> QED BY <2>0, <3>1, <3>2, <3>3, PolicyDays DEF Publishable, SamePolicy
  <2>3. \A e \in Exports : /\ e \in T => Fate(e) = "active" /\ Fate(e)' = "archived"
                           /\ e \notin T => Fate(e)' = Fate(e)
    BY <1>0, <1>3, <2>0, ArchivingFates
  <2>4. arrived' = arrived /\ held' = [e \in Exports |-> IF e \in T THEN 0 ELSE held[e]]
    BY <2>1
  <2>5. \A e \in T : kept[e] = "active"
    BY <2>1, <2>3 DEF Fate
  <2>6. kept' = [e \in Exports |-> IF e \in T THEN "archived" ELSE kept[e]]
    BY <2>3 DEF Fate
  <2>7. \A e \in T : now - arrived[e] >= ArchiveDays /\ held[e] <= now
    <3>1. \A e \in T : export[e].received \in Nat /\ e \in Exports
      BY <1>0, <2>1 DEF TypeOK, ExportRecord
    <3>2. now \in Nat
      BY <1>0 DEF TypeOK
    <3> QED BY <2>2, <3>1, <3>2, PolicyDays
  <2>8. Custody!Archive(T)
    <3>1. Custody!Transfer(T, "active", "archived")
      BY <2>1, <2>5, <2>6 DEF Custody!Transfer
    <3>2. UNCHANGED <<now, policyOn>>
      BY <1>3 DEF Moves, policy
    <3> QED BY <2>2, <2>4, <2>7, <3>1, <3>2 DEF Custody!Archive, Custody!Age
  <2> QED BY <2>8 DEF Custody!CustodyNext
<1>4. ASSUME Moves, NEW c \in Cycles, CuttingOver(c) PROVE Custody!CustodyNext
  <2>0. PICK o \in Operations : o = cycle[c].op
    BY <1>0, <1>4, CuttingParts
  <2>X. PICK T \in SUBSET Exports : T = op[o].targets
    BY <1>0 DEF TypeOK, OperationRecord
  <2>1. /\ OperationFits(o) /\ Deletes(o) /\ policyOn /\ UNCHANGED export
    BY <1>0, <1>4, <2>0, CuttingParts
  <2>2. T \in SUBSET Exports /\ T # {} /\ \A e \in T : export[e].received + DeleteDays <= now
    BY <2>X, <2>1 DEF OperationFits, Deletes
  <2>3. \A e \in Exports : /\ e \in T => Fate(e) = "archived" /\ Fate(e)' = "condemned"
                           /\ e \notin T => Fate(e)' = Fate(e)
    BY <1>0, <1>4, <2>0, <2>X, CuttingFates
  <2>4. arrived' = arrived /\ held' = held
    BY <2>1
  <2>5. \A e \in T : kept[e] = "archived"
    BY <2>2, <2>3 DEF Fate
  <2>6. kept' = [e \in Exports |-> IF e \in T THEN "condemned" ELSE kept[e]]
    BY <2>3 DEF Fate
  <2>7. \A e \in T : now - arrived[e] >= DeleteDays
    <3>1. \A e \in T : export[e].received \in Nat /\ e \in Exports
      BY <1>0, <2>2 DEF TypeOK, ExportRecord
    <3>2. now \in Nat
      BY <1>0 DEF TypeOK
    <3> QED BY <2>2, <3>1, <3>2, PolicyDays
  <2>8. Custody!Condemn(T)
    <3>1. Custody!Transfer(T, "archived", "condemned")
      BY <2>2, <2>5, <2>6 DEF Custody!Transfer
    <3>2. UNCHANGED <<now, policyOn>>
      BY <1>4 DEF Moves, policy
    <3> QED BY <2>1, <2>4, <2>7, <3>1, <3>2 DEF Custody!Condemn, Custody!Age
  <2> QED BY <2>8 DEF Custody!CustodyNext
<1>5. ASSUME Moves, NEW r \in Restores, Restoration(r) PROVE Custody!CustodyNext \/ UNCHANGED Custody!custodyVars
  <2>0. PICK T \in SUBSET Exports : T = op[restore[r].op].selected
    <3>1. restore[r].op \in Operations
      BY <1>0, <1>5, RestorationParts
    <3> QED BY <1>0, <3>1 DEF TypeOK, OperationRecord
  <2>1. /\ T \in SUBSET Exports
        /\ \A e \in Exports : export'[e].received = export[e].received
        /\ \A e \in Exports : export'[e].hold = IF e \in T THEN now + HoldDays ELSE export[e].hold
    <3>3. \A e \in Exports :
               /\ export'[e].received = export[e].received
               /\ e \in T => export'[e].state = "active" /\ export'[e].hold = now + HoldDays
               /\ e \notin T => export'[e].state = export[e].state /\ export'[e].hold = export[e].hold
      BY <1>0, <1>5, <2>0, RestorationParts
    <3> QED BY <3>3
  <2>2. \A e \in Exports : /\ e \in T => Fate(e) = "archived" /\ Fate(e)' = "active"
                           /\ e \notin T => Fate(e)' = Fate(e)
    BY <1>0, <1>5, <2>0, RestorationFates
  <2>3. arrived' = arrived /\ held' = [e \in Exports |-> IF e \in T THEN now + HoldDays ELSE held[e]]
    BY <2>1
  <2>4. \A e \in T : kept[e] = "archived"
    BY <2>1, <2>2 DEF Fate
  <2>5. kept' = [e \in Exports |-> IF e \in T THEN "active" ELSE kept[e]]
    BY <2>2 DEF Fate
  <2>6. CASE T # {}
    <3>1. Custody!Reinstate(T)
      <4>1. Custody!Transfer(T, "archived", "active")
        BY <2>4, <2>5, <2>6 DEF Custody!Transfer
      <4>2. UNCHANGED <<now, policyOn>>
        BY <1>5 DEF Moves, policy
      <4> QED BY <2>3, <4>1, <4>2 DEF Custody!Reinstate
    <3> QED BY <3>1 DEF Custody!CustodyNext
  <2>7. CASE T = {}
    <3>1. kept' = kept /\ arrived' = arrived /\ held' = held
      BY <2>3, <2>5, <2>7
    <3> QED BY <1>5, <3>1 DEF Moves, policy, Custody!custodyVars
  <2> QED BY <2>6, <2>7
<1>6. ASSUME Moves, NEW f \in Exports, Receive(f) PROVE Custody!CustodyNext
  <2>1. /\ export[f].state = "absent" /\ UNCHANGED op
        /\ export' = [export EXCEPT ![f].state = "active", ![f].received = now]
    BY <1>6 DEF Receive
  <2>2. export'[f] = [export[f] EXCEPT !.state = "active", !.received = now]
        /\ \A e \in Exports : e # f => export'[e] = export[e]
    BY <1>0, <2>1 DEF TypeOK
  <2>3. /\ export'[f].state = "active" /\ export'[f].received = now /\ export'[f].hold = export[f].hold
    BY <1>0, <2>2 DEF TypeOK, ExportRecord
  <2>4. \A e \in Exports : e # f => Fate(e)' = Fate(e)
    <3>1. \A e \in Exports : SameDeletions(e)
      BY <2>1 DEF SameDeletions, Committed
    <3> QED BY <1>0, <2>2, <3>1, FateStays
  <2>5. Fate(f) = "absent" /\ Fate(f)' = "active"
    BY <2>1, <2>3 DEF Fate, Condemned
  <2>6. arrived' = [arrived EXCEPT ![f] = now] /\ held' = held
    BY <2>2, <2>3
  <2>7. kept[f] = "absent"
    BY <2>5 DEF Fate
  <2>8. kept' = [e \in Exports |-> IF e \in {f} THEN "active" ELSE kept[e]]
    BY <2>4, <2>5 DEF Fate
  <2>9. Custody!TakeIn(f)
    <3>1. Custody!Transfer({f}, "absent", "active")
      BY <2>7, <2>8 DEF Custody!Transfer
    <3>2. UNCHANGED <<now, policyOn>>
      BY <1>6 DEF Moves, policy
    <3> QED BY <2>6, <3>1, <3>2 DEF Custody!TakeIn
  <2> QED BY <2>9 DEF Custody!CustodyNext
<1> QED BY <1>1, <1>2, <1>3, <1>4, <1>5, <1>6, StepFates DEF Moves

-----------------------------------------------------------------------------
(* What the invariant says of every reachable state *)

\* What the invariant says of the authority over an export.
LEMMA AuthorityFollows == Invariant => AuthorityIsExact
<1> SUFFICES ASSUME Invariant PROVE AuthorityIsExact
  OBVIOUS
<1>0. Pools /\ TypeOK /\ CatalogInv
  BY Pools DEF Invariant
<1>1. CatalogIsSound
  <2>1. \A e \in Exports :
           /\ export[e].state = "archived" <=> export[e].home # None
           /\ export[e].home # None => export[e].home \in Current
    BY <1>0, HomesAreCurrent DEF CatalogInv, ExportsFit, ExportFits, Current
  <2>2. \A e \in Exports : export[e].owner # None => op[export[e].owner].status = "running"
    BY <1>0 DEF CatalogInv, ExportsFit, ExportFits
  <2>3. \A s \in Current : Members(s) # {}
    BY <1>0 DEF CatalogInv, SegmentsFit, Current, Members
  <2> QED BY <2>1, <2>2, <2>3 DEF CatalogIsSound
<1>2. ASSUME NEW o \in Operations, op[o].status = "running"
      PROVE  Owned(o) = op[o].targets /\ op[o].targets # {}
  <2>1. op[o].targets \subseteq Exports /\ op[o].targets # {}
    BY <1>0, <1>2 DEF CatalogInv, OperationsFit, OperationFits, TypeOK, OperationRecord
  <2>2. \A e \in Exports : export[e].owner = o <=> e \in op[o].targets
    BY <1>0, <1>2, OwnersRun
  <2> QED BY <2>1, <2>2 DEF Owned
<1> QED BY <1>1, <1>2 DEF AuthorityIsExact

\* What the invariant says of the claims.
LEMMA ClaimFollows == Invariant => ClaimHoldsUntilPublished
<1> SUFFICES ASSUME Invariant, NEW r \in Restores, RestoreAt(r, "verify"), restore[r].todo = {}
             PROVE  RestorePublishable(r)
  BY DEF ClaimHoldsUntilPublished
<1> DEFINE o == restore[r].op
           S == restore[r].segments
<1>0. Pools /\ TypeOK /\ CatalogInv /\ RestoreFits(r) /\ restore[r].pc = "verify"
  BY Pools DEF Invariant, RestoreAt
<1>1. /\ op[o].status = "running" /\ op[o].kind = "restore" /\ op[o].phase = "planned"
      /\ \A s \in S : segment[s].state = "current"
      /\ \A e \in Exports : e \in op[o].targets <=> export[e].home \in S
      /\ \A s \in S \ restore[r].todo : segment[s].metadata = "verifiable"
      /\ o # None
  BY <1>0 DEF RestoreFits, Preparing
<1>2. S \subseteq Segments /\ o \in Operations
  BY <1>0, <1>1 DEF TypeOK, RestoreRecord
<1>3. op[o].targets \subseteq Exports
  BY <1>0, <1>2 DEF TypeOK, OperationRecord
<1>4. \A e \in op[o].targets : export[e].state = "archived" /\ export[e].owner = o
  BY <1>0, <1>1, <1>2 DEF CatalogInv, OperationsFit, OperationFits, Reinstates
<1> HIDE DEF o, S
<1>5. {e \in Exports : export[e].home \in S} = op[o].targets
  BY <1>1, <1>3
<1>6. S \subseteq Current
  BY <1>1, <1>2 DEF Current
<1> QED BY <1>1, <1>4, <1>5, <1>6 DEF RestorePublishable, o, S

\* What the invariant says of the plans.
LEMMA PlanFollows == Invariant => PlanStaysExact
BY DEF Invariant, PlanStaysExact, PlanFits, At

\* What the invariant and the reasons say of the files.
LEMMA FilesFollow == Invariant /\ FilesHaveReasons => FilesFollowSegments
<1> SUFFICES ASSUME Invariant, FilesHaveReasons PROVE FilesFollowSegments
  OBVIOUS
<1>0. FilesFit /\ LocksFit /\ Pools
  BY Pools DEF Invariant
<1>1. ContentOutlivesAuthority
  BY <1>0 DEF ContentOutlivesAuthority, FilesFit, Current, Running, RunningDeletion
<1>2. \A s \in Segments : segment[s].file = "staged" => \E o \in Running("delete") : op[o].segment = s
  <2> SUFFICES ASSUME NEW s \in Segments, segment[s].file = "staged"
               PROVE  \E o \in Running("delete") : op[o].segment = s
    OBVIOUS
  <2>1. PICK o \in Operations : RunningDeletion(o, s, BeforeCutover \union AfterCutover)
    BY <1>0 DEF FilesFit
  <2>2. o \in Running("delete") /\ op[o].segment = s
    BY <2>1 DEF Running, RunningDeletion
  <2> QED BY <2>2
<1>3. ASSUME NoFault, process = "up", mu = Nobody, Running("restore") = {}, NEW s \in Segments,
             segment[s].file = "installed"
      PROVE  s \in Current
  <2>1. Reason(s)
    BY <1>3 DEF FilesHaveReasons
  <2>2. /\ \A c \in Cycles : cycle[c].pc \in Sleeping
        /\ \A r \in Restores : restore[r].pc \notin Working
    BY <1>0, <1>3 DEF LocksFit, Pools
  <2> QED BY <1>3, <2>1, <2>2 DEF Reason, KeepsFile, LeftToStart, Sleeping, Working, Current, Running
<1> QED BY <1>1, <1>2, <1>3 DEF FilesFollowSegments, NoStrayFile, NoFault

\* At first there is no file.
LEMMA ReasonsStart == Init => FilesHaveReasons
BY DEF Init, FilesHaveReasons

\* Only the last stage of the recovery opens the service.
LEMMA OnlyCleanupOpens ==
  ASSUME [Next]_vars, process = "cleanup", process' = "up"
  PROVE  RecoverRestoreCleanup
<1>1. ASSUME NEW c \in Cycles, BeginRetentionCycle(c) \/ Maintenance(c) PROVE FALSE
  BY <1>1 DEF BeginRetentionCycle, Maintenance, StartCycle, LockResume, ResumeRetentionDeletions,
     PlanCycle, SelectGroup, ClaimArchive, BuildArchive, PublishArchive, FailArchive, ClaimDeletion,
     StageDeletion, PublishStaged, Cutover, AbandonCutover, WithdrawDeletion, RemoveContent,
     PublishRemoved, PublishDeleted, ConvergeDeletion, At, GateFree
<1>2. ASSUME NEW r \in Restores, NEW scope \in Scopes, RequestRestore(r, scope) PROVE FALSE
  BY <1>2 DEF RequestRestore, GateFree
<1>3. ASSUME NEW r \in Restores, Restoring(r) PROVE FALSE
  BY <1>3 DEF Restoring, FinishCommittedDeletions, PreemptDeletion, ClaimRestore, RefuseRestore,
     StartRestore, VerifySegment, VerificationFails, PublishRestore, PreparationFails,
     DropReplacements, FailRestore, RemovePublishedArchive, CompleteRestore, AbandonCleanup, RestoreAt
<1>4. CASE \/ Restart \/ RecoverArchives \/ RecoverRestores \/ RecoverDeletions \/ DeletionsRecovered
           \/ RemoveUnreferencedArchiveFiles \/ FilesRecovered \/ RecoveryFails
  BY <1>4 DEF RecoveryFails, Restart, RecoverArchives, RecoverRestores, RecoverDeletions,
     DeletionsRecovered, RemoveUnreferencedArchiveFiles, FilesRecovered, RecoverUnpublished, Stage
<1>5. CASE \/ Tick \/ (\E e \in Exports : Receive(e))
           \/ (\E enabled \in BOOLEAN : UpdateRetentionPolicy(enabled))
           \/ (\E t \in Segments : Damage(t)) \/ UNCHANGED vars
  BY <1>5 DEF Tick, Receive, UpdateRetentionPolicy, Damage, vars, world
<1>6. CASE Close \/ Exit \/ Crash
  BY <1>6 DEF Close, Exit, Crash, Vanish
<1> QED BY <1>1, <1>2, <1>3, <1>4, <1>5, <1>6 DEF Next, Recovery

NothingIsLeft ==
    /\ \A o \in Operations : op'[o].status # "running"
    /\ \A e \in Exports : export'[e].owner = None
    /\ \A s \in Segments :
          segment'[s].file = IF segment'[s].state = "current" THEN "installed" ELSE "absent"
    /\ (\A s \in Current' : segment'[s].damage = "none") => ValidateRetentionCatalog'

\* The last stage of the recovery leaves nothing unfinished.
LEMMA NothingStays ==
  Invariant /\ Invariant' /\ AuthorityIsExact' /\ [Next]_vars =>
      (process = "cleanup" /\ process' = "up" => NothingIsLeft)
<1> SUFFICES ASSUME Invariant, Invariant', AuthorityIsExact', [Next]_vars, process = "cleanup", process' = "up"
             PROVE  NothingIsLeft
  OBVIOUS
<1>0. /\ Pools /\ TypeOK /\ CatalogInv /\ StagesFit /\ TypeOK' /\ CatalogInv' /\ FilesFit'
  BY Pools DEF Invariant
<1> DEFINE published == {o \in Running("restore") : op[o].phase = "content_removed"}
<1>1. op' = Closed(published, "completed") /\ UNCHANGED segment
  BY OnlyCleanupOpens DEF RecoverRestoreCleanup
<1>2. /\ Running("archive") = {} /\ Running("delete") = {} /\ Unreferenced = {}
      /\ \A o \in Running("restore") : o \in published
  BY <1>0 DEF StagesFit
<1>3. \A o \in Operations : IF o \in published THEN op'[o].status = "completed" ELSE op'[o] = op[o]
  <2>1. "completed" \in Statuses
    BY DEF Statuses
  <2> HIDE DEF published
  <2> QED BY <1>0, <1>1, <2>1, ClosedIsTyped
<1>4. ASSUME NEW o \in Operations, op'[o].status = "running" PROVE FALSE
  <2>1. o \notin published /\ op[o].status = "running"
    BY <1>3, <1>4
  <2>2. op[o].kind \in {"archive", "delete", "restore"}
    BY <1>0, <2>1 DEF CatalogInv, OperationsFit, OperationFits
  <2> QED BY <1>2, <2>1, <2>2 DEF Running
<1>5. ASSUME NEW e \in Exports PROVE export'[e].owner = None
  <2>1. export'[e].owner \in Operations \union {None}
    BY <1>0 DEF TypeOK, ExportRecord
  <2> QED BY <1>0, <1>4, <2>1, ZenonT(40) DEF CatalogInv, ExportsFit, ExportFits
<1>6. ASSUME NEW s \in Segments
      PROVE  segment'[s].file = IF segment'[s].state = "current" THEN "installed" ELSE "absent"
  <2>1. segment'[s].state = "current" => segment'[s].file = "installed"
    BY <1>0, <1>4 DEF FilesFit, RunningDeletion
  <2>2. segment'[s].file # "staged"
    BY <1>0, <1>4 DEF FilesFit, RunningDeletion
  <2>3. segment'[s].file = "installed" => segment'[s].state = "current"
    BY <1>1, <1>2 DEF Unreferenced
  <2>4. segment'[s].file \in Places
    BY <1>0 DEF TypeOK, SegmentRecord
  <2> QED BY <2>1, <2>2, <2>3, <2>4 DEF Places
<1>7. ASSUME \A s \in Current' : segment'[s].damage = "none" PROVE ValidateRetentionCatalog'
  <2>1. \A s \in Current' : OpenVerified(s)'
    BY <1>6, <1>7 DEF Current, OpenVerified
  <2> QED BY <2>1 DEF AuthorityIsExact, ValidateRetentionCatalog
<1> QED BY <1>4, <1>5, <1>6, <1>7 DEF NothingIsLeft

-----------------------------------------------------------------------------
(* The theorems *)

\* A file on disk has a reason: see FilesFollowSegments.
LEMMA ReasonsHold == Spec => []FilesHaveReasons
<1>1. Invariant /\ FilesHaveReasons /\ [Next]_vars => FilesHaveReasons'
  BY ReasonsKept
<1> QED BY <1>1, ReasonsStart, LifecycleHolds, PTL DEF Spec

(* An export is archived exactly when it is a member of one current      *)
(* segment, and owned exactly when it is a target of one running         *)
(* operation, whatever interrupts archiving, deletion, restore and       *)
(* recovery (PublishArchive, PublishRestore, DeleteArchiveSegment,       *)
(* recoverRetentionLifecycle).                                           *)
THEOREM AuthorityHolds == Spec => []AuthorityIsExact
BY LifecycleHolds, AuthorityFollows, PTL

(* A restore that has verified its segments can publish: what it claimed *)
(* stays as it was while it was queued and prepared (ClaimRestore,       *)
(* PublishRestore), because its operation owns every export it affects.  *)
THEOREM ClaimsHold == Spec => []ClaimHoldsUntilPublished
BY LifecycleHolds, ClaimFollows, PTL

(* The groups a cycle planned from metadata are the groups it will find, *)
(* however restores and new exports come in between (PlanCycle,          *)
(* NextGroup): its cohort is fixed, and only the cycle itself archives.  *)
THEOREM PlansHold == Spec => []PlanStaysExact
BY LifecycleHolds, PlanFollows, PTL

(* A current segment keeps its file up to the point of no return of its  *)
(* deletion, and a file on disk has a reason as long as no file          *)
(* operation has failed (BuildArchive, DeleteArchiveSegment,             *)
(* removePublishedArchive, removeUnreferencedArchiveFiles).              *)
THEOREM FilesHold == Spec => []FilesFollowSegments
BY LifecycleHolds, ReasonsHold, FilesFollow, PTL

(* An operation that ends tells what became of its exports: completed,   *)
(* they moved; failed or cancelled, they are where they were and         *)
(* readable (closing an operation in PublishArchive, CompleteDeletion,   *)
(* CancelDeletion, PublishRestore, FailRestore and the recovery).        *)
THEOREM OutcomesHold == Spec => OutcomesAreTrue
<1>1. Invariant /\ Invariant' /\ [Next]_vars =>
        [\A o \in Operations : op[o].status = "running" /\ op'[o].status # "running" => OutcomeIsTrue(o)]_vars
  BY OutcomesTrue
<1> QED BY <1>1, LifecycleHolds, PTL DEF Spec, OutcomesAreTrue

(* A deletion passes its point of no return only under the policy        *)
(* revision that decided it, although the gate was yielded in between    *)
(* (DeleteArchiveSegment checks the revision again in its cutover).      *)
THEOREM DecisionsHold == Spec => DecisionStillStands
<1>1. Invariant /\ Invariant' /\ [Next]_vars =>
        [\A o \in Running("delete") :
            op[o].phase \in BeforeCutover /\ op'[o].phase \in AfterCutover =>
                policyOn /\ revision = op[o].decided]_vars
  BY DecisionsStand
<1> QED BY <1>1, LifecycleHolds, PTL DEF Spec, DecisionStillStands

(* When the store has opened, the recovery has left no operation         *)
(* running, no export owned and no file but those of the current         *)
(* segments, and a rebuild accepts the catalog unless a file is damaged  *)
(* (recoverRetentionLifecycle, validateRetentionCatalog).                *)
THEOREM RecoveryHolds == Spec => RecoveryIsComplete
<1>1. Invariant /\ Invariant' /\ AuthorityIsExact' /\ [Next]_vars =>
        [process = "cleanup" /\ process' = "up" =>
          /\ \A o \in Operations : op'[o].status # "running"
          /\ \A e \in Exports : export'[e].owner = None
          /\ \A s \in Segments :
                segment'[s].file = IF segment'[s].state = "current" THEN "installed" ELSE "absent"
          /\ (\A s \in Current' : segment'[s].damage = "none") => ValidateRetentionCatalog']_vars
  BY NothingStays DEF NothingIsLeft
<1> QED BY <1>1, LifecycleHolds, AuthorityHolds, PTL DEF Spec, RecoveryIsComplete

\* The custody begins with no export.
LEMMA CustodyBegins == Init => Custody!CustodyInit
BY DEF Init, Custody!CustodyInit, Condemned

(* The lifecycle implements the custody an export was promised: no step  *)
(* archives, condemns, deletes or brings back an export but where        *)
(* TelemetryCustody allows it, after the time and under the policy it    *)
(* asks for.                                                             *)
THEOREM LifecycleKeepsCustody == Spec => KeepsCustody
<1>1. Invariant /\ Invariant' /\ [Next]_vars => [Custody!CustodyNext]_(Custody!custodyVars)
  BY CustodyGoesOn
<1> QED BY <1>1, CustodyBegins, LifecycleHolds, PTL DEF Spec, KeepsCustody, Custody!CustodySpec

=============================================================================
