------------------------- MODULE RetentionLifecycle -------------------------
(***************************************************************************)
(* The retention lifecycle: raw exports age from the database into archive  *)
(* segment files, can be brought back by a restore that holds them, and are *)
(* deleted with their segment once the deletion cutoff has passed.          *)
(*                                                                          *)
(* Three parties share one SQLite catalog and one directory of files:       *)
(* maintenance cycles (retention.Service.RunMaintenance), restore requests  *)
(* (RequestRestore, restoreClaim) and recovery at start                     *)
(* (sqlite.recoverRetentionLifecycle).  Service.mu serialises the work of   *)
(* cycles and restores, the store's writeGate serialises catalog writes;    *)
(* restore claims take only the gate.  A process may crash between any two  *)
(* durable steps, and a database or file operation may fail.                *)
(*                                                                          *)
(* A transaction is one action, as is each durable file operation.  Waiting *)
(* for the gate is the guard GateFree; it is held (gate) only where the     *)
(* code keeps it across several durable steps.                              *)
(***************************************************************************)
EXTENDS Integers, FiniteSets, Sequences

CONSTANTS
    Exports,       \* retained export ids, in the order they are received
    Segments,      \* archive segment ids (None is no segment)
    Operations,    \* slots for retention operation records (None is no operation)
    Cycles,        \* maintenance goroutines the scheduler may have launched
    Restores,      \* restore goroutines
    Nobody,        \* nobody holds the gate or the mutex
    ArchiveDays,   \* policy: days until an export is archived
    DeleteDays,    \* policy: days until an archived export is deleted
    HoldDays,      \* days a restored export is held
    GroupLimit,    \* exports that fill MaxSegmentOriginalBytes
    MaxTime,       \* bound: days that pass
    Scenarios      \* what to explore: the goroutines that start and the exports that arrive,
                   \* how many policy updates, which mishaps ("fault", "crash", "close",
                   \* "damage") and the most of them

None == 0

\* retention.NewPolicy, NewHold: days are positive, deletion follows archiving.
ASSUME PolicyDays ==
    /\ ArchiveDays \in Nat \ {0}
    /\ DeleteDays \in Nat
    /\ DeleteDays > ArchiveDays
    /\ HoldDays \in Nat \ {0}

MishapKinds == {"fault", "crash", "close", "damage"}

ASSUME Pools ==
    /\ Exports \subseteq Nat \ {0} /\ IsFiniteSet(Exports)
    /\ Segments \subseteq Nat \ {0} /\ IsFiniteSet(Segments)
    /\ Operations \subseteq Nat \ {0} /\ IsFiniteSet(Operations)
    /\ Nobody \notin Cycles \union Restores
    /\ Cycles \intersect Restores = {}
    /\ GroupLimit \in Nat \ {0}
    /\ MaxTime \in Nat
    /\ \A s \in Scenarios :
          /\ s.actors \subseteq Cycles \union Restores /\ s.exports \subseteq Exports
          /\ s.mishaps \subseteq MishapKinds /\ s.most \in Nat /\ s.revisions \in Nat

VARIABLES
    now,           \* the day
    policyOn,      \* retention_policy.enabled
    revision,      \* retention_policy.revision
    export,        \* retained_exports, current_archive_memberships, retention_export_authorities
    segment,       \* archive_segments, and the file of each segment
    op,            \* retention_operations, retention_operation_exports
    process,       \* "up", "down", or the recovery stage of the opening store
    closing,       \* service.ctx and the scheduler's context are cancelled
    gate,          \* who holds store.writeGate between steps
    mu,            \* who holds service.mu
    cycle,         \* the maintenance goroutines
    restore,       \* the restore goroutines
    scenario       \* what this behaviour explores, and the mishaps that happened

catalog == <<export, segment, op>>
policy  == <<policyOn, revision>>
locks   == <<gate, mu>>
world   == <<now, policy, process, closing>>
vars == <<world, catalog, locks, cycle, restore, scenario>>

BeforeCutover == {"staging", "staged"}
AfterCutover  == {"delete_committing", "content_removed"}

Scopes ==
    [segment : Segments, exports : {{}}] \union
    [segment : {None},
     exports : {{e \in Exports : a <= e /\ e <= b} : a, b \in Exports} \ {{}}]

NoScope == [segment |-> None, exports |-> {}]

NoOperation ==
    [kind |-> "none", status |-> "none", phase |-> "none", targets |-> {},
     selected |-> {}, segment |-> None, decided |-> 0]

NoCycle ==
    [pc |-> "idle", evaluatedAt |-> 0, revision |-> 0, exports |-> {}, segments |-> {},
     groups |-> 0, group |-> {}, todo |-> {}, op |-> None, segment |-> None]

NoRestore ==
    [pc |-> "idle", scope |-> NoScope, op |-> None, segments |-> {}, todo |-> {},
     fresh |-> [s \in Segments |-> None]]

Init ==
    /\ now = 0
    /\ policyOn = FALSE
    /\ revision = 0
    /\ export = [e \in Exports |->
                    [state |-> "absent", received |-> 0, hold |-> 0, home |-> None, owner |-> None]]
    /\ segment = [s \in Segments |->
                    [state |-> "unused", file |-> "absent", damage |-> "none",
                     payload |-> "intact", metadata |-> "verifiable"]]
    /\ op = [o \in Operations |-> NoOperation]
    /\ process = "up"
    /\ closing = FALSE
    /\ gate = Nobody
    /\ mu = Nobody
    /\ cycle = [c \in Cycles |-> NoCycle]
    /\ restore = [r \in Restores |-> NoRestore]
    /\ \E s \in Scenarios :
          scenario = [actors |-> s.actors, exports |-> s.exports, revisions |-> s.revisions,
                      mishaps |-> s.mishaps, most |-> s.most, happened |-> <<>>]

----------------------------------------------------------------------------
\* The catalog as its queries see it.

Members(s) == {e \in Exports : export[e].home = s}
Owned(o)   == {e \in Exports : export[e].owner = o}
Current    == {s \in Segments : segment[s].state = "current"}
Running(kind) == {o \in Operations : op[o].status = "running" /\ op[o].kind = kind}

InHand == {cycle[c].op : c \in Cycles} \union {restore[r].op : r \in Restores}

\* The next fresh identity: an operation record nobody works on any more is
\* read by nobody, so its slot stands for a new identity.
Least(S) == {x \in S : \A y \in S : x <= y}
FreshOperation == Least({o \in Operations : op[o].status # "running" /\ o \notin InHand})
FreshSegment == Least({s \in Segments : segment[s].state = "unused" /\ segment[s].file = "absent"})

\* Segments bounds the archive: the file system has no room for more of them.
NoCapacity == FreshSegment = {}

\* DELETE FROM retention_export_authorities WHERE operation_id in ops
Released(ops) ==
    [e \in Exports |-> IF export[e].owner \in ops THEN [export[e] EXCEPT !.owner = None]
                                                  ELSE export[e]]

\* UPDATE retention_operations SET status = status, phase = 'terminal'
\* (nothing reads the rest of a terminal record)
Closed(ops, status) ==
    [o \in Operations |-> IF o \in ops THEN [NoOperation EXCEPT !.status = status] ELSE op[o]]

\* A mishap of an admitted kind, within the bound.
Mishap(kind) ==
    /\ kind \in scenario.mishaps
    /\ Len(scenario.happened) < scenario.most
    /\ scenario' = [scenario EXCEPT !.happened = Append(@, kind)]

\* A call fails because its context is cancelled, or for a fault of its own.
Fails ==
    \/ closing /\ UNCHANGED scenario
    \/ Mishap("fault")

GateFree == process = "up" /\ gate = Nobody

----------------------------------------------------------------------------
\* Deletion files (archivefs.DeletionFile) and their recovery.

\* StageAndSync, RestoreAndSync
MoveFile(s, place) == [segment EXCEPT ![s].file = place]

\* The candidate is written, synced, verified, and renamed into its place.
BuildWithIncarnation(s) == MoveFile(s, "installed")

\* RemoveAndSync, archivefs.Remove, for a set of segments
Erased(S) ==
    [s \in Segments |-> IF s \in S THEN [segment[s] EXCEPT !.file = "absent", !.damage = "none"]
                                   ELSE segment[s]]

\* The terminal transaction of a deletion: its exports are deleted, their
\* memberships and authorities go, and the segment becomes history.
CompleteDeletion(o) ==
    LET s == op[o].segment
        Final(e) == [export[e] EXCEPT
            !.state = IF e \in op[o].targets THEN "deleted" ELSE @,
            !.hold  = IF e \in op[o].targets THEN 0 ELSE @,
            !.home  = IF @ = s THEN None ELSE @,
            !.owner = IF @ = o THEN None ELSE @]
    IN  /\ export' = [e \in Exports |-> Final(e)]
        /\ segment' = [segment EXCEPT ![s].state = "deleted"]
        /\ op' = Closed({o}, "completed")

\* A deletion that has not happened is given up: the content stays archived.
CancelDeletion(o) ==
    /\ export' = Released({o})
    /\ op' = Closed({o}, "cancelled")
    /\ UNCHANGED segment

\* recoverDeletionOperationWithState: before the point of no return the file
\* is put back and the deletion cancelled; from there on the file is removed
\* and the deletion completed.  Each durable step is one step of recovery.
\* Fault: a deletion past its point of no return is undone like any other.
RecoverBackward(o) ==
    LET s == op[o].segment IN
    \/ /\ segment[s].file = "staged"
       /\ segment' = MoveFile(s, "installed")
       /\ UNCHANGED <<export, op>>
    \/ segment[s].file # "staged" /\ CancelDeletion(o)

RecoverDeletionOperation(o) ==
    LET s == op[o].segment IN
    \/ /\ op[o].phase \in BeforeCutover
       /\ segment[s].file = "staged"
       /\ segment' = MoveFile(s, "installed")
       /\ UNCHANGED <<export, op>>
    \/ /\ op[o].phase \in BeforeCutover
       /\ segment[s].file = "installed"
       /\ CancelDeletion(o)
    \/ /\ op[o].phase \in AfterCutover
       /\ segment[s].file = "installed"
       /\ segment' = MoveFile(s, "staged")
       /\ UNCHANGED <<export, op>>
    \/ /\ op[o].phase \in AfterCutover
       /\ segment[s].file = "staged"
       /\ segment' = Erased({s})
       /\ UNCHANGED <<export, op>>
    \/ /\ op[o].phase \in AfterCutover
       /\ segment[s].file = "absent"
       /\ CompleteDeletion(o)

----------------------------------------------------------------------------
\* The world around the lifecycle.

Tick ==
    /\ now < MaxTime
    /\ now' = now + 1
    /\ UNCHANGED <<policy, catalog, process, closing, locks, cycle, restore, scenario>>

\* insertExport of a live export: a new identity, active.
Receive(e) ==
    /\ GateFree
    /\ e \in scenario.exports
    /\ export[e].state = "absent"
    /\ \A f \in Exports : f < e => export[f].state # "absent"
    /\ export' = [export EXCEPT ![e].state = "active", ![e].received = now]
    /\ UNCHANGED <<now, policy, segment, op, process, closing, locks, cycle, restore, scenario>>

\* Every update is a new revision, also one that only changes the days.
UpdateRetentionPolicy(enabled) ==
    /\ GateFree
    /\ revision < scenario.revisions
    /\ policyOn' = enabled
    /\ revision' = revision + 1
    /\ UNCHANGED <<now, catalog, process, closing, locks, cycle, restore, scenario>>

\* The bytes of an installed segment go bad.
Damage(s) ==
    /\ Mishap("damage")
    /\ segment[s].file = "installed" /\ segment[s].state = "current"
    /\ segment[s].damage = "none"
    /\ \E part \in {"payload", "metadata"} : segment' = [segment EXCEPT ![s].damage = part]
    /\ UNCHANGED <<now, policy, export, op, process, closing, locks, cycle, restore>>

\* Scheduler.Close and Service.Close cancel the contexts of all work.
Close ==
    /\ process = "up"
    /\ ~closing
    /\ Mishap("close")
    /\ closing' = TRUE
    /\ UNCHANGED <<now, policy, catalog, process, locks, cycle, restore>>

\* The process ends: only the catalog, the files and the policy survive.
Vanish ==
    /\ process' = "down"
    /\ closing' = FALSE
    /\ gate' = Nobody
    /\ mu' = Nobody
    /\ cycle' = [c \in Cycles |-> NoCycle]
    /\ restore' = [r \in Restores |-> NoRestore]
    /\ UNCHANGED <<now, policy, catalog>>

Crash == process # "down" /\ Mishap("crash") /\ Vanish

\* After Close the process exits, whatever is still running.
Exit == closing /\ Vanish /\ UNCHANGED scenario

----------------------------------------------------------------------------
\* Maintenance: planning.

At(c, pc) == process = "up" /\ cycle[c].pc = pc

\* Moves cycle c to pc, everything else in it unchanged.
To(c, pc) == cycle' = [cycle EXCEPT ![c].pc = pc]

\* The cycle is over: CompleteRetentionCycle, and the deferred unlocks.
EndCycle(c) ==
    /\ cycle' = [cycle EXCEPT ![c] = NoCycle]
    /\ mu' = Nobody
    /\ gate' = IF gate = c THEN Nobody ELSE gate

\* RunMaintenance reads the clock and BeginRetentionCycle fixes the cohort:
\* the exports up to the highest id and the segments that are current.
BeginRetentionCycle(c) ==
    /\ GateFree /\ ~closing
    /\ c \in scenario.actors
    /\ cycle[c].pc = "idle"
    /\ policyOn
    /\ cycle' = [cycle EXCEPT ![c] = [NoCycle EXCEPT
            !.pc = "queued",
            !.evaluatedAt = now,
            !.exports = {e \in Exports : export[e].state # "absent"},
            !.segments = Current]]
    /\ UNCHANGED <<world, catalog, locks, restore, scenario>>

StartCycle(c) ==
    /\ At(c, "queued")
    /\ mu = Nobody
    /\ mu' = c
    /\ To(c, "locking")
    /\ UNCHANGED <<world, catalog, gate, restore, scenario>>

\* ResumeRetentionDeletions, under the gate throughout: first the deletions an
\* earlier attempt left running, then the cycle is planned.
LockResume(c) ==
    /\ At(c, "locking")
    /\ \/ ~closing /\ GateFree /\ gate' = c /\ To(c, "resume") /\ UNCHANGED <<mu, scenario>>
       \/ Fails /\ EndCycle(c)
    /\ UNCHANGED <<world, catalog, restore>>

ResumeRetentionDeletions(c) ==
    /\ At(c, "resume")
    /\ \/ /\ ~closing
          /\ \E o \in Running("delete") : RecoverDeletionOperation(o)
          /\ UNCHANGED <<gate, mu, cycle, scenario>>
       \/ /\ Running("delete") = {}
          /\ gate' = Nobody /\ To(c, "plan") /\ UNCHANGED <<mu, scenario, catalog>>
       \/ Fails /\ EndCycle(c) /\ UNCHANGED catalog
    /\ UNCHANGED <<world, restore>>

\* queryEligibleActiveExports within the cohort
Archivable(c) ==
    {e \in cycle[c].exports :
        /\ export[e].state = "active"
        /\ export[e].received + ArchiveDays <= cycle[c].evaluatedAt
        /\ export[e].hold <= cycle[c].evaluatedAt
        /\ export[e].owner = None}

\* eligibleDeletionSegments
Deletable(c) ==
    {s \in Current \intersect cycle[c].segments :
        /\ segment[s].metadata = "verifiable"
        /\ \A e \in Members(s) :
              /\ export[e].state = "archived"
              /\ export[e].received + DeleteDays <= cycle[c].evaluatedAt
              /\ export[e].owner = None}

\* ArchiveGroupBoundary: a group ends with its receive day or when it is full.
\* An export's place among the candidates of its day, from 1.
Place(e, candidates) ==
    Cardinality({f \in candidates : f <= e /\ export[f].received = export[e].received})

\* Fault: a full group and the next of its day are counted as one.
CountDays(candidates) == Cardinality({export[e].received : e \in candidates})

\* CountArchiveGroupsForCycle: every first, every (GroupLimit+1)st ... of a day
\* opens a group.
CountGroups(candidates) ==
    Cardinality({e \in candidates : (Place(e, candidates) - 1) % GroupLimit = 0})

\* NextArchiveGroupForCycle: the first group of the first day.
NextGroup(candidates) ==
    {e \in candidates :
        /\ \A f \in candidates : export[e].received <= export[f].received
        /\ Place(e, candidates) <= GroupLimit}

\* runMaintenance reads the policy and plans from committed state without the
\* gate; everything planned is checked again when it is claimed.
PlanCycle(c) ==
    /\ At(c, "plan")
    /\ \/ /\ ~closing
          /\ policyOn
          /\ cycle' = [cycle EXCEPT ![c].pc = "select", ![c].revision = revision,
                                    ![c].todo = Deletable(c),
                                    ![c].groups = CountGroups(Archivable(c))]
          /\ UNCHANGED <<locks, scenario>>
       \/ (closing \/ ~policyOn) /\ EndCycle(c) /\ UNCHANGED scenario
    /\ UNCHANGED <<world, catalog, restore>>

\* The policy the cycle was planned under is still the policy.
SamePolicy(c) == policyOn /\ revision = cycle[c].revision

----------------------------------------------------------------------------
\* Maintenance: archiving one group after the other.

\* archiveNextGroup hydrates the next group, or all groups are done.
SelectGroup(c) ==
    /\ At(c, "select")
    /\ \/ /\ cycle[c].groups > 0
          /\ cycle' = [cycle EXCEPT ![c].pc = "claim", ![c].group = NextGroup(Archivable(c))]
       \/ cycle[c].groups = 0 /\ To(c, "delete")
    /\ UNCHANGED <<world, catalog, locks, restore, scenario>>

\* What ClaimArchive checks of the group under the gate.
Claimable(c) ==
    /\ SamePolicy(c)
    /\ \A e \in cycle[c].group :
          /\ export[e].state = "active"
          /\ export[e].received + ArchiveDays <= cycle[c].evaluatedAt
          /\ export[e].hold <= cycle[c].evaluatedAt
          /\ export[e].owner = None

ClaimArchive(c) ==
    /\ At(c, "claim")
    /\ GateFree
    /\ \/ /\ ~closing /\ Claimable(c)
          /\ \E o \in FreshOperation :
                /\ op' = [op EXCEPT ![o] = [NoOperation EXCEPT
                        !.kind = "archive", !.status = "running", !.phase = "planned",
                        !.targets = cycle[c].group]]
                /\ export' = [e \in Exports |->
                        IF e \in cycle[c].group THEN [export[e] EXCEPT !.owner = o] ELSE export[e]]
                /\ cycle' = [cycle EXCEPT ![c].pc = "build", ![c].op = o]
          /\ UNCHANGED <<segment, locks, scenario>>
       \/ /\ IF Claimable(c) THEN Fails ELSE UNCHANGED scenario
          /\ EndCycle(c)
          /\ UNCHANGED catalog
    /\ UNCHANGED <<world, restore>>

\* BuildWithIncarnation installs the verified file before the catalog knows it.
\* It fails after the file is in place, or with nothing installed, as it does
\* when there is no capacity for another segment.
BuildArchive(c) ==
    /\ At(c, "build")
    /\ \/ /\ ~closing
          /\ \E s \in FreshSegment :
                /\ segment' = BuildWithIncarnation(s)
                /\ cycle' = [cycle EXCEPT ![c].pc = "publish", ![c].segment = s]
          /\ UNCHANGED scenario
       \/ /\ Mishap("fault")
          /\ \E s \in FreshSegment : segment' = BuildWithIncarnation(s)
          /\ To(c, "fail")
       \/ /\ IF NoCapacity THEN UNCHANGED scenario ELSE Fails
          /\ UNCHANGED segment
          /\ To(c, "fail")
    /\ UNCHANGED <<world, export, op, locks, restore>>

\* What PublishArchive checks of the claimed group under the gate.
\* Fault: the policy is not read again.
PublishableAnyway(c) ==
    LET o == cycle[c].op IN
    /\ op[o].status = "running" /\ op[o].phase = "planned"
    /\ Owned(o) = op[o].targets
Publishable(c) ==
    LET o == cycle[c].op IN
    /\ op[o].status = "running" /\ op[o].phase = "planned"
    /\ SamePolicy(c)
    /\ Owned(o) = cycle[c].group
    /\ op[o].targets = cycle[c].group
    /\ \A e \in cycle[c].group :
          /\ export[e].state = "active"
          /\ export[e].received + ArchiveDays <= cycle[c].evaluatedAt
          /\ export[e].hold <= cycle[c].evaluatedAt

\* One transaction moves the group out of the database: the segment is
\* current, the exports are archived in it, the operation is completed.
PublishArchive(c) ==
    /\ At(c, "publish")
    /\ GateFree
    /\ LET s == cycle[c].segment
           o == cycle[c].op
           Archived(e) == [export[e] EXCEPT !.state = "archived", !.hold = 0,
                                            !.home = s, !.owner = None]
       IN
       \/ /\ ~closing /\ Publishable(c)
          /\ segment' = [segment EXCEPT ![s].state = "current"]
          /\ export' = [e \in Exports |-> IF e \in cycle[c].group THEN Archived(e) ELSE export[e]]
          /\ op' = Closed({o}, "completed")
          /\ cycle' = [cycle EXCEPT ![c].pc = "select", ![c].groups = @ - 1, ![c].group = {},
                                    ![c].op = None, ![c].segment = None]
          /\ UNCHANGED scenario
       \/ /\ IF Publishable(c) THEN Fails ELSE UNCHANGED scenario
          /\ segment' = Erased({s})
          /\ To(c, "fail")
          /\ UNCHANGED <<export, op>>
    /\ UNCHANGED <<world, locks, restore>>

\* FailArchive runs without the cycle's context; should it fail too, the
\* operation keeps its authority until the next start.
FailArchive(c) ==
    /\ At(c, "fail")
    /\ GateFree
    /\ \/ /\ op' = Closed({cycle[c].op}, "failed")
          /\ export' = Released({cycle[c].op})
          /\ UNCHANGED scenario
       \/ Mishap("fault") /\ UNCHANGED <<op, export>>
    /\ EndCycle(c)
    /\ UNCHANGED <<world, segment, restore>>

----------------------------------------------------------------------------
\* Maintenance: DeleteArchiveSegment, one durable step at a time.

\* What is checked under the gate before the staging intent is recorded.
DeletionClaimable(c, s) ==
    /\ SamePolicy(c)
    /\ s \in Current
    /\ segment[s].metadata = "verifiable"
    /\ s \in cycle[c].segments
    /\ \A e \in Members(s) :
          /\ export[e].state = "archived"
          /\ export[e].received + DeleteDays <= cycle[c].evaluatedAt
          /\ export[e].owner = None

\* The intent to delete the next planned segment is committed, and the gate
\* kept; an ineligible segment fails the cycle; with none left it is over.
ClaimDeletion(c) ==
    /\ At(c, "delete")
    /\ \/ /\ GateFree /\ ~closing
          /\ \E s \in cycle[c].todo, o \in FreshOperation :
                /\ DeletionClaimable(c, s)
                /\ op' = [op EXCEPT ![o] = [NoOperation EXCEPT
                        !.kind = "delete", !.status = "running", !.phase = "staging",
                        !.targets = Members(s), !.segment = s, !.decided = cycle[c].revision]]
                /\ export' = [e \in Exports |->
                        IF e \in Members(s) THEN [export[e] EXCEPT !.owner = o] ELSE export[e]]
                /\ cycle' = [cycle EXCEPT ![c].pc = "stage", ![c].op = o, ![c].segment = s,
                                          ![c].todo = @ \ {s}]
          /\ gate' = c
          /\ UNCHANGED <<mu, segment, scenario>>
       \/ /\ GateFree
          /\ \E s \in cycle[c].todo :
                IF DeletionClaimable(c, s) THEN Fails ELSE UNCHANGED scenario
          /\ EndCycle(c)
          /\ UNCHANGED catalog
       \/ /\ cycle[c].todo = {}
          /\ EndCycle(c)
          /\ UNCHANGED <<catalog, scenario>>
    /\ UNCHANGED <<world, restore>>

\* The deferred recovery takes over, with the gate still held.
Converge(c) == To(c, "converge") /\ UNCHANGED locks

\* StageAndSync and Inspect: the file is staged, or it stayed and the
\* deletion failed, or what happened to it is unknown.
StageDeletion(c) ==
    /\ At(c, "stage")
    /\ LET s == cycle[c].segment
           o == cycle[c].op
       IN
       \/ /\ segment' = MoveFile(s, "staged")
          /\ To(c, "staged")
          /\ UNCHANGED <<export, op, locks, scenario>>
       \/ /\ ~closing /\ Mishap("fault")
          /\ op' = Closed({o}, "failed")
          /\ export' = Released({o})
          /\ EndCycle(c)
          /\ UNCHANGED segment
       \/ /\ Mishap("fault")
          /\ segment' \in {segment, MoveFile(s, "staged")}
          /\ Converge(c)
          /\ UNCHANGED <<export, op>>
    /\ UNCHANGED <<world, restore>>

\* The staged phase is published and the gate yielded to waiting restores.
PublishStaged(c) ==
    /\ At(c, "staged")
    /\ \/ /\ ~closing
          /\ op' = [op EXCEPT ![cycle[c].op].phase = "staged"]
          /\ gate' = Nobody
          /\ To(c, "cutover")
          /\ UNCHANGED <<mu, scenario>>
       \/ Fails /\ Converge(c) /\ UNCHANGED op
    /\ UNCHANGED <<world, export, segment, restore>>

\* What is checked under the gate before the point of no return.
\* Fault: the policy is not read again after the gate was yielded.
StillAuthorised(c) == Owned(cycle[c].op) = op[cycle[c].op].targets
MayCutOver(c) ==
    /\ SamePolicy(c)
    /\ Owned(cycle[c].op) = op[cycle[c].op].targets

\* With the gate again: a restore may have cancelled the deletion, the policy
\* may have changed; otherwise this is the point of no return.

Cutover(c) ==
    /\ At(c, "cutover")
    /\ GateFree
    /\ \/ /\ ~closing /\ op[cycle[c].op].status = "cancelled"
          /\ cycle' = [cycle EXCEPT ![c].pc = "delete", ![c].op = None, ![c].segment = None]
          /\ UNCHANGED <<op, locks, scenario>>
       \/ /\ ~closing /\ op[cycle[c].op].status = "running" /\ ~MayCutOver(c)
          /\ gate' = c
          /\ To(c, "withdraw")
          /\ UNCHANGED <<op, mu, scenario>>
       \/ /\ ~closing /\ op[cycle[c].op].status = "running" /\ MayCutOver(c)
          /\ op' = [op EXCEPT ![cycle[c].op].phase = "delete_committing"]
          /\ gate' = c
          /\ To(c, "remove")
          /\ UNCHANGED <<mu, scenario>>
       \/ /\ Fails
          /\ gate' = c
          /\ To(c, "converge")
          /\ UNCHANGED <<op, mu>>
    /\ UNCHANGED <<world, export, segment, restore>>

\* The gate was not free within the recovery deadline: the deletion stays as
\* it is, staged, until it is resumed.
AbandonCutover(c) ==
    /\ At(c, "cutover")
    /\ gate # Nobody
    /\ Mishap("fault")
    /\ EndCycle(c)
    /\ UNCHANGED <<world, catalog, restore>>

\* Revalidation failed: the file is put back, then the deletion cancelled.
WithdrawDeletion(c) ==
    /\ At(c, "withdraw")
    /\ LET s == cycle[c].segment IN
       \/ /\ segment[s].file = "staged"
          /\ segment' = MoveFile(s, "installed")
          /\ UNCHANGED <<export, op, cycle, locks, scenario>>
       \/ /\ ~closing
          /\ segment[s].file = "installed"
          /\ CancelDeletion(cycle[c].op)
          /\ cycle' = [cycle EXCEPT ![c].pc = "delete", ![c].op = None, ![c].segment = None]
          /\ gate' = Nobody
          /\ UNCHANGED <<mu, scenario>>
       \/ Fails /\ Converge(c) /\ UNCHANGED catalog
    /\ UNCHANGED <<world, restore>>

\* RemoveAndSync removes the staged file only: one that a failed restore claim
\* has put back is left to the recovery.
RemoveContent(c) ==
    /\ At(c, "remove")
    /\ LET s == cycle[c].segment IN
       \/ /\ segment[s].file = "staged"
          /\ segment' = Erased({s})
          /\ To(c, "removed") /\ UNCHANGED <<locks, scenario>>
       \/ /\ IF segment[s].file = "installed" THEN UNCHANGED scenario ELSE Mishap("fault")
          /\ Converge(c) /\ UNCHANGED segment
    /\ UNCHANGED <<world, export, op, restore>>

PublishRemoved(c) ==
    /\ At(c, "removed")
    /\ \/ /\ ~closing
          /\ op' = [op EXCEPT ![cycle[c].op].phase = "content_removed"]
          /\ To(c, "terminal") /\ UNCHANGED <<locks, scenario>>
       \/ Fails /\ Converge(c) /\ UNCHANGED op
    /\ UNCHANGED <<world, export, segment, restore>>

PublishDeleted(c) ==
    /\ At(c, "terminal")
    /\ \/ /\ ~closing
          /\ CompleteDeletion(cycle[c].op)
          /\ cycle' = [cycle EXCEPT ![c].pc = "delete", ![c].op = None, ![c].segment = None]
          /\ gate' = Nobody
          /\ UNCHANGED <<mu, scenario>>
       \/ Fails /\ Converge(c) /\ UNCHANGED catalog
    /\ UNCHANGED <<world, restore>>

\* The deferred recovery retries, whatever the cycle's context says, until
\* the operation has converged or its own deadline passes.
ConvergeDeletion(c) ==
    /\ At(c, "converge")
    /\ LET o == cycle[c].op IN
       \/ /\ op[o].status = "running"
          /\ RecoverDeletionOperation(o)
          /\ UNCHANGED <<cycle, locks, scenario>>
       \/ /\ \/ op[o].status # "running" /\ UNCHANGED scenario
             \/ Mishap("fault")
          /\ EndCycle(c)
          /\ UNCHANGED catalog
    /\ UNCHANGED <<world, restore>>

----------------------------------------------------------------------------
\* Restores: the claim, made for the requester before it is answered.

RestoreAt(r, pc) == process = "up" /\ restore[r].pc = pc
RestoreTo(r, pc) == restore' = [restore EXCEPT ![r].pc = pc]

\* CurrentSegmentsForRestore
ScopeSegments(scope) ==
    IF scope.segment # None
    THEN {scope.segment} \intersect Current
    ELSE {export[e].home : e \in {f \in scope.exports : export[f].state = "archived"}}

\* Every export of those segments is affected, those in the scope are selected.
Affected(scope) == {e \in Exports : export[e].home \in ScopeSegments(scope)}
Selected(scope) ==
    IF scope.segment # None THEN Affected(scope) ELSE Affected(scope) \intersect scope.exports

\* finishCommittedDeletionsForScope: running deletions past their point of no
\* return that the scope touches.
CommittedDeletions(scope) ==
    {o \in Running("delete") :
        /\ op[o].phase \in AfterCutover
        /\ IF scope.segment # None THEN op[o].segment = scope.segment
                                   ELSE Owned(o) \intersect scope.exports # {}}

Preemptible(o) == op[o].kind = "delete" /\ op[o].phase \in BeforeCutover

\* Competitors of a claim: the operations that own an affected export.
Competing(scope) == {export[e].owner : e \in Affected(scope)} \ {None}

\* ClassifyRestoreScope refuses a period of which an export is being restored.
IsRestoring(scope) == \E e \in scope.exports : export[e].owner \in Running("restore")

\* The scope cannot be claimed: nothing in it is archived, an export of the
\* period is being restored, or an affected one belongs to such an operation.
\* Fault: competitors are not looked at.
ConflictsIgnored(scope) == ScopeSegments(scope) = {}
Unclaimable(scope) ==
    \/ ScopeSegments(scope) = {}
    \/ IsRestoring(scope)
    \/ \E o \in Competing(scope) : ~Preemptible(o)

ClaimOver(r) ==
    /\ gate' = Nobody
    /\ restore' = [restore EXCEPT ![r] = NoRestore]

RequestRestore(r, scope) ==
    /\ GateFree
    /\ r \in scenario.actors /\ scope.exports \subseteq scenario.exports
    /\ restore[r].pc = "idle"
    /\ scope.segment # None => segment[scope.segment].state # "unused"
    /\ gate' = r
    /\ restore' = [restore EXCEPT ![r].pc = "claim", ![r].scope = scope]
    /\ UNCHANGED <<world, catalog, mu, cycle, scenario>>

FinishCommittedDeletions(r) ==
    /\ RestoreAt(r, "claim")
    /\ \E o \in CommittedDeletions(restore[r].scope) : RecoverDeletionOperation(o)
    /\ UNCHANGED <<world, locks, cycle, restore, scenario>>

\* The file of a deletion that is about to be preempted is put back before the
\* transaction that cancels the deletion commits.
PreemptDeletion(r) ==
    /\ RestoreAt(r, "claim")
    /\ LET scope == restore[r].scope IN
       /\ CommittedDeletions(scope) = {}
       /\ ~Unclaimable(scope)
       /\ \E o \in Competing(scope) \intersect Running("delete") :
             /\ segment[op[o].segment].file = "staged"
             /\ segment' = MoveFile(op[o].segment, "installed")
    /\ UNCHANGED <<world, export, op, locks, cycle, restore, scenario>>

\* Inspect finds the content of every preempted deletion installed again.
\* Fault: nobody looks.
FilesIgnored(scope) == TRUE
FilesBack(scope) ==
    \A o \in Competing(scope) \intersect Running("delete") :
        segment[op[o].segment].file = "installed"

\* One transaction cancels the preempted deletions and gives the whole
\* affected set to the restore.
\* Fault: only the selected exports are claimed.
ClaimSelected(scope, o) ==
    [e \in Exports |-> IF e \in Selected(scope) THEN [export[e] EXCEPT !.owner = o] ELSE export[e]]
ClaimAffected(scope, o) ==
    [e \in Exports |-> IF e \in Affected(scope) THEN [export[e] EXCEPT !.owner = o] ELSE export[e]]

ClaimRestore(r) ==
    /\ RestoreAt(r, "claim")
    /\ LET scope == restore[r].scope IN
       /\ CommittedDeletions(scope) = {}
       /\ ~Unclaimable(scope)
       /\ FilesBack(scope)
       /\ \E o \in FreshOperation :
             /\ op' = [Closed(Competing(scope), "cancelled") EXCEPT ![o] = [NoOperation EXCEPT
                    !.kind = "restore", !.status = "running", !.phase = "planned",
                    !.targets = Affected(scope), !.selected = Selected(scope)]]
             /\ export' = ClaimAffected(scope, o)
             /\ restore' = [restore EXCEPT ![r].pc = "queued", ![r].op = o,
                                           ![r].segments = ScopeSegments(scope)]
    /\ gate' = Nobody
    /\ UNCHANGED <<world, segment, mu, cycle, scenario>>

\* The requester gets no operation: there is nothing to claim, a competitor
\* is in the way, or a step of the claim failed.
RefuseRestore(r) ==
    /\ RestoreAt(r, "claim")
    /\ LET scope == restore[r].scope IN
       \/ CommittedDeletions(scope) = {} /\ Unclaimable(scope) /\ UNCHANGED scenario
       \/ Mishap("fault")
    /\ ClaimOver(r)
    /\ UNCHANGED <<world, catalog, mu, cycle>>

----------------------------------------------------------------------------
\* Restores: restoreClaim, in a goroutine of its own.

StartRestore(r) ==
    /\ RestoreAt(r, "queued")
    /\ mu = Nobody
    /\ mu' = r
    /\ \/ /\ ~closing
          /\ restore' = [restore EXCEPT ![r].pc = "verify", ![r].todo = restore[r].segments]
          /\ UNCHANGED scenario
       \/ Fails /\ RestoreTo(r, "fail")
    /\ UNCHANGED <<world, catalog, gate, cycle>>

\* The exports of segment s that stay archived get a replacement segment.
Remaining(r, s) == Members(s) \ op[restore[r].op].selected

\* The file of a segment is there, and is what the catalog says of it.
OpenVerified(s) == segment[s].file = "installed" /\ segment[s].damage = "none"

\* A segment is verified, and replaced for what of it is not selected.
VerifySegment(r) ==
    /\ RestoreAt(r, "verify")
    /\ ~closing
    /\ \E s \in restore[r].todo :
          /\ OpenVerified(s)
          /\ \/ /\ Remaining(r, s) = {}
                /\ restore' = [restore EXCEPT ![r].todo = @ \ {s}]
                /\ UNCHANGED segment
             \/ /\ Remaining(r, s) # {}
                /\ \E n \in FreshSegment :
                      /\ restore' = [restore EXCEPT ![r].todo = @ \ {s}, ![r].fresh[s] = n]
                      /\ segment' = BuildWithIncarnation(n)
    /\ UNCHANGED <<world, export, op, locks, cycle, scenario>>

\* The mark that is left on a segment, for as long as it is current.
RecordSegmentVerificationFailure(s, part, mark) ==
    IF segment[s].state = "current" THEN [segment EXCEPT ![s][part] = mark] ELSE segment

\* The verification failed: any error that is not about the metadata is taken
\* for a corrupt payload, a cancelled context included.
VerificationFails(r) ==
    /\ RestoreAt(r, "verify")
    /\ GateFree
    /\ \E s \in restore[r].todo :
          \/ /\ segment[s].damage = "metadata"
             /\ segment' = RecordSegmentVerificationFailure(s, "metadata", "unverifiable")
          \/ /\ segment[s].damage = "payload" \/ segment[s].file # "installed" \/ closing
             /\ segment' = RecordSegmentVerificationFailure(s, "payload", "corrupt")
    /\ RestoreTo(r, "drop")
    /\ UNCHANGED <<world, export, op, locks, cycle, scenario>>

\* What PublishRestore checks of the claim under the gate.
RestorePublishable(r) ==
    LET o == restore[r].op
        members == {e \in Exports : export[e].home \in restore[r].segments}
    IN  /\ op[o].status = "running" /\ op[o].phase = "planned"
        /\ restore[r].segments \subseteq Current
        /\ \A s \in restore[r].segments : segment[s].metadata = "verifiable"
        /\ members = op[o].targets
        /\ \A e \in members : export[e].state = "archived" /\ export[e].owner = o

\* What happens to an affected export: restored and held, or moved to the
\* replacement of its segment.
Restored(r, e) ==
    IF e \in op[restore[r].op].selected
    THEN [export[e] EXCEPT !.state = "active", !.home = None, !.hold = now + HoldDays]
    ELSE [export[e] EXCEPT !.home = restore[r].fresh[export[e].home]]

PublishRestore(r) ==
    /\ RestoreAt(r, "verify")
    /\ restore[r].todo = {}
    /\ GateFree /\ ~closing
    /\ RestorePublishable(r)
    /\ export' = [e \in Exports |->
            IF e \in op[restore[r].op].targets THEN Restored(r, e) ELSE export[e]]
    /\ segment' = [s \in Segments |->
            IF s \in restore[r].segments
            THEN [segment[s] EXCEPT !.state = IF restore[r].fresh[s] = None THEN "restored"
                                                                          ELSE "superseded"]
            ELSE IF \E t \in restore[r].segments : restore[r].fresh[t] = s
            THEN [segment[s] EXCEPT !.state = "current"]
            ELSE segment[s]]
    /\ op' = [op EXCEPT ![restore[r].op].phase = "content_removed"]
    /\ restore' = [restore EXCEPT ![r].pc = "clean", ![r].todo = restore[r].segments]
    /\ UNCHANGED <<world, locks, cycle, scenario>>

\* Any other step of preparing or publishing fails.
PreparationFails(r) ==
    /\ RestoreAt(r, "verify")
    /\ IF NoCapacity \/ (restore[r].todo = {} /\ ~RestorePublishable(r))
       THEN UNCHANGED scenario
       ELSE Fails
    /\ RestoreTo(r, "drop")
    /\ UNCHANGED <<world, catalog, locks, cycle>>

\* The deferred clean-up removes the replacements nobody refers to; a failing
\* removal is ignored.
DropReplacements(r) ==
    /\ RestoreAt(r, "drop")
    /\ LET fresh == {restore[r].fresh[s] : s \in restore[r].segments} IN
       \/ segment' = Erased(fresh) /\ UNCHANGED scenario
       \/ Mishap("fault") /\ UNCHANGED segment
    /\ RestoreTo(r, "fail")
    /\ UNCHANGED <<world, export, op, locks, cycle>>

\* The goroutine of the restore returns.
\* Fault: service.mu stays locked.
RestoreOverLocked(r) ==
    /\ restore' = [restore EXCEPT ![r] = NoRestore]
    /\ mu' = mu
RestoreOver(r) ==
    /\ restore' = [restore EXCEPT ![r] = NoRestore]
    /\ mu' = Nobody

\* FailRestore gives up the claim, unless it fails itself.
FailRestore(r) ==
    /\ RestoreAt(r, "fail")
    /\ GateFree
    /\ \/ /\ op' = Closed({restore[r].op}, "failed")
          /\ export' = Released({restore[r].op})
          /\ UNCHANGED scenario
       \/ Mishap("fault") /\ UNCHANGED <<op, export>>
    /\ RestoreOver(r)
    /\ UNCHANGED <<world, segment, gate, cycle>>

\* removePublishedArchive retries until the file is gone ...
RemovePublishedArchive(r) ==
    /\ RestoreAt(r, "clean")
    /\ \E s \in restore[r].todo :
          /\ segment' = Erased({s})
          /\ restore' = [restore EXCEPT ![r].todo = @ \ {s}]
    /\ UNCHANGED <<world, export, op, locks, cycle, scenario>>

\* ... and completePublishedRestore until the authority is released.
CompleteRestore(r) ==
    /\ RestoreAt(r, "clean")
    /\ restore[r].todo = {}
    /\ GateFree /\ ~closing
    /\ export' = Released({restore[r].op})
    /\ op' = Closed({restore[r].op}, "completed")
    /\ RestoreOver(r)
    /\ UNCHANGED <<world, segment, gate, cycle, scenario>>

\* Cancelled between two attempts, the clean-up is left to the next start.
AbandonCleanup(r) ==
    /\ RestoreAt(r, "clean")
    /\ closing
    /\ restore[r].todo # {} => "fault" \in scenario.mishaps
    /\ RestoreOver(r)
    /\ UNCHANGED <<world, catalog, gate, cycle, scenario>>

----------------------------------------------------------------------------
\* recoverRetentionLifecycle, when the store is opened.

Stage(from, to) == process = from /\ process' = to

Restart ==
    /\ Stage("down", "archives")
    /\ UNCHANGED <<now, policy, closing, catalog, locks, cycle, restore, scenario>>

\* Interrupted archives, and then restores that were not published, fail.
RecoverUnpublished(from, kind, to) ==
    LET unpublished == {o \in Running(kind) : op[o].phase = "planned"} IN
    /\ Stage(from, to)
    /\ export' = Released(unpublished)
    /\ op' = Closed(unpublished, "failed")
    /\ UNCHANGED <<now, policy, closing, segment, locks, cycle, restore, scenario>>

\* Fault: interrupted restores are left as they are.
SkipRestores == RecoverUnpublished("restores", "none", "deletions")
RecoverArchives == RecoverUnpublished("archives", "archive", "restores")
RecoverRestores == RecoverUnpublished("restores", "restore", "deletions")

RecoverDeletions ==
    /\ process = "deletions"
    /\ \E o \in Running("delete") : RecoverDeletionOperation(o)
    /\ UNCHANGED <<world, locks, cycle, restore, scenario>>

DeletionsRecovered ==
    /\ Stage("deletions", "files")
    /\ Running("delete") = {}
    /\ UNCHANGED <<now, policy, closing, catalog, locks, cycle, restore, scenario>>

\* removeUnreferencedArchiveFiles looks at installed files only.
\* Fault: only the files of segments that never were current are looked at.
NeverReferenced == {s \in Segments : segment[s].file = "installed" /\ segment[s].state = "unused"}
Unreferenced == {s \in Segments : segment[s].file = "installed" /\ segment[s].state # "current"}

RemoveUnreferencedArchiveFiles ==
    /\ process = "files"
    /\ \E s \in Unreferenced : segment' = Erased({s})
    /\ UNCHANGED <<world, export, op, locks, cycle, restore, scenario>>

FilesRecovered ==
    /\ Stage("files", "cleanup")
    /\ Unreferenced = {}
    /\ UNCHANGED <<now, policy, closing, catalog, locks, cycle, restore, scenario>>

\* The published restores are complete now that their files are gone.
RecoverRestoreCleanup ==
    LET published == {o \in Running("restore") : op[o].phase = "content_removed"} IN
    /\ Stage("cleanup", "up")
    /\ export' = Released(published)
    /\ op' = Closed(published, "completed")
    /\ UNCHANGED <<now, policy, closing, segment, locks, cycle, restore, scenario>>

\* What a rebuild of the database, which begins with a recovery, demands of the
\* catalog it has copied: every export where its state says, and owned by what runs;
CatalogIsSound ==
    /\ \A e \in Exports :
          /\ export[e].state = "archived" <=> export[e].home # None
          /\ export[e].home # None => export[e].home \in Current
          /\ export[e].owner # None => op[export[e].owner].status = "running"
    /\ \A s \in Current : Members(s) # {}

\* and of the archive: the files of all current segments.
ValidateRetentionCatalog == CatalogIsSound /\ \A s \in Current : OpenVerified(s)

\* A failing recovery fails the start.
RecoveryFails ==
    /\ process \notin {"up", "down"}
    /\ process' = "down"
    /\ Mishap("fault")
    /\ UNCHANGED <<now, policy, closing, catalog, locks, cycle, restore>>

----------------------------------------------------------------------------
Maintenance(c) ==
    \/ StartCycle(c) \/ LockResume(c) \/ ResumeRetentionDeletions(c) \/ PlanCycle(c)
    \/ SelectGroup(c) \/ ClaimArchive(c) \/ BuildArchive(c) \/ PublishArchive(c) \/ FailArchive(c)
    \/ ClaimDeletion(c) \/ StageDeletion(c) \/ PublishStaged(c) \/ Cutover(c) \/ AbandonCutover(c)
    \/ WithdrawDeletion(c) \/ RemoveContent(c) \/ PublishRemoved(c) \/ PublishDeleted(c)
    \/ ConvergeDeletion(c)

Restoring(r) ==
    \/ FinishCommittedDeletions(r) \/ PreemptDeletion(r) \/ ClaimRestore(r) \/ RefuseRestore(r)
    \/ StartRestore(r) \/ VerifySegment(r) \/ VerificationFails(r) \/ PublishRestore(r)
    \/ PreparationFails(r) \/ DropReplacements(r) \/ FailRestore(r)
    \/ RemovePublishedArchive(r) \/ CompleteRestore(r) \/ AbandonCleanup(r)

Recovery ==
    \/ Restart \/ RecoverArchives \/ RecoverRestores \/ RecoverDeletions \/ DeletionsRecovered
    \/ RemoveUnreferencedArchiveFiles \/ FilesRecovered \/ RecoverRestoreCleanup

Next ==
    \/ Tick
    \/ \E e \in Exports : Receive(e)
    \/ \E enabled \in BOOLEAN : UpdateRetentionPolicy(enabled)
    \/ \E s \in Segments : Damage(s)
    \/ Close \/ Exit \/ Crash
    \/ \E c \in Cycles : BeginRetentionCycle(c) \/ Maintenance(c)
    \/ \E r \in Restores, scope \in Scopes : RequestRestore(r, scope)
    \/ \E r \in Restores : Restoring(r)
    \/ Recovery
    \/ RecoveryFails

Spec == Init /\ [][Next]_vars

----------------------------------------------------------------------------
(***************************************************************************)
(* Fairness: Go mutexes and channels serve their waiters in turn, so a      *)
(* goroutine that can take its next step again and again takes it; a        *)
(* process told to stop exits, and one that went down is started again.     *)
(***************************************************************************)
FairSpec ==
    /\ Spec
    /\ \A c \in Cycles : SF_vars(Maintenance(c))
    /\ \A r \in Restores : SF_vars(Restoring(r))
    /\ WF_vars(Recovery)
    /\ WF_vars(Exit)

----------------------------------------------------------------------------
(* Type correctness: every record keeps the shape of its table row or       *)
(* goroutine.                                                               *)
ExportRecord ==
    [state : {"absent", "active", "archived", "deleted"}, received : Nat, hold : Nat,
     home : Segments \union {None}, owner : Operations \union {None}]
Places == {"absent", "installed", "staged"}
SegmentRecord ==
    [state : {"unused", "current", "superseded", "restored", "deleted"},
     file : Places, damage : {"none", "payload", "metadata"},
     payload : {"intact", "corrupt"}, metadata : {"verifiable", "unverifiable"}]
Statuses == {"none", "running", "completed", "failed", "cancelled"}
Phases == {"none", "planned"} \union BeforeCutover \union AfterCutover
OperationRecord ==
    [kind : {"none", "archive", "delete", "restore"}, status : Statuses, phase : Phases,
     targets : SUBSET Exports, selected : SUBSET Exports,
     segment : Segments \union {None}, decided : Nat]
CycleSteps ==
    {"idle", "queued", "locking", "resume", "plan", "select", "claim", "build", "publish",
     "fail", "delete", "stage", "staged", "cutover", "withdraw", "remove", "removed",
     "terminal", "converge"}
CycleRecord ==
    [pc : CycleSteps, evaluatedAt : Nat, revision : Nat, exports : SUBSET Exports,
     segments : SUBSET Segments, groups : Nat, group : SUBSET Exports, todo : SUBSET Segments,
     op : Operations \union {None}, segment : Segments \union {None}]
RestoreSteps == {"idle", "claim", "queued", "verify", "drop", "fail", "clean"}
RestoreRecord ==
    [pc : RestoreSteps, scope : Scopes \union {NoScope}, op : Operations \union {None},
     segments : SUBSET Segments, todo : SUBSET Segments,
     fresh : [Segments -> Segments \union {None}]]
ScenarioRecord ==
    [actors : SUBSET (Cycles \union Restores), exports : SUBSET Exports, revisions : Nat,
     mishaps : SUBSET MishapKinds, most : Nat, happened : Seq(MishapKinds)]

TypeOK ==
    /\ now \in Nat
    /\ policyOn \in BOOLEAN
    /\ revision \in Nat
    /\ export \in [Exports -> ExportRecord]
    /\ segment \in [Segments -> SegmentRecord]
    /\ op \in [Operations -> OperationRecord]
    /\ process \in {"up", "down", "archives", "restores", "deletions", "files", "cleanup"}
    /\ closing \in BOOLEAN
    /\ gate \in Cycles \union Restores \union {Nobody}
    /\ mu \in Cycles \union Restores \union {Nobody}
    /\ cycle \in [Cycles -> CycleRecord]
    /\ restore \in [Restores -> RestoreRecord]
    /\ scenario \in ScenarioRecord
    /\ Len(scenario.happened) <= scenario.most

\* What is promised of a current segment's content.
ContentOutlivesAuthority ==
    \A s \in Current :
        \/ segment[s].file = "installed"
        \/ \E o \in Running("delete") :
              /\ op[o].segment = s
              /\ segment[s].file = "staged" \/ op[o].phase \in AfterCutover

\* Why a file may be on disk.
NoStrayFile ==
    (\A i \in DOMAIN scenario.happened : scenario.happened[i] # "fault") =>
    /\ \A s \in Segments : segment[s].file = "staged" =>
          \E o \in Running("delete") : op[o].segment = s
    /\ process = "up" /\ mu = Nobody /\ Running("restore") = {} =>
          \A s \in Segments : segment[s].file = "installed" => s \in Current

(* The content of a current segment stays on disk until the point of no     *)
(* return: its file is in place, or staged by a running deletion, or gone   *)
(* under a deletion that can only complete.  And a file on disk has a       *)
(* reason: an installed file is a current segment's or a goroutine or a     *)
(* published restore still works on it, and a staged file belongs to a      *)
(* running deletion, also across crashes and shutdowns, as long as no file  *)
(* operation has failed (DeleteArchiveSegment, removePublishedArchive,      *)
(* removeUnreferencedArchiveFiles).                                         *)
FilesFollowSegments == ContentOutlivesAuthority /\ NoStrayFile

(* An export is archived exactly when it is a member of one current         *)
(* segment, and no current segment is empty; a running operation owns every *)
(* export it targets and nothing else is owned, so no export is stuck with  *)
(* a finished operation and none has two owners, whatever archiving,        *)
(* partial restore, deletion and recovery did to both (PublishArchive,      *)
(* PublishRestore, DeleteArchiveSegment, recoverRetentionLifecycle).        *)
AuthorityIsExact ==
    /\ CatalogIsSound
    /\ \A o \in Operations : op[o].status = "running" =>
          Owned(o) = op[o].targets /\ op[o].targets # {}

(* The number of archive groups planned from metadata is the number the     *)
(* cycle will find, at every later point of the cycle: no "planned archive  *)
(* group is unavailable", nothing left over.                                *)
PlanStaysExact ==
    \A c \in Cycles : At(c, "select") => CountGroups(Archivable(c)) = cycle[c].groups

(* A restore that has verified its segments can publish: nobody else could  *)
(* change what it claimed while it was queued and while it prepared.        *)
ClaimHoldsUntilPublished ==
    \A r \in Restores :
        RestoreAt(r, "verify") /\ restore[r].todo = {} => RestorePublishable(r)

(* The end of an operation tells the truth about the content.  A completed  *)
(* archive or restore moved all its exports and a completed deletion        *)
(* removed them with their file; one that failed or was cancelled left all  *)
(* of them where they were, still readable.                                 *)
StillArchived(targets) ==
    \A e \in targets : export'[e].state = "archived" /\ segment'[export'[e].home].file = "installed"
OutcomeIsTrue(o) ==
    LET done == op'[o].status = "completed" IN
    CASE op[o].kind = "archive" ->
            IF done THEN StillArchived(op[o].targets)
                    ELSE \A e \in op[o].targets : export'[e].state = "active"
      [] op[o].kind = "restore" ->
            IF done THEN /\ \A e \in op[o].selected : export'[e].state = "active"
                         /\ StillArchived(op[o].targets \ op[o].selected)
                    ELSE StillArchived(op[o].targets)
      [] op[o].kind = "delete" ->
            IF done THEN /\ \A e \in op[o].targets : export'[e].state = "deleted"
                         /\ segment'[op[o].segment].file = "absent"
                    ELSE StillArchived(op[o].targets)
OutcomesAreTrue ==
    [][\A o \in Operations :
          op[o].status = "running" /\ op'[o].status # "running" => OutcomeIsTrue(o)]_vars

(* A deletion passes its point of no return only while the policy revision  *)
(* that decided it is in force, although the gate was yielded in between.   *)
DecisionStillStands ==
    [][\A o \in Running("delete") :
          op[o].phase \in BeforeCutover /\ op'[o].phase \in AfterCutover =>
              policyOn /\ revision = op[o].decided]_vars

(* When the store has opened, recovery has left nothing half done: no       *)
(* operation runs, no export is owned, and the files are exactly those of   *)
(* the current segments; a rebuild accepts that catalog, unless a file was  *)
(* damaged (recoverRetentionLifecycle, validateRetentionCatalog).           *)
RecoveryIsComplete ==
    [][process = "cleanup" /\ process' = "up" =>
          /\ \A o \in Operations : op'[o].status # "running"
          /\ \A e \in Exports : export'[e].owner = None
          /\ \A s \in Segments :
                segment'[s].file = IF segment'[s].state = "current" THEN "installed" ELSE "absent"
          /\ (\A s \in Current' : segment'[s].damage = "none") => ValidateRetentionCatalog']_vars

(* The lifecycle implements the custody every export was promised; an       *)
(* export is condemned when its deletion passed the point of no return.     *)
Condemned(e) ==
    /\ export[e].state = "archived"
    /\ export[e].owner \in Running("delete")
    /\ op[export[e].owner].phase \in AfterCutover
Custody == INSTANCE TelemetryCustody WITH
    custody  <- [e \in Exports |-> IF Condemned(e) THEN "condemned" ELSE export[e].state],
    received <- [e \in Exports |-> export[e].received],
    hold     <- [e \in Exports |-> export[e].hold]
KeepsCustody == Custody!CustodySpec

(* Every operation ends: a crash or a shutdown delays it to the next start. *)
EveryOperationEnds ==
    \A o \in Operations : op[o].status = "running" ~> op[o].status # "running"

(* Every cycle that began and every restore that was requested ends.        *)
EveryoneGetsThrough ==
    /\ \A c \in Cycles : cycle[c].pc = "queued" ~> cycle[c].pc = "idle"
    /\ \A r \in Restores : restore[r].pc = "claim" ~> restore[r].pc = "idle"

(* A segment is marked corrupt only when its payload is.                    *)
CorruptMarkIsTrue ==
    \A s \in Current : segment[s].payload = "corrupt" => segment[s].damage = "payload"
=============================================================================
