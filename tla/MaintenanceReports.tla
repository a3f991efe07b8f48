-------------------------- MODULE MaintenanceReports --------------------------
(***************************************************************************)
(* What the maintenance cycles report of themselves (internal/retention,    *)
(* internal/storage/sqlite): each writes a row when it begins, the number   *)
(* of operations it planned, the operations one by one, and at its end an   *)
(* aggregate of them.  A cycle that could not, because its process ended or *)
(* the write failed, is reported by a later cycle or by the next start.     *)
(*                                                                         *)
(* RetentionLifecycle has what the operations do to exports and files; here *)
(* they only run and end.  Terminal operations are pruned as early as the   *)
(* code may prune them: the number that is kept is taken to be none.        *)
(***************************************************************************)
EXTENDS Integers, FiniteSets, Sequences, FiniteSetsExt

CONSTANTS
    Cycles,            \* the cycles, in the order they begin
    MaxChildren,       \* bound: operations a cycle plans
    MaxReportMishaps   \* bound: crashes and failed writes

ASSUME ReportsAssumption == Cycles \subseteq Nat /\ MaxChildren \in Nat /\ MaxReportMishaps \in Nat

VARIABLES
    row,       \* retention_cycles: each cycle's report
    child,     \* retention_operations of each cycle, in the order they were requested
    worker,    \* where each cycle is, what it has left to do, whether it failed
    service,   \* up, down, or the stage of the recovery at its start
    mishaps    \* crashes and failed writes so far

reportVars == <<row, child, worker, service, mishaps>>

Terminal == {"completed", "failed", "cancelled"}
Unplanned == -1
NoCounts == [status \in Terminal \cup {"running"} |-> 0]
NoRow == [status |-> "none", cohort |-> FALSE, planned |-> Unplanned, error |-> FALSE, counts |-> NoCounts]
Gone == {"new", "over"}

ReportsInit ==
    /\ row = [c \in Cycles |-> NoRow]
    /\ child = [c \in Cycles |-> << >>]
    /\ worker = [c \in Cycles |-> [at |-> "new", archives |-> 0, deletions |-> 0, failed |-> FALSE, about |-> c]]
    /\ service = "up"
    /\ mishaps = 0

Trouble == mishaps < MaxReportMishaps /\ mishaps' = mishaps + 1
NoTrouble == UNCHANGED mishaps

WorkerAt(c, at) == service = "up" /\ worker[c].at = at
WorkerTo(c, at) == worker' = [worker EXCEPT ![c].at = at]
Errs(c) == worker' = [worker EXCEPT ![c].at = "completing", ![c].failed = TRUE]

\* One cycle at a time has service.mu; one that begins or resumes has the write gate.
MutexIsFree == \A c \in Cycles : worker[c].at \in Gone \cup {"measuring", "queued"}
GateIsOpen == \A c \in Cycles : worker[c].at \notin {"measuring", "rediscovering", "resuming", "reporting"}

-----------------------------------------------------------------------------
(* Operations of a cycle *)

Stored(c) == {n \in DOMAIN child[c] : child[c][n].kept}
Tally(c, operations) == [status \in Terminal \cup {"running"} |->
                           Cardinality({n \in operations : child[c][n].status = status})]

RunningDeletions ==
    UNION {{c} \X {n \in DOMAIN child[c] : child[c][n].kind = "delete" /\ child[c][n].status = "running"} : c \in Cycles}

\* The operations with one of them ended, and those no longer kept gone.
PruneTerminalOperations(children, rows) ==
    [c \in Cycles |-> [n \in DOMAIN children[c] |->
        IF children[c][n].status \in Terminal /\ rows[c].status # "running"
        THEN [children[c][n] EXCEPT !.kept = FALSE] ELSE children[c][n]]]

\* The first stored operation that is not over, or failed, decides.
AggregateCycle(c) ==
    LET decisive == {n \in Stored(c) : child[c][n].status \in {"running", "failed"}}
    IN  IF Stored(c) # {} /\ \A n \in Stored(c) : child[c][n].status = "cancelled" THEN "cancelled"
        ELSE IF decisive = {} THEN "completed"
        ELSE child[c][Min(decisive)].status

Reported(c, status, error) ==
    [row EXCEPT ![c].status = status, ![c].error = error, ![c].counts = Tally(c, Stored(c))]

-----------------------------------------------------------------------------
(* A cycle *)

InsertCycle(c) ==
    /\ WorkerAt(c, "new") /\ GateIsOpen
    /\ \A d \in Cycles : d < c => worker[d].at # "new"
    /\ row' = [row EXCEPT ![c].status = "running"]
    /\ WorkerTo(c, "measuring")
    /\ UNCHANGED <<child, service, mishaps>>

KnowCohort(c) ==
    /\ WorkerAt(c, "measuring")
    /\ row' = [row EXCEPT ![c].cohort = TRUE]
    /\ WorkerTo(c, "queued")
    /\ UNCHANGED <<child, service, mishaps>>

\* A cycle without a cohort says that it failed, unless that fails as well.
CohortFails(c) ==
    /\ WorkerAt(c, "measuring")
    /\ Trouble
    /\ row' \in {row, [row EXCEPT ![c].status = "failed", ![c].error = TRUE]}
    /\ WorkerTo(c, "over")
    /\ UNCHANGED <<child, service>>

\* ResumeRetentionDeletions: first the cycles that have only to be reported.
Resume(c) ==
    /\ WorkerAt(c, "queued") /\ MutexIsFree /\ GateIsOpen
    /\ WorkerTo(c, "rediscovering")
    /\ UNCHANGED <<row, child, service, mishaps>>

ResumeFails(c) ==
    /\ service = "up" /\ worker[c].at \in {"rediscovering", "resuming", "reporting"}
    /\ Trouble
    /\ Errs(c)
    /\ UNCHANGED <<row, child, service>>

\* completeRecoverableDeletionCycles
\* Fault: only a cycle all of whose operations completed is found.
RediscoverCompleted(c) ==
    /\ row[c].status = "running" /\ row[c].planned = Cardinality(Stored(c))
    /\ \A n \in Stored(c) : child[c][n].status = "completed"
Rediscoverable(c) ==
    /\ row[c].status = "running" /\ row[c].planned = Cardinality(Stored(c))
    /\ \E n \in Stored(c) : child[c][n].kind = "delete"
    /\ \A n \in Stored(c) : child[c][n].status \in Terminal

\* What the aggregate of an interrupted cycle comes to.
RecoveredStatus(c) ==
    LET aggregate == AggregateCycle(c)
    IN  CASE ~row[c].cohort \/ row[c].planned = Unplanned \/ row[c].planned # Cardinality(Stored(c)) -> "failed"
          [] aggregate # "running" /\ row[c].error -> "failed"
          [] OTHER -> aggregate

CompleteRecoveredCycle(c) ==
    row' = IF row[c].status # "running" \/ RecoveredStatus(c) = "running" THEN row
           ELSE Reported(c, RecoveredStatus(c), RecoveredStatus(c) = "failed")

Rediscover(c) ==
    /\ WorkerAt(c, "rediscovering")
    /\ \/ \E d \in Cycles : Rediscoverable(d) /\ CompleteRecoveredCycle(d) /\ UNCHANGED worker
       \/ (\A d \in Cycles : ~Rediscoverable(d)) /\ WorkerTo(c, "resuming") /\ UNCHANGED row
    /\ UNCHANGED <<child, service, mishaps>>

\* A deletion before its cutover is cancelled, one after it is completed.
EndDeletion(operation) ==
    \E status \in {"cancelled", "completed"} :
        child' = [child EXCEPT ![operation[1]][operation[2]].status = status]

ResumeDeletion(c) ==
    /\ WorkerAt(c, "resuming")
    /\ \/ \E operation \in RunningDeletions :
              /\ EndDeletion(operation)
              /\ worker' = [worker EXCEPT ![c].at = "reporting", ![c].about = operation[1]]
       \/ RunningDeletions = {} /\ WorkerTo(c, "planning") /\ UNCHANGED child
    /\ UNCHANGED <<row, service, mishaps>>

ReportResumed(c) ==
    /\ WorkerAt(c, "reporting")
    /\ CompleteRecoveredCycle(worker[c].about)
    /\ WorkerTo(c, "resuming")
    /\ UNCHANGED <<child, service, mishaps>>

\* What is due is counted, archives first, and written down; with the policy
\* disabled it is nothing.
MarkRetentionCyclePlanned(c) ==
    /\ WorkerAt(c, "planning") /\ GateIsOpen
    /\ \E archives, deletions \in 0 .. MaxChildren :
          /\ archives + deletions <= MaxChildren
          /\ row' = [row EXCEPT ![c].planned = archives + deletions]
          /\ worker' = [worker EXCEPT ![c].at = "working", ![c].archives = archives, ![c].deletions = deletions]
    /\ UNCHANGED <<child, service, mishaps>>

PlanFails(c) ==
    /\ WorkerAt(c, "planning")
    /\ Trouble
    /\ Errs(c)
    /\ UNCHANGED <<row, child, service>>

\* An operation is claimed, or what was planned is not available any more.
ClaimChild(c) ==
    /\ WorkerAt(c, "working") /\ worker[c].archives + worker[c].deletions > 0 /\ GateIsOpen
    /\ \/ /\ child' = [child EXCEPT ![c] = Append(@, [kind |-> IF worker[c].archives > 0 THEN "archive" ELSE "delete",
                                                     status |-> "running", kept |-> TRUE])]
          /\ worker' = [worker EXCEPT ![c].at = "operating",
                                      ![c].archives = IF @ > 0 THEN @ - 1 ELSE @,
                                      ![c].deletions = IF worker[c].archives > 0 THEN @ ELSE @ - 1]
          /\ NoTrouble
       \/ Trouble /\ Errs(c) /\ UNCHANGED child
    /\ UNCHANGED <<row, service>>

LastChild(c) == Len(child[c])
LastEnds(c, status) == child' = PruneTerminalOperations([child EXCEPT ![c][LastChild(c)].status = status], row)

\* The operation ends, or a restore had cancelled it: the cycle goes on.
ChildCompletes(c) ==
    /\ WorkerAt(c, "operating") /\ GateIsOpen
    /\ \/ child[c][LastChild(c)].status = "running" /\ LastEnds(c, "completed")
       \/ child[c][LastChild(c)].status = "cancelled" /\ UNCHANGED child
    /\ WorkerTo(c, "working")
    /\ UNCHANGED <<row, service, mishaps>>

\* It fails, also where the failure cannot be written; a deletion that failed
\* may have converged all the same.
ChildFails(c) ==
    /\ WorkerAt(c, "operating")
    /\ Trouble
    /\ \/ UNCHANGED child
       \/ /\ child[c][LastChild(c)].status = "running"
          /\ \E status \in IF child[c][LastChild(c)].kind = "archive" THEN {"failed"} ELSE Terminal : LastEnds(c, status)
    /\ Errs(c)
    /\ UNCHANGED <<row, service>>

\* A restore cancels a deletion that yielded to it, and finishes one that was left.
RestoreEndsDeletion ==
    /\ service = "up" /\ GateIsOpen
    /\ \E operation \in RunningDeletions :
          /\ worker[operation[1]].at \in Gone \cup {"operating"}
          /\ EndDeletion(operation)
          /\ worker[operation[1]].at = "operating" => child'[operation[1]][operation[2]].status = "cancelled"
    /\ UNCHANGED <<row, worker, service, mishaps>>

\* The aggregate, unless an operation still runs; the error is written in any case.
CompleteRetentionCycle(c) ==
    LET failed == worker[c].failed \/ row[c].planned # Cardinality(Stored(c))
        aggregate == AggregateCycle(c)
        reported == IF aggregate = "running" THEN [row EXCEPT ![c].error = @ \/ failed]
                    ELSE Reported(c, IF failed THEN "failed" ELSE aggregate, failed \/ aggregate = "failed")
    IN  /\ service = "up" /\ GateIsOpen
        /\ \/ worker[c].at = "completing"
           \/ worker[c].at = "working" /\ worker[c].archives + worker[c].deletions = 0
        /\ row' = reported
        /\ child' = IF aggregate = "running" THEN child ELSE PruneTerminalOperations(child, reported)
        /\ WorkerTo(c, "over")
        /\ UNCHANGED <<service, mishaps>>

CompletionFails(c) ==
    /\ service = "up"
    /\ \/ worker[c].at = "completing"
       \/ worker[c].at = "working" /\ worker[c].archives + worker[c].deletions = 0
    /\ Trouble
    /\ WorkerTo(c, "over")
    /\ UNCHANGED <<row, child, service>>

-----------------------------------------------------------------------------
(* The process ends and starts *)

EndService ==
    /\ Trouble
    /\ service' = "down"
    /\ worker' = [c \in Cycles |-> IF worker[c].at = "new" THEN worker[c] ELSE [worker[c] EXCEPT !.at = "over"]]
    /\ UNCHANGED <<row, child>>

\* An archive that was interrupted failed.
RecoverInterruptedArchives ==
    /\ service = "down"
    /\ service' = "rediscovering"
    /\ child' = [c \in Cycles |-> [n \in DOMAIN child[c] |->
                    IF child[c][n].kind = "archive" /\ child[c][n].status = "running"
                    THEN [child[c][n] EXCEPT !.status = "failed"] ELSE child[c][n]]]
    /\ UNCHANGED <<row, worker, mishaps>>

RediscoverAtStart ==
    /\ service = "rediscovering"
    /\ \/ \E c \in Cycles : Rediscoverable(c) /\ CompleteRecoveredCycle(c) /\ UNCHANGED service
       \/ (\A c \in Cycles : ~Rediscoverable(c)) /\ service' = "deletions" /\ UNCHANGED row
    /\ UNCHANGED <<child, worker, mishaps>>

RecoverDeletionsAtStart ==
    /\ service = "deletions"
    /\ \/ \E operation \in RunningDeletions : EndDeletion(operation) /\ UNCHANGED service
       \/ RunningDeletions = {} /\ service' = "reports" /\ UNCHANGED child
    /\ UNCHANGED <<row, worker, mishaps>>

CompleteRecoveredCycles ==
    /\ service = "reports"
    /\ \/ \E c \in Cycles : row[c].status = "running" /\ CompleteRecoveredCycle(c) /\ UNCHANGED service
       \/ (\A c \in Cycles : row[c].status # "running") /\ service' = "up" /\ UNCHANGED row
    /\ UNCHANGED <<child, worker, mishaps>>

-----------------------------------------------------------------------------

CycleStep(c) ==
    \/ InsertCycle(c) \/ KnowCohort(c) \/ CohortFails(c)
    \/ Resume(c) \/ ResumeFails(c) \/ Rediscover(c) \/ ResumeDeletion(c) \/ ReportResumed(c)
    \/ MarkRetentionCyclePlanned(c) \/ PlanFails(c)
    \/ ClaimChild(c) \/ ChildCompletes(c) \/ ChildFails(c)
    \/ CompleteRetentionCycle(c) \/ CompletionFails(c)

StartStep ==
    \/ RecoverInterruptedArchives \/ RediscoverAtStart \/ RecoverDeletionsAtStart \/ CompleteRecoveredCycles

ReportsNext == (\E c \in Cycles : CycleStep(c)) \/ RestoreEndsDeletion \/ EndService \/ StartStep

ReportsSpec == ReportsInit /\ [][ReportsNext]_reportVars

-----------------------------------------------------------------------------
(* Correctness *)

\* What RetentionCycles returns of a cycle's operations: of one that runs they are counted.
ReportedCounts(c) == IF row[c].status = "running" THEN Tally(c, Stored(c)) ELSE row[c].counts

\* A report is true of all the operations there ever were, and stays so.
ReportIsTrue(c) ==
    LET all == {child[c][n].status : n \in DOMAIN child[c]}
    IN  /\ row[c].status \in {"completed", "cancelled"} => row[c].planned = Len(child[c])
        /\ row[c].status = "completed" => all \subseteq {"completed", "cancelled"} /\ all # {"cancelled"}
        /\ row[c].status = "cancelled" => all = {"cancelled"}
        /\ row[c].status = "failed" => row[c].error
        /\ row[c].status \in Terminal => "running" \notin all
        /\ row[c].status # "none" => ReportedCounts(c) = Tally(c, DOMAIN child[c])

\* Every report is true.  A cycle that planned and published its deletions, and
\* whose operations are over, has its report when a later cycle has gone
\* through its resumption; and when the service is up, every cycle of an
\* earlier process has (ResumeRetentionDeletions, completeRecoveredCycles).
ReportsAreTrue ==
    /\ [](\A c \in Cycles : ReportIsTrue(c))
    /\ [][\A c \in Cycles : (worker[c].at = "resuming" /\ worker'[c].at = "planning") =>
              \A d \in Cycles :
                  (/\ worker[d].at = "over" /\ row[d].planned = Len(child[d])
                   /\ \E n \in DOMAIN child[d] : child[d][n].kind = "delete"
                   /\ \A n \in DOMAIN child[d] : child[d][n].status \in Terminal) => row[d].status \in Terminal]_reportVars
    /\ [][service # "up" /\ service' = "up" => \A c \in Cycles : row[c].status # "running"]_reportVars
===============================================================================
