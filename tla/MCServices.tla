------------------------------- MODULE MCServices -------------------------------
(***************************************************************************)
(* Four parts of the service that share no state, each on instances of its  *)
(* own: what a session's rework is computed from, the rebuild of a database,*)
(* the process from its start to its exit, and what its cycles report.  One *)
(* part runs in a behaviour; the others stay as they begin.                 *)
(***************************************************************************)
EXTENDS ReworkAnalysis, ReplayPipeline, ServingShutdown, MaintenanceReports

VARIABLE part   \* the part that runs

(* Sessions: small sets of activities, and orders in which they are stored *)

Tokens(input, output) == [input |-> input, output |-> output, partial |-> FALSE]

\* A tool call of an agent: its span from one moment to another.
Call(span, agent, start, end) ==
    [signal |-> "trace", span |-> span, name |-> 1, agent |-> agent, words |-> {}, command |-> Nothing, model |-> Nothing,
     dir |-> Nothing, file |-> Nothing, tool |-> "shell", call |-> Nothing, says |-> <<"">>, error |-> Nothing,
     started |-> start, ended |-> end, observed |-> end, tokens |-> Tokens(1, 1), counts |-> TRUE]

Test(item, outcome) == [item EXCEPT !.words = {"test"}, !.command = "t", !.says = <<outcome>>]
Edit(item) == [item EXCEPT !.words = {"edit"}, !.tool = "edit", !.file = "f"]
Log(item) == [item EXCEPT !.signal = "log", !.span = NoSpanId, !.started = NoTime, !.ended = NoTime]
Named(item, id) == [item EXCEPT !.call = id]
Because(item, error) == [item EXCEPT !.error = error]

Api(item, model, says) == [item EXCEPT !.words = {"api_call"}, !.tool = Nothing, !.model = model, !.says = says]

\* Failures, edits and retries of two agents.
Corrections ==
    <<Test(Call(1, 2, 1, 3), "error"), Edit(Call(2, 2, 2, 5)), Edit(Call(3, 3, 4, 4)),
      Test(Call(4, 2, 4, 6), "error"), Edit(Call(8, 2, 6, 6)), Test(Log(Call(6, 2, 0, 7)), "error"),
      [Edit(Call(9, 2, 7, 8)) EXCEPT !.tokens = NoTokens],
      Test(Call(5, 2, 8, 9), "ok"), [Call(7, 2, 1, 9) EXCEPT !.tokens = Tokens(Missing, 1)]>>

\* The main agent under its two names, commands and files tried again.
MainWork ==
    <<Test(Call(1, 0, 1, 2), "error"), Edit(Call(2, 0, 2, 3)), Test(Call(3, 1, 2, 4), "error"), Edit(Call(4, 1, 4, 6)),
      [Test(Call(5, 0, 3, 5), "ok") EXCEPT !.tokens = NoTokens],
      [Call(6, 1, 5, 7) EXCEPT !.command = "t", !.says = <<"", "ok">>],
      Test(Log(Call(7, 0, 0, 5)), "error"), Test(Log(Call(8, 0, 0, 5)), "error"), Test(Call(9, 1, 6, 8), "ok")>>

\* Observations of calls: agreeing, conflicting and uncorrelated.
Observations ==
    <<Because(Named(Test(Call(1, 2, 2, 4), "error"), "a"), "e"), Because(Named(Test(Log(Call(2, 2, 0, 1)), "error"), "a"), "f"),
      Named([Log(Call(3, 2, 0, 3)) EXCEPT !.command = "u", !.words = {"build"}, !.says = <<"", "error">>], "a"),
      Named(Test(Call(4, 2, 3, 5), ""), "b"), Named(Test(Log(Call(5, 2, 0, 6)), "ok"), "b"),
      [Test(Log(Call(6, 2, 0, 5)), "error") EXCEPT !.tool = Nothing],
      [Named(Log(Call(7, 2, 0, 2)), "b") EXCEPT !.dir = "d"], Because(Named(Test(Call(8, 0, 4, 4), "error"), "a"), "e")>>

\* The same error again, before and after a success, and of another agent.
Loops ==
    <<Because(Test(Call(1, 2, 1, 2), "error"), "e"), Because(Test(Call(2, 2, 2, 3), "error"), "e"),
      Because(Test(Call(3, 2, 3, 4), "error"), "f"), Test(Call(4, 2, 4, 5), "ok"),
      Because(Test(Call(5, 2, 5, 6), "error"), "e"), Because(Test(Call(6, 3, 2, 4), "error"), "e"),
      Because(Test(Call(7, 2, 6, 7), "error"), "e"), Because(Test(Call(8, 3, 5, 6), "error"), "e"), Test(Call(9, 2, 7, 8), "ok")>>

\* Calls of a model that fail and are made again.
Requests ==
    <<Api(Call(1, 2, 1, 3), "m", <<"", "", "", "error">>), Api(Call(2, 2, 3, 4), "m", <<"ok">>),
      [Api(Log(Call(3, 2, 0, 2)), Nothing, <<"error">>) EXCEPT !.counts = FALSE], Api(Call(4, 2, 4, 5), Nothing, <<"">>)>>

Forward == {Corrections, MainWork, Observations, Loops, Requests}

\* Stored as they happened, the other way round, and one from either end in turn.
Shuffled(all) ==
    LET n == Len(all)
    IN  [i \in 1 .. n |-> IF i % 2 = 1 THEN all[(i + 1) \div 2] ELSE all[n + 1 - i \div 2]]

MCHistories == UNION {{all, Reverse(all), Shuffled(all)} : all \in Forward}
(* Databases: the journal that is rebuilt, and those that are not *)

Older == [kind |-> "older", force |-> FALSE, sizes |-> <<1, 1, 2>>, damaged |-> {}, retained |-> <<"archived", "deleted">>]

\* Against MaxBatchRecords = 2 and MaxBatchBytes = 3: batches that end by their
\* records and by their bytes, a damaged export, a journal without exports.
MCDatabases ==
    {Older, [Older EXCEPT !.sizes = <<2, 2, 1, 1, 1>>], [Older EXCEPT !.damaged = {2}],
     [Older EXCEPT !.sizes = << >>, !.retained = << >>]}
      \cup {[Older EXCEPT !.kind = kind, !.force = force, !.sizes = <<1>>] :
                kind \in {"none", "empty", "newer", "unjournaled", "current", "projections"}, force \in BOOLEAN}

-----------------------------------------------------------------------------

ServicesInit ==
    /\ part \in {"rework", "rebuild", "process", "reports"}
    /\ ReworkInit /\ (part # "rework" => history = Requests)
    /\ PipelineInit /\ (part # "rebuild" => database = Older)
    /\ ServingInit
    /\ ReportsInit

Rework == part = "rework" /\ UNCHANGED <<part, pipelineVars, servingVars, reportVars>>
Rebuild == part = "rebuild" /\ UNCHANGED <<part, reworkVars, servingVars, reportVars>>
Process == part = "process" /\ UNCHANGED <<part, reworkVars, pipelineVars, reportVars>>
Report == part = "reports" /\ UNCHANGED <<part, reworkVars, pipelineVars, servingVars>>

\* The actions of ReworkNext, PipelineNext, ServingNext and ReportsNext.
ServicesNext ==
    \/ Rework /\ \E n \in DOMAIN history : ObserveActivity(n)
    \/ Rebuild /\ CheckContext
    \/ Rebuild /\ ReadRow
    \/ Rebuild /\ RowsBreak
    \/ Rebuild /\ Prepare
    \/ Rebuild /\ StopOffering
    \/ Rebuild /\ HandOff
    \/ Rebuild /\ StopReceiving
    \/ Rebuild /\ CommitReplayBatch
    \/ Rebuild /\ CommitFails
    \/ Rebuild /\ CancelProducer
    \/ Rebuild /\ JoinProducer
    \/ Rebuild /\ Decide
    \/ Rebuild /\ OpenBuild
    \/ Rebuild /\ CloseReader
    \/ Rebuild /\ FinalizeReplay
    \/ Rebuild /\ \E rows \in 0 .. Len(database.retained) : CopyRetentionCatalog(rows)
    \/ Rebuild /\ ReleaseSource
    \/ Rebuild /\ FinalizeCandidate
    \/ Rebuild /\ ValidateCandidate
    \/ Rebuild /\ CancelBuild
    \/ Rebuild /\ RowsCancelled
    \/ Rebuild /\ StepFails
    \/ Process /\ Alive /\ Migrated
    \/ Process /\ Alive /\ MigrationFails
    \/ Process /\ Alive /\ LeaveFailedMigration
    \/ Process /\ Alive /\ OpenStore
    \/ Process /\ Alive /\ OpenFails
    \/ Process /\ Alive /\ Listen
    \/ Process /\ Alive /\ ListenFails
    \/ Process /\ Alive /\ StopServing
    \/ Process /\ Alive /\ ForceStop
    \/ Process /\ Alive /\ CollectErrors
    \/ Process /\ Alive /\ JoinErrors
    \/ Process /\ Alive /\ CloseStore
    \/ Process /\ Alive /\ Signal
    \/ Process /\ Alive /\ DeadlinePasses
    \/ Process /\ Alive /\ \E server \in Servers : ServerFails(server)
    \/ Process /\ Alive /\ GracefulStop
    \/ Process /\ Alive /\ \E server \in {"otlp", "dashboard"} : Shutdown(server)
    \/ Process /\ Alive /\ CancelServices
    \/ Process /\ Alive /\ CloseScheduler
    \/ Process /\ Alive /\ CloseCommitter
    \/ Process /\ Alive /\ \E c \in Calls : Arrive(c)
    \/ Process /\ Alive /\ \E c \in Calls : Admit(c)
    \/ Process /\ Alive /\ \E c \in Calls : AcceptRestore(c)
    \/ Process /\ Alive /\ \E c \in Calls : LeaveCall(c)
    \/ Process /\ Alive /\ \E c \in Calls : Abandon(c)
    \/ Process /\ Alive /\ \E c \in Calls : Answer(c)
    \/ Process /\ Alive /\ DrainCommitter
    \/ Process /\ Alive /\ Launch
    \/ Process /\ Alive /\ CycleEnds
    \/ Process /\ Alive /\ LoopEnds
    \/ Process /\ Alive /\ RestoreEnds
    \/ Report /\ \E c \in Cycles : InsertCycle(c)
    \/ Report /\ \E c \in Cycles : KnowCohort(c)
    \/ Report /\ \E c \in Cycles : CohortFails(c)
    \/ Report /\ \E c \in Cycles : Resume(c)
    \/ Report /\ \E c \in Cycles : ResumeFails(c)
    \/ Report /\ \E c \in Cycles : Rediscover(c)
    \/ Report /\ \E c \in Cycles : ResumeDeletion(c)
    \/ Report /\ \E c \in Cycles : ReportResumed(c)
    \/ Report /\ \E c \in Cycles : MarkRetentionCyclePlanned(c)
    \/ Report /\ \E c \in Cycles : PlanFails(c)
    \/ Report /\ \E c \in Cycles : ClaimChild(c)
    \/ Report /\ \E c \in Cycles : ChildCompletes(c)
    \/ Report /\ \E c \in Cycles : ChildFails(c)
    \/ Report /\ \E c \in Cycles : CompleteRetentionCycle(c)
    \/ Report /\ \E c \in Cycles : CompletionFails(c)
    \/ Report /\ RestoreEndsDeletion
    \/ Report /\ EndService
    \/ Report /\ RecoverInterruptedArchives
    \/ Report /\ RediscoverAtStart
    \/ Report /\ RecoverDeletionsAtStart
    \/ Report /\ CompleteRecoveredCycles

servicesVars == <<part, reworkVars, pipelineVars, servingVars, reportVars>>

\* Both goroutines of a rebuild are scheduled; nobody has to fail or to cancel.
RebuildFairness ==
    /\ WF_servicesVars(Rebuild /\ ProducerStep)
    /\ WF_servicesVars(Rebuild /\ ConsumerStep)
    /\ WF_servicesVars(Rebuild /\ BuildStep)

Live == Process /\ Alive

\* Of a process only what was cancelled has to end: a call whose connection was
\* closed, the cycle and the restores of a closed scheduler; a committer answers
\* what it admitted.  Where a tick and the cancellation are both ready, either is
\* taken.
ProcessFairness ==
    /\ WF_servicesVars(Live /\ RunStep)
    /\ WF_servicesVars(Live /\ DeadlinePasses)
    /\ \A o \in Owners : WF_servicesVars(Live /\ OwnerStep(o))
    /\ \A c \in Calls : /\ WF_servicesVars(Live /\ ServerOf(c) \in torn /\ LeaveCall(c))
                        /\ WF_servicesVars(Live /\ Answer(c))
    /\ WF_servicesVars(Live /\ DrainCommitter)
    /\ WF_servicesVars(Live /\ scheduler = "launching" /\ Launch)
    /\ WF_servicesVars(Live /\ Cancelled /\ CycleEnds)
    /\ SF_servicesVars(Live /\ LoopEnds)
    /\ WF_servicesVars(Live /\ Cancelled /\ RestoreEnds)

Spec == ServicesInit /\ [][ServicesNext]_servicesVars /\ RebuildFairness /\ ProcessFairness

\* A rebuild ends, and so does a process that was told to (BuildEnds, ShutdownEnds).
EverythingEnds ==
    /\ part = "rebuild" ~> stage \in Ends
    /\ ShutdownEnds
===============================================================================
