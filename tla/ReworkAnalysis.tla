---------------------------- MODULE ReworkAnalysis ----------------------------
(***************************************************************************)
(* The rework report of a session (internal/query): failures that were      *)
(* corrected and tried again, failures that came back, the effort they      *)
(* took, and the ratios that compare one session with another.              *)
(*                                                                         *)
(* Activities of a session arrive one by one; a report is computed from     *)
(* all of them whenever it is asked for.                                    *)
(***************************************************************************)
EXTENDS ReworkEvents

CONSTANT Histories     \* sequences of activities that may be stored, some of them

VARIABLES
    history,         \* the activities that may still be stored
    activities       \* those that were, in the order they are read

reworkVars == <<history, activities>>

-----------------------------------------------------------------------------
(* Time spent *)

\* What starts at a time, behind all that does not start later.
InsertByStart(sorted, one) ==
    SelectSeq(sorted, LAMBDA other : other.start <= one.start) \o <<one>>
        \o SelectSeq(sorted, LAMBDA other : other.start > one.start)

Sweep(swept, interval) ==
    IF interval.start <= swept.end THEN [swept EXCEPT !.end = Max({@, interval.end})]
    ELSE [total |-> swept.total + swept.end - swept.start, start |-> interval.start, end |-> interval.end]

Swept(sorted) == FoldLeft(Sweep, [total |-> 0, start |-> 0, end |-> 0], sorted)

SweptTime(swept) == swept.total + swept.end - swept.start

\* The time that intervals cover, swept by their start.
MergedDuration(intervals) ==
    SweptTime(Swept(FoldSet(LAMBDA interval, sorted : InsertByStart(sorted, interval), << >>, intervals)))

Interval(start, end) == [start |-> start, end |-> end]

AgentsOf(events) == {EffortAgent(events[i].agent) : i \in DOMAIN events}

WorkOf(events, agent) ==
    {i \in DOMAIN events : EffortAgent(events[i].agent) = agent /\ events[i].duration > 0}

\* The time all agents were active, each counted for itself.
ActiveDuration(events) ==
    MapThenSumSet(LAMBDA agent : MergedDuration({Interval(events[i].started, events[i].ended) : i \in WorkOf(events, agent)}),
                  AgentsOf(events))

SumTokens(events, indices) ==
    FoldSet(LAMBDA i, usage : AddTokens(usage, events[i].tokens), NoTokens, indices)

-----------------------------------------------------------------------------
(* Failures that come back *)

OpenEpisode(attempt, key) ==
    [key |-> key, agent |-> attempt.agent, operation |-> attempt.operation, start |-> EventTime(attempt), end |-> EventEnd(attempt),
     resolved |-> FALSE, failures |-> 0, errors |-> << >>]

ExtendEpisode(episode, attempt) ==
    [episode EXCEPT !.end = EventEnd(attempt),
                    !.failures = @ + 1,
                    !.errors = IF attempt.error = Nothing THEN @ ELSE Append(@, attempt.error)]

ResolveEpisode(episode, attempt) == [episode EXCEPT !.end = EventEnd(attempt), !.resolved = TRUE]

\* A failure opens an episode of what was validated or goes on with it, a success ends it.
FollowAttempt(found, attempt) ==
    LET key == ValidationIdentity(attempt)
        open == {episode \in found.open : episode.key = key}
    IN  CASE attempt.success = "unknown" \/ attempt.attempt = NoAttempt \/ key = NoIdentity -> found
          [] attempt.success = "ok" /\ attempt.attempt # NoAttempt /\ key # NoIdentity ->
                [open   |-> found.open \ open,
                 closed |-> found.closed \o SetToSeq({ResolveEpisode(episode, attempt) : episode \in open})]
          [] OTHER ->
                [found EXCEPT !.open = (@ \ open)
                    \cup {ExtendEpisode(episode, attempt) : episode \in IF open = {} THEN {OpenEpisode(attempt, key)} ELSE open}]

\* By their start, those that start together as they are.
EpisodesInOrder(all) == FoldLeft(InsertByStart, << >>, all)

\* Those still open follow the others in any order, here in one.
EpisodesOf(found) == EpisodesInOrder(found.closed \o SetToSeq(found.open))

DetectFailureEpisodes(attempts) == EpisodesOf(FoldLeft(FollowAttempt, [open |-> {}, closed |-> << >>], attempts))

RepeatedErrors(episode) ==
    {error \in ToSet(episode.errors) : Cardinality({n \in DOMAIN episode.errors : episode.errors[n] = error}) >= 2}

Recurring(episode) == RepeatedErrors(episode) # {}

Indices(events) == [i \in 1 .. Len(events) |-> i]

\* The events of the episode's agent that count and were observed while it lasted.
EffortWithin(events, episode) ==
    {i \in DOMAIN events :
        LET event == events[i]
            at == IF event.observed # NoTime THEN event.observed ELSE EventEnd(event)
        IN  /\ EffortAgent(event.agent) = EffortAgent(episode.agent)
            /\ event.counts
            /\ episode.start <= at /\ at <= episode.end}

SumFirstMet(events, met) ==
    LET Key(n) == EvidenceKey(events[met[n]])
    IN  SumTokens(events, {met[n] : n \in {n \in DOMAIN met : \A m \in 1 .. n - 1 : Key(m) # Key(n)}})

\* Evidence counts where it is first met, however many episodes it belongs to.
AggregateResolutionTokens(events, episodes) ==
    LET resolved == SelectSeq(episodes, LAMBDA episode : episode.resolved /\ Recurring(episode))
        Within(episode) == SelectSeq(Indices(events), LAMBDA i : i \in EffortWithin(events, episode))
    IN  SumFirstMet(events, FoldLeft(LAMBDA met, episode : met \o Within(episode), << >>, resolved))

EpisodeReport(events, episode) ==
    [agent    |-> episode.agent,
     of       |-> episode.key,
     errors   |-> RepeatedErrors(episode),
     failures |-> episode.failures,
     resolved |-> episode.resolved,
     duration |-> IF episode.resolved THEN PositiveDuration(episode.start, episode.end) ELSE 0,
     tokens   |-> IF episode.resolved THEN SumTokens(events, EffortWithin(events, episode)) ELSE NoTokens]

-----------------------------------------------------------------------------
(* Failures that are corrected and tried again *)

Repeatable == {"execute", "test", "build", "lint"}

\* What makes an event a retry of another.
RetryKey(event) ==
    LET target == FirstText(FirstText(event.command, event.file), event.tool)
        named == IF event.operation = "api_call" THEN FirstText(target, "model-api") ELSE target
    IN  IF named = Nothing THEN NoIdentity ELSE <<event.agent, event.operation, named>>

\* Fault: an edit corrects whatever failed.
CorrectAnything(pending, event) ==
    {IF event.operation = "edit" THEN [candidate EXCEPT !.corrected = TRUE] ELSE candidate : candidate \in pending}

\* An edit corrects the failures of its own agent.
Correct(pending, event) ==
    {IF event.operation = "edit" /\ candidate.key[1] = event.agent THEN [candidate EXCEPT !.corrected = TRUE] ELSE candidate :
        candidate \in pending}

\* The n-th event: a retry of what was corrected closes a cycle, a failure waits for one.
FollowEvent(events, found, n) ==
    LET event == events[n]
        key == RetryKey(event)
        pending == Correct(found.pending, event)
        mine == {candidate \in pending : candidate.key = key}
        retried == {candidate \in mine : candidate.corrected}
    IN  IF event.operation \notin Repeatable \/ key = NoIdentity THEN [found EXCEPT !.pending = pending]
        ELSE [pending |-> IF ExplicitlyFailed(event) THEN (pending \ mine) \cup {[key |-> key, at |-> n, corrected |-> FALSE]}
                          ELSE pending \ retried,
              cycles  |-> found.cycles \o SetToSeq({[first |-> candidate.at, last |-> n] : candidate \in retried})]

\* A cycle is the failure and the retry, and what their agent did in between.
DetectReworkCycles(events) ==
    FoldLeft(LAMBDA found, n : FollowEvent(events, found, n), [pending |-> {}, cycles |-> << >>],
             Indices(events)).cycles

EvidenceOf(events, cycle) ==
    {n \in cycle.first .. cycle.last : events[n].agent = events[cycle.last].agent}

\* The work of the cycle's agent within the cycle.
Clipped(events, cycle) ==
    LET from == EventTime(events[cycle.first])
        to == EventEnd(events[cycle.last])
        clipped == {Interval(Max({from, events[n].started}), Min({to, events[n].ended})) :
                        n \in WorkOf(events, EffortAgent(events[cycle.last].agent))}
    IN  {interval \in clipped : interval.start < interval.end}

AggregateCycleDuration(events, cycles) ==
    LET Of(agent) == {n \in DOMAIN cycles : EffortAgent(events[cycles[n].last].agent) = agent}
    IN  MapThenSumSet(LAMBDA agent : MergedDuration(UNION {Clipped(events, cycles[n]) : n \in Of(agent)}), AgentsOf(events))

\* Evidence counts once; of the events that share it the last one speaks.
AggregateCycleTokens(events, cycles) ==
    LET evidence == {EvidenceKey(events[i]) : i \in UNION {EvidenceOf(events, cycles[n]) : n \in DOMAIN cycles}}
        speaks == {Max({i \in DOMAIN events : EvidenceKey(events[i]) = key}) : key \in evidence}
    IN  SumTokens(events, {i \in speaks : events[i].counts})

\* The calls of a model that failed and were made again.
RetriedCalls(events) ==
    {i \in DOMAIN events :
        /\ events[i].operation = "api_call" /\ ExplicitlyFailed(events[i]) /\ RetryKey(events[i]) # NoIdentity
        /\ \E j \in i + 1 .. Len(events) : events[j].operation = "api_call" /\ RetryKey(events[j]) = RetryKey(events[i])}

DetectApiRetryWaste(events) ==
    LET retried == RetriedCalls(events)
    IN  [attempts |-> Cardinality(retried),
         duration |-> MapThenSumSet(LAMBDA i : events[i].duration, retried),
         tokens   |-> SumTokens(events, {i \in retried : events[i].counts})]

-----------------------------------------------------------------------------
(* The report *)

\* How often something comes again, after it was there once.
RepeatsAmong(keys) == Cardinality({i \in DOMAIN keys : keys[i] # NoIdentity /\ \E j \in 1 .. i - 1 : keys[j] = keys[i]})

RepeatedCommands(events) ==
    RepeatsAmong([i \in DOMAIN events |->
        IF events[i].operation \notin Repeatable \/ events[i].command = Nothing THEN NoIdentity
        ELSE <<events[i].agent, events[i].command>>])

ReeditedFiles(events) ==
    RepeatsAmong([i \in DOMAIN events |->
        IF events[i].operation # "edit" \/ events[i].file = Nothing THEN NoIdentity ELSE <<events[i].agent, events[i].file>>])

ToolsWithOutcome(events) == {i \in DOMAIN events : events[i].tool # Nothing /\ events[i].success # "unknown"}

\* The attempts that are the first of their kind with an outcome.
FirstAttempts(attempts) ==
    LET known == {i \in DOMAIN attempts : /\ attempts[i].success # "unknown" /\ attempts[i].attempt # NoAttempt
                                          /\ ValidationIdentity(attempts[i]) # NoIdentity}
    IN  {i \in known : ~\E j \in known : j < i /\ ValidationIdentity(attempts[j]) = ValidationIdentity(attempts[i])}

Failures(events) == {i \in DOMAIN events : ExplicitlyFailed(events[i])}

CoverageOf(events, projection) ==
    LET attempts == projection.attempts
        Count(yes(_)) == Cardinality({i \in DOMAIN attempts : yes(attempts[i])})
    IN  [classified    |-> Cardinality({i \in DOMAIN events : events[i].operation # "other"}),
         known         |-> Cardinality({i \in DOMAIN events : events[i].success # "unknown"}),
         attempts      |-> Len(attempts),
         identified    |-> Count(LAMBDA attempt : ValidationIdentity(attempt) # NoIdentity),
         fingerprinted |-> Count(LAMBDA attempt : ExplicitlyFailed(attempt) /\ attempt.error # Nothing),
         idBacked      |-> Count(LAMBDA attempt : attempt.attempt # NoAttempt),
         merged        |-> Count(LAMBDA attempt : attempt.attempt # NoAttempt /\ attempt.seen > 1),
         ambiguous     |-> Count(LAMBDA attempt : attempt.ambiguous),
         uncorrelated  |-> projection.uncorrelated,
         conflicting   |-> projection.conflicting]

LoopReports(events, loops) == [n \in DOMAIN loops |-> EpisodeReport(events, loops[n])]

\* What the validations of a session say.
ValidationReport(events, attempts, first, episodes) ==
    [failures    |-> Cardinality(Failures(attempts)),
     withOutcome |-> Cardinality({i \in DOMAIN attempts : attempts[i].success # "unknown"}),
     eligible    |-> Cardinality(first),
     passed      |-> Cardinality({i \in first : attempts[i].success = "ok"}),
     loops       |-> LoopReports(events, SelectSeq(episodes, Recurring)),
     tokens      |-> AggregateResolutionTokens(events, episodes)]

\* What the cycles and the effort of a session say.
EffortReport(events, cycles) ==
    [cycles   |-> cycles,
     duration |-> AggregateCycleDuration(events, cycles),
     tokens   |-> AggregateCycleTokens(events, cycles),
     active   |-> ActiveDuration(events)]

AnalyzeEvents(events, projection) ==
    [validation   |-> ValidationReport(events, projection.attempts, FirstAttempts(projection.attempts),
                                      DetectFailureEpisodes(projection.attempts)),
     effort       |-> EffortReport(events, DetectReworkCycles(events)),
     tools        |-> Cardinality(ToolsWithOutcome(events)),
     toolFailures |-> Cardinality(ToolsWithOutcome(events) \cap Failures(events)),
     commands     |-> RepeatedCommands(events),
     files        |-> ReeditedFiles(events),
     waste        |-> DetectApiRetryWaste(events),
     coverage     |-> CoverageOf(events, projection)]

AnalyzeRework(events) == AnalyzeEvents(events, ProjectValidationAttempts(events))

-----------------------------------------------------------------------------
(* The ratios two sessions are compared by *)

NoValue == << >>

\* A part of a whole, unless there is no whole or the part exceeds it.
ReworkRatio(part, whole) ==
    CASE whole <= 0 -> [reason |-> "missing", value |-> NoValue]
      [] whole > 0 /\ (part < 0 \/ part > whole) -> [reason |-> "inconsistent", value |-> NoValue]
      [] OTHER -> [reason |-> "", value |-> <<part, whole>>]

ReworkTokenShare(tokens, session) ==
    IF ~TotalReported(session) \/ Total(session) <= 0 \/ ~TotalReported(tokens) THEN [reason |-> "missing", value |-> NoValue]
    ELSE ReworkRatio(Total(tokens), Total(session))

ReworkComparisonValues(report, session) ==
    <<ReworkRatio(report.validation.passed, report.validation.eligible),
      ReworkTokenShare(report.effort.tokens, session),
      ReworkRatio(report.effort.duration, report.effort.active),
      ReworkRatio(report.toolFailures, report.tools),
      ReworkRatio(Len(report.validation.loops), report.validation.withOutcome)>>

-----------------------------------------------------------------------------
(* The session grows *)

ReworkInit == history \in Histories /\ activities = << >>

\* The n-th of the activities to come is the next one that is stored.
ObserveActivity(n) ==
    /\ activities' = Append(activities, history[n])
    /\ history' = SubSeq(history, n + 1, Len(history))

ReworkNext == \E n \in DOMAIN history : ObserveActivity(n)

-----------------------------------------------------------------------------
(* Correctness *)

\* Pairs of a failure and the retry of it that came after an edit of the same
\* agent: the failure is the last one of its kind before, and nothing of its
\* kind was tried between the edit and the retry.
CorrectedRetries(events) ==
    LET key == [n \in DOMAIN events |-> IF events[n].operation \in Repeatable THEN RetryKey(events[n]) ELSE NoIdentity]
        Edits(i, j) == {n \in i + 1 .. j - 1 : events[n].operation = "edit" /\ events[n].agent = events[i].agent}
    IN  {pair \in (DOMAIN events) \X (DOMAIN events) :
            LET i == pair[1]
                j == pair[2]
            IN  /\ i < j /\ ExplicitlyFailed(events[i]) /\ key[i] # NoIdentity /\ key[j] = key[i]
                /\ Edits(i, j) # {}
                /\ \A n \in i + 1 .. j - 1 : key[n] = key[i] => ~ExplicitlyFailed(events[n]) /\ n < Min(Edits(i, j))}

\* The cycles of a report are the corrected retries, each once.
CyclesAreRetries(events, report) ==
    LET cycles == report.effort.cycles
    IN  /\ {<<cycles[n].first, cycles[n].last>> : n \in DOMAIN cycles} = CorrectedRetries(events)
        /\ Len(cycles) = Cardinality(CorrectedRetries(events))

\* A moment of an agent: the unit of time that starts there.
Moments == 1 .. 9
BusyAt(events, agent, moment) ==
    \E i \in WorkOf(events, agent) : events[i].started <= moment /\ moment < events[i].ended
ReworkAt(events, cycle, agent, moment) ==
    /\ EffortAgent(events[cycle.last].agent) = agent
    /\ EventTime(events[cycle.first]) <= moment /\ moment < EventEnd(events[cycle.last])

\* Effort is the moments an agent was busy, rework those within its cycles,
\* however many activities and cycles share a moment.
EffortIsCovered(events, report) ==
    LET effort == report.effort
        busy == {am \in AgentsOf(events) \X Moments : BusyAt(events, am[1], am[2])}
    IN  /\ effort.active = Cardinality(busy)
        /\ effort.duration = Cardinality({am \in busy : \E n \in DOMAIN effort.cycles :
                                              ReworkAt(events, effort.cycles[n], am[1], am[2])})

\* The first failure of the run that the i-th attempt belongs to: failures of one
\* identity with no success of it in between.
RunOf(attempts, identity, i) ==
    Min({j \in Failures(attempts) :
            /\ j <= i /\ identity[j] = identity[i]
            /\ \A n \in j .. i : identity[n] = identity[i] => attempts[n].success # "ok"})

\* The loops of a report are the runs in which an error came back.
LoopsAreRuns(attempts, report) ==
    LET identity == [i \in DOMAIN attempts |->
                        IF attempts[i].attempt = NoAttempt THEN NoIdentity ELSE ValidationIdentity(attempts[i])]
        told == {i \in Failures(attempts) : identity[i] # NoIdentity /\ attempts[i].error # Nothing}
        again == {i \in told : \E j \in told : /\ j < i /\ attempts[j].error = attempts[i].error
                                               /\ identity[j] = identity[i]
                                               /\ RunOf(attempts, identity, j) = RunOf(attempts, identity, i)}
    IN  Len(report.validation.loops) = Cardinality({RunOf(attempts, identity, i) : i \in again})

SessionTokens(events) == SumTokens(events, {i \in DOMAIN events : events[i].counts})

\* No ratio of a report has a part larger than its whole.
RatiosAreConsistent(events, report) ==
    \A value \in ToSet(ReworkComparisonValues(report, SessionTokens(events))) : value.reason # "inconsistent"

ExactReport(events, attempts, report) ==
    /\ CyclesAreRetries(events, report)
    /\ EffortIsCovered(events, report)
    /\ LoopsAreRuns(attempts, report)
    /\ RatiosAreConsistent(events, report)

ExactAnalysis(events) == ExactReport(events, ProjectValidationAttempts(events).attempts, AnalyzeRework(events))

\* A later log of a tool call that was observed before says nothing new.
EchoOf(activity) == [activity EXCEPT !.signal = "log", !.span = NoSpanId, !.started = NoTime, !.ended = NoTime,
                                     !.observed = @ + 1, !.counts = FALSE]

\* The validation report, without what loops are made of.
Told(report) == [report.validation EXCEPT !.loops = Len(@)]

\* A tool call counts as one attempt, and its outcome once, however many
\* observations of it are stored, as long as none of them conflict.
AttemptsCountOnce(report) ==
    report.coverage.conflicting = 0 =>
        \A i \in {i \in DOMAIN activities : activities[i].call # Nothing} :
            Told(AnalyzeRework(EventsOf(Append(activities, EchoOf(activities[i]))))) = Told(report)

\* Every report of a session is exact: its cycles are the corrected retries of
\* its events, its loops the runs of one repeated error, its times the moments
\* covered, a tool call one attempt however often it was observed, and no part
\* of a comparison exceeds its whole (docs/design/session-rework-analysis.md;
\* AnalyzeRework, projectValidationAttempts, CompareReworkSnapshots).
ReworkIsExact ==
    /\ ExactAnalysis(EventsOf(activities))
    /\ AttemptsCountOnce(AnalyzeRework(EventsOf(activities)))
===============================================================================
