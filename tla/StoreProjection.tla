--------------------------- MODULE StoreProjection ---------------------------
(***************************************************************************)
(* What one export does to the tables of the store, as functions from the   *)
(* tables to the tables: the commit of an export that arrives, its replay   *)
(* into a candidate database, and its removal when it is archived.          *)
(*                                                                         *)
(* A batch is what normalisation made of an export: a sequence of spans or  *)
(* one of logs, and a set of links.  A span is sent again under its     *)
(* trace and identity and the last export that arrives wins; a log is       *)
(* appended.  A usage names one call of a Claude model: the request log     *)
(* that reports its tokens and the span that knows which agent made it      *)
(* arrive in different exports, in any order.                               *)
(*                                                                         *)
(* Besides the tables of the modules it extends, db holds the versions of   *)
(* spans by export (candidates), the links by export (evidence), the        *)
(* memberships they give, and the feed of changes.                          *)
(***************************************************************************)
EXTENDS ModelCalls

NoSequence == 0

AllSessions == <<"session", "all">>
AllTraces   == <<"trace", "all">>
SessionScope(session) == <<"session", session>>
TraceScope(trace)     == <<"trace", trace>>

\* The scopes in which an activity appears.
ScopesOf(row) == {SessionScope(s) : s \in {row.session} \ {NoSession}} \cup {TraceScope(t) : t \in {row.trace} \ {""}}

Items(batch) == ToSet(batch.spans) \cup ToSet(batch.logs)

EmptyTables ==
    [spans |-> {}, logs |-> {}, candidates |-> {}, evidence |-> {}, memberships |-> {},
     sessions |-> << >>, agents |-> << >>, sessionTraces |-> {},
     traces |-> << >>, traceSessions |-> {}, traceAgents |-> << >>, feed |-> << >>,
     calls |-> {}, links |-> {}, supports |-> {}, callTraces |-> {}, rates |-> {}]

Links(db) == {[parent |-> e.parent, child |-> e.child] : e \in db.evidence}

-----------------------------------------------------------------------------
(* The plan of a commit: what it replaces, and whom it concerns *)

\* The stored spans that a batch revises, with what their traces counted for them.
PreviousSpans(db, batch) ==
    {row @@ [missing |-> MissingParent(db, row)] :
        row \in {r \in db.spans : \E span \in ToSet(batch.spans) : Revises(span, r)}}

\* The Claude calls a batch says something about, now or in what it replaces.
ClaudeKeys(batch, previous) ==
    {[session |-> item.session, usage |-> item.usage] :
        item \in {i \in Items(batch) \cup previous : i.provider = "claude" /\ i.usage # "" /\ i.session # NoSession}}

OfKeys(rows, keys) == {row \in rows : \E key \in keys : row.session = key.session /\ row.usage = key.usage}

\* Fault: the session that a moved span leaves is not told.
ForgetOldScopes(db, batch, previous) ==
    UNION {ScopesOf(item) : item \in Items(batch)}
        \cup {SessionScope(RootOf(db.memberships, s)) : s \in BatchSessions(batch)}
\* The scopes a commit announces: those of its activities and of the spans they
\* revise, the roots of their sessions, the traces that show a Claude call it
\* touches, and everything when a link or the authority of a call may regroup.
Targets(db, batch, previous) ==
    LET items == Items(batch) \cup previous
        calls == OfKeys(db.spans \cup db.logs, ClaudeKeys(batch, previous))
    IN  UNION {ScopesOf(item) : item \in items}
          \cup {SessionScope(RootOf(db.memberships, s)) : s \in AffectedSessions(batch, previous)}
          \cup {TraceScope(t) : t \in {call.trace : call \in calls} \ {""}}
          \cup (IF \E log \in ToSet(batch.logs) : log.provider # "" THEN {AllTraces} ELSE {})
          \cup UNION {{AllSessions, SessionScope(l.parent), SessionScope(l.child)} : l \in batch.links}

AppendProjectionChange(db, targets) ==
    IF targets = {} THEN db ELSE [db EXCEPT !.feed = Append(@, [targets |-> targets, mutations |-> << >>])]

Mutation(scope, row, operation) == [scope |-> scope, activity |-> row.activity, operation |-> operation]

-----------------------------------------------------------------------------
(* Storing the rows *)

SpanRow(span, export, sequence) ==
    span @@ [export |-> export, sequence |-> sequence, activity |-> <<"span", span.trace, span.id>>]

\* A log gets a new identity whenever it is stored, also when it is restored.
LogRow(work, ordinal) ==
    work.batch.logs[ordinal] @@
        [export |-> work.export, sequence |-> work.row, reporter |-> work.batch.logs[ordinal].agent,
         cost |-> Max({NoAmount, work.batch.logs[ordinal].amount}),
         activity |-> <<"log", IF work.change = NoSequence THEN "replayed" ELSE "live", work.row, ordinal>>]

SameSpan(row, other) == row.trace = other.trace /\ row.id = other.id

PutSpan(db, row) ==
    [db EXCEPT !.spans = {other \in @ : ~SameSpan(row, other)} \cup {row},
               !.candidates = {c \in @ : ~(SameSpan(row, c) /\ c.export = row.export)} \cup {row}]

\* What the views of a stored span's scopes are told.
SpanMutations(row, previous) ==
    LET left == {old \in previous : Revises(row, old) /\ old.session # row.session /\ old.session # NoSession}
    IN  SetToSeq({Mutation(SessionScope(old.session), row, "remove") : old \in left})
          \o SetToSeq({Mutation(scope, row, "upsert") : scope \in ScopesOf(row)})

LogMutations(row) ==
    SetToSeq({Mutation(scope, row, "upsert") :
                scope \in {s \in ScopesOf(row) : row.known \/ s # SessionScope(row.session)}})

\* The rows and the link evidence of an export.
StoreBatch(db, work, spans, logs) ==
    [FoldLeft(PutSpan, db, spans) EXCEPT
        !.logs = @ \cup ToSet(logs),
        !.evidence = @ \cup {[export |-> work.export, parent |-> l.parent, child |-> l.child] :
                               l \in {link \in work.batch.links : IsLink(link)}}]

\* The rows, and what the views are told of them.
ProjectRows(db, work, spans, logs) ==
    AppendActivityChanges(StoreBatch(db, work, spans, logs), work.change,
        FlattenSeq([n \in DOMAIN spans |-> SpanMutations(spans[n], work.previous)])
          \o FlattenSeq([n \in DOMAIN logs |-> LogMutations(logs[n])]))

\* What one export stores; work is its identity, its batch, the spans that it
\* replaces, the sequence of its rows and the change that publishes them.
CommitProjection(db, work) ==
    ProjectRows(db, work,
                [n \in DOMAIN work.batch.spans |-> SpanRow(work.batch.spans[n], work.export, work.row)],
                [n \in DOMAIN work.batch.logs |-> LogRow(work, n)])

-----------------------------------------------------------------------------
(* The agent of a Claude call *)

\* The agent of a request log: that of the latest span of the call that names
\* one, else the one the log itself reported.
RuntimeAgent(db, log) ==
    LET known == {s \in CorroboratingSpans(db, "claude", log.session) : s.usage = log.usage /\ s.agent # ""}
        Earlier(s, t) == s.at < t.at \/ (s.at = t.at /\ s.id < t.id)
    IN  IF known = {} THEN log.reporter
        ELSE (CHOOSE s \in known : \A t \in known \ {s} : Earlier(t, s)).agent

\* Logs stored by earlier exports are outside the increments of this one, so the
\* agents they leave and join are aggregated again, without the rows of this one.
RebuildHistoricalSessionAgents(db, logs, sequence) ==
    LET keys == UNION {{<<log.session, NormalizedAgent(log.agent)>>,
                        <<log.session, NormalizedAgent(RuntimeAgent(db, log))>>} : log \in logs}
        rows == {row \in SessionRows(db) : AgentKey(row) \in keys /\ row.sequence # sequence}
    IN  [db EXCEPT !.agents = Replaced(Without(@, keys), AgentRollups(rows))]

\* The request logs of the calls a batch touches whose spans know another agent.
MovedRequests(db, keys) ==
    {log \in OfKeys({l \in db.logs : l.provider = "claude"}, keys) : log.agent # RuntimeAgent(db, log)}

\* Those logs get the agent their spans know.
MoveRequests(db, moved, change) ==
    AppendActivityChanges(
        [db EXCEPT !.logs = (@ \ moved) \cup {[log EXCEPT !.agent = RuntimeAgent(db, log)] : log \in moved}],
        change,
        FlattenSeq(SetToSeq({SetToSeq({Mutation(scope, log, "upsert") : scope \in ScopesOf(log)}) : log \in moved})))

\* The result says which logs of earlier exports changed hands.
ReconcileRequests(db, work, moved, historical) ==
    [db |-> RebuildHistoricalSessionAgents(MoveRequests(db, moved, work.change), historical, work.row),
     rebuildSessions |-> historical # {} /\ work.previous # {},
     traces |-> {log.trace : log \in historical} \ {""}]

Reconcile(db, work, moved) == ReconcileRequests(db, work, moved, {log \in moved : log.sequence # work.row})

ReconcileClaudeModelCallAgents(db, work) ==
    Reconcile(db, work, MovedRequests(db, ClaudeKeys(work.batch, work.previous)))

-----------------------------------------------------------------------------
(* The commit of an export, and its replay *)

RebuildAffectedSessionMemberships(db, batch) ==
    IF batch.links = {} THEN db ELSE [db EXCEPT !.memberships = Memberships(Links(db))]

\* An export of spans changes what its sessions' calls are corroborated by, one
\* of logs reports calls.
PersistModelCalls(db, work) ==
    IF work.batch.logs = << >> THEN PersistSpanCalls(db, ToSet(work.batch.spans), work.previous, work.change)
    ELSE PersistLogCalls(db, {log \in db.logs : log.export = work.export}, work.change)

\* In a replay the calls of Claude and all prices wait for the end.
PersistReplayModelCallFacts(db, work) ==
    FoldSet(LAMBDA log, d : PersistCodexCall(d, log, TRUE), db,
            {log \in db.logs : log.export = work.export /\ log.provider = "codex"})

\* Whether the sessions can be updated in place after the attribution.
SessionsApply(attribution, work) ==
    RollupCanApplyIncrementally(work.batch, work.previous) /\ ~attribution.rebuildSessions

\* The memberships and the rollups after the attribution.
UpdateAffectedRollups(attribution, work) ==
    LET linked == RebuildAffectedSessionMemberships(attribution.db, work.batch)
        sessions == UpdateAffectedSessionRollups(linked, work.batch, work.previous, work.row, SessionsApply(attribution, work))
        traces == UpdateAffectedTraceRollups(sessions, work.batch, work.previous, work.row)
    IN  RebuildTraces(traces, attribution.traces)

CommitWork(db, work) ==
    UpdateAffectedRollups(
        ReconcileClaudeModelCallAgents(PersistModelCalls(CommitProjection(db, work), work), work), work)

\* The change is announced first, and its sequence is that of the rows.
CommitAnnouncing(db, export, batch, previous, targets) ==
    LET sequence == IF targets = {} THEN NoSequence ELSE Len(db.feed) + 1
    IN  CommitWork(AppendProjectionChange(db, targets),
                   [export |-> export, batch |-> batch, previous |-> previous, row |-> sequence, change |-> sequence])

CommitReplacing(db, export, batch, previous) ==
    CommitAnnouncing(db, export, batch, previous, Targets(db, batch, previous))

CommitExport(db, export, batch) == CommitReplacing(db, export, batch, PreviousSpans(db, batch))

\* A replay keeps only the agents up to date, which remember an order.
ReplayAgents(attribution, work) ==
    IF SessionsApply(attribution, work) THEN ApplyAgents(attribution.db, work.previous, work.row)
    ELSE RebuildSessionAgents(attribution.db, AffectedSessions(work.batch, work.previous))

ReplayTraceAgents(db, work) ==
    IF TraceRollupCanApplyIncrementally(work.batch, work.previous) THEN ApplyTraceAgents(db, work.row)
    ELSE RebuildTraceAgents(db, BatchTraces(work.batch))

ReplayAttributed(attribution, work) ==
    RebuildTraceAgents(ReplayTraceAgents(ReplayAgents(attribution, work), work), attribution.traces)

ReplayWork(db, work) ==
    ReplayAttributed(
        ReconcileClaudeModelCallAgents(PersistReplayModelCallFacts(CommitProjection(db, work), work), work), work)

\* A replayed export takes its own identity as its sequence and publishes nothing.
ReplayExport(db, export, batch) ==
    ReplayWork(db, [export |-> export, batch |-> batch, previous |-> PreviousSpans(db, batch),
                    row |-> export, change |-> NoSequence])

RebuildReplayMemberships(db) == [db EXCEPT !.memberships = Memberships(Links(db))]

RebuildReplaySessionAggregates(db) ==
    [db EXCEPT !.sessionTraces = SessionTraces(SessionRows(db)), !.sessions = SessionRollups(SessionRows(db))]

RebuildReplayTraceAggregates(db) ==
    [db EXCEPT !.traces = TraceRollupsOf(db, TraceRows(db)), !.traceSessions = TraceSessions(TraceRows(db))]

\* The temporary order is taken off the rows; the versions of spans keep it.
ResetReplayProjectionSequences(db) ==
    [db EXCEPT !.spans = {[row EXCEPT !.sequence = NoSequence] : row \in @},
               !.logs = {[row EXCEPT !.sequence = NoSequence] : row \in @}]

FinalizeReplay(db) ==
    ResetReplayProjectionSequences(
        RebuildReplayTraceAggregates(RebuildReplaySessionAggregates(RebuildReplayMemberships(
            RebuildReplayCostProjections(db)))))

\* The empty candidate of a rebuild, with the rates of the database it replaces.
OpenReplayCandidate(history) == {[EmptyTables EXCEPT !.rates = rates] : rates \in ReplaceRateHistoryForReplay(history)}

\* What a candidate has to show of its calls and rows before it may replace the database.
ProjectionIsComplete(db) ==
    /\ \A call \in db.calls : call.attribution # Pending
    /\ db.callTraces = {[call |-> support.call, trace |-> support.trace] : support \in db.supports}
    /\ \A row \in db.spans \cup db.logs : row.sequence = NoSequence

-----------------------------------------------------------------------------
(* The removal and the return of exports *)

\* The latest version of a span among the exports that are kept, with its sequence.
Fallback(db, key) ==
    LET versions == {c \in db.candidates : SameSpan(key, c)}
    IN  {v \in versions : \A other \in versions : other.export <= v.export}

\* The span of every key is what its latest remaining version says.
ReselectSpans(db, keys) ==
    [db EXCEPT !.spans = {row \in @ : ~\E key \in keys : SameSpan(key, row)} \cup UNION {Fallback(db, key) : key \in keys}]

RebuildEverything(db) ==
    LET called == RebuildReplayCostProjections(WithoutCalls(db, Ids({call \in db.calls : call.provider = "claude"})))
        agents == [called EXCEPT !.agents = AgentRollups(SessionRows(db)), !.traceAgents = TraceAgents(TraceRows(db))]
    IN  RebuildReplayTraceAggregates(RebuildReplaySessionAggregates(RebuildReplayMemberships(agents)))

Everything == {AllSessions, AllTraces}

\* What the views are told of an activity that an archived export owned.
ArchiveMutations(db, old) ==
    LET Shown(row) == {s \in ScopesOf(row) : row.known \/ s # SessionScope(row.session)}
        current == {row \in db.spans \cup db.logs : row.activity = old.activity}
    IN  SetToSeq({Mutation(scope, old, "remove") : scope \in Shown(old)})
          \o SetToSeq(UNION {{Mutation(scope, row, "upsert") : scope \in Shown(row)} : row \in current})

\* The tables without the rows, calls and versions of some exports; the spans stay.
WithoutExports(db, ids) ==
    [WithoutCalls(db, Ids({call \in db.calls : call.export \in ids})) EXCEPT
        !.logs = {row \in @ : row.export \notin ids},
        !.evidence = {e \in @ : e.export \notin ids},
        !.candidates = {c \in @ : c.export \notin ids}]

AnnounceEverything(db) == AppendProjectionChange(RebuildEverything(db), Everything)

TellArchived(db, activities) ==
    AppendActivityChanges(db, Len(db.feed), FlattenSeq(SetToSeq({ArchiveMutations(db, old) : old \in activities})))

VersionsOf(db, ids) == {c \in db.candidates : c.export \in ids}

\* Fault: a span that an archived export owned is only deleted.
DeleteWithoutFallback(db, ids) ==
    AnnounceEverything([WithoutExports(db, ids) EXCEPT !.spans = {row \in @ : row.export \notin ids}])
\* The exports ids leave the database; the spans they owned fall back to the
\* version of the latest export that stays.
RemoveActiveExports(db, ids) ==
    TellArchived(AnnounceEverything(ReselectSpans(WithoutExports(db, ids), VersionsOf(db, ids))),
                 {row \in db.spans \cup db.logs : row.export \in ids})

\* After restored exports were committed again, the version of the latest
\* export wins, as it did before they were archived.
ReconcileRestoredSpanWinners(db, ids) ==
    IF VersionsOf(db, ids) = {} THEN db ELSE AnnounceEverything(ReselectSpans(db, VersionsOf(db, ids)))

=============================================================================
