----------------------------- MODULE TraceRollups -----------------------------
(***************************************************************************)
(* What the store keeps per trace: a rollup with the spans that wait for    *)
(* their parent, the sessions that took part, and the agents.               *)
(*                                                                         *)
(* All rows of a trace count, also those of an unknown kind.  A span whose  *)
(* parent is not stored counts as missing it; when the parent arrives, the  *)
(* children that waited are taken off the count.                            *)
(***************************************************************************)
EXTENDS SessionRollups

NoSpan == 0

TraceRows(db) == {row \in db.spans \cup db.logs : row.trace # ""}

\* Whether a span names a parent that is not stored.
MissingParent(db, span) ==
    /\ span.parent # NoSpan
    /\ ~\E other \in db.spans : other.trace = span.trace /\ other.id = span.parent

TraceRollup(db, rows) ==
    LET ofSpans == {row \in rows : row.signal = "trace"}
    IN  [started |-> Min({row.start : row \in rows}), ended |-> Max({row.at : row \in rows}),
         rank |-> Max({row.rank : row \in rows}), activities |-> Cardinality(rows),
         roots |-> Cardinality({span \in ofSpans : span.parent = NoSpan}),
         missing |-> Cardinality({span \in ofSpans : MissingParent(db, span)})]

TraceOf(rows, trace) == {row \in rows : row.trace = trace}

TraceRollupsOf(db, rows) == [trace \in {row.trace : row \in rows} |-> TraceRollup(db, TraceOf(rows, trace))]

TraceSessions(rows) == {<<row.trace, row.session>> : row \in {r \in rows : r.session # NoSession}}

\* The agents of a trace keep the identity their rows report, not the normalised one.
TraceAgents(rows) ==
    LET named == {row \in rows : row.agent # ""}
        Key(row) == <<row.trace, row.session, row.agent>>
    IN  [key \in {Key(row) : row \in named} |-> Max({row.label : row \in {r \in named : Key(r) = key}})]

RebuildTraceAgents(db, traces) ==
    [db EXCEPT !.traceAgents = Replaced(Without(@, {key \in DOMAIN @ : key[1] \in traces}),
                                        TraceAgents({row \in TraceRows(db) : row.trace \in traces}))]

RebuildTraces(db, traces) ==
    LET rows == {row \in TraceRows(db) : row.trace \in traces}
    IN  [RebuildTraceAgents(db, traces) EXCEPT
            !.traces = Replaced(Without(@, traces), TraceRollupsOf(db, rows)),
            !.traceSessions = {pair \in @ : pair[1] \notin traces} \cup TraceSessions(rows)]

-----------------------------------------------------------------------------
(* Updating in place *)

BatchTraces(batch) == {item.trace : item \in ToSet(batch.spans) \cup ToSet(batch.logs)} \ {""}

\* A revision can be applied in place when the span keeps its place and its
\* agent, and its times and its status only grow.
TraceRollupCanApplyIncrementally(batch, previous) ==
    \A span \in ToSet(batch.spans), old \in previous :
        Revises(span, old) => /\ old.known = span.known /\ old.session = span.session
                              /\ old.agent = span.agent /\ old.parent = span.parent
                              /\ span.start <= old.start /\ span.at >= old.at /\ span.rank >= old.rank

SubtractTraces(rollups, olds) ==
    [trace \in DOMAIN rollups |->
        LET own == TraceOf(olds, trace)
        IN  [rollups[trace] EXCEPT !.activities = @ - Cardinality(own),
                                   !.roots = @ - Cardinality({old \in own : old.parent = NoSpan}),
                                   !.missing = @ - Cardinality({old \in own : old.missing})]]

MergeTraces(old, new) ==
    [started |-> Min({old.started, new.started}), ended |-> Max({old.ended, new.ended}),
     rank |-> Max({old.rank, new.rank}), activities |-> old.activities + new.activities,
     roots |-> old.roots + new.roots, missing |-> old.missing + new.missing]

MergeLabels(old, new) == IF new # NoLabel THEN new ELSE old

\* A span that was not stored takes the children off the count that waited
\* for it; those of its own sequence were counted with their parent present.
ResolveMissingParents(db, span, sequence) ==
    LET waited == {row \in db.spans : row.trace = span.trace /\ row.parent = span.id /\ row.sequence # sequence}
    IN  IF span.trace \in DOMAIN db.traces
          THEN [db EXCEPT !.traces[span.trace].missing = Max({0, @ - Cardinality(waited)})]
          ELSE db

ApplyTraceAgents(db, sequence) ==
    [db EXCEPT !.traceAgents = Upserted(@, TraceAgents(TraceRows(db) \cap RowsAt(db, sequence)), MergeLabels)]

ApplyTraces(db, batch, previous, sequence) ==
    LET rows == TraceRows(db) \cap RowsAt(db, sequence)
        added == [db EXCEPT !.traces = Upserted(SubtractTraces(@, previous), TraceRollupsOf(db, rows), MergeTraces)]
        new == SelectSeq(batch.spans, LAMBDA span : ~\E old \in previous : Revises(span, old))
        resolved == FoldLeft(LAMBDA d, span : ResolveMissingParents(d, span, sequence), added, new)
    IN  ApplyTraceAgents([resolved EXCEPT !.traceSessions = @ \cup TraceSessions(rows)], sequence)

UpdateAffectedTraceRollups(db, batch, previous, sequence) ==
    IF BatchTraces(batch) = {} THEN db
    ELSE IF TraceRollupCanApplyIncrementally(batch, previous) THEN ApplyTraces(db, batch, previous, sequence)
    ELSE RebuildTraces(db, BatchTraces(batch))

-----------------------------------------------------------------------------
(* The reference: what a rebuild of everything would hold *)

TracesAreRebuilt(db) ==
    /\ db.traces = TraceRollupsOf(db, TraceRows(db))
    /\ db.traceSessions = TraceSessions(TraceRows(db))
    /\ DOMAIN db.traceAgents = DOMAIN TraceAgents(TraceRows(db))

=============================================================================
