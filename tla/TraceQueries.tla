----------------------------- MODULE TraceQueries -----------------------------
(***************************************************************************)
(* What the store answers about traces: their list, the summary and the     *)
(* pages of one, its overview, and the activities within a window of it.    *)
(*                                                                         *)
(* The list and the summary are read from the rollups, everything else from *)
(* the rows.  An overview shows the first OverviewLimit activities, and     *)
(* whether each span's parent is there, which the rollup has counted.       *)
(***************************************************************************)
EXTENDS UsageOverview

CONSTANT OverviewLimit   \* the activities an overview has at most

ASSUME OverviewAssumption == OverviewLimit \in Nat \ {0}

RowsOfTrace(db, trace) == TraceOf(TraceRows(db), trace)

-----------------------------------------------------------------------------
(* The list of traces *)

TraceStatus(rank) == CASE rank = 2 -> "error" [] rank = 1 -> "ok" [] OTHER -> "unknown"

FailureRank == [observed |-> 2, not_observed |-> 1, not_reported |-> 0]

\* The traces a filter leaves; failure is "" when it does not matter.
ListedTraces(db, filter) ==
    {trace \in DOMAIN db.traces :
        /\ db.traces[trace].started >= filter.since
        /\ filter.failure # NoText => db.traces[trace].rank = FailureRank[filter.failure]
        /\ db.traces[trace].ended - db.traces[trace].started >= filter.atLeast}

TraceListedBefore(db, trace, other) ==
    Lexicographic(<<-db.traces[trace].started, TextRank(trace)>>, <<-db.traces[other].started, TextRank(other)>>)

TraceListEntry(db, trace) ==
    [id |-> trace, status |-> TraceStatus(db.traces[trace].rank), rollup |-> db.traces[trace],
     conversations |-> {pair[2] : pair \in {p \in db.traceSessions : p[1] = trace}},
     cost |-> TraceCostSummary(db, trace)]

\* One row more than the page is read, and not shown.
ListTraces(db, filter, offset, size) ==
    LET listed == ListedTraces(db, filter)
        Place(trace) == Cardinality({other \in listed : TraceListedBefore(db, other, trace)})
        read == {trace \in listed : Place(trace) \in offset..(offset + size)}
        shown == {trace \in read : Place(trace) < offset + size}
    IN  [rows |-> {TraceListEntry(db, trace) : trace \in shown},
         more |-> Cardinality(read) > size, next |-> offset + Cardinality(shown)]

-----------------------------------------------------------------------------
(* One trace *)

LoadTraceSummary(db, trace) ==
    LET rollup == db.traces[trace]
    IN  IF trace \notin DOMAIN db.traces THEN [status |-> NotFound]
        ELSE [status |-> TraceStatus(rollup.rank), started |-> rollup.started, ended |-> rollup.ended,
              activities |-> rollup.activities, roots |-> rollup.roots, missing |-> rollup.missing,
              conversations |-> {pair[2] : pair \in {p \in db.traceSessions : p[1] = trace}},
              agents |-> {<<key[2], key[3]>> : key \in {k \in DOMAIN db.traceAgents : k[1] = trace}}]

\* The place of a span among the activities of its trace; logs count, and are never the target.
TraceSpanOffset(rows, span) ==
    LET target == CHOOSE row \in rows : row.signal = "trace" /\ row.id = span
    IN  Cardinality({row \in rows : Precedes("oldest", row, target)})

HasSpan(rows, span) == \E row \in rows : row.signal = "trace" /\ row.id = span

\* Where the page starts: at an offset, at the end, or around a span, which goes first.
TraceOffset(rows, count, request) ==
    CASE request.span # NoSpan -> OffsetAround(TraceSpanOffset(rows, request.span), request.size)
      [] request.span = NoSpan /\ request.tail -> Max({0, count - request.size})
      [] OTHER -> request.offset

\* One page of a trace, with the summary of the whole.
GetTrace(db, trace, request) ==
    LET summary == LoadTraceSummary(db, trace)
        rows == RowsOfTrace(db, trace)
        offset == TraceOffset(rows, summary.activities, request)
        shown == ActivitiesWindow(rows, offset, request.size, "oldest")
    IN  CASE summary.status = NotFound -> [status |-> NotFound]
          [] summary.status # NotFound /\ request.span # NoSpan /\ ~HasSpan(rows, request.span) ->
               [status |-> TargetNotFound]
          [] OTHER -> [status |-> "ok", summary |-> summary, rows |-> shown, offset |-> offset,
                       counted |-> SelectUsageContributions(EnrichAgentEvidence(shown, "oldest"), "oldest"),
                       more |-> offset + Cardinality(shown) < summary.activities, cost |-> TraceCostSummary(db, trace)]

\* An activity of an overview: whether it failed, and whether its parent is missing.
TraceOverviewActivity(db, row) ==
    [activity |-> row.activity, status |-> IF ObservedFailure(row) THEN "error" ELSE TraceStatus(row.rank), start |-> row.start, at |-> row.at,
     missing |-> row.signal = "trace" /\ MissingParent(db, row)]

\* The first activities of a trace, all of them for a limit below zero.
TraceOverviewActivities(db, trace, limit) ==
    {TraceOverviewActivity(db, row) :
        row \in IF limit < 0 THEN RowsOfTrace(db, trace) ELSE FirstRows(RowsOfTrace(db, trace), limit, "oldest")}

GetTraceOverview(db, trace) ==
    LET summary == LoadTraceSummary(db, trace)
        stored == TraceOverviewActivities(db, trace, OverviewLimit)
    IN  IF summary.status = NotFound THEN [status |-> NotFound]
        ELSE [status |-> "ok", total |-> summary.activities, activities |-> stored,
              coverage |-> IF Cardinality(stored) < summary.activities THEN "partial" ELSE "complete"]

\* A window has both ends or none; it takes what overlaps it.
TraceWindowIncludes(window, activity) ==
    /\ window.bounded => activity.at >= window.from /\ activity.start <= window.to
    /\ window.errorsOnly => activity.status = "error"

\* A page of the activities within a window, and how many there are.
GetTraceWindow(db, trace, window, offset, size) ==
    LET matching == {a \in TraceOverviewActivities(db, trace, -1) : TraceWindowIncludes(window, a)}
        rows == {row \in RowsOfTrace(db, trace) : \E a \in matching : a.activity = row.activity}
        start == Min({offset, Cardinality(rows)})
        end == Min({start + size, Cardinality(rows)})
    IN  IF LoadTraceSummary(db, trace).status = NotFound THEN [status |-> NotFound]
        ELSE [status |-> "ok", rows |-> FirstRows(rows, end, "oldest") \ FirstRows(rows, start, "oldest"),
              matching |-> Cardinality(rows), more |-> end < Cardinality(rows)]

-----------------------------------------------------------------------------
(* The reference: what the rows say *)

\* What a trace is, computed from all of its activities.
BuildTrace(db, trace) ==
    LET rows == RowsOfTrace(db, trace)
        ofSpans == OfSignal(rows, "trace")
    IN  [status |-> IF \E row \in rows : row.rank = 2 THEN "error"
                    ELSE IF \E row \in rows : row.rank = 1 THEN "ok" ELSE "unknown",
         started |-> Min({row.start : row \in rows}), ended |-> Max({row.at : row \in rows}),
         activities |-> Cardinality(rows),
         roots |-> Cardinality({span \in ofSpans : span.parent = NoSpan}),
         missing |-> Cardinality({span \in ofSpans :
                       span.parent # NoSpan /\ span.parent \notin {other.id : other \in ofSpans}}),
         conversations |-> {row.session : row \in rows} \ {NoSession},
         agents |-> {<<row.session, row.agent>> : row \in {r \in rows : r.agent # ""}}]

PageRequest(offset, size) == [offset |-> offset, size |-> size, tail |-> FALSE, span |-> NoSpan]

\* The summary of a trace is what its activities amount to; its pages hold each
\* of them once, in order; a page asked for by a span holds it, and the tail the last.
TraceIsExact(db, trace, size) ==
    LET rows == RowsOfTrace(db, trace)
        pages == [n \in 1..((Cardinality(rows) + size - 1) \div size) |-> GetTrace(db, trace, PageRequest((n - 1) * size, size))]
        tail == GetTrace(db, trace, [PageRequest(0, size) EXCEPT !.tail = TRUE])
    IN  IF rows = {} THEN GetTrace(db, trace, PageRequest(0, size)).status = NotFound
        ELSE /\ LoadTraceSummary(db, trace) = BuildTrace(db, trace)
             /\ PagesTile(pages, rows, "oldest")
             /\ ~tail.more /\ Cardinality(tail.rows) = Min({size, Cardinality(rows)})
             /\ \A span \in OfSignal(rows, "trace") :
                   span \in GetTrace(db, trace, [PageRequest(0, size) EXCEPT !.span = span.id]).rows

\* An overview that calls itself complete marks the spans whose parents the
\* rollup misses, a trace that has failed has activities to show for it, and the
\* moment an activity ends is within it.
OverviewAgrees(db, trace, size) ==
    LET overview == GetTraceOverview(db, trace)
        failed == GetTraceWindow(db, trace, [bounded |-> FALSE, errorsOnly |-> TRUE], 0, size)
        summary == LoadTraceSummary(db, trace)
    IN  RowsOfTrace(db, trace) # {} =>
            /\ overview.coverage = "complete" =>
                  Cardinality({a \in overview.activities : a.missing}) = summary.missing
            /\ overview.coverage = "partial" <=> overview.total > OverviewLimit
            /\ summary.status = "error" => failed.rows # {}
            /\ failed.matching = Cardinality({row \in RowsOfTrace(db, trace) : ObservedFailure(row)})
            /\ failed.more <=> failed.matching > size
            /\ \A row \in RowsOfTrace(db, trace) :
                  LET moment == [bounded |-> TRUE, from |-> row.at, to |-> row.at, errorsOnly |-> FALSE]
                  IN  row.start <= row.at => row \in GetTraceWindow(db, trace, moment, 0, summary.activities).rows

\* The list shows each trace once, the latest first.
TraceListIsExact(db, filter, size) ==
    LET pages == {ListTraces(db, filter, n * size, size) : n \in 0..(Cardinality(DOMAIN db.traces) \div size)}
        traces == {trace \in {row.trace : row \in TraceRows(db)} :
                     LET rows == RowsOfTrace(db, trace)
                     IN  /\ \A row \in rows : row.start >= filter.since
                         /\ filter.failure = "observed" => \E row \in rows : row.rank = 2
                         /\ \E row, other \in rows : other.at - row.start >= filter.atLeast}
    IN  /\ UNION {{entry.id : entry \in page.rows} : page \in pages} = traces
        /\ \A page, later \in pages : page.next < later.next => \A entry \in page.rows, other \in later.rows :
              entry.id # other.id /\ entry.rollup.started >= other.rollup.started
        /\ \A page \in pages : page.more <=> page.next < Cardinality(traces)

===============================================================================
