----------------------------- MODULE StoreAnswers -----------------------------
(***************************************************************************)
(* The questions asked of a store in any state of its life.  A question     *)
(* reads one snapshot and changes nothing.                                  *)
(***************************************************************************)
EXTENDS ActivityViews, TraceQueries

CONSTANTS
    PageSizes,   \* the sizes of pages asked for
    Times,       \* the beginnings of the period asked for
    Searches     \* the texts searched for, "" for none

ASSUME AnswersAssumption == PageSizes \subseteq Nat \ {0} /\ Times \subseteq Nat /\ NoText \in Searches

KnownSessions == {row.session : row \in db.spans \cup db.logs} \cup {m.session : m \in db.memberships}

Unfiltered == [view |-> Roots, since |-> 0, search |-> NoText, session |-> NoSession, conditions |-> NoConditions]

\* Bound: few parts of a filter are combined.
Filters ==
    {[Unfiltered EXCEPT !.view = kind, !.since = since, !.search = search] :
        kind \in {Roots, All}, since \in Times, search \in Searches}
      \cup {[Unfiltered EXCEPT !.view = kind, !.session = session] : kind \in {Roots, All}, session \in KnownSessions}
      \cup {[Unfiltered EXCEPT !.view = kind, !.conditions = conditions] :
              kind \in {Roots, All}, conditions \in {[NoConditions EXCEPT !.failure = TRUE], [NoConditions EXCEPT !.atLeast = 2]}}

TraceFilters ==
    {[since |-> since, failure |-> failure, atLeast |-> 0] : since \in Times, failure \in {NoText, "observed"}}
      \cup {[since |-> 0, failure |-> NoText, atLeast |-> 2]}

\* What the rollups, the memberships and the pages answer is what the rows
\* say: the dashboard, the list and the summary of sessions count each activity
\* once and agree, the name of an agent selects what it is shown for, pages
\* leave nothing out and repeat nothing, an anchor is on the page it asks for, and
\* what a call used is added up once (api.go, session_summary.go, conversation.go,
\* trace.go, trace_overview.go, overview.go).
AnswersAreExact ==
    view.status = "unopened" => \A size \in PageSizes :
        /\ \A filter \in Filters : ListIsExact(db, filter, size)
        /\ \A since \in Times, search \in Searches : DashboardIsList(db, since, search)
        /\ \A since \in Times : OverviewIsExact(db, since)
        /\ \A session \in KnownSessions \ {NoSession} :
              SummaryIsExact(db, session) /\ ConversationIsPaged(db, session, size) /\ ReworkIsCounted(db, session)
        /\ \A trace \in {row.trace : row \in TraceRows(db)} :
              TraceIsExact(db, trace, size) /\ OverviewAgrees(db, trace, size)
        /\ \A filter \in TraceFilters : TraceListIsExact(db, filter, size)

===============================================================================
