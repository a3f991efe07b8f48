----------------------------- MODULE UsageOverview -----------------------------
(***************************************************************************)
(* The overview: sessions built from the activities themselves, with the    *)
(* usage of every model call counted once.                                  *)
(*                                                                         *)
(* A call is often seen by a log and by a span.  Those that share the name  *)
(* of a usage are one; a span without a name of its own is taken for the    *)
(* log of the same usage at nearly the same moment.  A moment stands for a  *)
(* second, one number for all kinds of tokens, and no item declares the     *)
(* part it plays: logs are authoritative, spans corroborate.                *)
(***************************************************************************)
EXTENDS SessionQueries

UsagePriority(row) == IF row.signal = "log" THEN 3 ELSE 1

HasCost(row) == row.signal = "log" /\ row.cost # NoAmount

HasUsage(row) == row.reported \/ HasCost(row)

UsageKey(row) ==
    IF row.usage # "" THEN <<"usage", row.usage>> ELSE <<"values", row.session, row.at, row.tokens, HasCost(row)>>

\* The first of those with the highest priority, in the order of the list.
Leading(rows, order) ==
    CHOOSE row \in rows : \A other \in rows \ {row} :
        \/ UsagePriority(row) > UsagePriority(other)
        \/ UsagePriority(row) = UsagePriority(other) /\ Precedes(order, row, other)

CompatibleUsage(row, other) == row.reported /\ other.reported /\ row.tokens = other.tokens

SameUsageEvidence(row, other) ==
    /\ CompatibleUsage(row, other)
    /\ NoSession \in {row.session, other.session} \/ row.session = other.session
    /\ row.at - other.at \in {-1, 0, 1}

\* The activities of a list whose usage is added up.
SelectUsageContributions(rows, order) ==
    LET using == {row \in rows : HasUsage(row)}
        selected == {Leading({row \in using : UsageKey(row) = key}, order) : key \in {UsageKey(row) : row \in using}}
    IN  {row \in selected :
            row.signal = "trace" => ~\E log \in OfSignal(selected, "log") : SameUsageEvidence(row, log)}

\* Every activity of a usage is given the agent of its best evidence.
EnrichAgentEvidence(rows, order) ==
    LET Naming(usage) == {row \in rows : row.usage = usage /\ row.agent # ""}
        Agent(row) == IF Naming(row.usage) = {} THEN "" ELSE Leading(Naming(row.usage), order).agent
    IN  {IF row.usage = "" THEN row ELSE [row EXCEPT !.agent = Agent(row)] : row \in rows}

\* The recent activities, and all of every group that one of them belongs to.
ExpandActiveSessionGroups(db, recent) ==
    LET active == {RootOf(db.memberships, row.session) : row \in {r \in recent : IsGrouped(db, r.session)}}
    IN  recent \cup {row \in db.spans \cup db.logs :
                        row.session # NoSession /\ RootOf(db.memberships, row.session) \in active}

\* One session of the overview, from its activities.
OverviewSession(db, root, activities) ==
    LET shown == {row \in EnrichAgentEvidence(activities, "newest") : row.known}
        counted == SelectUsageContributions(shown, "newest")
        Name(row) == EffectiveAgent(db, row.session, row.agent)
    IN  [id |-> root, ended |-> Max({row.at : row \in activities}),
         shown |-> {row.activity : row \in shown}, counted |-> {row.activity : row \in counted},
         tokens |-> Tokens(counted), traces |-> {row.trace : row \in activities} \ {""},
         agents |-> [name \in {Name(row) : row \in shown} |->
                        [activities |-> Cardinality({row \in shown : Name(row) = name}),
                         tokens |-> Tokens({row \in counted : Name(row) = name})]]]

\* The sessions by their roots; one that shows nothing is left out.
BuildSessions(db, activities, search) ==
    LET OfRoot(root) == {row \in activities : RootOf(db.memberships, row.session) = root}
        Searched(session) ==
            search \in {NoText, session.id} \cup UNION {Range(name) : name \in DOMAIN session.agents}
                         \cup {row.trace : row \in {r \in activities : r.activity \in session.shown}}
    IN  {session \in {OverviewSession(db, root, OfRoot(root)) : root \in {RootOf(db.memberships, r.session) : r \in activities}} :
            session.shown # {} /\ Searched(session)}

GetOverview(db, since, search) ==
    LET stored == {row \in db.spans \cup db.logs : row.at >= since}
        recent == {row \in stored : row.session # NoSession}
        sessions == {session \in BuildSessions(db, ExpandActiveSessionGroups(db, recent), search) : session.ended >= since}
    IN  [spans |-> Cardinality(OfSignal(stored, "trace")), logs |-> Cardinality(OfSignal(stored, "log")),
         sessions |-> sessions, runs |-> Cardinality(sessions),
         agents |-> MapThenSumSet(LAMBDA session : Cardinality(DOMAIN session.agents), sessions),
         tokens |-> MapThenSumSet(LAMBDA session : session.tokens, sessions)]

\* What the rework of a conversation is computed from.
LoadSessionReworkActivities(db, session) ==
    LET rows == MeaningfulRows(db, session)
        counted == SelectUsageContributions(rows, "newest")
    IN  {[row |-> row, agent |-> EffectiveAgent(db, row.session, row.agent), counts |-> row \in counted] : row \in rows}

-----------------------------------------------------------------------------
(* The reference *)

\* Whether two activities report one usage.
OneUsage(row, other) ==
    UsageKey(row) = UsageKey(other) \/ (row.signal # other.signal /\ SameUsageEvidence(row, other))

\* Every reported usage is counted by some activity that reports it, and no usage by
\* two of them; what a log reports is counted by a log.
UsageCountsOnce(rows, order) ==
    LET counted == SelectUsageContributions(rows, order)
    IN  /\ counted \subseteq rows
        /\ \A row, other \in counted : OneUsage(row, other) => row = other
        /\ \A row \in {r \in rows : HasUsage(r)} :
              LET same == {other \in rows : HasUsage(other) /\ UsageKey(other) = UsageKey(row)}
              IN  \E leading \in same : \E other \in counted :
                      OneUsage(leading, other) /\ (row.signal = "log" => other.signal = "log")

\* The rework of a conversation counts each usage once, and every agent of the summary.
ReworkIsCounted(db, session) ==
    LET activities == LoadSessionReworkActivities(db, session)
    IN  /\ UsageCountsOnce({a.row : a \in activities}, "newest")
        /\ \A a, other \in activities : a.counts /\ other.counts /\ OneUsage(a.row, other.row) => a = other
        /\ activities # {} => DOMAIN GetSessionSummary(db, session).agents = {a.agent : a \in activities}

\* The overview has the sessions that the list of roots has, and each shows the
\* activities that are there, under agents whose shares add up to the whole.  A
\* group is also shown for a recent activity of an unknown kind.
OverviewIsExact(db, since) ==
    LET overview == GetOverview(db, since, NoText)
        units == UnitsOfRows(db, [view |-> Roots, since |-> since, search |-> NoText, session |-> NoSession,
                                  conditions |-> NoConditions])
        Rows(session) == {row \in UnitRows(db, Roots, session.id) : row.activity \in session.shown}
        Sum(session, Field(_)) == MapThenSumSet(LAMBDA name : Field(session.agents[name]), DOMAIN session.agents)
    IN  /\ units \subseteq {session.id : session \in overview.sessions}
        /\ \A session \in overview.sessions :
              /\ session.id \in units \/ IsGrouped(db, session.id)
              /\ Rows(session) = {row \in UnitRows(db, Roots, session.id) : row.at >= since \/ IsGrouped(db, session.id)}
              /\ Sum(session, LAMBDA agent : agent.activities) = Cardinality(session.shown)
              /\ Sum(session, LAMBDA agent : agent.tokens) = session.tokens
              /\ UsageCountsOnce(Rows(session), "newest")

===============================================================================
