---------------------------- MODULE SessionQueries ----------------------------
(***************************************************************************)
(* What the store answers about sessions: the dashboard, the list of        *)
(* sessions, the summary of a conversation, and its activities page by page.*)
(*                                                                         *)
(* The dashboard, the list and the summary are read from the rollups and    *)
(* the memberships, the activities from the rows; they must tell the same.  *)
(* In the list of roots a session stands for all it delegated to, in the    *)
(* list of all for itself.  No item reports the parent of its agent here,   *)
(* there is one source, and a search finds the name of a session, of an     *)
(* agent or of a trace.                                                     *)
(***************************************************************************)
EXTENDS ModelCalls, ActivityPages

Roots == "roots"
All == "all"

\* What a session counts for in a list.
UnitOf(db, view, session) == IF view = All THEN session ELSE RootOf(db.memberships, session)

ParentOf(db, session) == {m.parent : m \in {other \in db.memberships : other.session = session}} \ {NoSession}

IsGrouped(db, session) == Cardinality(GroupOf(db.memberships, session)) > 1

-----------------------------------------------------------------------------
(* The list of sessions *)

UnitSessions(db, view, unit) == {session \in DOMAIN db.sessions : UnitOf(db, view, session) = unit}

Units(db, view) == {UnitOf(db, view, session) : session \in DOMAIN db.sessions}

SumOf(db, sessions, Field(_)) == MapThenSumSet(LAMBDA session : Field(db.sessions[session]), sessions)

\* When a unit was last active.
UnitEnd(db, view, unit) == Max({db.sessions[s].ended : s \in UnitSessions(db, view, unit)})

\* The rollups of a unit, added up.
GroupedRollup(db, view, unit) ==
    LET own == UnitSessions(db, view, unit)
    IN  [started |-> Min({db.sessions[s].started : s \in own}),
         ended |-> UnitEnd(db, view, unit),
         spans |-> SumOf(db, own, LAMBDA rollup : rollup.spans),
         logs |-> SumOf(db, own, LAMBDA rollup : rollup.logs),
         agents |-> SumOf(db, own, LAMBDA rollup : rollup.agents),
         tokens |-> SumOf(db, own, LAMBDA rollup : rollup.tokens),
         reported |-> \E s \in own : db.sessions[s].reported]

ActiveUnits(db, view, since) == {unit \in Units(db, view) : UnitEnd(db, view, unit) >= since}

Mentions(row, search) == search \in {row.session, row.agent, row.trace}

\* The active units of which some activity matches a search, whenever it happened.
SearchSessionRoots(db, view, since, search) ==
    {UnitOf(db, view, row.session) : row \in {r \in SessionRows(db) : Mentions(r, search)}}
        \cap ActiveUnits(db, view, since)

NoConditions == [failure |-> FALSE, atLeast |-> 0]

\* A status decides; without one the attributes may report a failure.
ObservedFailure(row) == row.rank = 2 \/ (row.rank = 0 /\ row.failed)

\* How long the activities of a unit last; a row that ends before it starts makes it unknown.
Lasts(rows, atLeast) ==
    /\ \A row \in rows : row.start <= row.at
    /\ Max({row.at : row \in rows}) - Min({row.start : row \in rows}) >= atLeast

\* The units whose activities meet the structured conditions of a filter.
MatchSessionConditions(db, view, conditions) ==
    LET OfUnit(unit) == {row \in SessionRows(db) : UnitOf(db, view, row.session) = unit}
    IN  {unit \in {UnitOf(db, view, row.session) : row \in SessionRows(db)} :
            /\ conditions.failure => \E row \in OfUnit(unit) : ObservedFailure(row)
            /\ conditions.atLeast # 0 => Lasts(OfUnit(unit), conditions.atLeast)}

NoText == ""

\* The units a search and the conditions leave.
MatchedUnits(db, filter) ==
    {unit \in ActiveUnits(db, filter.view, filter.since) :
        /\ filter.search # NoText => unit \in SearchSessionRoots(db, filter.view, filter.since, filter.search)
        /\ filter.conditions # NoConditions => unit \in MatchSessionConditions(db, filter.view, filter.conditions)}

\* A filter that names a session finds it, in the list of roots under its root.
NamesUnit(db, filter, unit) ==
    \/ filter.session \in {NoSession, unit}
    \/ filter.view = Roots /\ unit = RootOf(db.memberships, filter.session)

ListedUnits(db, filter) == {unit \in MatchedUnits(db, filter) : NamesUnit(db, filter, unit)}

\* The latest first, then by name.
ListedBefore(db, view, unit, other) ==
    Lexicographic(<<-UnitEnd(db, view, unit), TextRank(unit)>>, <<-UnitEnd(db, view, other), TextRank(other)>>)

\* The calls of a row of the list: in the list of roots, those of all its members.
SessionListCalls(db, view, unit) ==
    LET members == {unit} \cup (IF view = Roots THEN {m.session : m \in {x \in db.memberships : x.root = unit}} ELSE {})
    IN  {call \in db.calls : call.session \in members}

SessionListEntry(db, view, unit) ==
    [id |-> unit, root |-> RootOf(db.memberships, unit), parent |-> ParentOf(db, unit),
     rollup |-> GroupedRollup(db, view, unit), cost |-> SummarizeCost(SessionListCalls(db, view, unit))]

\* One page: one row more is read than shown, to know whether there is another.
ListSessions(db, filter, offset, size) ==
    LET listed == ListedUnits(db, filter)
        Place(unit) == Cardinality({other \in listed : ListedBefore(db, filter.view, other, unit)})
        read == {unit \in listed : Place(unit) \in offset..(offset + size)}
        shown == {unit \in read : Place(unit) < offset + size}
    IN  [rows |-> {SessionListEntry(db, filter.view, unit) : unit \in shown},
         more |-> Cardinality(read) > size, next |-> offset + Cardinality(shown)]

-----------------------------------------------------------------------------
(* The dashboard *)

\* The calls of the sessions it selects; calls without a session are left out here.
DashboardCalls(db, since, search) ==
    LET selected == IF search # NoText THEN SearchSessionRoots(db, Roots, since, search) ELSE ActiveUnits(db, Roots, since)
    IN  {call \in db.calls : UnitOf(db, Roots, call.session) \in selected}

\* The counts cover everything active, the runs and tokens what a search leaves.
GetDashboard(db, since, search) ==
    LET active == {GroupedRollup(db, Roots, unit) @@ [unit |-> unit] : unit \in ActiveUnits(db, Roots, since)}
        selected == IF search = NoText THEN active
                    ELSE {group \in active : group.unit \in SearchSessionRoots(db, Roots, since, search)}
        Sum(groups, Field(_)) == MapThenSumSet(Field, groups)
    IN  [spans |-> Sum(active, LAMBDA group : group.spans), logs |-> Sum(active, LAMBDA group : group.logs),
         runs |-> Cardinality(selected), agents |-> Sum(selected, LAMBDA group : group.agents),
         tokens |-> Sum(selected, LAMBDA group : group.tokens),
         cost |-> SummarizeCost(DashboardCalls(db, since, search))]

-----------------------------------------------------------------------------
(* The agents of a conversation *)

\* The main agent goes by three names.
IsPrimarySessionAgent(session, agent) == agent \in {"", MainAgent, session}

\* The name an agent is shown by: that of its session when there are several.
EffectiveAgent(db, session, agent) ==
    CASE ~IsGrouped(db, session) /\ IsPrimarySessionAgent(session, agent) -> <<MainAgent>>
      [] ~IsGrouped(db, session) /\ ~IsPrimarySessionAgent(session, agent) -> <<agent>>
      [] IsGrouped(db, session) /\ IsPrimarySessionAgent(session, agent) -> <<session>>
      [] OTHER -> <<session, agent>>

NoAgent == << >>

\* The rows a filter by the shown name of an agent selects among those of the
\* members of a conversation.
AgentRows(members, rows, filter) ==
    {row \in rows :
        \/ filter = NoAgent
        \/ /\ filter = <<row.session>> \/ (members = {row.session} /\ filter = <<MainAgent>>)
           /\ IsPrimarySessionAgent(row.session, row.agent)
        \/ /\ filter # <<row.session>>
           /\ \/ filter = <<row.session, row.agent>>
              \/ members = {row.session} /\ filter # <<MainAgent>> /\ filter = <<row.agent>>}

\* The nearest span above one that another agent of the session wrote.
NearestAncestorAgent(db, session, span, agent) ==
    LET spans == {row \in db.spans : row.trace = span.trace /\ row.session = session}
        Above(row) == {parent \in spans : parent.id = row.parent}
        climb[n \in 0..Cardinality(spans)] ==
            IF n = 0 THEN {span}
            ELSE UNION {Above(row) : row \in {r \in climb[n - 1] : NormalizedAgent(r.agent) = agent}}
        reached == UNION {climb[n] : n \in 1..Cardinality(spans)}
    IN  {NormalizedAgent(row.agent) : row \in reached} \ {agent}

\* The parents that an agent without one may be given: the first of its spans
\* that has such an ancestor decides, and the spans come in no particular order.
InferAgentParents(db, session, agent) ==
    UNION {NearestAncestorAgent(db, session, span, agent) :
             span \in {row \in db.spans : row.session = session /\ row.agent = agent /\ row.parent # NoSpan}}

\* The name by which the parent of an agent is shown.
EffectiveParent(db, session, parent) ==
    IF IsGrouped(db, session) /\ parent \in GroupOf(db.memberships, session) THEN <<parent>>
    ELSE EffectiveAgent(db, session, parent)

\* The parents an agent may be shown with.
AgentParents(db, session, agent) ==
    LET inferred == IF IsPrimarySessionAgent(session, agent) THEN {} ELSE InferAgentParents(db, session, agent)
    IN  CASE inferred # {} -> {EffectiveParent(db, session, parent) : parent \in inferred}
          [] inferred = {} /\ ~IsGrouped(db, session) -> {}
          [] inferred = {} /\ IsGrouped(db, session) /\ IsPrimarySessionAgent(session, agent) ->
               {<<parent>> : parent \in ParentOf(db, session)}
          [] OTHER -> {<<session>>}

-----------------------------------------------------------------------------
(* A conversation *)

NotFound == "not found"
TargetNotFound == "target not found"

MembersOf(db, session) == GroupOf(db.memberships, session)

\* The agents of the members under the names they are shown by.
SummaryAgents(db, session) ==
    LET keys == {key \in DOMAIN db.agents : key[1] \in MembersOf(db, session)}
        Own(name) == {key \in keys : EffectiveAgent(db, key[1], key[2]) = name}
    IN  [name \in {EffectiveAgent(db, key[1], key[2]) : key \in keys} |->
            [activities |-> MapThenSumSet(LAMBDA key : db.agents[key].activities, Own(name)),
             tokens |-> MapThenSumSet(LAMBDA key : db.agents[key].tokens, Own(name)),
             parents |-> UNION {AgentParents(db, key[1], key[2]) : key \in Own(name)}]]

\* A conversation whose members have no rollup is not found.
GetSessionSummary(db, session) ==
    LET root == RootOf(db.memberships, session)
        group == GroupedRollup(db, Roots, root)
    IN  IF UnitSessions(db, Roots, root) = {} THEN [status |-> NotFound]
        ELSE [status |-> "ok", root |-> root, started |-> group.started, ended |-> group.ended,
              activities |-> group.spans + group.logs, tokens |-> group.tokens, reported |-> group.reported,
              agents |-> SummaryAgents(db, session),
              traces |-> {pair[2] : pair \in {p \in db.sessionTraces : p[1] \in MembersOf(db, session)}},
              cost |-> SessionCostSummary(db, MembersOf(db, session))]

\* The rows of the members that mean something.
MeaningfulRows(db, session) == {row \in SessionRows(db) : row.session \in MembersOf(db, session)}

ActivityPage(rows, offset, size) ==
    LET shown == ActivitiesWindow(rows, offset, size, "newest")
    IN  [status |-> "ok", rows |-> shown, total |-> Cardinality(rows), offset |-> offset,
         earlier |-> offset > 0, more |-> offset + Cardinality(shown) < Cardinality(rows)]

\* The activities of a conversation, of one agent when a filter names it; an
\* anchor chooses the page when no offset was asked for.
ListSessionActivities(db, session, agent, anchor, offset, size) ==
    LET rows == AgentRows(MembersOf(db, session), MeaningfulRows(db, session), agent)
        around == OffsetAround(AnchorIndex(rows, anchor, "newest"), size)
        wanted == offset = 0 /\ anchor # NoAnchor
    IN  CASE rows = {} -> [status |-> NotFound]
          [] rows # {} /\ wanted /\ ~\E row \in rows : AtAnchor(row, anchor) -> [status |-> TargetNotFound]
          [] OTHER -> ActivityPage(rows, BoundedOffset(Cardinality(rows), IF wanted THEN around ELSE offset), size)

\* A conversation with one page around an anchor: an activity of an unknown kind
\* is listed when it is the anchor, also where nothing else is known of the session.
GetConversation(db, session, anchor, size) ==
    LET rows == {row \in db.spans \cup db.logs :
                    row.session \in MembersOf(db, session) /\ (row.known \/ AtAnchor(row, anchor))}
    IN  CASE rows = {} -> [status |-> NotFound]
          [] rows # {} /\ anchor # NoAnchor /\ ~\E row \in rows : AtAnchor(row, anchor) -> [status |-> TargetNotFound]
          [] OTHER ->
               ActivityPage(rows, IF anchor = NoAnchor THEN 0
                                  ELSE BoundedOffset(Cardinality(rows), OffsetAround(AnchorIndex(rows, anchor, "newest"), size)),
                            size)

-----------------------------------------------------------------------------
(* The reference: what the rows say *)

\* The pages of a list that is read to its end, and one past it at times.
SessionListPages(db, filter, size) ==
    {ListSessions(db, filter, n * size, size) : n \in 0..(Cardinality(Units(db, filter.view)) \div size)}

UnitRows(db, view, unit) == {row \in SessionRows(db) : UnitOf(db, view, row.session) = unit}

\* The units a list should have.
UnitsOfRows(db, filter) ==
    {unit \in {UnitOf(db, filter.view, row.session) : row \in SessionRows(db)} :
        LET rows == UnitRows(db, filter.view, unit)
        IN  /\ \E row \in rows : row.at >= filter.since
            /\ filter.search # NoText => \E row \in rows : Mentions(row, filter.search)
            /\ filter.conditions.failure => \E row \in rows : row.rank = 2 \/ (row.failed /\ row.rank # 1)
            /\ filter.conditions.atLeast # 0 =>
                  /\ \A row \in rows : row.start <= row.at
                  /\ \E row, other \in rows : other.at - row.start >= filter.conditions.atLeast
            /\ filter.session # NoSession => filter.session \in {unit} \cup
                 {s \in MembersOf(db, unit) : filter.view = Roots}}

\* The list shows each unit once, on its page, with what its rows add up to.
ListIsExact(db, filter, size) ==
    LET pages == SessionListPages(db, filter, size)
        entries == UNION {page.rows : page \in pages}
        units == UnitsOfRows(db, filter)
    IN  /\ {entry.id : entry \in entries} = units
        /\ \A page, later \in pages : page.next < later.next => \A entry \in page.rows, other \in later.rows :
              entry.id # other.id /\ entry.rollup.ended >= other.rollup.ended
        /\ \A page \in pages : page.more <=> page.next < Cardinality(units)
        /\ \A entry \in entries :
              LET rows == UnitRows(db, filter.view, entry.id)
              IN  /\ entry.rollup.spans + entry.rollup.logs = Cardinality(rows)
                  /\ entry.rollup.tokens = Tokens(rows)
                  /\ entry.rollup.ended = Max({row.at : row \in rows})
                  /\ entry.cost = SummarizeCost({call \in db.calls : UnitOf(db, filter.view, call.session) = entry.id})

\* The dashboard counts what the list of roots shows.
DashboardIsList(db, since, search) ==
    LET filter == [view |-> Roots, since |-> since, search |-> search, session |-> NoSession, conditions |-> NoConditions]
        units == UnitsOfRows(db, filter)
        rows == UNION {UnitRows(db, Roots, unit) : unit \in units}
        dashboard == GetDashboard(db, since, search)
    IN  /\ dashboard.runs = Cardinality(units)
        /\ dashboard.tokens = Tokens(rows)
        /\ search = NoText => dashboard.spans + dashboard.logs = Cardinality(rows)
        /\ dashboard.cost = SummarizeCost({call \in db.calls : RootOf(db.memberships, call.session) \in units})

\* A conversation is summarised as its rows are listed: as many activities, over
\* the same agents, each of which its shown name selects.
SummaryIsExact(db, session) ==
    LET summary == GetSessionSummary(db, session)
        rows == MeaningfulRows(db, session)
        Shown(row) == EffectiveAgent(db, row.session, row.agent)
    IN  IF rows = {} THEN summary.status = NotFound
        ELSE /\ summary.activities = Cardinality(rows)
             /\ summary.tokens = Tokens(rows)
             /\ summary.traces = {row.trace : row \in rows} \ {""}
             /\ DOMAIN summary.agents = {Shown(row) : row \in rows}
             /\ \A name \in DOMAIN summary.agents :
                   /\ AgentRows(MembersOf(db, session), rows, name) = {row \in rows : Shown(row) = name}
                   /\ summary.agents[name].activities = Cardinality({row \in rows : Shown(row) = name})
                   /\ name \notin summary.agents[name].parents

\* The pages of a conversation hold each of its activities once, in order, and
\* one asked for by an anchor holds the anchor.
ConversationIsPaged(db, session, size) ==
    LET rows == MeaningfulRows(db, session)
        Page(n) == ListSessionActivities(db, session, NoAgent, NoAnchor, (n - 1) * size, size)
    IN  /\ rows # {} => PagesTile([n \in 1..((Cardinality(rows) + size - 1) \div size) |-> Page(n)], rows, "newest")
        /\ \A row \in {r \in db.spans : r.session \in MembersOf(db, session)} :
              LET anchor == <<row.trace, row.id>>
                  page == GetConversation(db, session, anchor, size)
                  listed == ListSessionActivities(db, session, NoAgent, anchor, 0, size)
              IN  /\ \E shown \in page.rows : AtAnchor(shown, anchor)
                  /\ page.total = Cardinality(rows \cup {r \in db.spans \cup db.logs :
                                     r.session \in MembersOf(db, session) /\ AtAnchor(r, anchor)})
                  /\ row.known => \E shown \in listed.rows : AtAnchor(shown, anchor)

===============================================================================
