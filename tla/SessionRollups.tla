---------------------------- MODULE SessionRollups ----------------------------
(***************************************************************************)
(* What the store keeps per session besides the rows themselves: one rollup *)
(* of its activities, one per agent, and the traces it took part in.        *)
(*                                                                         *)
(* A commit that only appends, or revises spans in a way that can be        *)
(* subtracted and added again, updates them in place; any other commit      *)
(* rebuilds those of the sessions it touched.  Here tables are fields of    *)
(* the record db: spans and logs are sets of rows, sessions and agents are  *)
(* functions from the key of a rollup to it.  A session is the pair of a    *)
(* source and a session identity, tokens stand for all the counters that    *)
(* are summed, reported for all the flags that are maximised, and label for *)
(* all the descriptions of an agent, of which a later one wins.             *)
(***************************************************************************)
EXTENDS Integers, FiniteSets, FiniteSetsExt, Functions, SequencesExt, SessionGraph

MainAgent == "main"
NoLabel == 0

\* The rows a session aggregates; an activity of an unknown kind is stored and not counted.
SessionRows(db) == {row \in db.spans \cup db.logs : row.session # NoSession /\ row.known}

RowsOf(db, session) == {row \in SessionRows(db) : row.session = session}

RowsAt(db, sequence) == {row \in db.spans \cup db.logs : row.sequence = sequence}

NormalizedAgent(agent) == IF agent = "" THEN MainAgent ELSE agent

AgentKey(row) == <<row.session, NormalizedAgent(row.agent)>>

Tokens(rows) == MapThenSumSet(LAMBDA row : row.tokens, rows)

Reported(rows) == \E row \in rows : row.reported \/ row.tokens # 0

\* A rollup of rows with the agents counted.
SessionRollup(rows) ==
    [started |-> Min({row.at : row \in rows}),
     ended |-> Max({row.at : row \in rows}),
     spans |-> Cardinality({row \in rows : row.signal = "trace"}),
     logs |-> Cardinality({row \in rows : row.signal = "log"}),
     tokens |-> Tokens(rows),
     reported |-> Reported(rows),
     agents |-> Cardinality({NormalizedAgent(row.agent) : row \in rows})]

AgentRollup(rows) ==
    [activities |-> Cardinality(rows), tokens |-> Tokens(rows), reported |-> Reported(rows),
     label |-> Max({row.label : row \in rows})]

Sessions(rows) == {row.session : row \in rows}

SessionRollups(rows) ==
    [session \in Sessions(rows) |-> SessionRollup({row \in rows : row.session = session})]

AgentRollups(rows) ==
    [key \in {AgentKey(row) : row \in rows} |-> AgentRollup({row \in rows : AgentKey(row) = key})]

SessionTraces(rows) == {<<row.session, row.trace>> : row \in {r \in rows : r.trace # ""}}

-----------------------------------------------------------------------------
(* Rebuilding *)

Without(table, keys) == Restrict(table, DOMAIN table \ keys)

\* A function that takes its values from new where it has them, and from old elsewhere.
Replaced(old, new) ==
    [key \in DOMAIN old \cup DOMAIN new |-> IF key \in DOMAIN new THEN new[key] ELSE old[key]]

RebuildSessionAgents(db, sessions) ==
    LET rows == {row \in SessionRows(db) : row.session \in sessions}
    IN  [db EXCEPT !.agents = Replaced(Without(@, {key \in DOMAIN @ : key[1] \in sessions}), AgentRollups(rows))]

\* The agents, the traces and the rollup of some sessions, from their rows.
RebuildSessions(db, sessions) ==
    LET rows == {row \in SessionRows(db) : row.session \in sessions}
    IN  [RebuildSessionAgents(db, sessions) EXCEPT
            !.sessionTraces = {pair \in @ : pair[1] \notin sessions} \cup SessionTraces(rows),
            !.sessions = Replaced(Without(@, sessions), SessionRollups(rows))]

\* The sessions a batch names, whether or not its activities count.
BatchSessions(batch) == ({item.session : item \in ToSet(batch.spans) \cup ToSet(batch.logs)}) \ {NoSession}

\* The sessions whose rollups a batch can change, with those its spans were in before.
AffectedSessions(batch, previous) == BatchSessions(batch) \cup (Sessions(previous) \ {NoSession})

-----------------------------------------------------------------------------
(* Updating in place *)

\* The stored row that a span of a batch revises is among previous.
Revises(span, old) == old.trace = span.trace /\ old.id = span.id

\* A batch can be applied in place when every revision of a span stays in its
\* session and agent, ends no earlier, and still reports what the old one did.
RollupCanApplyIncrementally(batch, previous) ==
    \A span \in ToSet(batch.spans), old \in previous :
        Revises(span, old) => /\ old.known = span.known
                              /\ old.session = span.session
                              /\ NormalizedAgent(old.agent) = NormalizedAgent(span.agent)
                              /\ span.at >= old.at
                              /\ old.reported => span.reported

\* The counted rows among those a batch revises.
Subtracted(previous) == {old \in previous : old.known /\ old.session # NoSession}

\* A rollup without the rows that were revised; a rollup that does not exist is left out.
SubtractSessions(rollups, olds) ==
    [session \in DOMAIN rollups |->
        LET own == {old \in olds : old.session = session}
        IN  [rollups[session] EXCEPT !.spans = @ - Cardinality(own), !.tokens = @ - Tokens(own)]]

SubtractAgents(rollups, olds) ==
    [key \in DOMAIN rollups |->
        LET own == {old \in olds : AgentKey(old) = key}
        IN  [rollups[key] EXCEPT !.activities = @ - Cardinality(own), !.tokens = @ - Tokens(own)]]

\* What ON CONFLICT DO UPDATE makes of a stored rollup and that of the new rows.
MergeSessions(old, new) ==
    [started |-> Min({old.started, new.started}), ended |-> Max({old.ended, new.ended}),
     spans |-> old.spans + new.spans, logs |-> old.logs + new.logs,
     tokens |-> old.tokens + new.tokens, reported |-> old.reported \/ new.reported,
     agents |-> old.agents]

MergeAgents(old, new) ==
    [activities |-> old.activities + new.activities, tokens |-> old.tokens + new.tokens,
     reported |-> old.reported \/ new.reported,
     label |-> IF new.label # NoLabel THEN new.label ELSE old.label]

Upserted(old, new, Merge(_, _)) ==
    [key \in DOMAIN old \cup DOMAIN new |->
        CASE key \notin DOMAIN new -> old[key]
          [] key \notin DOMAIN old -> new[key]
          [] OTHER -> Merge(old[key], new[key])]

\* Fault: the start of a session whose first span moved is left.
LeaveRevisedStart(db, batch, previous) == db
\* MIN cannot give back the start of a span that now ends later, so the start
\* of the sessions whose spans moved is read again from their rows.
RepairRevisedStart(db, batch, previous) ==
    LET revised == {old.session : old \in {o \in previous :
                      o.session # NoSession /\ \E span \in ToSet(batch.spans) : Revises(span, o) /\ o.at # span.at}}
    IN  [db EXCEPT !.sessions = [session \in DOMAIN @ |->
            IF session \in revised
              THEN [@[session] EXCEPT !.started = Min({row.at : row \in RowsOf(db, session)})]
              ELSE @[session]]]

\* The number of agents of the sessions that a batch adds counted activities to.
CountAgents(db, batch) ==
    LET counted == {item \in ToSet(batch.spans) \cup ToSet(batch.logs) : item.known}
        touched == {item.session : item \in counted} \ {NoSession}
    IN  [db EXCEPT !.sessions = [session \in DOMAIN @ |->
            IF session \in touched
              THEN [@[session] EXCEPT !.agents = Cardinality({key \in DOMAIN db.agents : key[1] = session})]
              ELSE @[session]]]

\* The agents of replayed and of live rows are updated by the same statements.
ApplyAgents(db, previous, sequence) ==
    LET rows == SessionRows(db) \cap RowsAt(db, sequence)
    IN  [db EXCEPT !.agents = Upserted(SubtractAgents(@, Subtracted(previous)), AgentRollups(rows), MergeAgents)]

\* The rollups after a batch whose rows carry sequence: the revised rows are
\* taken out, and the rows of the sequence are put in.
ApplySessions(db, batch, previous, sequence) ==
    LET rows == SessionRows(db) \cap RowsAt(db, sequence)
        fresh == [session \in Sessions(rows) |->
                    [SessionRollup({row \in rows : row.session = session}) EXCEPT !.agents = 0]]
        added == [db EXCEPT !.sessions = Upserted(SubtractSessions(@, Subtracted(previous)), fresh, MergeSessions)]
        repaired == RepairRevisedStart(added, batch, previous)
        withTraces == [repaired EXCEPT !.sessionTraces = @ \cup SessionTraces(rows)]
    IN  CountAgents(ApplyAgents(withTraces, previous, sequence), batch)

\* A batch that announces nothing changed nothing; one that cannot be applied
\* in place rebuilds the sessions it names and those its spans were in.
UpdateAffectedSessionRollups(db, batch, previous, sequence, incremental) ==
    IF sequence = 0 THEN db
    ELSE IF incremental THEN ApplySessions(db, batch, previous, sequence)
    ELSE RebuildSessions(db, AffectedSessions(batch, previous))

-----------------------------------------------------------------------------
(* The reference: what a rebuild of everything would hold *)

SessionsAreRebuilt(db) ==
    /\ db.sessions = SessionRollups(SessionRows(db))
    /\ db.sessionTraces = SessionTraces(SessionRows(db))
    /\ LET rebuilt == AgentRollups(SessionRows(db))
       IN  /\ DOMAIN db.agents = DOMAIN rebuilt
           /\ \A key \in DOMAIN rebuilt : [db.agents[key] EXCEPT !.label = rebuilt[key].label] = rebuilt[key]

=============================================================================
