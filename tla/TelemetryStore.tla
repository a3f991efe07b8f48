---------------------------- MODULE TelemetryStore ----------------------------
(***************************************************************************)
(* The store over its life: exports are committed as they arrive, archived  *)
(* and restored by retention, and replayed by a compaction.                 *)
(*                                                                         *)
(* The journal of exports is the authority; everything else in db is        *)
(* derived from it.  A commit, an archive and a restore update what is      *)
(* derived in place, a compaction derives it anew in a candidate database   *)
(* that then replaces this one.  What each leaves must be the same.         *)
(***************************************************************************)
EXTENDS StoreProjection

CONSTANTS
    Universes,      \* what to explore: exports (batches by name), a bound on upkeep, views to open
    ArchiveSize,    \* bound: how many exports one archive or restore moves
    Disagreements   \* which of the known disagreements with a replay may happen

ASSUME StoreAssumption ==
    /\ ArchiveSize \in Nat \ {0}
    /\ Disagreements \subseteq {"sequence reuse", "stale attribution"}

VARIABLES
    universe,     \* the exports, the upkeep and the views of this behaviour
    journal,      \* the names of the exports, at their identities
    archived,     \* the identities of the exports that are in an archive
    db,           \* the tables
    generation,   \* the generation of the projection feed
    upkeep,       \* how many archives, restores and compactions there were
    reordered     \* an archive or a restore aggregated the agents out of their order

storeVars == <<universe, journal, archived, db, generation, upkeep, reordered>>

Identities == DOMAIN journal
Active == Identities \ archived
BatchOf(id) == universe.exports[journal[id]]

InOrder(ids) == SetToSortSeq(ids, <)

-----------------------------------------------------------------------------

StoreInit ==
    /\ universe \in Universes
    /\ journal = << >>
    /\ archived = {}
    /\ db = [EmptyTables EXCEPT !.rates = universe.rates]
    /\ generation = 0
    /\ upkeep = 0
    /\ reordered = FALSE

\* The committer hands over an export; no two exports of a universe are the same.
Commit(name) ==
    /\ name \notin Range(journal)
    /\ journal' = Append(journal, name)
    /\ db' = CommitExport(db, Len(journal'), universe.exports[name])
    /\ UNCHANGED <<universe, archived, generation, upkeep, reordered>>

-----------------------------------------------------------------------------
(* Upkeep *)

\* The rows carry sequences that the feed has given out already.
SequencesArePast(tables) ==
    \A row \in tables.spans \cup tables.logs : row.sequence <= Len(tables.feed)

\* Every request log is with the agent that its call's spans know.
AttributionIsCurrent(tables) ==
    \A log \in tables.logs : log.provider = "claude" /\ log.usage # "" => log.agent = RuntimeAgent(tables, log)

\* Bound: without a disagreement, the steps that bring it about are left out.
WithinAgreement(tables) ==
    /\ "sequence reuse" \notin Disagreements => SequencesArePast(tables)
    /\ "stale attribution" \notin Disagreements => AttributionIsCurrent(tables)

Archive(ids) ==
    /\ upkeep < universe.upkeep
    /\ db' = RemoveActiveExports(db, ids)
    /\ WithinAgreement(db')
    /\ archived' = archived \cup ids
    /\ reordered' = TRUE
    /\ upkeep' = upkeep + 1
    /\ UNCHANGED <<universe, journal, generation>>

Restore(ids) ==
    /\ upkeep < universe.upkeep
    /\ db' = ReconcileRestoredSpanWinners(
                FoldLeft(LAMBDA tables, id : CommitExport(tables, id, BatchOf(id)), db, InOrder(ids)), ids)
    /\ WithinAgreement(db')
    /\ archived' = archived \ ids
    /\ reordered' = TRUE
    /\ upkeep' = upkeep + 1
    /\ UNCHANGED <<universe, journal, generation>>

\* The tables a replay of the active exports makes.
Replays ==
    {FinalizeReplay(FoldLeft(LAMBDA tables, id : ReplayExport(tables, id, BatchOf(id)), candidate, InOrder(Active))) :
        candidate \in OpenReplayCandidate(db.rates)}

Compact ==
    /\ upkeep < universe.upkeep
    /\ \E replayed \in Replays : ProjectionIsComplete(replayed) /\ db' = replayed
    /\ generation' = generation + 1
    /\ reordered' = FALSE
    /\ upkeep' = upkeep + 1
    /\ UNCHANGED <<universe, journal, archived>>

\* A version with other rates opens the store.
ApplyRateManifest(manifest) ==
    /\ \E stored \in LoadRates(db.rates) :
          \E rates \in PlanRateManifestUpdate(stored, manifest) : db' = ApplyRates(db, rates, Everything)
    /\ UNCHANGED <<universe, journal, archived, generation, upkeep, reordered>>

Batches(ids) == {some \in SUBSET ids : Cardinality(some) \in 1..ArchiveSize}

StoreNext ==
    \/ \E name \in DOMAIN universe.exports : Commit(name)
    \/ \E ids \in Batches(Active) : Archive(ids)
    \/ \E ids \in Batches(archived) : Restore(ids)
    \/ Compact
    \/ \E manifest \in universe.manifests : ApplyRateManifest(manifest)

StoreSpec == StoreInit /\ [][StoreNext]_storeVars

-----------------------------------------------------------------------------
(* Properties *)

\* The summaries that commits keep up to date in place are those that an
\* aggregation of the stored rows would give (rollup.go, trace_rollup.go).
RollupsAreRebuilds == SessionsAreRebuilt(db) /\ TracesAreRebuilt(db)

\* The summary of a session counts the activities the session has: the live
\* feed of a compacted store starts without colliding with the sequences of the
\* replay (TestFinalizedReplayStartsLiveProjectionFeedWithoutSequenceCollision).
SessionsMatchTheirRows == SessionsAreRebuilt(db)

\* The calls are those of the logs there are, each billed once, and the rates
\* that price them leave no time to two prices (model_calls.go, model_rates.go).
CallsAreBilledOnce == EveryCallIsBilledOnce(db) /\ SoundHistory(db.rates)

\* A row apart from the order it was stored in.
Fact(row) == [field \in DOMAIN row \ {"sequence", "activity"} |-> row[field]]

Unlabelled(agents) == [key \in DOMAIN agents |-> [agents[key] EXCEPT !.label = NoLabel]]

\* An activity by what does not change when it is stored again.
Named(tables, activity) ==
    {row.activity : row \in {r \in tables.spans : r.activity = activity}}
      \cup {<<"log", row.locator>> : row \in {r \in tables.logs : r.activity = activity}}

CallFacts(tables) ==
    {[id |-> call.id, attribution |-> call.attribution, model |-> call.model,
      stands |-> Named(tables, call.representative),
      links |-> {<<Named(tables, link.activity), link.role>> : link \in {l \in tables.links : l.call = call.id}},
      supports |-> {<<s.trace, Named(tables, s.activity), s.kind>> : s \in {t \in tables.supports : t.call = call.id}},
      traces |-> {pair.trace : pair \in {p \in tables.callTraces : p.call = call.id}}] : call \in tables.calls}

\* The tables hold what others do, apart from the order the rows were stored in.
SameTables(tables, other) ==
    /\ CallFacts(tables) = CallFacts(other)
    /\ {Fact(row) : row \in tables.spans} = {Fact(row) : row \in other.spans}
    /\ {Fact(row) : row \in tables.logs} = {Fact(row) : row \in other.logs}
    /\ tables.memberships = other.memberships
    /\ tables.sessions = other.sessions
    /\ tables.sessionTraces = other.sessionTraces
    /\ tables.traces = other.traces
    /\ tables.traceSessions = other.traceSessions
    /\ Unlabelled(tables.agents) = Unlabelled(other.agents)
    /\ DOMAIN tables.traceAgents = DOMAIN other.traceAgents

SameLabels(tables, other) == tables.agents = other.agents /\ tables.traceAgents = other.traceAgents

\* A replay of the journal gives what the store holds, whatever the store went
\* through: rows, calls, attribution, links and summaries, and the descriptions of
\* agents too while they were collected in the order of the journal; and it is
\* one that may replace the store (replay.go, compaction/validation.go).
ReplayAgrees ==
    \E replayed \in Replays :
        /\ ProjectionIsComplete(replayed)
        /\ SameTables(db, replayed)
        /\ ~reordered => SameLabels(db, replayed)

=============================================================================
