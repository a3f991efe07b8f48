------------------------------ MODULE ModelCalls ------------------------------
(***************************************************************************)
(* The billable calls of a store: which logs report the same call, what it  *)
(* cost, and which spans and traces it belongs to.                          *)
(*                                                                         *)
(* A log that reports a call is authoritative.  Claude sends several logs   *)
(* of one call, bound by the identities they share, in any order: all calls *)
(* of a session are resolved anew from its logs.  A Codex log is a call of  *)
(* its own, priced by the rates.  A span corroborates a call when it names  *)
(* exactly one, by an identity or by the usage it reports.                  *)
(*                                                                         *)
(* In db, calls are records with their attribution, links say what an       *)
(* activity is to a call, supports why a call is in a trace, callTraces     *)
(* that it is, and rates is the history of prices.  The model of a log      *)
(* stands for all the facts that its duplicates must agree on.              *)
(***************************************************************************)
EXTENDS TraceRollups, ModelRates

Invalid == -2   \* an amount that a provider reported and cannot be read

\* The logs that report the calls of a session, and the spans that corroborate them.
AuthoritativeLogs(db, provider, session) ==
    {log \in db.logs : log.provider = provider /\ log.session = session}

CorroboratingSpans(db, provider, session) ==
    {span \in db.spans : span.provider = provider /\ span.session = session}

CallsOf(db, provider, session) == {call \in db.calls : call.provider = provider /\ call.session = session}

Ids(calls) == {call.id : call \in calls}

\* The deletion of calls takes what refers to them along.
WithoutCalls(db, ids) ==
    [db EXCEPT !.calls = {call \in @ : call.id \notin ids},
               !.links = {link \in @ : link.call \notin ids},
               !.supports = {support \in @ : support.call \notin ids},
               !.callTraces = {pair \in @ : pair.call \notin ids}]

SetCost(db, activities, cost) ==
    [db EXCEPT !.logs = {IF log.activity \in activities THEN [log EXCEPT !.cost = cost] ELSE log : log \in @}]

-----------------------------------------------------------------------------
(* Which logs are one call of Claude *)

SharesAlias(log, other) == log.aliases \cap other.aliases # {}

\* Fault: a log that shares identities with two calls joins one of them.
JoinOne(parts, log) ==
    LET joined == {part \in parts : \E other \in part : SharesAlias(log, other)}
    IN  IF joined = {} THEN parts \cup {{log}}
        ELSE LET part == CHOOSE p \in joined : TRUE IN (parts \ {part}) \cup {part \cup {log}}
\* A log joins all the parts it shares an identity with into one.
JoinAll(parts, log) ==
    LET joined == {part \in parts : \E other \in part : SharesAlias(log, other)}
    IN  (parts \ joined) \cup {{log} \cup UNION joined}

Components(logs) == FoldLeft(JoinAll, {}, SetToSortSeq(logs, LAMBDA log, other : log.locator < other.locator))

JournalFallback == 4

\* The identity of a call: the first alias of its logs, by kind and then value,
\* or the place of its first log in the journal.
CanonicalAlias(logs) ==
    LET aliases == UNION {log.aliases : log \in logs}
        Before(a, b) == a[1] < b[1] \/ (a[1] = b[1] /\ a[2] < b[2])
    IN  IF aliases = {} THEN <<JournalFallback, Min({log.locator : log \in logs})>>
        ELSE CHOOSE a \in aliases : \A b \in aliases \ {a} : Before(a, b)

Representative(logs) == CHOOSE log \in logs : \A other \in logs : log.locator <= other.locator

Models(logs) == {log.model : log \in logs} \ {NoModel}

\* What a call cost by its logs, if they agree.
ReconcileClaudeAttribution(logs) ==
    LET amounts == {log.amount : log \in logs} \ {NoAmount, Invalid}
        invalid == \E log \in logs : log.amount = Invalid
    IN  CASE Cardinality(Models(logs)) > 1 \/ Cardinality(amounts) > 1 ->
               Unavailable("conflicting_authoritative_evidence")
          [] Cardinality(Models(logs)) <= 1 /\ Cardinality(amounts) <= 1 /\ (invalid \/ amounts = {}) ->
               Unavailable("invalid_provider_amount")
          [] OTHER -> [basis |-> "provider_reported", amount |-> Max(amounts), reason |-> "", rate |-> << >>]

\* The one fact that the logs of a call agree on.
ReconcileClaudeFacts(logs) ==
    IF Cardinality(Models(logs)) = 1 THEN CHOOSE model \in Models(logs) : TRUE ELSE NoModel

ResolveClaudeCalls(logs) ==
    {[id |-> <<"claude", Representative(part).session>> \o CanonicalAlias(part),
      provider |-> "claude", session |-> Representative(part).session, export |-> 0,
      representative |-> Representative(part).activity, model |-> ReconcileClaudeFacts(part),
      at |-> NoTime, billed |-> NotReported, evidence |-> part,
      attribution |-> ReconcileClaudeAttribution(part)] : part \in Components(logs)}

-----------------------------------------------------------------------------
(* Corroboration *)

\* The calls of the logs that say something.
LinkedCalls(db, logs) == {link.call : link \in {l \in db.links : \E log \in logs : log.activity = l.activity}}

\* The calls that a span names, each by something that names no other.
NamedCalls(db, span, logs) ==
    LET byAlias == {LinkedCalls(db, {log \in logs : alias \in log.aliases}) : alias \in span.aliases}
        byUsage == {LinkedCalls(db, {log \in logs : log.usage = usage}) : usage \in {span.usage} \ {""}}
    IN  UNION {calls \in byAlias \cup byUsage : Cardinality(calls) = 1}

\* A span is with a call when all that it names is that call.
UniqueCandidate(db, span, logs) == Cardinality(NamedCalls(db, span, logs)) = 1

CallLink(activity, call, role) == [activity |-> activity, call |-> call, role |-> role]
Support(call, row, kind) == [call |-> call, trace |-> row.trace, activity |-> row.activity, kind |-> kind]

\* The links and supports of some spans to the calls they corroborate.
Corroborate(db, spans, logs) ==
    LET matched == {span \in spans : UniqueCandidate(db, span, logs)}
        CallOf(span) == CHOOSE call \in NamedCalls(db, span, logs) : TRUE
    IN  [db EXCEPT !.links = @ \cup {CallLink(span.activity, CallOf(span), "corroborating") : span \in matched},
                   !.supports = @ \cup {Support(CallOf(span), span, "corroborating") :
                                           span \in {s \in matched : s.trace # ""}}]

WithoutCorroboration(db, ids) ==
    [db EXCEPT !.links = {link \in @ : ~(link.call \in ids /\ link.role = "corroborating")},
               !.supports = {support \in @ : ~(support.call \in ids /\ support.kind = "corroborating")}]

DeriveTraceMemberships(db, ids) ==
    [db EXCEPT !.callTraces =
        {pair \in @ : pair.call \notin ids}
          \cup {[call |-> s.call, trace |-> s.trace] : s \in {support \in db.supports : support.call \in ids}}]

RebuildCorroboration(db, provider, session) ==
    LET ids == Ids(CallsOf(db, provider, session))
        matched == Corroborate(WithoutCorroboration(db, ids), CorroboratingSpans(db, provider, session),
                               AuthoritativeLogs(db, provider, session))
    IN  DeriveTraceMemberships(matched, ids)

\* The mutations that tell the views of the calls' activities.
TellScopes(rows) ==
    FlattenSeq(SetToSeq({SetToSeq({[scope |-> scope, activity |-> row.activity, operation |-> "upsert"] :
        scope \in {<<"session", row.session>>} \cup {<<"trace", t>> : t \in {row.trace} \ {""}}}) : row \in rows}))

NoChange == 0

\* The mutations of one change; a replay has no change and publishes none.
AppendActivityChanges(db, change, mutations) ==
    IF change = NoChange THEN db ELSE [db EXCEPT !.feed[change].mutations = @ \o mutations]

PublishClaudeCallChanges(db, change, session) ==
    AppendActivityChanges(db, change,
        TellScopes(AuthoritativeLogs(db, "claude", session) \cup CorroboratingSpans(db, "claude", session)))

RefreshClaudeCorroboratingProjection(db, change, session) ==
    PublishClaudeCallChanges(RebuildCorroboration(db, "claude", session), change, session)

RebuildCodexCorroboratingSupports(db, change, session) ==
    AppendActivityChanges(RebuildCorroboration(db, "codex", session), change,
                          TellScopes(CorroboratingSpans(db, "codex", session)))

-----------------------------------------------------------------------------
(* The calls of Claude *)

ClearPriorCosts(db, activities) == SetCost(db, activities, NoAmount)

Role(call, log) == IF log.activity = call.representative THEN "representative" ELSE "duplicate_authoritative"

\* The resolved calls with their logs, and the cost on the one that stands for each.
StoreClaudeCalls(db, calls) ==
    [FoldSet(LAMBDA call, d : IF call.attribution.amount = NoAmount THEN d
                              ELSE SetCost(d, {call.representative}, call.attribution.amount), db, calls) EXCEPT
        !.calls = @ \cup {[f \in DOMAIN call \ {"evidence"} |-> call[f]] : call \in calls},
        !.links = @ \cup UNION {{CallLink(log.activity, call.id, Role(call, log)) : log \in call.evidence} : call \in calls},
        !.supports = @ \cup UNION {{Support(call.id, log, "direct") : log \in {l \in call.evidence : l.trace # ""}} :
                                      call \in calls}]

\* The calls of a session replace those that were resolved before.
ReplaceClaudeCalls(db, session, logs) ==
    StoreClaudeCalls(WithoutCalls(ClearPriorCosts(db, {log.activity : log \in logs}), Ids(CallsOf(db, "claude", session))),
                     ResolveClaudeCalls(logs))

RebuildClaudeCostProjection(db, change, session) ==
    IF session = NoSession THEN db
    ELSE RefreshClaudeCorroboratingProjection(
            ReplaceClaudeCalls(db, session, AuthoritativeLogs(db, "claude", session)), change, session)

-----------------------------------------------------------------------------
(* The calls of Codex *)

\* A priced attribution is what its log cost; one that has no price any more
\* clears the cost, and a first one leaves what the producer reported.
PublishRepresentativeCost(db, activity, attribution, clear) ==
    IF attribution.amount = NoAmount /\ ~clear THEN db ELSE SetCost(db, {activity}, attribution.amount)

Pending == Unavailable("pending_replay_finalization")

\* A call with its price, its log and the trace of the log.
StoreCodexCall(db, log, call, traced) ==
    [PublishRepresentativeCost(db, log.activity, call.attribution, FALSE) EXCEPT
        !.calls = @ \cup {call},
        !.links = @ \cup {CallLink(log.activity, call.id, "representative")},
        !.supports = @ \cup {Support(call.id, row, "direct") : row \in traced},
        !.callTraces = @ \cup {[call |-> call.id, trace |-> row.trace] : row \in traced}]

\* A log of Codex is a call, known by its place in the journal; in a replay it
\* gets its price at the end.
PersistCodexCall(db, log, deferred) ==
    StoreCodexCall(db, log,
        [id |-> <<"codex", log.session, JournalFallback, log.locator>>, provider |-> "codex",
         session |-> log.session, export |-> log.export, representative |-> log.activity, model |-> log.model,
         at |-> log.at, billed |-> log.billed,
         attribution |-> IF deferred THEN Pending ELSE AttributeCodexCall(log, db.rates)],
        {row \in {log} : row.trace # ""})

\* The scopes that show a call.
CallScopes(db, call) ==
    {<<"session", s>> : s \in {call.session} \ {NoSession}}
        \cup {<<"trace", pair.trace>> : pair \in {p \in db.callTraces : p.call = call.id}}

\* The views of a call are told of its price.
AttributeCall(db, change, call, attribution) ==
    AppendActivityChanges(
        [PublishRepresentativeCost(db, call.representative, attribution, call.attribution # Pending) EXCEPT
            !.calls = (@ \ {call}) \cup {[call EXCEPT !.attribution = attribution]}], change,
        SetToSeq({[scope |-> scope, activity |-> call.representative, operation |-> "upsert"] :
                    scope \in CallScopes(db, call)}))

\* A call whose price is another by the rates of now, and the views of it.
RepriceCodexCall(db, change, call) ==
    FoldSet(LAMBDA attribution, d : AttributeCall(d, change, call, attribution), db,
            {AttributeCodexCall(call, db.rates)} \ {call.attribution})

RepriceCodexCalls(db, change) ==
    FoldSet(LAMBDA call, d : RepriceCodexCall(d, change, call), db, {call \in db.calls : call.provider = "codex"})

RebuildAllCodexCorroboratingSupports(db) ==
    FoldSet(LAMBDA session, d : RebuildCorroboration(d, "codex", session), db,
            {call.session : call \in {c \in db.calls : c.provider = "codex"}})

-----------------------------------------------------------------------------
(* An export *)

\* The logs of an export that report calls: a log of Codex is one, those of
\* Claude may change the calls of their sessions.
PersistLogCalls(db, logs, change) ==
    LET codex == {log \in logs : log.provider = "codex"}
        stored == FoldSet(LAMBDA log, d : PersistCodexCall(d, log, FALSE), db, codex)
        claude == FoldSet(LAMBDA session, d : RebuildClaudeCostProjection(d, change, session), stored,
                          Sessions({log \in logs : log.provider = "claude"}))
    IN  FoldSet(LAMBDA session, d : RebuildCodexCorroboratingSupports(d, change, session), claude,
                Sessions(codex) \ {NoSession})

\* The sessions whose corroborating spans an export brings or takes.
CorroboratedSessions(spans, previous, provider) ==
    Sessions({span \in spans \cup previous : span.provider = provider}) \ {NoSession}

PersistSpanCalls(db, spans, previous, change) ==
    LET claude == FoldSet(LAMBDA session, d : RefreshClaudeCorroboratingProjection(d, change, session), db,
                          CorroboratedSessions(spans, previous, "claude"))
    IN  FoldSet(LAMBDA session, d : RebuildCodexCorroboratingSupports(d, change, session), claude,
                CorroboratedSessions(spans, previous, "codex"))

\* All calls of Claude again, and the prices and spans of those of Codex.
RebuildReplayCostProjections(db) ==
    LET claude == FoldSet(LAMBDA session, d : RebuildClaudeCostProjection(d, NoChange, session), db,
                          Sessions({log \in db.logs : log.provider = "claude"}))
    IN  RebuildAllCodexCorroboratingSupports(RepriceCodexCalls(claude, NoChange))

\* A new manifest of rates reprices the calls of Codex; a change of the feed tells all views.
ApplyRates(db, rates, targets) ==
    LET applied == [db EXCEPT !.rates = rates]
    IN  IF rates = db.rates \/ ~\E call \in db.calls : call.provider = "codex" THEN applied
        ELSE RepriceCodexCalls([applied EXCEPT !.feed = Append(@, [targets |-> targets, mutations |-> << >>])],
                               Len(db.feed) + 1)

-----------------------------------------------------------------------------
(* What the readers see *)

\* What an activity is to a call: the cost it stands for, or a reference.
CallRelation(db, row) ==
    LET links == {link \in db.links : link.activity = row.activity}
    IN  {[call |-> link.call, role |-> link.role,
          attribution |-> {call.attribution : call \in {c \in db.calls : c.id = link.call /\ link.role = "representative"}}] :
            link \in links}

\* The cost of a set of calls: the sum of the priced ones, unless it overflows,
\* how many are priced, on which bases, and why the others are not.
SummarizeCost(calls) ==
    LET priced == {call \in calls : call.attribution.amount # NoAmount}
        total == FoldSet(LAMBDA call, sum : AddCharges(<<sum, call.attribution.amount>>), 0, priced)
    IN  [eligible |-> Cardinality(calls), priced |-> Cardinality(priced),
         amount |-> IF priced = {} THEN NoAmount ELSE total,
         bases |-> {call.attribution.basis : call \in priced},
         reasons |-> [reason \in {call.attribution.reason : call \in calls \ priced} |->
                        Cardinality({call \in calls \ priced : call.attribution.reason = reason})]]

SessionCostSummary(db, sessions) == SummarizeCost({call \in db.calls : call.session \in sessions})

TraceCostSummary(db, trace) ==
    SummarizeCost({call \in db.calls : [call |-> call.id, trace |-> trace] \in db.callTraces})

-----------------------------------------------------------------------------
(* The reference: what each call and each log should be *)

\* Every log of a call of Claude is linked to one call, and to the same as
\* every other log it shares an identity with; every call has one log to stand
\* for it, and that log alone carries the cost, once.
EveryCallIsBilledOnce(db) ==
    /\ \A link, other \in db.links : link.activity = other.activity => link = other
    /\ \A log \in {l \in db.logs : l.provider # "" /\ l.session # NoSession} :
          \E link \in db.links : link.activity = log.activity
    /\ \A log, other \in {l \in db.logs : l.provider = "claude" /\ l.session # NoSession} :
          log.session = other.session /\ SharesAlias(log, other) =>
              LinkedCalls(db, {log}) = LinkedCalls(db, {other})
    /\ \A call \in db.calls :
          /\ {link.activity : link \in {l \in db.links : l.call = call.id /\ l.role = "representative"}} = {call.representative}
          /\ MapThenSumSet(LAMBDA log : log.cost,
                           {log \in db.logs : log.cost # NoAmount /\ call.id \in LinkedCalls(db, {log})})
               = IF call.attribution.amount = NoAmount THEN 0 ELSE call.attribution.amount

=============================================================================
