--------------------------- MODULE MCTelemetryStore ---------------------------
(***************************************************************************)
(* Small sets of exports for TelemetryStore.                                *)
(***************************************************************************)
EXTENDS StoreAnswers

Span(id, parent, session, agent, at) ==
    [signal |-> "trace", id |-> id, parent |-> parent, session |-> session, trace |-> "t", agent |-> agent,
     known |-> TRUE, start |-> 1, at |-> at, rank |-> 0, tokens |-> 0, reported |-> FALSE, label |-> NoLabel,
     provider |-> "", usage |-> "", aliases |-> {}, failed |-> FALSE]

Log(session, trace, agent, at) ==
    [signal |-> "log", session |-> session, trace |-> trace, agent |-> agent, known |-> TRUE, start |-> at,
     at |-> at, rank |-> 0, tokens |-> 1, reported |-> TRUE, label |-> NoLabel,
     provider |-> "", usage |-> "", aliases |-> {}, locator |-> 0, model |-> NoModel, amount |-> NoAmount,
     billed |-> NotReported, failed |-> FALSE, span |-> NoSpan]

Spans(spans) == [spans |-> spans, logs |-> << >>, links |-> {}]
Logs(logs) == [spans |-> << >>, logs |-> logs, links |-> {}]
Linked(batch, parent, child) == [batch EXCEPT !.links = {[parent |-> parent, child |-> child]}]

Tokens1(item) == [item EXCEPT !.tokens = 1, !.reported = TRUE]

\* One span that grows, moves to another session and gets its parent.
Revisions ==
    [first |-> Spans(<<[Tokens1(Span(1, 2, "A", "", 2)) EXCEPT !.label = 1]>>),
     grown |-> Spans(<<[Tokens1(Span(1, 2, "A", "", 3)) EXCEPT !.rank = 2, !.label = 2]>>),
     moved |-> Spans(<<Span(1, NoSpan, "B", "x", 3)>>),
     root  |-> Spans(<<Span(2, NoSpan, "A", "x", 4), Span(3, 1, "A", "x", 3)>>)]

\* A span that stops reporting, loses its parent, and logs of its session.
Retractions ==
    [first |-> Spans(<<[Tokens1(Span(1, 2, "A", "x", 2)) EXCEPT !.label = 1]>>),
     quiet |-> Spans(<<Span(1, 2, "A", "x", 3)>>),
     apart |-> Spans(<<[Tokens1(Span(1, NoSpan, "A", "x", 3)) EXCEPT !.known = FALSE]>>),
     said  |-> Logs(<<[Log("A", "t", "A", 1) EXCEPT !.label = 3, !.failed = TRUE, !.span = 1], [Log("A", "", "x", 1) EXCEPT !.known = FALSE]>>)]

Claude(log, locator, aliases, amount) ==
    [log EXCEPT !.provider = "claude", !.usage = "u", !.locator = locator, !.aliases = aliases, !.amount = amount]
Runtime(span) == [span EXCEPT !.provider = "claude", !.usage = "u"]

Request == <<2, 1>>
Event == <<3, 1>>

\* One Claude call: its request logs, and spans that know its agent.
ClaudeCall ==
    [request |-> Logs(<<Claude(Log("A", "t", "", 1), 2, {Request}, 1)>>),
     runtime |-> Spans(<<Runtime(Tokens1(Span(1, NoSpan, "A", "x", 1)))>>),
     later   |-> Spans(<<[Runtime(Span(1, NoSpan, "A", "y", 2)) EXCEPT !.label = 1]>>),
     again   |-> Logs(<<[Claude(Log("A", "v", "x", 2), 1, {Request}, 1) EXCEPT !.label = 2]>>)]

\* A call whose span forgets its agent, and moves to another session.
LostCall ==
    [request |-> Logs(<<Claude(Log("A", "v", "z", 1), 1, {Request}, 1)>>),
     runtime |-> Spans(<<Runtime(Span(1, NoSpan, "A", "x", 1)), Runtime(Span(2, 1, "A", "", 3))>>),
     unknown |-> Spans(<<Runtime(Span(1, NoSpan, "A", "", 2))>>),
     moved   |-> Spans(<<Runtime(Span(1, NoSpan, "B", "x", 2))>>)]

\* Logs that turn out to be one call, those that agree and those that do not.
BridgedCalls ==
    [one    |-> Logs(<<[Claude(Log("A", "t", "", 1), 1, {Request}, 2) EXCEPT !.model = "m"]>>),
     other  |-> Logs(<<Claude(Log("A", "v", "", 1), 2, {Event}, Invalid), Claude(Log("A", "t", "", 1), 3, {}, 1)>>),
     bridge |-> Logs(<<Claude(Log("A", "t", "", 1), 4, {Request, Event}, NoAmount)>>),
     span   |-> Spans(<<[Runtime(Span(1, NoSpan, "A", "", 1)) EXCEPT !.usage = "", !.aliases = {Event}]>>)]

Billed(input, cached, output) == [input |-> input, cached |-> cached, output |-> output]
Codex(log, locator, at, billed) ==
    [log EXCEPT !.provider = "codex", !.usage = "u", !.locator = locator, !.start = at, !.at = at, !.model = "m", !.billed = billed]
Turn(span) == [span EXCEPT !.provider = "codex", !.usage = "u"]

Rate(limit, from, price) == [model |-> "m", limit |-> limit, from |-> from, to |-> Forever,
                             price |-> [input |-> price, cached |-> 1, output |-> price]]

\* Calls of Codex before and after a change of prices, one too large for the rate and one for the machine.
CodexCalls ==
    [turn  |-> Logs(<<Codex(Log("X", "t", "", 1), 1, 1, Billed(3, 1, 1)), Codex(Log("X", "", "", 1), 2, 3, Billed(9, 0, 1))>>),
     again |-> Logs(<<[Codex(Log("X", "v", "", 1), 3, 3, Billed(3, 0, 1)) EXCEPT !.usage = "w"],
                      [Log("X", "v", "", 1) EXCEPT !.provider = "codex", !.locator = 4]>>),
     other |-> Logs(<<Codex(Log("X", "v", "", 1), 5, 3, Billed(1, 0, 90))>>),
     span  |-> Spans(<<Turn(Span(1, NoSpan, "X", "", 1)), [Turn(Span(2, 1, "X", "", 1)) EXCEPT !.usage = "w"]>>)]

\* Links that make a chain, a cycle and a second parent.
Delegations ==
    [ab |-> Linked(Logs(<<Claude(Log("B", "t", "", 1), 1, {Request}, 1)>>), "A", "B"),
     bc |-> Linked(Spans(<<Span(1, NoSpan, "A", "", 1)>>), "B", "C"),
     ca |-> Linked(Logs(<< >>), "C", "A"),
     db |-> Linked(Spans(<<Span(2, NoSpan, "C", "", 3)>>), "D", "B")]

\* Restricted to some exports.
Only(exports, names) == [name \in names |-> exports[name]]

FirstRates == {Rate(5, 1, 2)}
NextRates == {{Rate(5, 2, 4)}, {Rate(5, 2, 4), Rate(NoLimit, 2, 3)}, {Rate(5, 0, 4)}}

\* The store alone goes through more upkeep than one with a view open.
Alone(exports) == [exports |-> exports, upkeep |-> 2, views |-> {}, rates |-> {}, manifests |-> {}]
Viewed(exports, views) == [exports |-> exports, upkeep |-> 1, views |-> views, rates |-> {}, manifests |-> {}]
Priced(setting, manifests) == [setting EXCEPT !.rates = FirstRates, !.manifests = manifests, !.upkeep = 1]

SessionA == SessionScope("A")
SessionB == SessionScope("B")
TraceT == TraceScope("t")

MCNameOrder == <<"", "A", "B", "C", "D", "X", "t", "v", "x", "y", "z">>

MCUniverses ==
    {Alone(exports) : exports \in {Retractions, ClaudeCall, LostCall}}
      \cup {Alone(Only(Revisions, names)) : names \in {{"first", "grown", "moved"}, {"first", "grown", "root"}}}
      \cup {Alone(Only(BridgedCalls, names)) : names \in {{"one", "other", "bridge"}, {"one", "bridge", "span"}}}
      \cup {Alone(Only(Delegations, names)) : names \in {{"ab", "bc", "ca"}, {"ab", "bc", "db"}}}
      \cup {Viewed(Only(Revisions, {"first", "moved", "root"}), {SessionA, SessionB, TraceT}),
            Viewed(Only(LostCall, {"request", "runtime", "moved"}), {SessionA, TraceT}),
            Viewed(Only(BridgedCalls, {"one", "other", "bridge"}), {SessionA, TraceT}),
            Viewed(Only(Delegations, {"ab", "bc", "ca"}), {SessionA, SessionB})}
      \cup {Priced(Alone(Only(CodexCalls, names)), NextRates) : names \in {{"turn", "again", "span"}, {"turn", "other", "span"}}}
      \cup {Priced(Viewed(Only(CodexCalls, {"turn", "span"}), {TraceT}), {{Rate(5, 2, 4)}})}
===============================================================================
