----------------------------- MODULE ReworkEvents -----------------------------
(***************************************************************************)
(* The events of a session as its analysis sees them (internal/query):      *)
(* what one stored activity says of an operation, its outcome and the       *)
(* attempt it belongs to, the order of events, and the attempts at          *)
(* validation that several observations of one tool call add up to.         *)
(*                                                                         *)
(* The words of an activity are abstract: `words` are the operations its    *)
(* names and its command match, `says` what its status, its success flag,   *)
(* its exit code, its error and its name tell of the outcome, in the order  *)
(* in which the code asks them, and `error` the normalised evidence of a    *)
(* failure.  Agents, spans and names are numbers, so that they have an      *)
(* order; the cache and reasoning parts of a usage are left out.            *)
(***************************************************************************)
EXTENDS Integers, FiniteSets, FiniteSetsExt, SequencesExt

NoTime == 0
NoSpanId == 0
NoAgent == 0
Main == 1            \* the agent that stands for none
Nothing == ""        \* no command, directory, file, tool, call or error
Missing == -1        \* a counter that was not reported

-----------------------------------------------------------------------------
(* Tokens *)

NoTokens == [input |-> Missing, output |-> Missing, partial |-> FALSE]

Plus(counter, other) ==
    IF counter = Missing THEN other ELSE IF other = Missing THEN counter ELSE counter + other

\* A usage that reports only one of the two counters makes the sum partial.
AddTokens(usage, other) ==
    [input   |-> Plus(usage.input, other.input),
     output  |-> Plus(usage.output, other.output),
     partial |-> \/ usage.partial \/ other.partial
                 \/ (other.input = Missing) # (other.output = Missing)]

Total(usage) == Max({usage.input, 0}) + Max({usage.output, 0})

TotalReported(usage) == usage.input # Missing /\ usage.output # Missing /\ ~usage.partial

-----------------------------------------------------------------------------
(* One activity *)

\* The operations an activity may match, by precedence.
Operations == <<"test", "build", "lint", "api_call", "edit", "read", "execute", "other">>

ClassifyOperation(activity) ==
    LET words == activity.words \cup {"other"} \cup (IF activity.command = Nothing THEN {} ELSE {"execute"})
    IN  Head(SelectSeq(Operations, LAMBDA operation : operation \in words))

\* The first evidence that says something of the outcome.
ObservedSuccess(activity) ==
    LET told == SelectSeq(activity.says, LAMBDA word : word # Nothing)
    IN  IF told = << >> THEN "unknown" ELSE Head(told)

EffortAgent(agent) == IF agent = NoAgent THEN Main ELSE agent

NoAttempt == << >>

\* The tool call an activity observes: the one it names, or its own span.
CanonicalAttemptId(activity) ==
    CASE activity.call # Nothing -> <<"call", EffortAgent(activity.agent), activity.call>>
      [] activity.call = Nothing /\ activity.signal = "trace" /\ activity.span # NoSpanId /\ activity.tool # Nothing ->
             <<"span", EffortAgent(activity.agent), activity.span>>
      [] OTHER -> NoAttempt

FailureFingerprint(activity) ==
    IF ObservedSuccess(activity) = "error" THEN activity.error ELSE Nothing

PositiveDuration(start, end) == IF start = NoTime \/ end < start THEN 0 ELSE end - start

CanonicalizeActivity(activity) ==
    LET operation == ClassifyOperation(activity)
    IN  [operation |-> operation,
         command   |-> IF operation = "api_call" /\ activity.command = Nothing THEN activity.model ELSE activity.command,
         file      |-> activity.file,
         dir       |-> activity.dir,
         tool      |-> activity.tool,
         agent     |-> activity.agent,
         span      |-> activity.span,
         name      |-> activity.name,
         success   |-> ObservedSuccess(activity),
         started   |-> activity.started,
         ended     |-> activity.ended,
         observed  |-> activity.observed,
         duration  |-> PositiveDuration(activity.started, activity.ended),
         tokens    |-> activity.tokens,
         counts    |-> activity.counts,
         attempt   |-> CanonicalAttemptId(activity),
         error     |-> FailureFingerprint(activity),
         ambiguous |-> FALSE,
         seen      |-> 1]

-----------------------------------------------------------------------------
(* The order of events *)

EventTime(event) == IF event.started # NoTime THEN event.started ELSE event.observed

EventEnd(event) == IF event.ended # NoTime THEN event.ended ELSE event.observed

\* What identifies the evidence: the span, or all there is to tell logs apart.
EvidenceKey(event) ==
    IF event.span # NoSpanId THEN <<0, event.span>>
    ELSE <<1, event.agent, CHOOSE n \in DOMAIN Operations : Operations[n] = event.operation, event.name, event.observed>>

KeyPrecedes(key, other) ==
    \E n \in DOMAIN key \cap DOMAIN other : key[n] < other[n] /\ \A m \in 1 .. n - 1 : key[m] = other[m]

\* By time, then by evidence.
EventPrecedes(event, other) ==
    \/ EventTime(event) < EventTime(other)
    \/ EventTime(event) = EventTime(other) /\ KeyPrecedes(EvidenceKey(event), EvidenceKey(other))

\* An event behind those it does not precede: what is alike stays as it came.
InsertEvent(sorted, event) ==
    SelectSeq(sorted, LAMBDA other : ~EventPrecedes(event, other)) \o <<event>>
        \o SelectSeq(sorted, LAMBDA other : EventPrecedes(event, other))

EventsOf(activities) ==
    FoldLeft(LAMBDA sorted, activity : InsertEvent(sorted, CanonicalizeActivity(activity)), << >>, activities)

-----------------------------------------------------------------------------
(* Attempts *)

Validations == {"test", "build", "lint"}

IsValidation(event) == event.operation \in Validations

ExplicitlyFailed(event) == event.success = "error"

Differ(text, other) == text # Nothing /\ other # Nothing /\ text # other

\* Two observations of one call that cannot both be of it.
ObservationsConflict(current, observation) ==
    \/ IsValidation(current) /\ IsValidation(observation) /\ current.operation # observation.operation
    \/ Differ(current.command, observation.command)
    \/ /\ NoAgent \notin {current.agent, observation.agent}
       /\ current.agent # observation.agent

FirstText(text, other) == IF text = Nothing THEN other ELSE text

\* Evidence that disagrees stays ambiguous whatever comes later.
ErrorsDisagree(current, observation) == ~current.ambiguous /\ Differ(current.error, observation.error)

MergeError(current, observation) ==
    IF current.ambiguous \/ ErrorsDisagree(current, observation) THEN Nothing
    ELSE FirstText(current.error, observation.error)

\* A failure that was seen outweighs any other outcome.
MergeSuccess(current, observation) ==
    IF current.success = "unknown" \/ ExplicitlyFailed(observation) THEN observation.success ELSE current.success

MergeStart(current, observation) ==
    IF \/ current.started = NoTime
       \/ observation.started # NoTime /\ observation.started < current.started
    THEN observation.started ELSE current.started

MergeValidationObservations(current, observation) ==
    [current EXCEPT
        !.operation = IF ~IsValidation(current) /\ IsValidation(observation) THEN observation.operation ELSE @,
        !.command   = FirstText(@, observation.command),
        !.agent     = IF @ = NoAgent THEN observation.agent ELSE @,
        !.dir       = FirstText(@, observation.dir),
        !.error     = MergeError(current, observation),
        !.ambiguous = @ \/ ErrorsDisagree(current, observation),
        !.success   = MergeSuccess(current, observation),
        !.started   = MergeStart(current, observation),
        !.ended     = Max({@, observation.ended}),
        !.observed  = Max({@, observation.observed}),
        !.seen      = @ + 1]

\* An observation of a validation that belongs to no known attempt.
Uncorrelated(projection, event) ==
    IF ~IsValidation(event) THEN projection
    ELSE [projection EXCEPT !.observations = Append(@, [event EXCEPT !.attempt = NoAttempt]), !.uncorrelated = @ + 1]

ProjectObservation(projection, event) ==
    LET same == {i \in DOMAIN projection.observations : projection.observations[i].attempt = event.attempt}
        at == CHOOSE i \in same : TRUE
    IN  CASE event.attempt = NoAttempt -> Uncorrelated(projection, event)
          [] event.attempt # NoAttempt /\ same = {} -> [projection EXCEPT !.observations = Append(@, event)]
          [] OTHER ->
                IF ObservationsConflict(projection.observations[at], event)
                THEN [Uncorrelated(projection, event) EXCEPT !.conflicting = @ + 1]
                ELSE [projection EXCEPT !.observations[at] = MergeValidationObservations(@, event)]

\* The attempts at validation among the events, and the observations that fit none.
ProjectValidationAttempts(events) ==
    LET projection == FoldLeft(ProjectObservation, [observations |-> << >>, uncorrelated |-> 0, conflicting |-> 0], events)
    IN  [attempts     |-> SelectSeq(projection.observations, IsValidation),
         uncorrelated |-> projection.uncorrelated,
         conflicting  |-> projection.conflicting]

NoIdentity == << >>

\* What makes two attempts attempts at the same thing.
ValidationIdentity(event) ==
    IF ~IsValidation(event) \/ event.command = Nothing THEN NoIdentity
    ELSE <<EffortAgent(event.agent), event.operation, event.dir, event.command>>
===============================================================================
