------------------------------ MODULE ModelRates ------------------------------
(***************************************************************************)
(* The price of a model call: the rates of a provider over time, the rate   *)
(* that holds for a call, and what its tokens cost (internal/billing).      *)
(*                                                                         *)
(* A rate holds for a model, up to a number of input tokens, from one time  *)
(* to another.  The rates of one model and limit are a series: a manifest   *)
(* closes the last one where the next begins and never changes the past.    *)
(* Provider and mode are part of the model here, source and evidence of the *)
(* price; prices and tokens have one unit for cache reads and writes.       *)
(***************************************************************************)
EXTENDS Integers, FiniteSets, FiniteSetsExt, SequencesExt

CONSTANTS
    MaxInt,       \* the largest integer of the machine
    PerTokens     \* the tokens a price is for

ASSUME RatesAssumption == PerTokens \in Nat \ {0} /\ MaxInt \in Nat /\ MaxInt >= PerTokens

NoLimit == 1000      \* a rate for any number of input tokens
Forever == 1000      \* the end of a rate that holds until further notice
Failed == -1         \* the result of a calculation that would overflow
NoAmount == -1       \* an amount that is not known

-----------------------------------------------------------------------------
(* What tokens cost *)

\* The charge for some tokens, rounded; refused where the product would overflow.
Charge(tokens, price) ==
    IF tokens = 0 \/ price = 0 THEN 0
    ELSE IF tokens > (MaxInt - PerTokens \div 2) \div price THEN Failed
    ELSE (tokens * price + PerTokens \div 2) \div PerTokens

AddCharges(charges) ==
    FoldLeft(LAMBDA total, charge :
                IF total = Failed \/ charge = Failed \/ total > MaxInt - charge THEN Failed ELSE total + charge,
             0, charges)

\* Usage is what a call reported: the cached input is a part of the input.
ValidUsage(usage) == usage.cached <= usage.input /\ usage.input <= MaxInt - usage.output

Calculate(usage, price) ==
    IF ~ValidUsage(usage) THEN Failed
    ELSE AddCharges(<<Charge(usage.input - usage.cached, price.input),
                      Charge(usage.cached, price.cached),
                      Charge(usage.output, price.output)>>)

-----------------------------------------------------------------------------
(* The rate that holds *)

RateId(rate) == <<rate.model, rate.limit, rate.from>>

Series(rate) == <<rate.model, rate.limit>>

\* The status of a resolution, and the rate when there is one.
ResolveRate(rates, model, at, tokens) ==
    LET base == {r \in rates : r.model = model /\ r.from <= at /\ at < r.to}
        matches == {r \in base : tokens <= r.limit}
    IN  CASE Cardinality(matches) > 1 -> [status |-> "rate_conflict"]
          [] Cardinality(matches) = 1 -> [status |-> "resolved", rate |-> CHOOSE r \in matches : TRUE]
          [] matches = {} /\ base # {} -> [status |-> "unsupported_usage_condition"]
          [] OTHER -> [status |-> "rate_not_found"]

Unavailable(reason) == [basis |-> "unavailable", amount |-> NoAmount, reason |-> reason, rate |-> << >>]

NoModel == ""
NoTime == -1
NotReported == [input |-> -1, cached |-> 0, output |-> 0]

Estimate(amount, rate) ==
    IF amount = Failed THEN Unavailable("calculation_error")
    ELSE [basis |-> "rate_card_estimate", amount |-> amount, reason |-> "", rate |-> RateId(rate)]

EstimateBy(resolved, usage) ==
    IF resolved.status # "resolved" THEN Unavailable(resolved.status)
    ELSE Estimate(Calculate(usage, resolved.rate.price), resolved.rate)

\* The estimate for a Codex call, or the first reason why there is none.
AttributeCodexCall(call, rates) ==
    CASE call.model = NoModel -> Unavailable("missing_model")
      [] call.model # NoModel /\ call.at = NoTime -> Unavailable("missing_occurred_at")
      [] call.model # NoModel /\ call.at # NoTime /\ call.billed = NotReported -> Unavailable("missing_token_usage")
      [] OTHER -> EstimateBy(ResolveRate(rates, call.model, call.at, call.billed.input), call.billed)

-----------------------------------------------------------------------------
(* The history of the rates *)

\* The rates of a series that leave no time to two of them.
Overlap(rate, other) ==
    Series(rate) = Series(other) /\ rate # other /\ rate.from <= other.from /\ rate.to > other.from

SoundHistory(rates) ==
    /\ \A rate \in rates : rate.from < rate.to
    /\ ~\E rate, other \in rates : Overlap(rate, other)

\* The rates as they are read: a history that is not sound is not read at all.
LoadRates(rates) == {r \in {rates} : SoundHistory(r)}

SameImmutableRate(rate, other) == RateId(rate) = RateId(other) /\ rate.price = other.price

\* A rate that is stored already has to be the same.
InsertImmutableRate(rates, rate) ==
    LET stored == {other \in rates : RateId(other) = RateId(rate)}
    IN  IF \A other \in stored : SameImmutableRate(other, rate)
        THEN IF stored = {} THEN {rates \cup {rate}} ELSE {rates}
        ELSE {}

\* A rebuilt database takes over the history, rate by rate, if it is sound.
ReplaceRateHistoryForReplay(history) ==
    IF ~SoundHistory(history) THEN {}
    ELSE FoldSet(LAMBDA rate, installed : UNION {InsertImmutableRate(rates, rate) : rates \in installed}, {{}}, history)

Latest(rates) == CHOOSE rate \in rates : \A other \in rates : other.from <= rate.from

\* One rate of a manifest on top of the rates so far.  A rate that is known
\* must be the same; a new one must follow the last of its series, which ends
\* where it begins.  The result is the new history, or nothing when it is refused.
PlanRate(rates, update) ==
    LET known == {stored \in rates : RateId(stored) = RateId(update)}
        series == {stored \in rates : Series(stored) = Series(update)}
        last == Latest(series)
    IN  CASE known # {} -> {rates : stored \in {k \in known : SameImmutableRate(k, update)}}
          [] known = {} /\ series = {} -> {rates \cup {update}}
          [] OTHER -> IF update.from <= last.from \/ last.to # Forever THEN {}
                      ELSE {(rates \ {last}) \cup {[last EXCEPT !.to = update.from], update}}

\* One rate after the other on top of the rates so far.
PlanInTurn(rates, updates) ==
    FoldLeft(LAMBDA plans, update : UNION {PlanRate(plan, update) : plan \in plans}, {rates}, updates)

\* A manifest lists open rates; those of a series are taken in the order of time.
PlanRateManifestUpdate(rates, manifest) ==
    IF \E rate \in manifest : rate.to # Forever THEN {}
    ELSE PlanInTurn(rates, SetToSortSeq(manifest, LAMBDA rate, other : rate.from < other.from))

=============================================================================
