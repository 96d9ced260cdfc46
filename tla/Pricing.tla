------------------------------ MODULE Pricing ------------------------------
(***************************************************************************)
(* What a call may cost and what it does cost: the routes and price tables *)
(* that a configuration accepts (config.py), the bounds of the request     *)
(* that is prepared (OpenAICompatibleProvider.prepare), its reservation    *)
(* and the price of the answer (telemetry.py).                             *)
(*                                                                         *)
(* A million tokens is one token here, rates are small numbers and costs   *)
(* are counted in halves, because off-peak hours cost a half of the rates  *)
(* or all of them.  The framing of a request is one token more than its    *)
(* body has bytes.                                                         *)
(***************************************************************************)
EXTENDS Naturals, Sequences, FiniteSetsExt

CONSTANTS Rates,       \* rates that a table names
          Limits,      \* input limits of its tiers
          MaxTiers,    \* tiers of a table (a bound)
          MaxTokens,   \* tokens of a body, and of an answer's usage (a bound)
          MaxOutput,   \* max_output_tokens of the models
          MaxInput,    \* their max_input_tokens
          Context,     \* their context_tokens
          Dear         \* tables may ask more for cache hits than for misses

ASSUME PricingAssumption ==
    /\ Rates \subseteq Nat /\ Limits \subseteq Nat \ {0} /\ MaxTiers \in Nat /\ MaxTokens \in Nat
    /\ MaxOutput \in Nat /\ MaxInput \in Nat /\ Context \in Nat /\ Dear \in BOOLEAN

VARIABLES config,       \* provider, models and which of them are priced, capable
          table,        \* the price table of the model that is used
          model,        \* the route of the request
          prepared,     \* input_reserve_tokens and billable_output_tokens
          reservation,  \* reservation_cny, in halves
          usage,        \* the measured usage
          cost,         \* what it costs, in halves
          priceAt       \* the step, or how it has ended

priceVars == <<config, table, model, prepared, reservation, usage, cost, priceAt>>

-----------------------------------------------------------------------------
Models == {"pro", "flash"}
NoRoute == "none"

Configs == [provider : {"deepseek", "other"}, fast : {NoRoute, "flash"},
            priced : SUBSET Models, capable : SUBSET Models]

Kinds == {"bootstrap", "types", "message", "requirements", "followup", "integration"}

Row == {row \in [input : Rates, output : Rates, hit : Rates] : Dear \/ row.hit <= row.input}
Tiers == [limit : Limits, row : Row]

\* A table without tiers has one row for every input.
Tables == [schedule : {"deepseek", "flat"}, halves : {1, 2}, base : Row, tiers : {<<>>}]
          \cup [schedule : {"deepseek", "flat"}, halves : {1, 2}, base : {CHOOSE row \in Row : TRUE},
                tiers : UNION {[1..n -> Tiers] : n \in 1..MaxTiers}]

\* The boundaries of the peak hours of a working day, in minutes.
Minutes == {0, 539, 540, 719, 720, 839, 840, 1079, 1080}
Days == {4, 5}

Nothing == [in |-> 0, out |-> 0]

PriceTypeOK ==
    /\ config \in Configs /\ (priceAt \notin {"configure", "ConfigError"} => table \in Tables)
    /\ model \in Models \/ (model = NoRoute /\ priceAt \in {"configure", "prepare", "ConfigError"})
    /\ prepared \in [in : Nat, out : Nat] /\ reservation \in Nat /\ cost \in Nat
    /\ usage \in [in : Nat, out : Nat]
    /\ priceAt \in {"configure", "prepare", "reserve", "send", "settled", "ConfigError", "KeyError", "LLMError",
                   "ValueError", "ResponseUsageError"}

PriceInit ==
    /\ config \in Configs /\ table = NoRoute /\ model = NoRoute /\ prepared = Nothing
    /\ reservation = 0 /\ usage = Nothing /\ cost = 0 /\ priceAt = "configure"

-----------------------------------------------------------------------------
(* ModelPrice and ResolvedConfig.                                          *)

Routes == {"pro", config.fast} \ {NoRoute}

RoutesAccepted == Routes \subseteq config.priced \cap config.capable

TableAccepted(t) ==
    /\ \A i, j \in DOMAIN t.tiers : i < j => t.tiers[i].limit < t.tiers[j].limit
    /\ t.schedule = "flat" => t.halves = 2
    /\ t.schedule = "deepseek" => config.provider = "deepseek"

\* load_config; what it refuses is a ConfigError.
Configure ==
    /\ priceAt = "configure"
    /\ \E t \in Tables :
        IF RoutesAccepted /\ TableAccepted(t) THEN table' = t /\ priceAt' = "prepare"
        ELSE priceAt' = "ConfigError" /\ UNCHANGED table
    /\ UNCHANGED <<config, model, prepared, reservation, usage, cost>>

\* CoderConfig.for_task: the fast model makes first attempts of ordinary tasks.
ForTask(kind, retry, repair) ==
    IF config.fast # NoRoute /\ kind \in {"bootstrap", "message", "requirements"} /\ ~retry /\ ~repair
    THEN config.fast ELSE "pro"

-----------------------------------------------------------------------------
(* price_usage and calculate_cost.                                         *)

\* price_period: 9-12 and 14-18 on working days in Shanghai.
Peak(day, minute) == day < 5 /\ (minute \in 540..719 \/ minute \in 840..1079)

Priceable(t, in) == t.tiers = <<>> \/ \E i \in DOMAIN t.tiers : in <= t.tiers[i].limit

RowFor(t, in) ==
    LET reached == {i \in DOMAIN t.tiers : in <= t.tiers[i].limit} IN
    IF t.tiers = <<>> THEN t.base
    ELSE t.tiers[IF reached = {} THEN Len(t.tiers) ELSE Min(reached)].row

\* The cost in halves of a usage, at a time or, without one, at the peak.
PriceUsage(t, in, out, hits, peak) ==
    LET row == RowFor(t, in)
        factor == IF t.schedule = "flat" \/ peak THEN 2 ELSE t.halves IN
    factor * (hits * row.hit + (in - hits) * row.input + out * row.output)

\* Mutant of CalculateCost: only the tier of the bound itself.
CalculateOfBound(t, in, out) == PriceUsage(t, in, out, 0, TRUE)

\* Peak rates, cache misses, and every tier that the input may reach.
CalculateCost(t, in, out) ==
    LET candidates == {in} \cup {n \in {t.tiers[i].limit : i \in DOMAIN t.tiers} : n < in} IN
    Max({PriceUsage(t, n, out, 0, TRUE) : n \in candidates})

-----------------------------------------------------------------------------
(* LLMClient.prepare, and the part of complete that prices the answer.     *)

End(how) == priceAt' = how /\ UNCHANGED <<prepared, reservation, usage, cost>>

\* The provider bounds the input by the bytes of the body and its framing,
\* the output by what is requested and the reserve of the model; supported is
\* whether the model can stream, and has the format, temperature and stop.
Prepare ==
    /\ priceAt = "prepare"
    /\ \E kind \in Kinds, retry, repair \in BOOLEAN, bytes, requested \in 1..MaxTokens,
          reserve \in 0..1, supported \in BOOLEAN :
        LET route == ForTask(kind, retry, repair)
            in == bytes + 1
            out == requested + reserve IN
        /\ model' = route
        /\ IF route \notin config.capable \cap config.priced THEN End("KeyError")
           ELSE IF ~supported \/ requested > MaxOutput \/ in > MaxInput \/ in + out > Context
           THEN End("LLMError")
           ELSE /\ prepared' = [in |-> in, out |-> out] /\ priceAt' = "reserve"
                /\ UNCHANGED <<reservation, usage, cost>>
    /\ UNCHANGED <<config, table>>

Reserve ==
    /\ priceAt = "reserve"
    /\ IF Priceable(table, prepared.in)
       THEN reservation' = CalculateCost(table, prepared.in, prepared.out) /\ priceAt' = "send"
       ELSE priceAt' = "ValueError" /\ UNCHANGED reservation
    /\ UNCHANGED <<config, table, model, prepared, usage, cost>>

\* The provider measures what it likes, within the bounds or beyond them; the
\* hours are those at which the call was reserved.
Answer ==
    /\ priceAt = "send"
    /\ \E in, out \in 0..MaxTokens + 1, peak \in {Peak(day, minute) : day \in Days, minute \in Minutes} :
        /\ usage' = [in |-> in, out |-> out]
        /\ IF Priceable(table, in)
           THEN /\ \E hits \in 0..in : cost' = PriceUsage(table, in, out, hits, peak)
                /\ priceAt' = "settled"
           ELSE priceAt' = "ResponseUsageError" /\ UNCHANGED cost
    /\ UNCHANGED <<config, table, model, prepared, reservation>>

PriceNext == Configure \/ Prepare \/ Reserve \/ Answer

PriceSpec == PriceInit /\ [][PriceNext]_priceVars

-----------------------------------------------------------------------------
(* Properties.                                                             *)

WithinBounds == usage.in <= prepared.in /\ usage.out <= prepared.out

\* "Conservative CNY reservation": an answer within the bounds of its request
\* costs no more than was reserved, whatever tier it falls in, at any hour and
\* with any cache hits.
ReservationCovers == priceAt = "settled" /\ WithinBounds => cost <= reservation

\* What could be reserved can be settled: an answer within the bounds of its
\* request is never refused for want of a price.
ReservedCanSettle == priceAt = "ResponseUsageError" => ~WithinBounds

\* A configuration that was accepted has a price and a profile for every route.
RoutesAreConfigured == priceAt # "KeyError"

\* The three together.
CallsArePriced == PriceTypeOK /\ ReservationCovers /\ ReservedCanSettle /\ RoutesAreConfigured
=============================================================================
