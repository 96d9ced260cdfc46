----------------------------- MODULE ActionStudy ----------------------------
(***************************************************************************)
(* The paired comparison of the two action formats                         *)
(* (experiments/protocol-expansion/action_study.py): every sample is asked *)
(* once in each mode, in alternating order, within one allocation of the   *)
(* campaign that repeated studies share.  Calls may fail, the campaign may *)
(* be spent, the study may be interrupted or die anywhere.                 *)
(*                                                                         *)
(* Money is counted in units; samples and short sessions are fewer.        *)
(***************************************************************************)
EXTENDS Integers, Sequences, FiniteSets, SequencesExt

CONSTANTS Flash, Pro,   \* samples of the two models
          Fixtures,     \* short tool sessions of each mode
          Reservation,  \* what a call reserves
          Ceiling,      \* STUDY_CAMPAIGN_CEILING
          Prices, Times, \* what a call may cost and take
          MaxStudies    \* how often the study is started (a bound)

ASSUME CountsAssumption == /\ \A n \in {Flash, Pro, Fixtures} : n \in Nat \ {0}
                           /\ Ceiling \in Nat /\ MaxStudies \in Nat
ASSUME PricesAssumption == Reservation \in Nat /\ Prices \subseteq 0..Reservation /\ Times \subseteq Nat

Modes == <<"json_object", "tool_calls">>
Samples == Flash + Pro
Model(sample) == IF sample <= Flash THEN "flash" ELSE "pro"

VARIABLES spent,     \* what the campaign has settled or keeps reserved
          pending,   \* the reservation of the call that is in flight
          start,     \* starting_cost of the study
          rows,      \* its answers, in order
          sessions,  \* its short sessions, in order: whether they passed
          stores,    \* its runs: "running", then "failed"
          error,     \* an exception has ended it
          verdict,   \* the gates of its summary
          studyAt, studies

studyVars == <<spent, pending, start, rows, sessions, stores, error, verdict, studyAt, studies>>

-----------------------------------------------------------------------------
StudyRows == [sample : 1..Samples, mode : Range(Modes), valid : BOOLEAN, cost : Prices, time : Times]
NoVerdict == [complete |-> FALSE, promote |-> FALSE]

StudyTypeOK ==
    /\ spent \in Nat /\ start \in Nat /\ pending \in {0, Reservation}
    /\ rows \in Seq(StudyRows) /\ sessions \in Seq(BOOLEAN)
    /\ stores \in Seq({"running", "failed"})
    /\ verdict \in [complete : BOOLEAN, promote : BOOLEAN]
    /\ studyAt \in {"idle", "stores", "format", "fixture", "session", "strict", "probe", "close"}

StudyInit ==
    /\ spent = 0 /\ pending = 0 /\ start = 0 /\ rows = <<>> /\ sessions = <<>>
    /\ stores = <<>> /\ error = FALSE /\ verdict = NoVerdict
    /\ studyAt = "idle" /\ studies = 0

-----------------------------------------------------------------------------
(* The calls, in the order in which they are asked.                        *)

\* The first mode changes from one sample to the next.
Order(sample) == IF sample % 2 = 1 THEN Modes ELSE Reverse(Modes)

NextRow == LET n == Len(rows) IN
           [sample |-> (n \div 2) + 1, mode |-> Order((n \div 2) + 1)[(n % 2) + 1]]

FormatDone == Len(rows) = 2 * Samples
SessionsDone == Len(sessions) = 2 * Fixtures

\* "fixed sublimit, never replenish it on retry"
Allocation == Ceiling

-----------------------------------------------------------------------------
Advance(from, to) == studyAt = from /\ studyAt' = to

Start ==
    /\ Advance("idle", "stores") /\ studies < MaxStudies
    /\ studies' = studies + 1
    /\ start' = spent
    /\ rows' = <<>> /\ sessions' = <<>> /\ stores' = <<>> /\ error' = FALSE
    /\ verdict' = NoVerdict
    /\ UNCHANGED <<spent, pending>>

\* A run for each mode; another one for every session and for the probe.
NewStore == stores' = Append(stores, "running")

FormatStores ==
    /\ studyAt = "stores"
    /\ start < Allocation
    /\ NewStore
    /\ studyAt' = IF Len(stores') < 2 THEN "stores" ELSE "format"
    /\ UNCHANGED <<spent, pending, start, rows, sessions, error, verdict, studies>>

SessionStore ==
    /\ FormatDone /\ ~SessionsDone
    /\ Advance("fixture", "session")
    /\ NewStore
    /\ UNCHANGED <<spent, pending, start, rows, sessions, error, verdict, studies>>

ProbeStore ==
    /\ Advance("strict", "probe")
    /\ NewStore
    /\ UNCHANGED <<spent, pending, start, rows, sessions, error, verdict, studies>>

\* RunStore.reserve_call: the whole campaign stays within its limit.
Reserve ==
    /\ studyAt \in {"format", "session", "probe"} /\ pending = 0
    /\ spent + Reservation <= Allocation
    /\ pending' = Reservation
    /\ UNCHANGED <<spent, start, rows, sessions, stores, error, verdict, studyAt, studies>>

Answer ==
    /\ studyAt = "format" /\ pending # 0
    /\ \E cost \in Prices, time \in Times, valid \in BOOLEAN :
        /\ spent' = spent + cost
        /\ rows' = Append(rows, [sample |-> NextRow.sample, mode |-> NextRow.mode,
                                 valid |-> valid, cost |-> cost, time |-> time])
    /\ pending' = 0
    /\ studyAt' = IF Len(rows') < 2 * Samples THEN "format" ELSE "fixture"
    /\ UNCHANGED <<start, sessions, stores, error, verdict, studies>>

\* complete() makes the call again after a lost answer: the reservation of the
\* failed attempt stays, and the study goes on.
RetryCall ==
    /\ studyAt \in {"format", "session"} /\ pending # 0
    /\ spent' = spent + pending /\ pending' = 0
    /\ UNCHANGED <<start, rows, sessions, stores, error, verdict, studyAt, studies>>

\* A session passes if its program runs; here it makes one call.
Session ==
    /\ studyAt = "session" /\ pending # 0
    /\ \E cost \in Prices, passed \in BOOLEAN :
        spent' = spent + cost /\ sessions' = Append(sessions, passed)
    /\ pending' = 0
    /\ studyAt' = IF Len(sessions') < 2 * Fixtures THEN "fixture" ELSE "strict"
    /\ UNCHANGED <<start, rows, stores, error, verdict, studies>>

\* The probe is settled, or fails and keeps its reservation: no error either way.
Probe ==
    /\ Advance("probe", "close") /\ pending # 0
    /\ \E cost \in Prices \cup {Reservation} : spent' = spent + cost
    /\ pending' = 0
    /\ UNCHANGED <<start, rows, sessions, stores, error, verdict, studies>>

\* An exception: the campaign is spent, a run cannot be made, a call has failed
\* and keeps its reservation (the failure of the probe's call is no exception).
Raise ==
    /\ studyAt \notin {"idle", "close"}
    /\ studyAt = "probe" => pending = 0
    /\ studyAt' = "close" /\ error' = TRUE
    /\ spent' = spent + pending /\ pending' = 0
    /\ UNCHANGED <<start, rows, sessions, stores, verdict, studies>>

\* KeyboardInterrupt: the finally block runs, no error is recorded.
StudyInterrupted ==
    /\ studyAt \notin {"idle", "close"} /\ studyAt' = "close"
    /\ spent' = spent + pending /\ pending' = 0
    /\ UNCHANGED <<start, rows, sessions, stores, error, verdict, studies>>

StudyDies ==
    /\ studyAt # "idle" /\ studyAt' = "idle"
    /\ spent' = spent + pending /\ pending' = 0
    /\ UNCHANGED <<start, rows, sessions, stores, error, verdict, studies>>

-----------------------------------------------------------------------------
(* The end of a study: its runs are failed, its gates assessed.            *)

\* Places of rows, how many of them are valid, what they cost or took.
Of(mode, models) == {i \in DOMAIN rows : rows[i].mode = mode /\ Model(rows[i].sample) \in models}
Valid(is) == Cardinality({i \in is : rows[i].valid})
Invalid(is) == Cardinality(is) - Valid(is)
Total(rs, is, field) == MapThenSumSet(LAMBDA i : rs[i][field], is)

\* x per valid answer at most 110% of that of the control.
Within110(native, control, field) ==
    /\ Valid(native) > 0 /\ Valid(control) > 0
    /\ 10 * Total(rows, native, field) * Valid(control) <= 11 * Total(rows, control, field) * Valid(native)

Promotes ==
    LET native(models) == Of("tool_calls", models)
        control(models) == Of("json_object", models)
        all == {"flash", "pro"} IN
    /\ 20 * Invalid(native({"flash"})) <= Cardinality(native({"flash"}))
    /\ Invalid(control({"flash"})) > 0
    /\ 2 * Invalid(native({"flash"})) <= Invalid(control({"flash"}))
    /\ Invalid(native({"pro"})) <= Invalid(control({"pro"}))
    /\ \A i \in DOMAIN sessions : sessions[i]
    /\ Within110(native(all), control(all), "time")
    /\ Within110(native(all), control(all), "cost")

\* Mutant of Complete: a study without an error is complete.
NoError == ~error

Complete == FormatDone /\ SessionsDone /\ ~error

Close ==
    /\ Advance("close", "idle")
    /\ stores' = [i \in DOMAIN stores |-> "failed"]
    /\ verdict' = [complete |-> Complete, promote |-> Complete /\ Promotes]
    /\ UNCHANGED <<spent, pending, start, rows, sessions, error, studies>>

StudyNext ==
    \/ Start \/ FormatStores \/ SessionStore \/ ProbeStore \/ Reserve \/ Answer \/ Session
    \/ RetryCall \/ Probe \/ Raise \/ StudyInterrupted \/ StudyDies \/ Close

StudySpec == StudyInit /\ [][StudyNext]_studyVars

-----------------------------------------------------------------------------
(* Properties.                                                             *)

\* All studies together stay within the one allocation, with the reservations
\* that crashed, failed and interrupted calls keep.
NeverReplenished == spent + pending <= Ceiling

Asked(mode) == {rows[i].sample : i \in Of(mode, {"flash", "pro"})}

\* A promotion rests on whole pairs: every sample was asked once in each mode,
\* every session passed in both, and the native format saved invalid answers,
\* wherever the study was interrupted.
PromotionIsPaired ==
    verdict.promote =>
        /\ \A m \in Range(Modes) : Asked(m) = 1..Samples /\ Cardinality(Of(m, {"flash", "pro"})) = Samples
        /\ Len(sessions) = 2 * Fixtures /\ \A i \in DOMAIN sessions : sessions[i]
        /\ Invalid(Of("tool_calls", {"flash", "pro"})) < Invalid(Of("json_object", {"flash", "pro"}))

\* No mode is favoured by its place: over any number of whole pairs the modes
\* come first equally often, up to one.
OrdersAreBalanced ==
    LET first(m) == Cardinality({i \in DOMAIN rows : i % 2 = 1 /\ rows[i].mode = m})
        d == first("json_object") - first("tool_calls") IN
    /\ d \in {-1, 0, 1}
    /\ \A i \in DOMAIN rows : i % 2 = 0 => rows[i].sample = rows[i - 1].sample /\ rows[i].mode # rows[i - 1].mode

\* The four together: what a promotion rests on, and what it may cost.
PromotionIsSound == StudyTypeOK /\ NeverReplenished /\ PromotionIsPaired /\ OrdersAreBalanced
=============================================================================
