---------------------------- MODULE LiveModelLane ----------------------------
(***************************************************************************)
(* The live-model lane (packages/evals/src/live-model-lane.ts) as its      *)
(* diagnostic command runs it (scripts/eval-live-model.mjs over            *)
(* scripts/lane-arms.mjs): the scripted control arm, the declared baseline *)
(* judged against it, the oracle arm, and then the two arms that pay for   *)
(* model calls, the naive and the model arm, through one port and one      *)
(* usage ledger.  A refusal of a paid arm is part of the report; any other *)
(* failure ends the lane without one.  What an arm's scenarios score is    *)
(* chosen freely.                                                          *)
(***************************************************************************)
EXTENDS ModelSpend

CONSTANTS Metric,       \* COMPARED_METRIC_KEYS
          Withheld,     \* the metrics withheld under the evaluator version
          Controls,     \* what the control arm may come back with here
          Baselines,    \* what a caller may declare in this instance
          Runs,         \* planned runs: scenarios times runs per scenario
          MaxRuns,      \* LIVE_MODEL_LANE_MAX_MODEL_RUNS
          GraphCalls    \* LIVE_MODEL_LANE_GRAPH_MODEL_CALLS_PER_RUN

ASSUME MetricAssumption == Withheld \subseteq Metric

VARIABLES stage,      \* the arm or the step the lane is at
          options,    \* what the caller handed in
          control,    \* the control arm's experiment
          paid,       \* what became of the two paid arms
          before,     \* ledger.read() when the arm under way began
          usage,      \* each paid arm's difference of two reads
          verdict,    \* the report's verdict and which arms are reportable
          published   \* the experiments the ingestion service accepted

laneVars == <<stage, options, control, paid, before, usage, verdict, published>>
laneAll == <<spendVars, laneVars>>

PaidArm == {"naive", "model"}

\* The control arm's experiment: does it cover the declared plan, and the mean
\* of each metric it emitted.
ASSUME ControlsAssumption ==
    \A e \in Controls : /\ e.covers \in BOOLEAN
                        /\ e.means \in [DOMAIN e.means -> Nat]
                        /\ DOMAIN e.means \subseteq Metric

\* A baseline declares a mean for some names, one of which may be no metric.
Options == [credential : BOOLEAN, runs : {Runs, MaxRuns + 1},
            oracle : BOOLEAN, naive : BOOLEAN, publish : BOOLEAN,
            baseline : Baselines]

LedgerRead == [calls |-> calls, output |-> output]
NoUse == [calls |-> 0, output |-> 0]

LaneInit ==
    /\ SpendInit
    /\ stage = "asked"
    /\ options \in Options
    /\ control = Absent
    /\ paid = [a \in PaidArm |-> "not run"]
    /\ before = NoUse
    /\ usage = [a \in PaidArm |-> NoUse]
    /\ verdict = Absent
    /\ published = <<>>

-----------------------------------------------------------------------------
(* What the lane judges before it pays.                                    *)

\* requireModelConfig, the run cap.
Admitted(o) == o.credential /\ o.runs <= MaxRuns

\* baselineOf: the means a report may carry.
Observed(e) == [m \in DOMAIN e.means \ Withheld |-> e.means[m]]

\* movesAgainst's three refusals.
Comparable(b, e) ==
    /\ DOMAIN b \subseteq Metric
    /\ DOMAIN b \cap Withheld = {}
    /\ DOMAIN Observed(e) \subseteq DOMAIN b

\* Mutant: a metric the arm stopped to emit is not compared.
MovedWhereObserved(b, e) ==
    {m \in DOMAIN b \cap DOMAIN Observed(e) : Observed(e)[m] # b[m]}

\* A declared metric that is gone has moved as well.
Moved(b, e) ==
    {m \in DOMAIN b : m \notin DOMAIN Observed(e) \/ Observed(e)[m] # b[m]}

MovedMetrics ==
    IF options.baseline = Absent THEN {} ELSE Moved(options.baseline, control)

-----------------------------------------------------------------------------

ToStage(to) == stage' = to

\* The lane throws: no report.
Throws ==
    /\ ToStage("failed")
    /\ UNCHANGED <<spendVars, options, paid, before, usage, verdict, published>>

Start ==
    /\ stage = "asked"
    /\ ToStage(IF Admitted(options) THEN "control" ELSE "failed")
    /\ UNCHANGED <<spendVars, options, control, paid, before, usage, verdict,
                   published>>

\* An arm in front of the paid ones throws, or the oracle arm missed the plan or
\* disagrees with itself about what is not applicable.
FreeArmThrows ==
    /\ stage \in {"control", "oracle"}
    /\ Throws
    /\ UNCHANGED control

Judged(e) ==
    /\ e.covers
    /\ options.baseline # Absent => Comparable(options.baseline, e)

RunControl(e) ==
    /\ stage = "control"
    /\ control' = e
    /\ IF Judged(e)
       THEN /\ ToStage(IF options.oracle THEN "oracle" ELSE "naive")
            /\ UNCHANGED <<spendVars, options, paid, before, usage, verdict,
                           published>>
       ELSE Throws

\* The oracle arm covers the plan, and its results agree.
RunOracle ==
    /\ stage = "oracle"
    /\ ToStage("naive")
    /\ UNCHANGED <<spendVars, options, control, paid, before, usage, verdict,
                   published>>

-----------------------------------------------------------------------------
(* The paid arms, one after the other.                                     *)

AfterArm(a) == IF a = "naive" THEN "model" ELSE "reporting"
RunningOf(a) == IF a = "naive" THEN "running naive" ELSE "running model"

\* The naive arm the caller did not supply.
SkipNaive ==
    /\ stage = "naive"
    /\ ~options.naive
    /\ ToStage("model")
    /\ UNCHANGED <<spendVars, options, control, paid, before, usage, verdict,
                   published>>

\* modelUsage(), and the arm's first run.
BeginArm(a) ==
    /\ stage = a
    /\ a = "naive" => options.naive
    /\ ToStage(RunningOf(a))
    /\ before' = LedgerRead
    /\ UNCHANGED <<spendVars, options, control, paid, usage, verdict, published>>

Running(a) == stage = RunningOf(a)
Made == calls - before.calls

\* One call for a naive run, and for a run of the graph as many as its budgets
\* let through; the next one only when the last has answered.
MostCalls(a) == IF a = "naive" THEN Runs ELSE Runs * GraphCalls

CallStep(a) ==
    /\ Running(a)
    /\ \/ Made < MostCalls(a) /\ Reserve
       \/ \E used \in 0..PerCall : RecordUsage(used)
    /\ UNCHANGED laneVars

\* usageDelta
Used == [calls |-> calls - before.calls, output |-> output - before.output]

ArmEnds(a, result) ==
    /\ paid' = [paid EXCEPT ![a] = result]
    /\ usage' = [usage EXCEPT ![a] = Used]
    /\ before' = NoUse
    /\ UNCHANGED <<options, control, verdict, published>>

\* Mutant: a refused arm keeps the reading of the arm before it.
RefusedUnread(a) ==
    /\ Running(a)
    /\ \/ CallFails
       \/ ~sent /\ UNCHANGED spendVars
    /\ paid' = [paid EXCEPT ![a] = "refused"]
    /\ before' = NoUse
    /\ ToStage(AfterArm(a))
    /\ UNCHANGED <<options, control, usage, verdict, published>>

\* The port threw, the ledger refused the call, or a role threw on its answer:
\* caught once for the whole arm.
ArmRefused(a) ==
    /\ Running(a)
    /\ \/ CallFails
       \/ ~sent /\ UNCHANGED spendVars
    /\ ArmEnds(a, "refused")
    /\ ToStage(AfterArm(a))

\* The arm ran to its end; a plan it missed or results that disagree end the
\* lane (for the model arm, when the report is put together).
ArmCompletes(a) ==
    /\ Running(a)
    /\ ~sent
    /\ Made >= Runs
    /\ ArmEnds(a, "completed")
    /\ \E to \in {AfterArm(a), "failed"} : ToStage(to)
    /\ UNCHANGED spendVars

-----------------------------------------------------------------------------

Completed(a) == paid[a] = "completed"

\* armReportable
Reportable(a) ==
    Completed(a) /\ options.baseline # Absent /\ MovedMetrics = {}

Verdict ==
    IF ~Completed("model") THEN "model-arm-refused"
    ELSE IF options.baseline = Absent THEN "control-baseline-undeclared"
    ELSE IF MovedMetrics # {} THEN "harness-regression"
    ELSE "model-quality"

Report ==
    /\ stage = "reporting"
    /\ verdict' = [is |-> Verdict, reportable |-> {a \in PaidArm : Reportable(a)}]
    /\ ToStage(IF options.publish THEN "publishing" ELSE "reported")
    /\ UNCHANGED <<spendVars, options, control, paid, before, usage, published>>

ToPublish ==
    SelectSeq(<<"model", "naive">>, LAMBDA a : a \in verdict.reportable)

\* publishLiveModelArms: nothing without the model arm, the model arm first.
Persist ==
    /\ stage = "publishing"
    /\ "model" \in verdict.reportable
    /\ Len(published) < Len(ToPublish)
    /\ published' = Append(published, ToPublish[Len(published) + 1])
    /\ ToStage(IF Len(published') = Len(ToPublish) THEN "reported" ELSE stage)
    /\ UNCHANGED <<spendVars, options, control, paid, before, usage, verdict>>

\* The model arm is not reportable, or the service refuses an experiment.
PublishThrows ==
    /\ stage = "publishing"
    /\ Throws
    /\ UNCHANGED control

LaneDone == stage \in {"reported", "failed"} /\ UNCHANGED laneAll

PaidStep(a) ==
    \/ BeginArm(a) \/ CallStep(a) \/ ArmRefused(a) \/ ArmCompletes(a)

LaneStep ==
    \/ Start \/ FreeArmThrows
    \/ \E e \in Controls : RunControl(e)
    \/ RunOracle \/ SkipNaive
    \/ \E a \in PaidArm : PaidStep(a)
    \/ Report \/ Persist \/ PublishThrows

LaneNext == LaneStep \/ LaneDone

LaneSpec == LaneInit /\ [][LaneNext]_laneAll

-----------------------------------------------------------------------------
(* Properties.                                                             *)

\* A paid arm's numbers are called the model's, and published, only when the
\* control arm repeated its baseline: the same metrics, in both directions,
\* with the same means, whatever either of them left out.
ReportableIsAttributable ==
    /\ verdict # Absent /\ verdict.reportable # {} =>
          /\ options.baseline # Absent
          /\ \A m \in Metric \ Withheld :
                /\ m \in DOMAIN control.means <=> m \in DOMAIN options.baseline
                /\ m \in DOMAIN control.means =>
                      control.means[m] = options.baseline[m]
    /\ published # <<>> => verdict.is = "model-quality"

\* Each call of a finished lane is charged to the arm that made it, refused or
\* not: the two readings of an arm enclose its own calls only.
SpendIsAttributed ==
    stage \in {"reporting", "publishing", "reported"} =>
        /\ usage["naive"].calls + usage["model"].calls = calls
        /\ usage["naive"].output + usage["model"].output = output
        /\ paid["naive"] = "not run" => usage["naive"] = NoUse

=============================================================================
