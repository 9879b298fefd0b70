------------------------------- MODULE Benchmark -------------------------------
(***************************************************************************)
(* A benchmark: two experiments over the same examples, a baseline and a   *)
(* mutation, run one after the other (benchmark-evaluation.ts), by the     *)
(* graph whose challenge is observed from outside (graph-benchmark.ts) or  *)
(* by the naive arm, which has none (naive-arm.ts).  Each run is scored    *)
(* against its scenario's ground truth (behavior-evaluators.ts).  The two  *)
(* experiments are then compared (benchmark-regression-gate.ts) or         *)
(* published (packages/observability), request after request, to a service *)
(* that may fail before or after it has stored one.                        *)
(***************************************************************************)
EXTENDS Integers, Sequences, FiniteSets, SequencesExt

CONSTANTS
    Setups,    \* how a caller may set a benchmark up in this instance
    Finals,    \* what an investigation may come back with in this instance
    Leader,    \* hypotheses that may lead
    MaxTests,  \* bound: the tests of one investigation
    Axis,      \* PERSISTED_RESOURCE_KEYS
    Missing

\* undefined is neither a count nor a hypothesis.
ASSUME MissingAssumption == Missing \notin Nat \cup Leader

\* KNOWN_BEHAVIOR_EVALUATOR_VERSIONS: any other is refused before a run is scored.
EvaluatorVersion == {"v0.2", "v0.3", "v0.4"}

\* An experiment has records (the gate and the publication refuse one that has
\* none), each with a finite list of expected evidence.
ASSUME SetupsAssumption ==
    \A s \in Setups :
        /\ s.version \in EvaluatorVersion
        /\ Len(s.truth) \in Nat \ {0}
        /\ DOMAIN s.truth = 1..Len(s.truth)
        /\ \A e \in DOMAIN s.truth : IsFiniteSet(s.truth[e].expected)

\* The axes are a list of names.
ASSUME AxisAssumption == IsFiniteSet(Axis)

\* A conclusion lists its causes.
ASSUME FinalsAssumption ==
    \A f \in Finals : /\ Len(f.causes) \in Nat
                      /\ DOMAIN f.causes = 1..Len(f.causes)

Side == {"baseline", "mutation"}

VARIABLES
    setup,    \* each experiment's arm, the evaluator version, the graph's
              \* budgetPolicy slot, and each example's ground truth in order
    at,       \* the step the benchmark is at
    side,     \* the experiment under way
    run,      \* what the runner's wrappers saw of the graph, and what it did
    results,  \* each experiment's results
    stored,   \* what the ingestion service holds
    acknowledged, \* how many requests it has answered
    proof     \* the metric a granted regression proof is about

benchVars == <<setup, at, side, run, results, stored, acknowledged, proof>>

Truth == setup.truth
Example == DOMAIN Truth

Core == {"unsupported_claim_rate", "evidence_coverage", "termination_correctness"}
Behaviour == <<"misleading_evidence_handling", "false_alert_correctness",
               "challenge_effect">>
Key == Core \cup ToSet(Behaviour)

\* scoresStructurally: behavior-evaluators-v0.3 and -v0.4.
Structural == setup.version \in {"v0.3", "v0.4"}

-----------------------------------------------------------------------------
(* One investigation, and what is seen of it.                              *)

\* No challenge seen: what the evaluator falls back to without an observation.
Unobserved ==
    [calls |-> 0, before |-> Missing, after |-> Missing, snapshot |-> Missing,
     tests |-> 0, trials |-> {}, rounds |-> 0, stop |-> Missing,
     targets |-> <<>>, last |-> Missing]

BenchInit ==
    /\ setup \in Setups
    /\ at = "asked"
    /\ side = "baseline"
    /\ run = Unobserved
    /\ results = [s \in Side |-> <<>>]
    /\ stored = {}
    /\ acknowledged = 0
    /\ proof = Missing

Moves(to) == at' = to

benchAfter == <<stored, acknowledged, proof>>

\* Absent and an own undefined take the shipped policy; an accessor and a value
\* that cannot be parsed are refused.  The naive arm takes none.
PolicyReads == setup.policy.slot \in {"absent", "undefined", "readable"}
SHIPPED_RESERVE == 2
ReservedBudget ==
    IF setup.policy.slot = "readable" THEN setup.policy.reserve
                                     ELSE SHIPPED_RESERVE

Plan ==
    /\ at = "asked"
    /\ Moves(IF setup.arms[side] = "graph" /\ ~PolicyReads THEN "lost"
                                                          ELSE "ready")
    /\ UNCHANGED <<setup, side, run, results, benchAfter>>

\* The next record: the graph starts, or the naive arm is asked.
Investigate ==
    /\ at = "ready"
    /\ Moves(IF setup.arms[side] = "graph" THEN "executing" ELSE "answered")
    /\ run' = Unobserved
    /\ UNCHANGED <<setup, side, results, benchAfter>>

\* A test is planned and its trial ends: with evidence the run did not hold, or
\* with none (it failed, or replayed what the run holds).
Trial == {"fresh", "barren"}
Tried(r, t) ==
    [r EXCEPT !.tests = @ + 1,
              !.trials = @ \cup {[test |-> r.tests + 1, result |-> t,
                                  since |-> r.targets # <<>>]}]

Lap ==
    /\ at = "executing"
    /\ run.tests < MaxTests
    /\ \E t \in Trial : run' = Tried(run, t)
    /\ Moves("checking")
    /\ UNCHANGED <<setup, side, results, benchAfter>>

\* A lap that plans no test.
IdleLap ==
    /\ at = "executing"
    /\ Moves("checking")
    /\ UNCHANGED <<setup, side, run, results, benchAfter>>

Decision ==
    [route : {"need-more-evidence"}]
    \cup [route : {"challenge-required", "sufficient"}, leader : Leader]
    \cup [route : {"stalled"}]  \* for every other terminal decision

PreChallenge(d) ==
    \/ d.route = "challenge-required"
    \/ d.route = "sufficient" /\ run.rounds = 0

\* Mutant: each round's decision replaces the one before.
SeenOfTheLast(d) ==
    [run EXCEPT
        !.before = IF PreChallenge(d) THEN d.leader ELSE @,
        !.after = IF d.route = "sufficient" /\ run.rounds > 0 THEN d.leader
                                                            ELSE @]

\* The wrapped termination_check: the first leader to be challenged stays, the
\* leader a sufficient stop leaves is the last.
Seen(d) ==
    [run EXCEPT
        !.before = IF PreChallenge(d) /\ @ = Missing THEN d.leader ELSE @,
        !.after = IF d.route = "sufficient" /\ run.rounds > 0 THEN d.leader
                                                            ELSE @]

Stops(kind, r) == Moves("answered") /\ run' = [r EXCEPT !.stop = kind]

\* The decision is seen and then routed; a challenge needs a round and a
\* reserved call.
Check(d) ==
    /\ at = "checking"
    /\ LET r == IF d.route \in {"challenge-required", "sufficient"}
                THEN [Seen(d) EXCEPT !.last = d.leader] ELSE run
       IN  \/ /\ d.route = "need-more-evidence"
              /\ Moves("executing") /\ run' = r
           \/ /\ d.route = "need-more-evidence"
              /\ Stops("budget-exhausted", r)
           \/ /\ PreChallenge(d)
              /\ run.rounds < 2 /\ run.rounds < ReservedBudget
              /\ Moves("challenging") /\ run' = r
           \/ /\ PreChallenge(d) /\ run.rounds >= 2
              /\ Stops("ambiguous", r)
           \/ /\ PreChallenge(d) /\ run.rounds < 2 /\ run.rounds >= ReservedBudget
              /\ Stops("budget-exhausted", r)
           \/ /\ d.route \in {"sufficient", "stalled"} /\ ~PreChallenge(d)
              /\ Stops(d.route, r)
    /\ UNCHANGED <<setup, side, results, benchAfter>>

\* The wrapped challenge_hypothesis: the tests before the first challenge are
\* noted, and what the round plans is executed.
Challenge ==
    /\ at = "challenging"
    /\ LET r == [run EXCEPT !.calls = @ + 1,
                            !.rounds = @ + 1,
                            !.snapshot = IF @ = Missing THEN run.tests ELSE @,
                            !.targets = Append(@, run.last)]
       IN  \/ run.tests < MaxTests /\ \E t \in Trial : run' = Tried(r, t)
           \/ run' = r
    /\ Moves("checking")
    /\ UNCHANGED <<setup, side, results, benchAfter>>

\* A node, a role, the arm or the callback that records an evaluation throws:
\* the experiment is lost, and what it has scored so far is not returned.
InvestigationThrows ==
    /\ at \in {"executing", "checking", "challenging", "answered", "scored"}
    /\ Moves("lost")
    /\ UNCHANGED <<setup, side, run, results, benchAfter>>

-----------------------------------------------------------------------------
(* What a run is scored on.                                                *)

\* outcomeFromGraphState: what the conclusion and the assessments cite of the
\* evidence the run holds.
Cited(f) == UNION {f.causes[i].evidence : i \in DOMAIN f.causes}
Referenced(f) ==
    (Cited(f) \cup {a.evidence : a \in f.assessments}) \cap f.evidence

\* The accepted evaluator counts what was collected, the structural ones what
\* was referenced.
Investigated(f) == IF Structural THEN Referenced(f) ELSE f.evidence

UnsupportedClaims(f) ==
    LET unsupported == {i \in DOMAIN f.causes :
                            f.causes[i].evidence \cap f.evidence = {}}
    IN  IF f.causes = <<>> THEN <<0, 1>>
        ELSE <<Cardinality(unsupported), Len(f.causes)>>

EvidenceCoverage(t, f) ==
    IF t.expected = {} THEN <<1, 1>>
    ELSE <<Cardinality(t.expected \cap Investigated(f)), Cardinality(t.expected)>>

TerminationCorrectness(t, f) ==
    IF f.stop = t.stop /\ f.kind = t.kind THEN <<1, 1>> ELSE <<0, 1>>

CoreMetrics(t, f) ==
    [k \in Core |->
        CASE k = "unsupported_claim_rate" -> UnsupportedClaims(f)
          [] k = "evidence_coverage" -> EvidenceCoverage(t, f)
          [] k = "termination_correctness" -> TerminationCorrectness(t, f)]

\* A behaviour metric is a ladder of reasons to fail it: the first that holds.
FirstReason(ladder) ==
    LET i == SelectInSeq(ladder, LAMBDA rung : rung[1])
    IN  IF i = 0 THEN "passed" ELSE ladder[i][2]

\* The accepted evaluator compares the cause as it was written, the structural
\* ones its component and mechanism.
SameCause(t, f) ==
    /\ f.causes # <<>>
    /\ f.causes[1].cause.is = t.cause.is
    /\ Structural \/ f.causes[1].cause.spelt = t.cause.spelt

Reconciled(t, f) ==
    /\ f.causes # <<>>
    /\ \A e \in t.misleading :
          \E a \in f.assessments :
              /\ a.evidence = e /\ e \in f.evidence
              /\ a.hypothesis = f.causes[1].hypothesis
              /\ a.effect # "supports"

MisleadingHandled(t, f) == FirstReason(<<
    <<~(t.misleading \subseteq Investigated(f)), "misleading-evidence-not-investigated">>,
    <<~(t.expected \subseteq Investigated(f)), "expected-evidence-missing">>,
    <<~SameCause(t, f), "root-cause-mismatch">>,
    <<~Reconciled(t, f), "misleading-evidence-not-reconciled">> >>)

FalseAlertOutcome(t, f) == FirstReason(<<
    <<f.stop # t.stop, "insufficient-investigation">>,
    <<~(t.expected \subseteq Investigated(f)), "expected-evidence-missing">>,
    <<f.kind # t.kind, "incorrect-outcome">> >>)

\* executedDiscriminatingTrialCount: trials with new evidence, of tests that
\* were not there when the first challenge began.
Discriminating(r) ==
    {x \in r.trials : /\ x.result = "fresh"
                      /\ r.snapshot # Missing
                      /\ x.test > r.snapshot}

\* The statuses of two leaders may differ as well; here a status changes with
\* its leader only.
ChallengeEffect(t, r) == FirstReason(<<
    <<r.calls < 1, "challenge-not-observed">>,
    <<r.before = Missing \/ r.after = Missing, "leader-observation-missing">>,
    <<r.before = r.after /\ Discriminating(r) = {}, "no-investigation-change">>,
    <<setup.version = "v0.4" /\ Discriminating(r) = {}, "no-discriminating-trial">>,
    <<(r.before # r.after) # t.leaderChange, "leader-change-mismatch">> >>)

\* The behaviour metrics a scenario's ground truth asks for.
Asked(t) ==
    {k \in ToSet(Behaviour) :
        CASE k = "misleading_evidence_handling" ->
                 t.cause # Missing /\ t.misleading # Missing
          [] k = "false_alert_correctness" -> t.kind = "no-incident"
          [] k = "challenge_effect" -> t.leaderChange # Missing}

\* NAIVE_NOT_APPLICABLE
NotApplicable(s) == IF setup.arms[s] = "naive" THEN {"challenge_effect"} ELSE {}

BehaviourMetrics(t, f, s) ==
    [k \in Asked(t) \ NotApplicable(s) |->
        CASE k = "misleading_evidence_handling" -> MisleadingHandled(t, f)
          [] k = "false_alert_correctness" -> FalseAlertOutcome(t, f)
          [] k = "challenge_effect" -> ChallengeEffect(t, run)]

\* Resources are measured on a graph, and by nobody else.
Evaluation(t, f, s) ==
    [core |-> CoreMetrics(t, f),
     behaviour |-> BehaviourMetrics(t, f, s),
     notApplicable |-> NotApplicable(s),
     resources |-> IF setup.arms[s] = "graph" THEN Axis ELSE {}]

Current == Len(results[side]) + 1

\* evaluateBenchmarkRecord; the callback that records the evaluation returns.
Score(f) ==
    /\ at = "answered"
    /\ setup.arms[side] = "graph" => f.stop = run.stop
    /\ results' = [results EXCEPT ![side] =
                      Append(@, Evaluation(Truth[Current], f, side))]
    /\ Moves("scored")
    /\ UNCHANGED <<setup, side, run, benchAfter>>

\* recordEvaluation returned; the next record, the other experiment, or both
\* are there.
Continue ==
    /\ at = "scored"
    /\ run' = Unobserved
    /\ \/ /\ Len(results[side]) < Len(Truth)
          /\ Moves("ready") /\ UNCHANGED side
       \/ /\ Len(results[side]) = Len(Truth) /\ side = "baseline"
          /\ side' = "mutation" /\ Moves("asked")
       \/ /\ Len(results[side]) = Len(Truth) /\ side = "mutation"
          /\ Moves("returned") /\ UNCHANGED side
    /\ UNCHANGED <<setup, results, benchAfter>>

-----------------------------------------------------------------------------
(* The regression gate.                                                    *)

RequiredScore(k) == IF k = "unsupported_claim_rate" THEN 0 ELSE 1

Declares(s, e, k) == k \in DOMAIN results[s][e].behaviour

\* gateMetric, gateBehaviorMetric: the examples that miss the required score.
Failing(s, k) ==
    {e \in Example :
        \/ /\ k \in Core
           /\ LET score == results[s][e].core[k]
              IN  score[1] # RequiredScore(k) * score[2]
        \/ Declares(s, e, k) /\ results[s][e].behaviour[k] # "passed"}

\* Mutant: a metric that one side does not declare is not compared.
AbsenceIsInert(k) == TRUE

\* Presence is compared before scores are.
SamePresence(k) ==
    \A e \in Example : Declares("baseline", e, k) <=> Declares("mutation", e, k)

Granted(k) ==
    /\ \A m \in Key : SamePresence(m)
    /\ \A m \in Key : Failing("baseline", m) = {}
    /\ \A m \in Key : Failing("mutation", m) # {} <=> m = k

\* compareBenchmarkExperiments; a refusal throws.
Compare(k) ==
    /\ at = "returned"
    /\ IF Granted(k) THEN Moves("compared") /\ proof' = k
                     ELSE Moves("refused") /\ UNCHANGED proof
    /\ UNCHANGED <<setup, side, run, results, stored, acknowledged>>

-----------------------------------------------------------------------------
(* Publication.                                                            *)

Outbound(op, s, e, k) == [op |-> op, side |-> s, example |-> e, key |-> k]
Feedback(s, e, keys) == [i \in DOMAIN keys |-> Outbound("feedback", s, e, keys[i])]

\* One run: created, then a figure for each metric and each measured axis.
RunOutbox(s, e) ==
    LET r == results[s][e]
    IN  <<Outbound("run", s, e, Missing)>>
        \o Feedback(s, e, SetToSeq(Core))
        \o Feedback(s, e, SetToSeq(DOMAIN r.behaviour))
        \o Feedback(s, e, SetToSeq(r.resources))

ProjectOutbox(s) ==
    <<Outbound("project", s, Missing, Missing)>>
    \o FlattenSeq([e \in Example |-> RunOutbox(s, e)])

Outbox ==
    <<Outbound("dataset", Missing, Missing, Missing),
      Outbound("examples", Missing, Missing, Missing)>>
    \o ProjectOutbox("baseline") \o ProjectOutbox("mutation")

\* The outbound vocabulary, which imports nothing of the evaluators'.
PERSISTED_VERSIONS == {"v0.2", "v0.3", "v0.4"}
PERSISTED_REASONS ==
    {"passed", "misleading-evidence-not-investigated", "expected-evidence-missing",
     "root-cause-mismatch", "misleading-evidence-not-reconciled",
     "insufficient-investigation", "incorrect-outcome", "challenge-not-observed",
     "leader-observation-missing", "no-investigation-change",
     "leader-change-mismatch", "no-discriminating-trial"}

\* What a record's projections let through, judged before its run is created.
Projectable(r) ==
    /\ setup.version \in PERSISTED_VERSIONS
    /\ \A k \in DOMAIN r.behaviour : r.behaviour[k] \in PERSISTED_REASONS
    /\ DOMAIN r.behaviour \cap r.notApplicable = {}
    /\ r.resources \in {{}, Axis}

StartPublishing ==
    /\ at = "returned"
    /\ Moves("publishing")
    /\ UNCHANGED <<setup, side, run, results, benchAfter>>

Due == Outbox[acknowledged + 1]
Projected == Due.op = "run" => Projectable(results[Due.side][Due.example])

\* Mutant: a figure the service refused is given up on.
SendOrSkip ==
    /\ at = "publishing" /\ acknowledged < Len(Outbox)
    /\ Projected
    /\ acknowledged' = acknowledged + 1
    /\ \/ stored' = stored \cup {Due}
       \/ Due.op = "feedback" /\ UNCHANGED stored
    /\ UNCHANGED <<setup, at, side, run, results, proof>>

\* A record that a projection refuses ends the publication before its run is
\* created.
SendNext ==
    /\ at = "publishing" /\ acknowledged < Len(Outbox)
    /\ IF Projected
       THEN /\ stored' = stored \cup {Due}
            /\ acknowledged' = acknowledged + 1
            /\ UNCHANGED at
       ELSE Moves("unpublishable") /\ UNCHANGED <<stored, acknowledged>>
    /\ UNCHANGED <<setup, side, run, results, proof>>

\* The service fails, or its answer is lost: what is there stays, and nobody
\* learns what it is.
SendFails ==
    /\ at = "publishing" /\ acknowledged < Len(Outbox)
    /\ Projected
    /\ stored' \in {stored, stored \cup {Due}}
    /\ Moves("broken")
    /\ UNCHANGED <<setup, side, run, results, acknowledged, proof>>

\* The reference names the runs, and is read back where a reader looks.
Reference ==
    /\ at = "publishing" /\ acknowledged = Len(Outbox)
    /\ Moves("referenced")
    /\ UNCHANGED <<setup, side, run, results, benchAfter>>

RunsIn(where) == {<<r.side, r.example>> : r \in {x \in where : x.op = "run"}}

\* verifyPersistedBenchmarkReference, against this workspace or another one.
Verify ==
    /\ at = "referenced"
    /\ \E where \in {stored, {}} :
          Moves(IF Side \X Example \subseteq RunsIn(where) THEN "verified"
                                                           ELSE "unverified")
    /\ UNCHANGED <<setup, side, run, results, benchAfter>>

-----------------------------------------------------------------------------

InvestigationStep ==
    \/ Investigate \/ Lap \/ IdleLap
    \/ \E d \in Decision : Check(d)
    \/ Challenge \/ InvestigationThrows

PublicationStep ==
    \/ StartPublishing \/ SendNext \/ SendFails \/ Reference \/ Verify

BenchNext ==
    \/ Plan \/ InvestigationStep
    \/ \E f \in Finals : Score(f)
    \/ Continue
    \/ \E k \in Key : Compare(k)
    \/ PublicationStep

BenchSpec == BenchInit /\ [][BenchNext]_benchVars

-----------------------------------------------------------------------------
(* Properties.                                                             *)

\* A challenge is credited for what it did: the run went to a sufficient stop,
\* its last leader and the first one challenged are as different as the ground
\* truth says, and under v0.4 a test that only entered after that challenge
\* brought evidence the run did not have.
ChallengeCreditIsEarned ==
    at = "scored" =>
        LET e == Len(results[side])
            r == results[side][e].behaviour
        IN  ("challenge_effect" \in DOMAIN r /\ r["challenge_effect"] = "passed") =>
                /\ run.stop = "sufficient"
                /\ run.targets # <<>>
                /\ (run.targets[1] # run.last) = Truth[e].leaderChange
                /\ setup.version = "v0.4" =>
                      \E x \in run.trials : x.since /\ x.result = "fresh"

\* A granted proof left nothing out: what the ground truth asks of an example
\* was scored in both experiments or is not applicable in both, and but for the
\* metric the proof is about both scored the same.
GateMissesNothing ==
    proof # Missing =>
        \A e \in Example :
            LET b == results["baseline"][e]
                m == results["mutation"][e]
            IN  /\ \A k \in Asked(Truth[e]) :
                      /\ k \in b.notApplicable <=> k \in m.notApplicable
                      /\ k \notin b.notApplicable =>
                            k \in DOMAIN b.behaviour \cap DOMAIN m.behaviour
                /\ \A k \in DOMAIN b.behaviour \ {proof} :
                      b.behaviour[k] = m.behaviour[k]
                /\ \A k \in Core \ {proof} :
                      b.core[k][1] * m.core[k][2] = m.core[k][1] * b.core[k][2]

\* What the service shows is what was measured.  A run is there with the
\* figures of its own evaluation only, whatever broke the publication off; a
\* reference, read back or not, is given for runs that are there with all of
\* them; and what was scored is never refused by the publishing side's lists.
PublicationIsWhole ==
    /\ at # "unpublishable"
    /\ \A x \in stored : x.op = "feedback" =>
          LET r == results[x.side][x.example]
          IN  /\ Outbound("run", x.side, x.example, Missing) \in stored
              /\ x.key \in (Core \cup DOMAIN r.behaviour \cup r.resources)
                              \ r.notApplicable
    /\ at \in {"referenced", "verified"} =>
          \A s \in Side, e \in Example :
              LET r == results[s][e]
              IN  /\ <<s, e>> \in RunsIn(stored)
                  /\ \A k \in Core \cup DOMAIN r.behaviour \cup r.resources :
                        Outbound("feedback", s, e, k) \in stored

=============================================================================
