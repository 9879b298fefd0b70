--------------------------- MODULE EvidencePipeline ---------------------------
(***************************************************************************)
(* What an investigation holds, from its first hypotheses on: the nodes    *)
(* derive_predictions, plan_investigation, execute_investigation,          *)
(* evaluate_predictions, interpret_residual_evidence,                      *)
(* derive_hypothesis_state and challenge_hypothesis of packages/graph, run *)
(* by one durable run that may crash anywhere and resume from any of its   *)
(* checkpoints, over a bound executor or a replay.                         *)
(*                                                                         *)
(* InvestigationGraph has the routing and the budgets and leaves the data  *)
(* out; this module has the data.  Which way the termination check decides *)
(* is left open: it is some function of the state.  CheckpointedRun has    *)
(* committed() step by step; here the run is the authority, a committed    *)
(* result is there for good, and a call whose commit a crash prevented     *)
(* left nothing.  What committed() does compare is kept: a role's request, *)
(* which shows the model the state, has to be the one its stored answer    *)
(* was given for.                                                          *)
(***************************************************************************)
EXTENDS PredictionRules

CONSTANTS
    Initial,     \* the hypotheses generate_hypotheses may leave
    Proposals,   \* what a challenge may answer: [alternative, tests]
    Chosen,      \* the test ids a role makes up
    Readings,    \* what the interpret role may answer: sets of assessments
    Served,      \* evidence ids a bound source may serve
    MaxServed,   \* bound: evidence of one answer
    Recorded,    \* the replay's entries, in fixture order
    Limits,      \* the budgets a run may have: [iterations, challenges]
    MaxAttempts  \* maxExecutionAttempts

\* The hypotheses there may be, the requests that are planned for them, and all
\* that is asked.
Hypothesis == {p.alternative : p \in Proposals} \cup UNION {Range(i) : i \in Initial}
Plannable ==
    UNION {{Request(Quantity(t.form, h.cause.component, t.window, t.of)) :
                t \in Range(PREDICTION_TEMPLATES[h.cause.mechanism])} :
           h \in {i \in Hypothesis : i.cause # None
                                  /\ i.cause.mechanism \in DOMAIN PREDICTION_TEMPLATES}}

Asked == Plannable \cup UNION {{t.request : t \in Range(p.tests)} : p \in Proposals}

\* An id that a role makes up is no hash of a request.
ASSUME ChosenAssumption == Chosen \cap Asked = {}

\* The first hypotheses are upserted by their ids.
ASSUME InitialAssumption ==
    \A hypotheses \in Initial :
        /\ hypotheses \in Seq(Hypothesis)
        /\ \A i, j \in DOMAIN hypotheses :
              hypotheses[i].id = hypotheses[j].id => i = j

\* A role's tests are stored as planned, whatever it says of them.
ASSUME ProposalsAssumption ==
    \A p \in Proposals :
        p.tests \in Seq([id : Chosen \cup Plannable, request : Asked,
                         status : {"planned"}])

\* ObservedFactSchema: a fact states a signal, or counts.
ASSUME EvidenceAssumption ==
    \A e \in DOMAIN Evidence : \A f \in Evidence[e].facts :
        \/ "state" \in DOMAIN f /\ f.state \in {"normal", "elevated", "at-limit"}
        \/ /\ {"state", "count", "coverage"} \cap DOMAIN f = {"count", "coverage"}
           /\ f.count \in Nat

ASSUME AnswersAssumption ==
    /\ Served \subseteq DOMAIN Evidence
    /\ \A i \in DOMAIN Recorded :
          /\ Recorded[i].answer.status \in {"ok", "unavailable", "error"}
          /\ Recorded[i].answer.output \subseteq DOMAIN Evidence

VARIABLES
    st,      \* the graph's state, and in it the node to run next
    draft,   \* the state as execute_investigation has built it so far
    port,    \* what execute is: "bound" or "replay"
    limits,  \* maxIterations and the challenge reserve
    asOf,    \* the cut: when the run's input was committed
    clock,   \* the attempt, and the time it runs at
    ledger,  \* committed results, by exec key
    asked,   \* what the model was shown for those it gave
    refused, \* the attempt ended on an answer given for another request
    rows,    \* the trials and evidence committed() projected
    puts,    \* the checkpoints of all attempts: [at, state]
    path,    \* history: the checkpoints, as first reached
    pos      \* where on the path the run is

runVars == <<port, limits, asOf>>
vars == <<st, draft, runVars, clock, ledger, asked, refused, rows, puts, path, pos>>

-----------------------------------------------------------------------------
(* What a test's execution may answer. *)

Answer(status, output) == [status |-> status, output |-> output]

\* A tool answers one form: a route table that gives it two is refused.
FormOf(tool) ==
    CASE tool = "deployments" -> "deployment-in-window"
      [] tool = "logs" -> "log-class-in-window"
      [] tool \in {"metrics", "dependencies"} -> "signal-state"
      [] OTHER -> None

\* The evidence of every ok recording of the tool that measures the quantity.
Measuring(r) ==
    {e \in UNION {Recorded[i].answer.output : i \in {j \in DOMAIN Recorded :
                      /\ Recorded[j].request.tool = r.tool
                      /\ Recorded[j].answer.status = "ok"}} :
        \E f \in Evidence[e].facts : f.of = r.input}

\* createPlannedReplayExecutor: the recording of this request, or the quantity
\* wherever it was measured; never an empty ok for what was not measured.
ReplayAnswer(r) ==
    IF \E i \in DOMAIN Recorded : Recorded[i].request = r
    THEN LET i == CHOOSE i \in DOMAIN Recorded : Recorded[i].request = r
         IN  Recorded[i].answer
    ELSE IF r.tool # None /\ r.input.form = FormOf(r.tool) /\ Measuring(r) # {}
    THEN Answer("ok", Measuring(r))
    ELSE Answer("unavailable", {})

\* What the registry may say of one call: an output, sound or not, or a refusal.
SourceOutcome ==
    [status : {"ok"}, sound : BOOLEAN,
     output : {s \in SUBSET Served : Cardinality(s) <= MaxServed}]
    \cup [status : {"refused"}, reason : {"adapter_error", "timeout"}]

\* mapOutcome: an output with an unsound item is an error as a whole, and every
\* refusal but adapter_error leaves the test unavailable.
MapOutcome(o) ==
    CASE o.status = "ok" /\ o.sound -> Answer("ok", o.output)
      [] o.status = "ok" /\ ~o.sound -> Answer("error", {})
      [] o.status = "refused" /\ o.reason = "adapter_error" -> Answer("error", {})
      [] OTHER -> Answer("unavailable", {})

Execute(r) ==
    IF port = "replay" THEN {ReplayAnswer(r)}
    ELSE {MapOutcome(o) : o \in SourceOutcome}

-----------------------------------------------------------------------------
(* Steps of the run. *)

PipelineInit ==
    /\ \E hypotheses \in Initial :
          st = [node |-> "derive_predictions", hypotheses |-> hypotheses,
                predictions |-> <<>>, tests |-> <<>>, trials |-> {},
                evidence |-> <<>>, assessments |-> {}, laps |-> 0, rounds |-> 0]
    /\ draft = st
    /\ port \in {"bound", "replay"}
    /\ limits \in Limits
    /\ clock = 1
    /\ asOf = clock
    /\ ledger = <<>>
    /\ asked = <<>>
    /\ refused = FALSE
    /\ rows = [trials |-> {}, evidence |-> <<>>]
    /\ puts = {[at |-> 1, state |-> st]}
    /\ path = <<st>>
    /\ pos = 1

\* A superstep ends: its state is checkpointed.
Reach(s) ==
    /\ st' = s
    /\ draft' = s
    /\ pos' = pos + 1
    /\ puts' = puts \cup {[at |-> pos', state |-> s]}
    /\ path' = IF pos = Len(path) THEN Append(path, s) ELSE path
    /\ UNCHANGED <<runVars, clock, refused>>

\* A map to which another adds what it does not have.
Extended(f, g) ==
    [x \in DOMAIN f \cup DOMAIN g |-> IF x \in DOMAIN f THEN f[x] ELSE g[x]]

\* committed(): the result under the key, or one of these, stored from now on.
Committed(key, results) ==
    IF key \in DOMAIN ledger THEN {ledger[key]} ELSE results
Keeps(key, result) == ledger' = Extended(ledger, [k \in {key} |-> result])

\* Mutant: a round of challenge moves no counter of the key.
PositionInLap(s) == <<s.node, s.laps>>

\* What a role's key names of the state it is asked in.
Position(s) == <<s.node, s.laps, s.rounds>>

\* describeState: what of the state a role's request shows the model, and so
\* what the request's fingerprint tells apart.
Shown(s) ==
    [hypotheses |-> s.hypotheses, predictions |-> s.predictions,
     evidence |-> s.evidence, assessments |-> s.assessments]

\* The key is free, or its result was given for this very request.
SameRequest ==
    Position(st) \in DOMAIN asked => asked[Position(st)] = Shown(st)

\* A role's call: its answer is kept with the fingerprint of its request.
KeepsAnswer(answer) ==
    /\ Keeps(Position(st), answer)
    /\ asked' = Extended(asked, [k \in {Position(st)} |-> Shown(st)])

\* A node throws on what its role answered; the answer stays committed.
Failed(s) == [s EXCEPT !.node = "failed"]

Derived(s) ==
    [s EXCEPT !.predictions = @ \o DerivePredictions(s.hypotheses, s.predictions),
              !.node = "plan_investigation"]

Derive ==
    /\ st.node = "derive_predictions"
    /\ Reach(Derived(st))
    /\ UNCHANGED <<ledger, asked, rows>>

WithPlan(s) ==
    [s EXCEPT !.tests = @ \o PlanInvestigation(s.predictions, s.tests),
              !.laps = @ + 1,
              !.node = "execute_investigation"]

Plan ==
    /\ st.node = "plan_investigation"
    /\ Reach(WithPlan(st))
    /\ UNCHANGED <<ledger, asked, rows>>

Planned(s) == {i \in DOMAIN s.tests : s.tests[i].status = "planned"}
NextTest(s) == CHOOSE i \in Planned(s) : \A j \in Planned(s) : i <= j

\* Evidence held already, or claimed by an earlier test of the call, stays with
\* the trial that brought it.
NewEvidence(s, answer) == answer.output \ DOMAIN s.evidence

StatusOf(answer) ==
    CASE answer.status = "ok" -> "executed"
      [] answer.status = "unavailable" -> "unavailable"
      [] answer.status = "error" -> "failed"

\* One more than the highest.
Attempt(s, test) ==
    1 + Max({0} \cup {t.attempt : t \in {u \in s.trials : u.test = test.id}})

\* buildRecordedOutcome: the trial of a test and the evidence it is credited.
TrialOf(s, test, answer) ==
    [test |-> test.id, attempt |-> Attempt(s, test), status |-> answer.status,
     evidence |-> NewEvidence(s, answer)]
Credited(trial) == [e \in trial.evidence |-> <<trial.test, trial.attempt>>]

WithTrial(s, i, answer) ==
    LET trial == TrialOf(s, s.tests[i], answer)
    IN  [s EXCEPT !.tests[i].status = StatusOf(answer),
                  !.trials = @ \cup {trial},
                  !.evidence = Extended(@, Credited(trial))]

\* Mutant: the projection knows the evidence the node began with only.
ProjectFromTheStart(test, answer) ==
    LET trial == TrialOf(st, test, answer)
    IN  rows' = [trials |-> rows.trials \cup {trial},
                 evidence |-> Extended(Credited(trial), rows.evidence)]

\* The rows written with the commit, upserted by id.
Project(test, answer) ==
    LET trial == TrialOf(draft, test, answer)
    IN  rows' = [trials |-> rows.trials \cup {trial},
                 evidence |-> Extended(Credited(trial), rows.evidence)]

TrialKey(s) ==
    LET test == s.tests[NextTest(s)]
    IN  <<"tool.trial", test.id, Attempt(s, test)>>

\* One planned test, in state order: its outcome, committed with its rows.
ExecuteTest ==
    /\ st.node = "execute_investigation" /\ Planned(draft) # {}
    /\ LET i == NextTest(draft)
           test == draft.tests[i]
           key == TrialKey(draft)
       IN  \E answer \in Committed(key, Execute(test.request)) :
               /\ Keeps(key, answer)
               /\ draft' = WithTrial(draft, i, answer)
               /\ IF key \in DOMAIN ledger THEN UNCHANGED rows
                  ELSE Project(test, answer)
    /\ UNCHANGED <<st, runVars, clock, asked, refused, puts, path, pos>>

ExecutionEnds ==
    /\ st.node = "execute_investigation" /\ Planned(draft) = {}
    /\ Reach([draft EXCEPT !.node = "evaluate_predictions"])
    /\ UNCHANGED <<ledger, asked, rows>>

\* The as-of of the stored input, whichever attempt reads it.
Cut == asOf

Evaluated(s, cut) ==
    LET read == ReadAt(DOMAIN s.evidence, cut)
    IN  [s EXCEPT
            !.predictions = EvaluatedPredictions(@, read),
            !.assessments = Upsert(@, EvaluatedAssessments(s.predictions, read, cut)),
            !.node = "interpret_residual_evidence"]

EvaluatePredictions ==
    /\ st.node = "evaluate_predictions"
    /\ Reach(Evaluated(st, Cut))
    /\ UNCHANGED <<ledger, asked, rows>>

HypothesisIds(s) == {s.hypotheses[i].id : i \in DOMAIN s.hypotheses}

\* An assessment names evidence and a hypothesis the state holds, and a
\* prediction, if any, of that hypothesis.
Refers(s, a) ==
    /\ a.evidence \in DOMAIN s.evidence
    /\ a.hypothesis \in HypothesisIds(s)
    /\ a.prediction # None =>
          \E i \in DOMAIN s.predictions :
              /\ PredictionId(s.predictions[i]) = a.prediction
              /\ s.predictions[i].hypothesis = a.hypothesis

\* Mutant: what a rule assessed, the model may assess anew.
OwnId(s, a) == TRUE

\* A model may replace a reading of its own, never a rule's.
NoRuleHolds(s, a) ==
    \A b \in s.assessments : b.id = a.id => b.producedBy # "rule"

\* The role's assessments, stamped with the time of the attempt: the answer is
\* committed, the stamp is not.
Stamped(reading, time) ==
    {[id |-> a.id, evidence |-> a.evidence, hypothesis |-> a.hypothesis,
      prediction |-> a.prediction, effect |-> a.effect, strength |-> a.strength,
      producedBy |-> "llm", at |-> time] : a \in reading}

Interpreted(s, reading, time) ==
    IF \A a \in reading : Refers(s, a) /\ NoRuleHolds(s, a)
    THEN [s EXCEPT !.assessments = Upsert(@, Stamped(reading, time)),
                   !.node = "derive_hypothesis_state"]
    ELSE Failed(s)

Interpret ==
    /\ st.node = "interpret_residual_evidence" /\ ~refused /\ SameRequest
    /\ \E reading \in Committed(Position(st), Readings) :
          /\ KeepsAnswer(reading)
          /\ Reach(Interpreted(st, reading, clock))
    /\ UNCHANGED rows

\* The node refuses a dangling assessment and else stores nothing: statuses are
\* derived again by whoever reads them.
Referred(s) ==
    IF \A a \in s.assessments : Refers(s, a)
    THEN [s EXCEPT !.node = "termination_check"] ELSE Failed(s)

DeriveHypothesisState ==
    /\ st.node = "derive_hypothesis_state"
    /\ Reach(Referred(st))
    /\ UNCHANGED <<ledger, asked, rows>>

\* Some function of the state: what was decided here once is decided again.
TerminationCheck ==
    /\ st.node = "termination_check"
    /\ \E n \in Committed(Position(st),
              {"propose_conclusion"}
              \cup {x \in {"challenge_hypothesis"} : st.rounds < limits.challenges}
              \cup {x \in {"plan_investigation"} : st.laps < limits.iterations}) :
          Keeps(Position(st), n) /\ Reach([st EXCEPT !.node = n])
    /\ UNCHANGED <<asked, rows>>

\* The id of a planned test is a hash: a role, which is given the state, may
\* repeat one and cannot make one up.
Answerable(s) ==
    {p \in Proposals : \A i \in DOMAIN p.tests :
        \/ p.tests[i].id \in Chosen
        \/ \E j \in DOMAIN s.tests : s.tests[j].id = p.tests[i].id}

\* The role refuses a challenge that names nothing to tell the two apart by.
Discriminates(proposal) == proposal.tests # <<>>

\* The graph refuses one that reuses an id, or uses one twice.
FreshIds(s, proposal) ==
    /\ proposal.alternative.id \notin HypothesisIds(s)
    /\ \A i \in DOMAIN proposal.tests :
          /\ \A j \in DOMAIN s.tests : proposal.tests[i].id # s.tests[j].id
          /\ \A j \in DOMAIN proposal.tests :
                i # j => proposal.tests[i].id # proposal.tests[j].id

\* The alternative's predictions and their tests come with it, planned around
\* the tests the challenge proposed itself.
Challenged(s, proposal) ==
    LET hypotheses == Append(s.hypotheses, proposal.alternative)
        predictions == s.predictions \o DerivePredictions(hypotheses, s.predictions)
        tests == s.tests \o proposal.tests
    IN  IF Discriminates(proposal) /\ FreshIds(s, proposal)
        THEN [s EXCEPT !.hypotheses = hypotheses,
                       !.predictions = predictions,
                       !.tests = tests \o PlanInvestigation(predictions, tests),
                       !.rounds = @ + 1,
                       !.node = "execute_investigation"]
        ELSE Failed(s)

ChallengeHypothesis ==
    /\ st.node = "challenge_hypothesis" /\ ~refused /\ SameRequest
    /\ \E proposal \in Committed(Position(st), Answerable(st)) :
          /\ KeepsAnswer(proposal)
          /\ Reach(Challenged(st, proposal))
    /\ UNCHANGED rows

Asks == {"interpret_residual_evidence", "challenge_hypothesis"}

\* committed() finds the key taken by another request: an integrity violation,
\* which the node throws and the attempt ends with.
RefuseRequest ==
    /\ st.node \in Asks /\ ~refused /\ ~SameRequest
    /\ refused' = TRUE
    /\ UNCHANGED <<st, draft, runVars, clock, ledger, asked, rows, puts, path, pos>>

\* The attempt dies, by a crash or because execute() or a role threw; the next
\* one resumes from a checkpoint.  Puts lag behind the nodes, may fail or land
\* late, and have their ids from their attempts' clocks: it may be any.
Crash ==
    /\ clock < MaxAttempts
    /\ clock' = clock + 1
    /\ refused' = FALSE
    /\ \E put \in puts :
          /\ pos' = put.at
          /\ st' = put.state
          /\ draft' = put.state
    /\ UNCHANGED <<runVars, ledger, asked, rows, puts, path>>

NodeStep ==
    \/ Derive \/ Plan \/ ExecuteTest \/ ExecutionEnds
    \/ EvaluatePredictions \/ Interpret \/ DeriveHypothesisState
    \/ TerminationCheck \/ ChallengeHypothesis \/ RefuseRequest

PipelineNext == NodeStep \/ Crash

PipelineSpec == PipelineInit /\ [][PipelineNext]_vars

-----------------------------------------------------------------------------
(* Properties. *)

\* Trials and evidence tell one story, in the state, in what the node has built
\* of the next one, and in the rows the product reads: a piece of evidence
\* belongs to one trial, which lists it, however often sources serve it and
\* whichever checkpoint the run came back from.
OneStory(trials, evidence) ==
    /\ \A t \in trials : \A e \in t.evidence :
          e \in DOMAIN evidence /\ evidence[e] = <<t.test, t.attempt>>
    /\ \A e \in DOMAIN evidence : \E t \in trials :
          e \in t.evidence /\ evidence[e] = <<t.test, t.attempt>>

EvidenceHasOneTrial ==
    /\ OneStory(draft.trials, draft.evidence)
    /\ OneStory(rows.trials, rows.evidence)
    /\ draft.trials \subseteq rows.trials

\* A test is executed once: it has one trial when it is done, with the trial's
\* status, and none while it is planned.  No two planned tests ask for the same
\* thing, and the planner asks for nothing that was asked for before.
TestsRunOnce ==
    LET tests == draft.tests
    IN  /\ \A i \in DOMAIN tests :
              LET own == {t \in draft.trials : t.test = tests[i].id}
              IN  /\ Cardinality(own) = IF tests[i].status = "planned" THEN 0 ELSE 1
                  /\ \A t \in own : StatusOf(t) = tests[i].status
        /\ \A i, j \in DOMAIN tests :
              i < j /\ tests[i].request = tests[j].request =>
                  tests[j].id # tests[j].request

\* A decision rests on evidence that measures what was predicted, clearly,
\* completely and in time, and on nothing that says the opposite; an undecided
\* prediction has no rule's assessment.
VerdictsRestOnEvidence ==
    \A i \in DOMAIN st.predictions :
        LET p == st.predictions[i]
            own == {a \in st.assessments : /\ a.prediction = PredictionId(p)
                                           /\ a.producedBy = "rule"}
            Value(a) == {Seen(f) : f \in {g \in Evidence[a.evidence].facts :
                                             g.of = p.ifTrue[1].of}}
        IN  /\ own # {} <=> Decided(p)
            /\ \A a \in own :
                  /\ Evidence[a.evidence].observedAt <= asOf
                  /\ \A v \in Value(a) : v # "absent" \/
                        \E f \in Evidence[a.evidence].facts :
                            /\ f.of = p.ifTrue[1].of
                            /\ "count" \in DOMAIN f
                            /\ f.count = 0 /\ f.coverage = "complete"
                  /\ p.status = "confirmed" =>
                        /\ a.effect = "supports"
                        /\ p.ifTrue[1].value \in Value(a)
                  /\ p.status = "refuted" =>
                        /\ a.effect = "contradicts"
                        /\ Value(a) \ {p.ifTrue[1].value, "unknown"} # {}

\* A run goes on from what it decided: a decided prediction and the rule's
\* assessments of it stay as they are, and a hypothesis a rule's assessment
\* rejects stays rejected, whatever a later source or model says, as long as the
\* attempt lasts.
RejectedByRule(s, id) ==
    \E a \in s.assessments, i \in DOMAIN s.predictions :
        /\ a.producedBy = "rule" /\ a.hypothesis = id
        /\ a.effect = "contradicts"
        /\ a.prediction = PredictionId(s.predictions[i])
        /\ s.predictions[i].status = "refuted"
        /\ Evidence[a.evidence].reliability = "high"

DecisionsAreFinal ==
    [][clock' = clock =>
        /\ \A i \in DOMAIN st.predictions :
              Decided(st.predictions[i]) =>
                  /\ st'.predictions[i] = st.predictions[i]
                  /\ \A a \in st.assessments \cup st'.assessments :
                        a.producedBy = "rule"
                        /\ a.prediction = PredictionId(st.predictions[i]) =>
                            a \in st.assessments /\ a \in st'.assessments
        /\ \A i \in DOMAIN st.hypotheses :
              LET id == st.hypotheses[i].id
              IN  RejectedByRule(st, id) =>
                      HypothesisStatus(id, st'.predictions, st'.assessments)
                          = "rejected"]_vars

\* The time a model's readings are stamped with, left out of what holds them.
Unstamped(s) ==
    [s EXCEPT !.assessments =
        {IF a.producedBy = "llm" THEN [a EXCEPT !.at = 0] ELSE a : a \in @}]

\* A run that comes back reaches the states it had reached, with the results it
\* had committed, and a role asks there what it had asked, all but for the time
\* its model's readings are stamped with.  So an answer is refused, as one that
\* was given for another request, only where the state holds such a reading.
ResumeRebuilds ==
    /\ Unstamped(st) = Unstamped(path[pos])
    /\ Position(st) \in DOMAIN asked =>
          Unstamped(asked[Position(st)]) = Unstamped(Shown(st))
    /\ refused => \E a \in st.assessments : a.producedBy = "llm"

\* "Retry, recovery or replay of the same logical operation returns the committed
\* result": a role that is asked again under its key is given what is on file.
ResumesAreAnswered == ~refused

=============================================================================
